------------------------------- MODULE Engine -------------------------------
(***************************************************************************)
(* The alpha engine (obsolete/alpha/QH256Engine.hpp): qh_rounds on a ring  *)
(* of four-valued lanes, one pair transform or one routing at a time.      *)
(***************************************************************************)
EXTENDS Integers

CONSTANTS Lanes,       \* 128 in State256; a power of two
          Starts,      \* the states qh_rounds is called on
          Rounds       \* its num_rounds argument

Invalid == 0
False   == 1
True    == 2
Guard   == 3
DR4     == Invalid .. Guard
Lane    == 0 .. Lanes - 1

ASSUME EngineAssumption == /\ Lanes \in Nat /\ Lanes >= 4
                           /\ Starts \subseteq [Lane -> DR4]
                           /\ Rounds \in Nat

\* The factor of the routing has an inverse, as every odd factor has modulo a
\* power of two: 37 modulo 128.
ASSUME RoutingAssumption == \E v \in Lane : (45 * v) % Lanes = 1

\* A lane index is a uint8_t: it counts to twice the number of lanes.
IndexRange == 2 * Lanes

\* The states callers make.
set_all(v)            == [n \in Lane |-> v]
set_lane(state, k, v) == [state EXCEPT ![k] = v]
make_test_state_single_invalid(k) == set_lane(set_all(False), k, Invalid)

\* The new values of the two lanes once both are known to be valid.  The branch
\* of case 5 for two guards is behind the test that the lanes differ.
Permuted(id, a, b) ==
  CASE id = 0 -> <<b, a>>
    [] id = 1 -> <<a, b>>
    [] id = 2 -> <<IF a = Guard THEN False ELSE a + 1, b>>
    [] id = 3 -> <<a, IF b = False THEN Guard ELSE b - 1>>
    [] id = 4 -> <<IF b = True /\ a # Guard THEN False + True - a ELSE a, b>>
    [] id = 5 -> <<IF a # b /\ Guard \notin {a, b} THEN Guard ELSE a, b>>

\* Bugged: only one of the two lanes is tested before they are combined.
BugTransformOne(id, a, b) == IF Invalid = a THEN <<a, b>> ELSE Permuted(id, a, b)
\* Bugged: the shift of case 2 runs past Guard.
BugTransformPast(id, a, b) ==
  CASE Invalid \in {a, b} -> <<a, b>>
    [] Invalid \notin {a, b} /\ id = 2 -> <<a + 1, b>>
    [] Invalid \notin {a, b} /\ id # 2 -> Permuted(id, a, b)
\* Invalid on either side means no change.
Transform(id, a, b) == IF Invalid \in {a, b} THEN <<a, b>> ELSE Permuted(id, a, b)

\* Rounds below 2^31: the 32-bit product does not wrap.
transform_selector(round, pair) == (2 * round + 3 * pair) % 6
\* Bugged: an even factor sends two lanes to one place.
Bug_routing_shift(round, i) == (44 * i + 17 * round) % Lanes
routing_shift(round, i)     == (45 * i + 17 * round) % Lanes

VARIABLES lane,      \* the state
          round, pc, \* the round, and the loop main is in: "adjacent", "wrapped", "routing", "done"
          i,         \* the loop's index
          start,     \* history: the state qh_rounds was called on
          from,      \* history: for each lane, where routing took it from at the start
          guards     \* history: the guards when the round began

vars == <<lane, round, pc, i, start, from, guards>>

Count(state, v) == LET sum[k \in 0 .. Lanes] ==
                         IF k = 0 THEN 0 ELSE sum[k - 1] + IF state[k - 1] = v THEN 1 ELSE 0
                   IN  sum[Lanes]

Init == /\ start \in Starts /\ lane = start
        /\ from = [n \in Lane |-> n]
        /\ guards = Count(lane, Guard)
        /\ round = 0 /\ i = 0
        /\ pc = IF Rounds = 0 THEN "done" ELSE "adjacent"

\* apply_semantic_transform on lanes x and y.
Apply(id, x, y) ==
  LET new == Transform(id, lane[x], lane[y])
  IN  lane' = [lane EXCEPT ![x] = new[1], ![y] = new[2]]

\* Bugged: the index has as many values as there are lanes.
BugNextIndex(k) == (k + 2) % Lanes
NextIndex(k)    == (k + 2) % IndexRange

\* Pairs (0,1), (2,3), ...
Adjacent == /\ pc = "adjacent"
            /\ Apply(transform_selector(round, i \div 2), i, i + 1)
            /\ IF NextIndex(i) < Lanes - 1 THEN i' = NextIndex(i) /\ pc' = pc
                                           ELSE i' = 1 /\ pc' = "wrapped"
            /\ UNCHANGED <<round, start, from, guards>>

\* Pairs (1,3), (3,5), ..., the last wrapping to lane 1: each reads what the
\* one before it wrote.
Wrapped == /\ pc = "wrapped"
           /\ Apply(transform_selector(round, Lanes \div 2 + i \div 2), i, (i + 2) % Lanes)
           /\ IF NextIndex(i) < Lanes THEN i' = NextIndex(i) /\ pc' = pc
                                      ELSE i' = 0 /\ pc' = "routing"
           /\ UNCHANGED <<round, start, from, guards>>

Routing == /\ pc = "routing"
           /\ lane' = [n \in Lane |-> lane[routing_shift(round, n)]]
           /\ from' = [n \in Lane |-> from[routing_shift(round, n)]]
           /\ guards' = Count(lane', Guard)
           /\ round' = round + 1
           /\ pc' = IF round' < Rounds THEN "adjacent" ELSE "done"
           /\ UNCHANGED <<i, start>>

Done == pc = "done" /\ UNCHANGED vars

Step == Adjacent \/ Wrapped \/ Routing
Next == Step \/ Done

Spec == Init /\ [][Next]_vars
\* qh_rounds runs until it returns.
FairSpec == Spec /\ WF_vars(Step)
-----------------------------------------------------------------------------
(* Lanes stay two-bit values and the loops stay inside the array.          *)
TypeOK == /\ lane \in [Lane -> DR4]
          /\ round \in 0 .. Rounds
          /\ i \in Lane
          /\ pc = "adjacent" => i + 1 \in Lane
          /\ from \in [Lane -> Lane]

(* Invalid lanes are the Invalid lanes of the start, carried along by the  *)
(* routing: none is created, overwritten, duplicated or moved by a pair    *)
(* transform, however the pairs of a phase overlap.                        *)
InvalidCarried == \A n \in Lane : lane[n] = Invalid <=> start[from[n]] = Invalid

(* The composed routing loses no lane: every lane of the start is still    *)
(* somewhere, so the number of Invalid lanes never changes.                *)
RoutingLosesNothing == {from[n] : n \in Lane} = Lane

(* qh_rounds returns: the byte-sized loop index passes the last lane.      *)
Returns == <>(pc = "done")

(* Theorem 2 of the engine's executive summary (line 77): no round lowers  *)
(* the number of Guard lanes.                                              *)
GuardDominance == [][pc = "routing" => guards' >= guards]_vars
=============================================================================
