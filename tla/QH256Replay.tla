---------------------------- MODULE QH256Replay ----------------------------
(***************************************************************************)
(* qh256_replay folds an array of deltas into a vector with qh256_merge,   *)
(* starting from unknown.  Two replays run side by side over two arrays    *)
(* that hold the same deltas in different orders and with different        *)
(* repetitions: the same history, recorded or redelivered differently.     *)
(***************************************************************************)
EXTENDS QH256, Sequences

CONSTANTS Deltas,       \* the deltas a history may hold
          MaxLength     \* the longest array replayed

ASSUME ReplayAssumption == Deltas \subseteq Vector /\ MaxLength \in Nat

Replays == {"a", "b"}

\* The arrays of at most MaxLength deltas.
Histories == UNION {[1 .. n -> Deltas] : n \in 0 .. MaxLength}

Elements(d) == {d[k] : k \in DOMAIN d}

VARIABLES d,            \* per replay, the array of deltas
          i,            \* per replay, how many were merged
          result        \* per replay, the accumulated vector

replayVars == <<d, i, result>>

ReplayInit == /\ d \in {h \in [Replays -> Histories] : Elements(h["a"]) = Elements(h["b"])}
              /\ i = [r \in Replays |-> 0]
              /\ result = [r \in Replays |-> Unknown]

\* Bugged: the delta replaces the vector.
BugStepReplaces(r) == /\ i[r] < Len(d[r])
                      /\ result' = [result EXCEPT ![r] = d[r][i[r] + 1]]
                      /\ i' = [i EXCEPT ![r] = @ + 1]
                      /\ UNCHANGED d
\* Bugged: the loop index is not advanced.
BugStepStays(r) == /\ i[r] < Len(d[r])
                   /\ result' = [result EXCEPT ![r] = Merge(@, d[r][i[r] + 1])]
                   /\ UNCHANGED <<i, d>>

Step(r) == /\ i[r] < Len(d[r])
           /\ result' = [result EXCEPT ![r] = Merge(@, d[r][i[r] + 1])]
           /\ i' = [i EXCEPT ![r] = @ + 1]
           /\ UNCHANGED d

Done == (\A r \in Replays : i[r] = Len(d[r])) /\ UNCHANGED replayVars

ReplayNext == (\E r \in Replays : Step(r)) \/ Done

ReplaySpec == ReplayInit /\ [][ReplayNext]_replayVars
\* The loop of a replay runs until it returns.
FairSpec == ReplaySpec /\ \A r \in Replays : WF_replayVars(Step(r))
-----------------------------------------------------------------------------
(* The loop index stays within the array and the vector within its width.  *)
ReplayTypeOK == /\ d \in [Replays -> Histories]
                /\ i \in [Replays -> 0 .. MaxLength]
                /\ \A r \in Replays : i[r] \in 0 .. Len(d[r])
                /\ result \in [Replays -> Vector]

Holds(r) == {d[r][k] : k \in 1 .. i[r]}

(* At every moment a bit is set exactly when one of the deltas merged so   *)
(* far sets it: nothing is lost, nothing appears without evidence.         *)
EvidenceExact ==
  \A r \in Replays, w \in 0 .. Words - 1 :
    /\ result[r].t[w] = UNION {e.t[w] : e \in Holds(r)}
    /\ result[r].f[w] = UNION {e.f[w] : e \in Holds(r)}

(* The result depends on which deltas the history holds, not on their      *)
(* order or repetition.                                                    *)
OrderAndRepetitionFree ==
  (\A r \in Replays : i[r] = Len(d[r])) => result["a"] = result["b"]

(* A replay only gains knowledge, so a cell that reached GUARD, where the  *)
(* evidence conflicts, is GUARD in every later vector.                     *)
KnowledgeGrows ==
  [][\A r \in Replays :
       /\ LeqK(result[r], result'[r])
       /\ \A c \in Cell : GetCell(result[r], c) = QH_GUARD => GetCell(result'[r], c) = QH_GUARD]_replayVars

(* Both replays end, and then agree.                                       *)
Converges == <>[](i["a"] = Len(d["a"]) /\ i["b"] = Len(d["b"]) /\ result["a"] = result["b"])
=============================================================================
