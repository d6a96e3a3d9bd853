---------------------------- MODULE EngineProofs ----------------------------
(***************************************************************************)
(* Invalid-fixity of the alpha engine, for every number of lanes, every    *)
(* start and any number of rounds.                                         *)
(***************************************************************************)
EXTENDS Engine, TLAPS

\* The index is back at the first lane when a round begins, and a round only
\* runs while some are left.
IInv == /\ TypeOK /\ InvalidCarried
        /\ pc = "routing" => i = 0
        /\ pc # "done" => round < Rounds
-----------------------------------------------------------------------------
\* A pair transform yields lane values, and Invalid exactly where it was.
LEMMA TransformKeeps ==
  ASSUME NEW id \in 0 .. 5, NEW a \in DR4, NEW b \in DR4
  PROVE  /\ Transform(id, a, b)[1] \in DR4 /\ Transform(id, a, b)[2] \in DR4
         /\ Transform(id, a, b)[1] = Invalid <=> a = Invalid
         /\ Transform(id, a, b)[2] = Invalid <=> b = Invalid
<1>1. CASE Invalid \in {a, b}
  BY <1>1 DEF Transform
<1>2. CASE Invalid \notin {a, b}
  <2>1. Transform(id, a, b) = Permuted(id, a, b)
    BY <1>2 DEF Transform
  <2>2. /\ Permuted(id, a, b)[1] \in {False, True, Guard}
        /\ Permuted(id, a, b)[2] \in {False, True, Guard}
    BY <1>2 DEF Permuted, DR4, Invalid, False, True, Guard
  <2> QED
    BY <1>2, <2>1, <2>2 DEF DR4, Invalid, False, True, Guard
<1> QED
  BY <1>1, <1>2

LEMMA SelectorRange ==
  ASSUME NEW r \in Nat, NEW p \in Nat
  PROVE  transform_selector(r, p) \in 0 .. 5
  BY DEF transform_selector

LEMMA Remainder ==
  ASSUME NEW x \in Nat
  PROVE  /\ x % Lanes \in Lane
         /\ x % IndexRange \in 0 .. 2 * Lanes - 1
  BY EngineAssumption DEF Lane, IndexRange

\* What a pair transform leaves behind, whichever two lanes it works on.
LEMMA ApplyKeeps ==
  ASSUME IInv, NEW x \in Lane, NEW y \in Lane, NEW id \in 0 .. 5, Apply(id, x, y),
         UNCHANGED <<start, from>>
  PROVE  lane' \in [Lane -> DR4] /\ InvalidCarried'
<1> DEFINE new == Transform(id, lane[x], lane[y])
<1>1. lane \in [Lane -> DR4] /\ lane' = [lane EXCEPT ![x] = new[1], ![y] = new[2]]
  BY DEF IInv, TypeOK, Apply
<1>2. /\ new[1] \in DR4 /\ new[2] \in DR4
      /\ new[1] = Invalid <=> lane[x] = Invalid
      /\ new[2] = Invalid <=> lane[y] = Invalid
  BY <1>1, TransformKeeps
<1> HIDE DEF new
<1>3. lane' \in [Lane -> DR4]
  BY <1>1, <1>2
<1>4. \A n \in Lane : lane'[n] = Invalid <=> lane[n] = Invalid
  BY <1>1, <1>2
<1> QED
  BY <1>3, <1>4 DEF IInv, InvalidCarried
-----------------------------------------------------------------------------
LEMMA InitIInv == Init => IInv
<1> SUFFICES ASSUME Init PROVE IInv
  OBVIOUS
<1>1. 0 \in Lane /\ 1 \in Lane
  BY EngineAssumption DEF Lane
<1>2. TypeOK
  BY <1>1, EngineAssumption DEF Init, TypeOK
<1>3. InvalidCarried
  BY DEF Init, InvalidCarried
<1>4. pc = "routing" => i = 0
  BY DEF Init
<1>5. pc # "done" => round < Rounds
  BY EngineAssumption DEF Init
<1> QED
  BY <1>2, <1>3, <1>4, <1>5 DEF IInv

LEMMA AdjacentKeeps == IInv /\ Adjacent => IInv'
<1> SUFFICES ASSUME IInv, Adjacent PROVE IInv'
  OBVIOUS
<1>1. i \in Lane /\ i + 1 \in Lane /\ round \in 0 .. Rounds /\ i \div 2 \in Nat
  BY EngineAssumption DEF IInv, TypeOK, Adjacent, Lane
<1>2. transform_selector(round, i \div 2) \in 0 .. 5
  BY <1>1, EngineAssumption, SelectorRange
<1>3. lane' \in [Lane -> DR4] /\ InvalidCarried'
  BY <1>1, <1>2, ApplyKeeps DEF Adjacent
<1>4. i' \in Lane /\ (pc' = "adjacent" => i' + 1 \in Lane)
  <2>1. NextIndex(i) \in Nat
    BY <1>1, Remainder DEF NextIndex, Lane
  <2> QED
    BY <2>1, EngineAssumption DEF Adjacent, Lane
<1> QED
  BY <1>3, <1>4 DEF IInv, TypeOK, Adjacent

LEMMA WrappedKeeps == IInv /\ Wrapped => IInv'
<1> SUFFICES ASSUME IInv, Wrapped PROVE IInv'
  OBVIOUS
<1>1. /\ i \in Lane /\ round \in 0 .. Rounds
      /\ Lanes \div 2 + i \div 2 \in Nat /\ i + 2 \in Nat
  BY EngineAssumption DEF IInv, TypeOK, Lane
<1>2. transform_selector(round, Lanes \div 2 + i \div 2) \in 0 .. 5
  BY <1>1, EngineAssumption, SelectorRange
<1>3. (i + 2) % Lanes \in Lane
  BY <1>1, Remainder
<1>4. lane' \in [Lane -> DR4] /\ InvalidCarried'
  BY <1>1, <1>2, <1>3, ApplyKeeps DEF Wrapped
<1>5. i' \in Lane
  <2>1. NextIndex(i) \in Nat
    BY <1>1, Remainder DEF NextIndex
  <2> QED
    BY <2>1, EngineAssumption DEF Wrapped, Lane
<1> QED
  BY <1>4, <1>5 DEF IInv, TypeOK, Wrapped

LEMMA RoutingKeeps == IInv /\ Routing => IInv'
<1> SUFFICES ASSUME IInv, Routing PROVE IInv'
  OBVIOUS
<1>1. \A n \in Lane : routing_shift(round, n) \in Lane
  <2> SUFFICES ASSUME NEW n \in Lane PROVE routing_shift(round, n) \in Lane
    OBVIOUS
  <2>1. 45 * n + 17 * round \in Nat
    BY EngineAssumption DEF IInv, TypeOK, Lane
  <2> QED
    BY <2>1, Remainder DEF routing_shift
<1>2. InvalidCarried'
  BY <1>1 DEF IInv, InvalidCarried, Routing
<1>3. lane' \in [Lane -> DR4] /\ from' \in [Lane -> Lane]
  BY <1>1 DEF IInv, TypeOK, Routing
<1>4. i' \in Lane /\ round' \in 0 .. Rounds /\ (pc' = "adjacent" => i' + 1 \in Lane)
  BY EngineAssumption DEF IInv, TypeOK, Routing, Lane
<1> QED
  BY <1>2, <1>3, <1>4 DEF IInv, TypeOK, Routing

(* The inductive invariant: shapes, and Invalid lanes where they belong.   *)
THEOREM EngineInvariant == Spec => []IInv
<1>1. IInv /\ [Next]_vars => IInv'
  <2>1. IInv /\ UNCHANGED vars => IInv'
    BY DEF IInv, TypeOK, InvalidCarried, vars
  <2> QED
    BY <2>1, AdjacentKeeps, WrappedKeeps, RoutingKeeps DEF Next, Step, Done
<1> QED
  BY InitIInv, <1>1, PTL DEF Spec

(* Lane values stay lane values and the loops inside the array.            *)
THEOREM EngineTypeCorrect == Spec => []TypeOK
  BY EngineInvariant, PTL DEF IInv

(* Theorem 1 of the engine's documents, in the form the code keeps: the    *)
(* Invalid lanes are those of the start, carried along by the routing.     *)
THEOREM EngineInvalidFixity == Spec => []InvalidCarried
  BY EngineInvariant, PTL DEF IInv
-----------------------------------------------------------------------------
\* Multiples of n differ by at least n.
LEMMA TimesMonotone ==
  ASSUME NEW n \in Nat \ {0}, NEW a \in Int, NEW b \in Int, a < b
  PROVE  a * n + n <= b * n
<1> DEFINE d == b - a - 1
<1>1. d \in Nat /\ b = a + 1 + d
  OBVIOUS
<1> HIDE DEF d
<1>2. d * n \in Nat /\ a * n \in Int
  BY <1>1
<1>3. b * n = a * n + n + d * n
  BY <1>1
<1> QED
  BY <1>2, <1>3

LEMMA Divided ==
  ASSUME NEW x \in Nat, NEW n \in Nat \ {0}
  PROVE  x % n \in 0 .. n - 1 /\ x \div n \in Nat /\ x = (x \div n) * n + (x % n)
OBVIOUS

LEMMA RemainderUnique ==
  ASSUME NEW n \in Nat \ {0}, NEW a \in Int, NEW m \in 0 .. n - 1, a * n + m \in Nat
  PROVE  (a * n + m) % n = m
<1> DEFINE x == a * n + m
           d == x \div n
<1>1. x \in Nat /\ d \in Nat /\ x % n \in 0 .. n - 1 /\ x = d * n + (x % n)
  OBVIOUS
<1> HIDE DEF d
<1>2. d * n \in Nat /\ a * n \in Int
  BY <1>1
<1>3. ~(a < d)
  BY <1>1, <1>2, TimesMonotone
<1>4. ~(d < a)
  BY <1>1, <1>2, TimesMonotone
<1>5. d = a
  BY <1>1, <1>3, <1>4
<1> QED
  BY <1>1, <1>2, <1>5

\* Every lane is the source of some lane.
LEMMA RoutingReachesAll ==
  ASSUME NEW r \in Nat, NEW m \in Lane
  PROVE  \E n \in Lane : routing_shift(r, n) = m
<1>1. Lanes \in Nat \ {0} /\ m \in Nat /\ m < Lanes /\ Lane = 0 .. Lanes - 1
  BY EngineAssumption DEF Lane
<1>2. PICK v \in Lane : (45 * v) % Lanes = 1
  BY RoutingAssumption
<1> DEFINE d == (45 * v) \div Lanes
<1>3. v \in Nat /\ d \in Nat /\ 45 * v = d * Lanes + 1
  BY <1>1, <1>2
<1> HIDE DEF d
\* A multiple of the number of lanes makes the difference to 17 r natural.
<1> DEFINE t == m + 17 * (r * (Lanes - 1))
           n == (v * t) % Lanes
           e == (v * t) \div Lanes
<1>4. t \in Nat /\ t + 17 * r = m + (17 * r) * Lanes
  <2>1. r * (Lanes - 1) \in Nat /\ r * (Lanes - 1) + r = r * Lanes
    BY <1>1
  <2>2. (17 * r) * Lanes = 17 * (r * Lanes)
    BY <1>1
  <2> QED
    BY <1>1, <2>1, <2>2
<1> HIDE DEF t
<1>5. v * t \in Nat /\ (d * t) \in Nat
  BY <1>3, <1>4
<1>6. n \in 0 .. Lanes - 1 /\ e \in Nat /\ v * t = e * Lanes + n
  BY <1>1, <1>5, Divided
<1> HIDE DEF n, e
<1>7. 45 * (v * t) = (d * t) * Lanes + t
  <2>1. 45 * (v * t) = (45 * v) * t
    BY <1>3, <1>4
  <2>2. (d * Lanes + 1) * t = (d * t) * Lanes + t
    BY <1>1, <1>3, <1>4
  <2> QED
    BY <1>3, <2>1, <2>2
<1> DEFINE a == 17 * r + d * t - 45 * e
<1>8. a \in Int /\ a * Lanes = (17 * r) * Lanes + (d * t) * Lanes - 45 * (e * Lanes)
  BY <1>1, <1>5, <1>6
<1> HIDE DEF a
<1>9. 45 * n + 17 * r = a * Lanes + m
  <2>1. e * Lanes \in Nat /\ (17 * r) * Lanes \in Nat /\ (d * t) * Lanes \in Nat /\ a * Lanes \in Int
    BY <1>1, <1>5, <1>6, <1>8
  <2> QED
    BY <1>1, <1>4, <1>6, <1>7, <1>8, <2>1
<1>10. 45 * n + 17 * r \in Nat
  BY <1>1, <1>6
<1>11. (45 * n + 17 * r) % Lanes = m
  <2>1. a * Lanes + m \in Nat
    BY <1>9, <1>10
  <2>2. (a * Lanes + m) % Lanes = m
    BY <1>1, <1>8, <2>1, RemainderUnique
  <2> QED
    BY <1>9, <2>2
<1> QED
  BY <1>1, <1>6, <1>11 DEF routing_shift

(* However many rounds have been routed, every lane of the start is still  *)
(* somewhere: the routing of every round is onto the lanes, and so are     *)
(* routings one after the other.                                           *)
THEOREM EngineLosesNothing == Spec => []RoutingLosesNothing
<1>1. Init => RoutingLosesNothing
  BY DEF Init, RoutingLosesNothing
<1>2. IInv /\ RoutingLosesNothing /\ [Next]_vars => RoutingLosesNothing'
  <2> SUFFICES ASSUME IInv, RoutingLosesNothing, [Next]_vars PROVE RoutingLosesNothing'
    OBVIOUS
  <2>1. CASE Routing
    <3>1. round \in Nat
      BY EngineAssumption DEF IInv, TypeOK
    <3>2. from' = [n \in Lane |-> from[routing_shift(round, n)]]
      BY <2>1 DEF Routing
    <3>3. \A n \in Lane : routing_shift(round, n) \in Lane
      BY <3>1, Remainder DEF routing_shift, Lane
    <3>4. \A k \in Lane : \E n \in Lane : from'[n] = from[k]
      BY <3>1, <3>2, RoutingReachesAll
    <3>5. \A n \in Lane : \E k \in Lane : from'[n] = from[k]
      BY <3>2, <3>3
    <3> QED
      <4>1. {from[n] : n \in Lane} = Lane
        BY DEF RoutingLosesNothing
      <4>2. \A x \in Lane : \E n \in Lane : from'[n] = x
        BY <3>4, <4>1
      <4>3. \A n \in Lane : from'[n] \in Lane
        BY <3>5, <4>1
      <4>4. {from'[n] : n \in Lane} = Lane
        BY <4>2, <4>3
      <4> QED
        BY <4>4 DEF RoutingLosesNothing
  <2>2. CASE from' = from
    BY <2>2 DEF RoutingLosesNothing
  <2> QED
    BY <2>1, <2>2 DEF Next, Step, Adjacent, Wrapped, Done, vars
<1> QED
  BY <1>1, <1>2, EngineInvariant, PTL DEF Spec
=============================================================================
