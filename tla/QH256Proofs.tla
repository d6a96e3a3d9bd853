---------------------------- MODULE QH256Proofs ----------------------------
(***************************************************************************)
(* The v2.0 core, for every number and width of words: the packed vector   *)
(* is an array of independent cells, whatever operands a caller passes,    *)
(* and a replay depends only on which deltas there were, whatever the      *)
(* histories.                                                              *)
(***************************************************************************)
EXTENDS QH256Vector, QH256Replay, QH256Lemmas

\* Both vectors of the state.
VInv == TypeOK /\ operand \in Vector

LEMMA VectorInv == Spec => []VInv
<1>1. Init => VInv
  BY UnknownView DEF Init, VInv, TypeOK
<1>2. VInv /\ [Next]_vars => VInv'
  <2> SUFFICES ASSUME VInv, [Next]_vars PROVE VInv'
    OBVIOUS
  <2> USE VectorAssumption, UnknownView DEF VInv, TypeOK
  <2>1. CASE SetOp
    <3>1. PICK n \in Index, s \in Value : q' = SetCell(q, n, s) /\ ok' = CanSet(n, s) /\ operand' = Unknown
      BY <2>1 DEF SetOp
    <3>2. ok' \in BOOLEAN
      BY <3>1 DEF CanSet
    <3>3. CASE CanSet(n, s)
      BY <3>1, <3>2, <3>3, SetCellView
    <3>4. CASE ~CanSet(n, s)
      BY <3>1, <3>2, <3>4 DEF SetCell
    <3> QED
      BY <3>3, <3>4
  <2>2. CASE MergeOp \/ AndOp \/ OrOp \/ NotOp
    BY <2>2, BinaryViews DEF MergeOp, AndOp, OrOp, NotOp, Called
  <2>3. CASE Reload
    BY <2>3, ReloadView DEF Reload, Called
  <2>4. CASE UNCHANGED vars
    BY <2>4 DEF vars
  <2> QED
    BY <2>1, <2>2, <2>3, <2>4 DEF Next
<1> QED
  BY <1>1, <1>2, PTL DEF Spec

(* The planes stay planes of WordBits-bit words, for any index or value a  *)
(* caller passes.                                                          *)
THEOREM VectorTypeCorrect == Spec => []TypeOK
<1>1. VInv => TypeOK
  BY DEF VInv
<1> QED
  BY <1>1, VectorInv, PTL
-----------------------------------------------------------------------------
\* The words "cell by cell" of CellArray are those of QH256.
LEMMA SameCells ==
  /\ Array!Cell = Cell
  /\ \A s : Array!Valid(s) <=> Valid(s)
  /\ \A a, b : /\ Array!CellMerge(a, b) = CellMerge(a, b)
               /\ Array!CellAnd(a, b) = CellAnd(a, b)
               /\ Array!CellOr(a, b) = CellOr(a, b)
               /\ Array!CellNot(a) = CellNot(a)
BY DEF Array!Cell, Array!QH256_CELLS, Cell, QH256_CELLS, Array!Valid, Valid, Array!State, State,
       Array!QH_UNKNOWN, Array!QH_FALSE, Array!QH_TRUE, Array!QH_GUARD,
       QH_UNKNOWN, QH_FALSE, QH_TRUE, QH_GUARD, Array!HasTrue, HasTrue, Array!HasFalse, HasFalse,
       Array!Encode, Encode, Array!CellMerge, CellMerge, Array!CellAnd, CellAnd,
       Array!CellOr, CellOr, Array!CellNot, CellNot

LEMMA CellsPrimed == Cells(q)' = Cells(q') /\ Cells(operand)' = Cells(operand')
BY DEF Cells, GetCell

(* Read through qh256_get_cell the packed vector is an array of cells:     *)
(* whatever is called in whatever order, each cell of the result is the    *)
(* cell operation of that cell of the operands, a refused write and a      *)
(* reload change nothing, and no operation mixes two cells.                *)
THEOREM VectorIsCellArray == Spec => ImplementsCellArray
<1>1. Init => Array!Init
  <2>1. Cells(Unknown) = [j \in Cell |-> QH_UNKNOWN]
    BY UnknownView DEF Cells
  <2> QED
    BY <2>1, SameCells DEF Init, Array!Init, Array!QH_UNKNOWN, QH_UNKNOWN
<1>2. VInv /\ [Next]_vars => [Array!Next]_<<Cells(q), ok, call, Cells(operand)>>
  <2> SUFFICES ASSUME VInv, [Next]_vars
               PROVE  Array!Next \/ UNCHANGED <<Cells(q), ok, call, Cells(operand)>>
    OBVIOUS
  <2> USE VectorAssumption DEF VInv, TypeOK
  <2>1. CASE SetOp
    <3>1. PICK n \in Index, s \in Value :
            /\ q' = SetCell(q, n, s) /\ ok' = CanSet(n, s)
            /\ call' = <<"set", n, s>>
      BY <2>1 DEF SetOp
    <3>2. n \in Nat /\ s \in Nat
      OBVIOUS
    <3>3. ok' = (n \in Cell /\ Valid(s))
      BY <3>1, <3>2, QH256Assumption DEF CanSet, Cell, QH256_CELLS
    <3>4. Cells(q') = IF ok' THEN [Cells(q) EXCEPT ![n] = s] ELSE Cells(q)
      <4>1. CASE CanSet(n, s)
        <5>1. \A j \in Cell : GetCell(q', j) = IF j = n THEN s ELSE GetCell(q, j)
          BY <3>1, <3>2, <4>1, SetCellView
        <5>2. Cells(q') = [Cells(q) EXCEPT ![n] = s]
          BY <5>1 DEF Cells
        <5> QED
          BY <3>1, <4>1, <5>2
      <4>2. CASE ~CanSet(n, s)
        BY <3>1, <4>2 DEF SetCell
      <4> QED
        BY <4>1, <4>2
    <3>5. Array!Set(n, s)
      BY <3>1, <3>3, <3>4, SameCells, CellsPrimed DEF Array!Set
    <3> QED
      BY <3>5 DEF Array!Next
  <2>2. ASSUME NEW b \in Vector, operand' = b, ok' = TRUE,
               NEW name \in {"merge", "and", "or", "not", "reload"}, call' = <<name>>,
               \A j \in Cell : GetCell(q', j) = Array!Combined(name, GetCell(q, j), GetCell(b, j))
        PROVE  Array!Next
    <3>1. Cells(q') = [j \in Cell |-> Array!Combined(name, Cells(q)[j], Cells(operand')[j])]
      BY <2>2 DEF Cells
    <3>2. Array!Combine(name)
      BY <2>2, <3>1, SameCells, CellsPrimed DEF Array!Combine
    <3> QED
      BY <3>2 DEF Array!Next
  <2>3. CASE MergeOp
    <3>1. PICK b \in Operands : q' = Merge(q, b) /\ Called("merge", b)
      BY <2>3 DEF MergeOp
    <3>2. \A j \in Cell : GetCell(q', j) = Array!Combined("merge", GetCell(q, j), GetCell(b, j))
      BY <3>1, BinaryViews, SameCells DEF Array!Combined
    <3> QED
      BY <2>2, <3>1, <3>2 DEF Called
  <2>4. CASE AndOp
    <3>1. PICK b \in Operands : q' = And(q, b) /\ Called("and", b)
      BY <2>4 DEF AndOp
    <3>2. \A j \in Cell : GetCell(q', j) = Array!Combined("and", GetCell(q, j), GetCell(b, j))
      BY <3>1, BinaryViews, SameCells DEF Array!Combined
    <3> QED
      BY <2>2, <3>1, <3>2 DEF Called
  <2>5. CASE OrOp
    <3>1. PICK b \in Operands : q' = Or(q, b) /\ Called("or", b)
      BY <2>5 DEF OrOp
    <3>2. \A j \in Cell : GetCell(q', j) = Array!Combined("or", GetCell(q, j), GetCell(b, j))
      BY <3>1, BinaryViews, SameCells DEF Array!Combined
    <3> QED
      BY <2>2, <3>1, <3>2 DEF Called
  <2>6. CASE NotOp
    <3>1. q' = Not(q) /\ Called("not", Unknown)
      BY <2>6 DEF NotOp
    <3>2. \A j \in Cell : GetCell(q', j) = Array!Combined("not", GetCell(q, j), GetCell(Unknown, j))
      BY <3>1, UnknownView, BinaryViews, SameCells DEF Array!Combined
    <3> QED
      BY <2>2, <3>1, <3>2, UnknownView DEF Called
  <2>7. CASE Reload
    <3>1. q' = q /\ Called("reload", Unknown)
      BY <2>7, ReloadView DEF Reload
    <3>2. \A j \in Cell : GetCell(q', j) = Array!Combined("reload", GetCell(q, j), GetCell(Unknown, j))
      BY <3>1 DEF Array!Combined
    <3> QED
      BY <2>2, <3>1, <3>2, UnknownView DEF Called
  <2>8. CASE UNCHANGED vars
    BY <2>8, CellsPrimed DEF vars
  <2> QED
    BY <2>1, <2>3, <2>4, <2>5, <2>6, <2>7, <2>8 DEF Next
<1> QED
  BY <1>1, <1>2, VectorInv, PTL DEF Spec, ImplementsCellArray, Array!Spec
-----------------------------------------------------------------------------
(* qh256_leq_k, qh256_leq_t and qh256_is_designated, computed on whole     *)
(* words, answer what the cell orders answer at every cell.                *)
THEOREM VectorOrders == Spec => []OrdersAreCellwise
<1>1. VInv => OrdersAreCellwise
  <2> SUFFICES ASSUME VInv, NEW b \in Operands
               PROVE  /\ LeqK(q, b) <=> \A n \in Cell : CellLeqK(GetCell(q, n), GetCell(b, n))
                      /\ LeqT(q, b) <=> \A n \in Cell : CellLeqT(GetCell(q, n), GetCell(b, n))
                      /\ IsDesignated(q) <=> \E n \in Cell : HasTrue(GetCell(q, n))
    BY DEF OrdersAreCellwise
  <2>1. q.t \in Plane /\ q.f \in Plane /\ b.t \in Plane /\ b.f \in Plane
    BY VectorAssumption DEF VInv, TypeOK, Vector
  <2>2. \A n \in Cell :
          /\ Valid(GetCell(q, n)) /\ Valid(GetCell(b, n))
          /\ HasTrue(GetCell(q, n)) <=> Bit(n) \in q.t[WordIndex(n)]
          /\ HasFalse(GetCell(q, n)) <=> Bit(n) \in q.f[WordIndex(n)]
          /\ HasTrue(GetCell(b, n)) <=> Bit(n) \in b.t[WordIndex(n)]
          /\ HasFalse(GetCell(b, n)) <=> Bit(n) \in b.f[WordIndex(n)]
    BY CellView
  <2>3. /\ Within(q.t, b.t) <=> \A n \in Cell : HasTrue(GetCell(q, n)) => HasTrue(GetCell(b, n))
        /\ Within(q.f, b.f) <=> \A n \in Cell : HasFalse(GetCell(q, n)) => HasFalse(GetCell(b, n))
        /\ Within(b.f, q.f) <=> \A n \in Cell : HasFalse(GetCell(b, n)) => HasFalse(GetCell(q, n))
    BY <2>1, <2>2, PlaneCells
  <2>4. LeqK(q, b) <=> \A n \in Cell : CellLeqK(GetCell(q, n), GetCell(b, n))
    BY <2>2, <2>3 DEF LeqK, CellLeqK
  <2>5. LeqT(q, b) <=> \A n \in Cell : CellLeqT(GetCell(q, n), GetCell(b, n))
    BY <2>2, <2>3 DEF LeqT, CellLeqT
  <2>6. IsDesignated(q) <=> \E n \in Cell : HasTrue(GetCell(q, n))
    BY <2>1, <2>2, PlaneCells DEF IsDesignated
  <2> QED
    BY <2>4, <2>5, <2>6
<1> QED
  BY <1>1, VectorInv, PTL

(* Merge is the join of the knowledge order, `and` the meet and `or` the   *)
(* join of the truth order; negation reverses truth and keeps knowledge.   *)
THEOREM VectorLattices == Spec => []Lattices
<1>1. VInv => Lattices
  <2> SUFFICES ASSUME VInv, NEW b \in Operands
               PROVE  /\ LeqK(q, Merge(q, b)) /\ LeqK(b, Merge(q, b))
                      /\ LeqT(And(q, b), q) /\ LeqT(And(q, b), b)
                      /\ LeqT(q, Or(q, b)) /\ LeqT(b, Or(q, b))
                      /\ \A u \in Operands :
                           /\ LeqK(q, u) /\ LeqK(b, u) => LeqK(Merge(q, b), u)
                           /\ LeqT(u, q) /\ LeqT(u, b) => LeqT(u, And(q, b))
                           /\ LeqT(q, u) /\ LeqT(b, u) => LeqT(Or(q, b), u)
                      /\ LeqT(q, b) <=> LeqT(Not(b), Not(q))
                      /\ LeqK(q, b) <=> LeqK(Not(q), Not(b))
    BY DEF Lattices
  <2>1. q.t \in Plane /\ q.f \in Plane /\ b.t \in Plane /\ b.f \in Plane
    BY VectorAssumption DEF VInv, TypeOK, Vector
  <2>2. /\ LeqK(q, Merge(q, b)) /\ LeqK(b, Merge(q, b))
        /\ LeqT(And(q, b), q) /\ LeqT(And(q, b), b)
        /\ LeqT(q, Or(q, b)) /\ LeqT(b, Or(q, b))
    BY <2>1, JoinMeet DEF LeqK, LeqT, Merge, And, Or, Within
  <2>3. ASSUME NEW u \in Operands
        PROVE  /\ LeqK(q, u) /\ LeqK(b, u) => LeqK(Merge(q, b), u)
               /\ LeqT(u, q) /\ LeqT(u, b) => LeqT(u, And(q, b))
               /\ LeqT(q, u) /\ LeqT(b, u) => LeqT(Or(q, b), u)
    <3>1. u.t \in Plane /\ u.f \in Plane
      BY VectorAssumption DEF Vector
    <3>2. LeqK(q, u) /\ LeqK(b, u) => LeqK(Merge(q, b), u)
      BY <2>1, <3>1, JoinMeet DEF LeqK, Merge, Within
    <3>3. LeqT(u, q) /\ LeqT(u, b) => LeqT(u, And(q, b))
      BY <2>1, <3>1, JoinMeet DEF LeqT, And, Within
    <3>4. LeqT(q, u) /\ LeqT(b, u) => LeqT(Or(q, b), u)
      BY <2>1, <3>1, JoinMeet DEF LeqT, Or, Within
    <3> QED
      BY <3>2, <3>3, <3>4
  <2>4. /\ LeqT(q, b) <=> LeqT(Not(b), Not(q))
        /\ LeqK(q, b) <=> LeqK(Not(q), Not(b))
    BY DEF LeqT, LeqK, Not
  <2> QED
    BY <2>2, <2>3, <2>4
<1> QED
  BY <1>1, VectorInv, PTL
-----------------------------------------------------------------------------
\* An array of deltas.
LEMMA HistoryIsSequence ==
  ASSUME NEW h \in Histories
  PROVE  h \in Seq(Deltas) /\ Len(h) \in 0 .. MaxLength /\ DOMAIN h = 1 .. Len(h)
<1>1. PICK n \in 0 .. MaxLength : h \in [1 .. n -> Deltas]
  BY DEF Histories
<1>2. n \in Nat
  BY ReplayAssumption
<1>3. h \in Seq(Deltas) /\ Len(h) = n
  BY <1>1, <1>2
<1> QED
  BY <1>1, <1>3

\* Merging two vectors gives a vector.
LEMMA MergeType ==
  ASSUME NEW a \in Vector, NEW b \in Vector
  PROVE  Merge(a, b) \in Vector
<1>1. ASSUME NEW p \in Plane, NEW r \in Plane
      PROVE  Join(p, r) \in Plane
  BY <1>1 DEF Join, Plane
<1> QED
  BY <1>1 DEF Merge, Vector

LEMMA UnknownType == Unknown \in Vector
  BY DEF Unknown, Vector, Plane

\* A step merges one vector of the instance.
LEMMA NextDelta ==
  ASSUME ReplayTypeOK, NEW r \in Replays, i[r] < Len(d[r])
  PROVE  /\ i[r] + 1 \in 1 .. Len(d[r])
         /\ d[r][i[r] + 1] \in Deltas
         /\ d[r][i[r] + 1] \in Vector
<1>1. d[r] \in Histories /\ i[r] \in 0 .. Len(d[r])
  BY DEF ReplayTypeOK
<1>2. d[r] \in Seq(Deltas) /\ Len(d[r]) \in Nat
  BY <1>1, HistoryIsSequence
<1>3. i[r] + 1 \in 1 .. Len(d[r])
  BY <1>1, <1>2
<1>4. d[r][i[r] + 1] \in Deltas
  BY <1>2, <1>3
<1> QED
  BY <1>3, <1>4, ReplayAssumption
-----------------------------------------------------------------------------
(* The loop index stays within the array and the vector within its width,  *)
(* whatever the histories are.                                             *)
THEOREM ReplayTypeCorrect == ReplaySpec => []ReplayTypeOK
<1>1. ReplayInit => ReplayTypeOK
  <2> SUFFICES ASSUME ReplayInit PROVE ReplayTypeOK
    OBVIOUS
  <2>1. d \in [Replays -> Histories]
    BY DEF ReplayInit
  <2>2. \A r \in Replays : Len(d[r]) \in Nat
    BY <2>1, HistoryIsSequence
  <2> QED
    BY <2>1, <2>2, UnknownType, ReplayAssumption DEF ReplayInit, ReplayTypeOK
<1>2. ReplayTypeOK /\ [ReplayNext]_replayVars => ReplayTypeOK'
  <2> SUFFICES ASSUME ReplayTypeOK, [ReplayNext]_replayVars PROVE ReplayTypeOK'
    OBVIOUS
  <2>1. ASSUME NEW r \in Replays, Step(r) PROVE ReplayTypeOK'
    <3>1. i[r] + 1 \in 1 .. Len(d[r]) /\ d[r][i[r] + 1] \in Vector
      BY <2>1, NextDelta DEF Step
    <3>2. Merge(result[r], d[r][i[r] + 1]) \in Vector
      BY <3>1, MergeType DEF ReplayTypeOK
    <3>3. result' \in [Replays -> Vector]
      BY <2>1, <3>2 DEF Step, ReplayTypeOK
    <3>4. d' = d /\ i' = [i EXCEPT ![r] = @ + 1]
      BY <2>1 DEF Step
    <3>5. \A x \in Replays : Len(d[x]) \in 0 .. MaxLength
      BY HistoryIsSequence DEF ReplayTypeOK
    <3>6. \A x \in Replays : i'[x] \in 0 .. Len(d[x])
      BY <3>1, <3>4, <3>5 DEF ReplayTypeOK
    <3>7. i' \in [Replays -> 0 .. MaxLength]
      BY <3>4, <3>5, <3>6, ReplayAssumption DEF ReplayTypeOK
    <3> QED
      BY <3>3, <3>4, <3>6, <3>7 DEF ReplayTypeOK
  <2>2. CASE UNCHANGED replayVars
    BY <2>2 DEF ReplayTypeOK, replayVars
  <2> QED
    BY <2>1, <2>2 DEF ReplayNext, Done
<1> QED
  BY <1>1, <1>2, PTL DEF ReplaySpec
-----------------------------------------------------------------------------
LEMMA HoldsAfterStep ==
  ASSUME ReplayTypeOK, NEW r \in Replays, Step(r), NEW x \in Replays
  PROVE  Holds(x)' = IF x = r THEN Holds(x) \cup {d[r][i[r] + 1]} ELSE Holds(x)
<1>1. d' = d /\ i' = [i EXCEPT ![r] = @ + 1] /\ i \in [Replays -> 0 .. MaxLength]
  BY DEF Step, ReplayTypeOK
<1>2. CASE x # r
  BY <1>1, <1>2 DEF Holds
<1>3. CASE x = r
  <2>1. i'[x] = i[r] + 1 /\ i[r] \in Nat
    BY <1>1, <1>3, ReplayAssumption
  <2>2. 1 .. i'[x] = (1 .. i[r]) \cup {i[r] + 1}
    BY <2>1
  <2> QED
    BY <1>1, <1>3, <2>2 DEF Holds
<1> QED
  BY <1>2, <1>3

\* The planes of a merge are the unions of the planes.
LEMMA MergePlanes ==
  ASSUME NEW a, NEW b, NEW w \in 0 .. Words - 1
  PROVE  /\ Merge(a, b).t[w] = a.t[w] \cup b.t[w]
         /\ Merge(a, b).f[w] = a.f[w] \cup b.f[w]
  BY DEF Merge, Join

(* A bit is set exactly when a merged delta sets it, for every history.    *)
THEOREM ReplayEvidenceExact == ReplaySpec => []EvidenceExact
<1>1. ReplayInit => EvidenceExact
  <2> SUFFICES ASSUME ReplayInit, NEW r \in Replays, NEW w \in 0 .. Words - 1
               PROVE  /\ result[r].t[w] = UNION {e.t[w] : e \in Holds(r)}
                      /\ result[r].f[w] = UNION {e.f[w] : e \in Holds(r)}
    BY DEF EvidenceExact
  <2>1. result[r].t[w] = {} /\ result[r].f[w] = {}
    BY DEF ReplayInit, Unknown
  <2>2. Holds(r) = {}
    BY DEF ReplayInit, Holds
  <2> QED
    BY <2>1, <2>2
<1>2. ReplayTypeOK /\ EvidenceExact /\ [ReplayNext]_replayVars => EvidenceExact'
  <2> SUFFICES ASSUME ReplayTypeOK, EvidenceExact, [ReplayNext]_replayVars PROVE EvidenceExact'
    OBVIOUS
  <2>1. ASSUME NEW r \in Replays, Step(r) PROVE EvidenceExact'
    <3> SUFFICES ASSUME NEW x \in Replays, NEW w \in 0 .. Words - 1
                 PROVE  /\ result'[x].t[w] = UNION {e.t[w] : e \in Holds(x)'}
                        /\ result'[x].f[w] = UNION {e.f[w] : e \in Holds(x)'}
      BY DEF EvidenceExact
    <3>1. /\ result[x].t[w] = UNION {e.t[w] : e \in Holds(x)}
          /\ result[x].f[w] = UNION {e.f[w] : e \in Holds(x)}
      BY DEF EvidenceExact
    <3>2. CASE x # r
      <4>1. result'[x] = result[x] /\ Holds(x)' = Holds(x)
        BY <2>1, <3>2, HoldsAfterStep DEF Step, ReplayTypeOK
      <4> QED
        BY <3>1, <4>1
    <3>3. CASE x = r
      <4> DEFINE e0 == d[r][i[r] + 1]
      <4>1. result'[x] = Merge(result[x], e0)
        BY <2>1, <3>3 DEF Step, ReplayTypeOK
      <4>2. Holds(x)' = Holds(x) \cup {e0}
        BY <2>1, <3>3, HoldsAfterStep
      <4>3. result'[x].t[w] = result[x].t[w] \cup e0.t[w] /\ result'[x].f[w] = result[x].f[w] \cup e0.f[w]
        BY <4>1, MergePlanes
      <4> HIDE DEF e0
      <4>4. UNION {e.t[w] : e \in Holds(x) \cup {e0}}
              = (UNION {e.t[w] : e \in Holds(x)}) \cup e0.t[w]
        OBVIOUS
      <4>5. UNION {e.f[w] : e \in Holds(x) \cup {e0}}
              = (UNION {e.f[w] : e \in Holds(x)}) \cup e0.f[w]
        OBVIOUS
      <4> QED
        BY <3>1, <4>2, <4>3, <4>4, <4>5
    <3> QED
      BY <3>2, <3>3
  <2>2. CASE UNCHANGED replayVars
    BY <2>2 DEF EvidenceExact, Holds, replayVars
  <2> QED
    BY <2>1, <2>2 DEF ReplayNext, Done
<1> QED
  BY <1>1, <1>2, ReplayTypeCorrect, PTL DEF ReplaySpec
-----------------------------------------------------------------------------
\* The two arrays hold the same deltas: neither replay writes to its array.
SameHistory == Elements(d["a"]) = Elements(d["b"])

LEMMA HistoriesKept == ReplaySpec => []SameHistory
<1>1. ReplayInit => SameHistory
  BY DEF ReplayInit, SameHistory
<1>2. SameHistory /\ [ReplayNext]_replayVars => SameHistory'
  BY DEF SameHistory, ReplayNext, Step, Done, replayVars
<1> QED
  BY <1>1, <1>2, PTL DEF ReplaySpec

\* Vectors with the same bits are the same vector.
LEMMA VectorExtensional ==
  ASSUME NEW a \in Vector, NEW b \in Vector,
         \A w \in 0 .. Words - 1 : a.t[w] = b.t[w] /\ a.f[w] = b.f[w]
  PROVE  a = b
<1>1. ASSUME NEW p \in Plane, NEW r \in Plane, \A w \in 0 .. Words - 1 : p[w] = r[w]
      PROVE  p = r
  <2>1. p = [w \in 0 .. Words - 1 |-> p[w]] /\ r = [w \in 0 .. Words - 1 |-> r[w]]
    BY <1>1 DEF Plane
  <2> QED
    BY <1>1, <2>1, Zenon
<1>2. a.t \in Plane /\ b.t \in Plane /\ a.f \in Plane /\ b.f \in Plane
  BY DEF Vector
<1>3. a.t = b.t /\ a.f = b.f
  BY <1>1, <1>2
<1> QED
  BY <1>3 DEF Vector

LEMMA EvidenceDecides ==
  ReplayTypeOK /\ EvidenceExact /\ SameHistory => OrderAndRepetitionFree
<1> SUFFICES ASSUME ReplayTypeOK, EvidenceExact, SameHistory,
                    \A r \in Replays : i[r] = Len(d[r])
             PROVE  result["a"] = result["b"]
  BY DEF OrderAndRepetitionFree
<1>1. \A r \in Replays : DOMAIN d[r] = 1 .. Len(d[r])
  BY HistoryIsSequence DEF ReplayTypeOK
<1>2. \A r \in Replays : Holds(r) = Elements(d[r])
  BY <1>1 DEF Holds, Elements
<1>3. Holds("a") = Holds("b")
  BY <1>2 DEF SameHistory, Replays
<1>4. \A w \in 0 .. Words - 1 : result["a"].t[w] = result["b"].t[w] /\ result["a"].f[w] = result["b"].f[w]
  BY <1>3 DEF EvidenceExact, Replays
<1>5. result["a"] \in Vector /\ result["b"] \in Vector
  BY DEF ReplayTypeOK, Replays
<1> QED
  BY <1>4, <1>5, VectorExtensional

(* Two histories that hold the same deltas, in whatever order and with     *)
(* whatever repetitions, replay to the same vector.                        *)
THEOREM ReplayOrderFree == ReplaySpec => []OrderAndRepetitionFree
  BY ReplayTypeCorrect, ReplayEvidenceExact, HistoriesKept, EvidenceDecides, PTL
-----------------------------------------------------------------------------
\* A cell that is GUARD has both its bits set, and conversely.
LEMMA GuardIsBothBits ==
  ASSUME NEW v, NEW c \in Cell
  PROVE  GetCell(v, c) = QH_GUARD <=>
           Bit(c) \in v.t[WordIndex(c)] /\ Bit(c) \in v.f[WordIndex(c)]
  BY DEF GetCell, Encode, QH_GUARD

LEMMA CellWord ==
  ASSUME NEW c \in Cell
  PROVE  WordIndex(c) \in 0 .. Words - 1
<1>1. /\ Words \in Nat /\ WordBits \in Nat /\ WordBits > 0
      /\ c \in Nat /\ c < Words * WordBits
  BY QH256Assumption DEF Cell, QH256_CELLS
<1> DEFINE k == c \div WordBits
<1>2. k \in Nat /\ WordBits * k <= c
  BY <1>1
<1>3. WordBits * k < WordBits * Words
  BY <1>1, <1>2
<1> HIDE DEF k
<1>4. k < Words
  BY <1>1, <1>2, <1>3
<1> QED
  BY <1>1, <1>2, <1>4 DEF WordIndex, k

(* Every step of a replay only gains knowledge, and GUARD stays GUARD.     *)
THEOREM ReplayKnowledgeGrows == ReplaySpec => KnowledgeGrows
<1> DEFINE Grows == \A r \in Replays :
                      /\ LeqK(result[r], result'[r])
                      /\ \A c \in Cell : GetCell(result[r], c) = QH_GUARD => GetCell(result'[r], c) = QH_GUARD
<1>1. ReplayTypeOK /\ [ReplayNext]_replayVars => Grows
  <2> SUFFICES ASSUME ReplayTypeOK, [ReplayNext]_replayVars, NEW x \in Replays
               PROVE  /\ LeqK(result[x], result'[x])
                      /\ \A c \in Cell : GetCell(result[x], c) = QH_GUARD => GetCell(result'[x], c) = QH_GUARD
    OBVIOUS
  <2>1. LeqK(result[x], result'[x])
    <3>1. ASSUME NEW r \in Replays, Step(r) PROVE LeqK(result[x], result'[x])
      <4>1. CASE x # r
        <5>1. result'[x] = result[x]
          BY <3>1, <4>1 DEF Step, ReplayTypeOK
        <5> QED
          BY <5>1 DEF LeqK, Within
      <4>2. CASE x = r
        <5>1. result'[x] = Merge(result[x], d[r][i[r] + 1])
          BY <3>1, <4>2 DEF Step, ReplayTypeOK
        <5> QED
          BY <5>1, MergePlanes DEF LeqK, Within
      <4> QED
        BY <4>1, <4>2
    <3>2. CASE UNCHANGED replayVars
      BY <3>2 DEF replayVars, LeqK, Within
    <3> QED
      BY <3>1, <3>2 DEF ReplayNext, Done
  <2>2. ASSUME NEW c \in Cell, GetCell(result[x], c) = QH_GUARD
        PROVE  GetCell(result'[x], c) = QH_GUARD
    <3>1. WordIndex(c) \in 0 .. Words - 1
      BY CellWord
    <3>2. Bit(c) \in result[x].t[WordIndex(c)] /\ Bit(c) \in result[x].f[WordIndex(c)]
      BY <2>2, GuardIsBothBits
    <3>3. Bit(c) \in result'[x].t[WordIndex(c)] /\ Bit(c) \in result'[x].f[WordIndex(c)]
      BY <2>1, <3>1, <3>2 DEF LeqK, Within
    <3> QED
      BY <3>3, GuardIsBothBits
  <2> QED
    BY <2>1, <2>2
<1> QED
  BY <1>1, ReplayTypeCorrect, PTL DEF ReplaySpec, KnowledgeGrows
=============================================================================
