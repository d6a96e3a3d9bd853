---------------------------- MODULE QH256Vector ----------------------------
(***************************************************************************)
(* A caller's qh256_t under every operation of the core, in any order and  *)
(* with any index or cell value, legal or not.                             *)
(***************************************************************************)
EXTENDS QH256

CONSTANTS Index, Value,     \* what callers pass to qh256_set_cell
          Operands          \* the second operands of the binary operations

ASSUME VectorAssumption == /\ Index \subseteq Nat
                           /\ Value \subseteq Nat
                           /\ Operands \subseteq Vector

VARIABLES q,                \* the vector
          ok,               \* the bool the last call returned
          call, operand     \* history: the last call and its second operand

vars == <<q, ok, call, operand>>

Init == q = Unknown /\ ok = TRUE /\ call = <<"unknown">> /\ operand = Unknown

SetOp == \E i \in Index, s \in Value :
           /\ q' = SetCell(q, i, s) /\ ok' = CanSet(i, s)
           /\ call' = <<"set", i, s>> /\ operand' = Unknown

Called(name, b) == ok' = TRUE /\ call' = <<name>> /\ operand' = b

MergeOp == \E b \in Operands : q' = Merge(q, b) /\ Called("merge", b)
AndOp == \E b \in Operands : q' = And(q, b) /\ Called("and", b)
OrOp  == \E b \in Operands : q' = Or(q, b) /\ Called("or", b)
NotOp == q' = Not(q) /\ Called("not", Unknown)
\* The vector is stored and read back.
Reload == q' = Deserialize(Serialize(q)) /\ Called("reload", Unknown)

Next == SetOp \/ MergeOp \/ AndOp \/ OrOp \/ NotOp \/ Reload

Spec == Init /\ [][Next]_vars
-----------------------------------------------------------------------------
(* The planes stay planes of WordBits-bit words.                           *)
TypeOK == q \in Vector /\ ok \in BOOLEAN

Cells(v) == [i \in Cell |-> GetCell(v, i)]
Array == INSTANCE CellArray WITH cell <- Cells(q), operand <- Cells(operand)

(* Word and bit addressing never mixes two cells: read through             *)
(* qh256_get_cell, the packed vector is an array on which each operation   *)
(* is the cell operation, a refused write and a reload change nothing.     *)
ImplementsCellArray == Array!Spec

(* The two packed orders are the two cell orders: qh256_leq_k and          *)
(* qh256_leq_t, computed on whole words, answer what qh_cell_leq_k and     *)
(* qh_cell_leq_t answer at every cell; so does qh256_is_designated.        *)
OrdersAreCellwise ==
  \A b \in Operands :
    /\ LeqK(q, b) <=> \A i \in Cell : CellLeqK(GetCell(q, i), GetCell(b, i))
    /\ LeqT(q, b) <=> \A i \in Cell : CellLeqT(GetCell(q, i), GetCell(b, i))
    /\ IsDesignated(q) <=> \E i \in Cell : HasTrue(GetCell(q, i))

(* Merge is the join of the knowledge order, `and` the meet and `or` the   *)
(* join of the truth order: each is a bound of both its operands, and of   *)
(* all bounds the nearest.  Negation reverses truth and keeps knowledge.   *)
Lattices ==
  \A b \in Operands :
    /\ LeqK(q, Merge(q, b)) /\ LeqK(b, Merge(q, b))
    /\ LeqT(And(q, b), q) /\ LeqT(And(q, b), b)
    /\ LeqT(q, Or(q, b)) /\ LeqT(b, Or(q, b))
    /\ \A u \in Operands :
         /\ LeqK(q, u) /\ LeqK(b, u) => LeqK(Merge(q, b), u)
         /\ LeqT(u, q) /\ LeqT(u, b) => LeqT(u, And(q, b))
         /\ LeqT(q, u) /\ LeqT(b, u) => LeqT(Or(q, b), u)
    /\ LeqT(q, b) <=> LeqT(Not(b), Not(q))
    /\ LeqK(q, b) <=> LeqK(Not(q), Not(b))
=============================================================================
