----------------------------- MODULE CellArray -----------------------------
(***************************************************************************)
(* What a QH256 vector promises its callers: an array of independent cells *)
(* on which every operation acts cell by cell, through the cell operations *)
(* qh_cell_merge, qh_cell_not, qh_cell_and and qh_cell_or, and on which a  *)
(* refused write changes nothing.                                          *)
(***************************************************************************)
EXTENDS QH256

CONSTANTS Index, Value      \* the indexes and cell values callers pass

VARIABLES cell,             \* the vector, as an array of cell values
          ok,               \* what the last call returned
          call, operand     \* the last call, and its operand as an array

Init == /\ cell = [i \in Cell |-> QH_UNKNOWN] /\ ok = TRUE
        /\ call = <<"unknown">> /\ operand = cell

Set(i, s) == /\ call' = <<"set", i, s>>
             /\ ok' = (i \in Cell /\ Valid(s))
             /\ cell' = IF ok' THEN [cell EXCEPT ![i] = s] ELSE cell

\* Each cell of the result depends on that cell of the two operands only.
Combined(name, a, y) ==
  CASE name = "merge"  -> CellMerge(a, y)
    [] name = "and"    -> CellAnd(a, y)
    [] name = "or"     -> CellOr(a, y)
    [] name = "not"    -> CellNot(a)
    [] name = "reload" -> a

Combine(name) == /\ call' = <<name>>
                 /\ ok' = TRUE
                 /\ cell' = [i \in Cell |-> Combined(name, cell[i], operand'[i])]

Next == \/ \E i \in Index, s \in Value : Set(i, s)
        \/ \E name \in {"merge", "and", "or", "not", "reload"} : Combine(name)

Spec == Init /\ [][Next]_<<cell, ok, call, operand>>
=============================================================================
