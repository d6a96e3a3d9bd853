------------------------------ MODULE QH256v01 ------------------------------
(***************************************************************************)
(* The QH256 v0.1 core (tests/validation/v0.1/qh256.c), cells packed in    *)
(* bytes, driven beside a v2.0 vector by the same calls, and saved to and  *)
(* restored from its bit string, which may come back damaged.              *)
(* A byte is the set of its bits that are 1.                               *)
(***************************************************************************)
EXTENDS QH256, FiniteSets

CONSTANTS CellsPerByte,     \* 4 in qh256.h
          Index, Value,     \* what callers pass to qh256_set
          Operands          \* the v2.0 form of what callers merge

ASSUME V01Assumption == /\ CellsPerByte \in Nat \ {0}
                        /\ QH256_CELLS % CellsPerByte = 0
                        /\ Index \subseteq Nat /\ Value \subseteq Nat
                        /\ Operands \subseteq Vector

BitsPerByte == 2 * CellsPerByte
QH256_BITS  == 2 * QH256_CELLS
QH256_BYTES == QH256_CELLS \div CellsPerByte
Object      == [0 .. QH256_BYTES - 1 -> SUBSET (0 .. BitsPerByte - 1)]

cell_byte_index(i) == i \div CellsPerByte
cell_shift(i)      == (i % CellsPerByte) * 2

qh256_zero == [b \in 0 .. QH256_BYTES - 1 |-> {}]
qh256_get(q, i) == LET byte == q[cell_byte_index(i)]
                   IN  Encode(cell_shift(i) + 1 \in byte, cell_shift(i) \in byte)
qh256_set(q, i, s) ==
  [q EXCEPT ![cell_byte_index(i)] =
     (@ \ {cell_shift(i), cell_shift(i) + 1})
       \cup (IF HasTrue(s) THEN {cell_shift(i) + 1} ELSE {})
       \cup (IF HasFalse(s) THEN {cell_shift(i)} ELSE {})]
qh256_merge(a, b) == [n \in DOMAIN a |-> a[n] \cup b[n]]
qh256_count_state(q, s) == Cardinality({i \in Cell : qh256_get(q, i) = s})

\* Position i of a bit string is bit 7 - i % 8 of byte i / 8.
Holds(q, i) == BitsPerByte - 1 - (i % BitsPerByte) \in q[i \div BitsPerByte]
Terminator  == QH256_BITS
qh256_to_bitstring(q) ==
  [i \in 0 .. QH256_BITS |-> IF i = Terminator THEN "end" ELSE IF Holds(q, i) THEN "1" ELSE "0"]

\* The positions read before the first character that is not a bit.
Readable(bits) == {i \in 0 .. QH256_BITS - 1 : \A k \in 0 .. i : bits[k] \in {"0", "1"}}
Parsed(bits)   ==
  [b \in 0 .. QH256_BYTES - 1 |->
     {BitsPerByte - 1 - (i % BitsPerByte) :
        i \in {k \in Readable(bits) : bits[k] = "1" /\ k \div BitsPerByte = b}}]
\* The object is zeroed, then filled as far as the string can be read.
\* Bugged: it is not zeroed.
Bug_qh256_from_bitstring(q, bits) == qh256_merge(q, Parsed(bits))
qh256_from_bitstring(q, bits) == Parsed(bits)
\* Bugged: the terminator is not looked at, nor is a short string noticed.
BugAccepted(bits) == bits[0] \in {"0", "1"}
Accepted(bits)   == /\ Readable(bits) = 0 .. QH256_BITS - 1
                    /\ bits[Terminator] = "end"
-----------------------------------------------------------------------------
VARIABLES q,              \* the v0.1 object
          r,              \* the v2.0 vector under the same calls
          saved, savedR,  \* the bit string last written, and r at that time
          intact          \* no restore was refused since the last good one

vars == <<q, r, saved, savedR, intact>>

\* The v0.1 object with the cells of a v2.0 vector.
Packed(v) == [b \in 0 .. QH256_BYTES - 1 |->
                {n \in 0 .. BitsPerByte - 1 :
                   LET i == b * CellsPerByte + n \div 2
                   IN  IF n % 2 = 1 THEN HasTrue(GetCell(v, i)) ELSE HasFalse(GetCell(v, i))}]

Init == /\ q = qh256_zero /\ r = Unknown
        /\ saved = qh256_to_bitstring(q) /\ savedR = r
        /\ intact = TRUE

SetCall == \E i \in Index, s \in Value :
             /\ q' = IF i < QH256_CELLS /\ Valid(s) THEN qh256_set(q, i, s) ELSE q
             /\ r' = IF intact THEN SetCell(r, i, s) ELSE r
             /\ UNCHANGED <<saved, savedR, intact>>
MergeCall == \E b \in Operands :
               /\ q' = qh256_merge(q, Packed(b))
               /\ r' = IF intact THEN Merge(r, b) ELSE r
               /\ UNCHANGED <<saved, savedR, intact>>
Zero == /\ q' = qh256_zero /\ r' = Unknown /\ intact' = TRUE
        /\ UNCHANGED <<saved, savedR>>
Save == /\ intact
        /\ saved' = qh256_to_bitstring(q) /\ savedR' = r
        /\ UNCHANGED <<q, r, intact>>

RestoreFrom(bits) == /\ q' = qh256_from_bitstring(q, bits)
                     /\ intact' = Accepted(bits)
                     /\ r' = IF intact' THEN savedR ELSE Unknown
                     /\ UNCHANGED <<saved, savedR>>
Restore        == RestoreFrom(saved)
\* One character was lost or changed to something that is not a bit, or the
\* string does not end where it should.
RestoreDamaged == \E k \in 0 .. QH256_BITS : RestoreFrom([saved EXCEPT ![k] = "x"])

Next == SetCall \/ MergeCall \/ Zero \/ Save \/ Restore \/ RestoreDamaged

Spec == Init /\ [][Next]_vars
-----------------------------------------------------------------------------
(* The object keeps its bytes and their bits.                              *)
TypeOK == /\ q \in Object /\ {r, savedR} \subseteq Vector
          /\ DOMAIN saved = 0 .. QH256_BITS /\ intact \in BOOLEAN

(* The two versions of the core agree on every cell and every count after  *)
(* the same calls, refused writes, and restores included: a restore that   *)
(* succeeds after refused ones leaves nothing of what they read.           *)
AgreesWithV2 ==
  intact => /\ \A i \in Cell : qh256_get(q, i) = GetCell(r, i)
            /\ \A s \in State : qh256_count_state(q, s)
                                  = Cardinality({i \in Cell : GetCell(r, i) = s})

(* A restore that is refused has overwritten the object, but only with     *)
(* evidence the saved vector held.                                         *)
RefusedRestoreInventsNothing ==
  [][intact /\ ~intact' =>
       \A i \in Cell : CellLeqK(qh256_get(q', i), GetCell(savedR, i))]_vars
=============================================================================
