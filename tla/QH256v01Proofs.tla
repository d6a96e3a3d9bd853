--------------------------- MODULE QH256v01Proofs ---------------------------
(***************************************************************************)
(* The two versions of the core agree, for every size of vector, every     *)
(* operand and every order of calls, saves and damaged restores.           *)
(***************************************************************************)
EXTENDS QH256v01, QH256Lemmas

\* Every cell has its two bits in its byte, and every bit its position in the
\* bit string.
LEMMA Sizes ==
  /\ CellsPerByte \in Nat \ {0} /\ BitsPerByte \in Nat \ {0} /\ BitsPerByte = 2 * CellsPerByte
  /\ QH256_BYTES \in Nat /\ QH256_CELLS \in Nat /\ QH256_CELLS = QH256_BYTES * CellsPerByte
  /\ QH256_BITS \in Nat /\ QH256_BITS = QH256_BYTES * BitsPerByte
<1>1. CellsPerByte \in Nat \ {0} /\ QH256_CELLS % CellsPerByte = 0
  BY V01Assumption
<1>2. QH256_CELLS \in Nat
  BY QH256Assumption DEF QH256_CELLS
<1>3. QH256_BYTES \in Nat /\ QH256_CELLS = QH256_BYTES * CellsPerByte
  BY <1>1, <1>2, DivMod DEF QH256_BYTES
<1>4. QH256_BYTES * (2 * CellsPerByte) = 2 * (QH256_BYTES * CellsPerByte)
  BY <1>1, <1>3
<1> QED
  BY <1>1, <1>2, <1>3, <1>4 DEF BitsPerByte, QH256_BITS

\* Position b * n + m of an array of a times n places is in part b.
LEMMA InPart ==
  ASSUME NEW n \in Nat \ {0}, NEW a \in Nat, NEW x \in 0 .. a * n - 1
  PROVE  x \div n \in 0 .. a - 1 /\ x % n \in 0 .. n - 1
<1>1. a * n \in Nat
  OBVIOUS
<1>2. x \in Nat /\ x < a * n
  BY <1>1
<1>3. x \div n \in Nat /\ x % n \in 0 .. n - 1 /\ x = (x \div n) * n + (x % n)
  BY <1>2, DivMod
<1> DEFINE d == x \div n
<1>4. ~ a <= d
  <2> SUFFICES ASSUME a <= d PROVE FALSE
    OBVIOUS
  <2>1. a * n <= d * n
    <3>1. CASE a = d
      BY <3>1, <1>1
    <3>2. CASE a < d
      <4>1. a * n + n <= d * n
        BY <1>3, <3>2, TimesGrows
      <4>2. d * n \in Nat
        BY <1>3
      <4> QED
        BY <1>1, <4>1, <4>2
    <3> QED
      BY <1>3, <3>1, <3>2
  <2>2. d * n \in Nat
    BY <1>3
  <2> QED
    BY <1>1, <1>2, <1>3, <2>1, <2>2
<1> QED
  BY <1>3, <1>4

LEMMA Places ==
  /\ \A i \in Cell : /\ cell_byte_index(i) \in 0 .. QH256_BYTES - 1
                     /\ cell_shift(i) \in 0 .. BitsPerByte - 1
                     /\ cell_shift(i) + 1 \in 0 .. BitsPerByte - 1
                     /\ cell_shift(i) \div 2 = i % CellsPerByte /\ cell_shift(i) % 2 = 0
                     /\ (cell_shift(i) + 1) \div 2 = i % CellsPerByte
                     /\ (cell_shift(i) + 1) % 2 = 1
                     /\ cell_byte_index(i) * CellsPerByte + (i % CellsPerByte) = i
  /\ \A i, j \in Cell : /\ cell_byte_index(i) = cell_byte_index(j) /\ cell_shift(i) = cell_shift(j)
                             => i = j
                        /\ cell_shift(i) + 1 # cell_shift(j)
<1>1. ASSUME NEW i \in Cell
      PROVE  /\ i \in Nat /\ i \div CellsPerByte \in 0 .. QH256_BYTES - 1
             /\ i % CellsPerByte \in 0 .. CellsPerByte - 1
             /\ i = (i \div CellsPerByte) * CellsPerByte + (i % CellsPerByte)
  <2>1. i \in 0 .. QH256_BYTES * CellsPerByte - 1 /\ i \in Nat
    BY Sizes DEF Cell
  <2> QED
    BY <2>1, Sizes, InPart, DivMod
<1>2. ASSUME NEW m \in Nat
      PROVE  (m * 2) \div 2 = m /\ (m * 2) % 2 = 0 /\ (m * 2 + 1) \div 2 = m /\ (m * 2 + 1) % 2 = 1
  OBVIOUS
<1>3. ASSUME NEW i \in Cell
      PROVE  /\ cell_byte_index(i) \in 0 .. QH256_BYTES - 1
             /\ cell_shift(i) \in 0 .. BitsPerByte - 1
             /\ cell_shift(i) + 1 \in 0 .. BitsPerByte - 1
             /\ cell_shift(i) \div 2 = i % CellsPerByte /\ cell_shift(i) % 2 = 0
             /\ (cell_shift(i) + 1) \div 2 = i % CellsPerByte
             /\ (cell_shift(i) + 1) % 2 = 1
             /\ cell_byte_index(i) * CellsPerByte + (i % CellsPerByte) = i
  <2> DEFINE m == i % CellsPerByte
  <2>1. m \in 0 .. CellsPerByte - 1 /\ m \in Nat
    BY <1>1, Sizes
  <2> HIDE DEF m
  <2>2. m * 2 \in 0 .. BitsPerByte - 1 /\ m * 2 + 1 \in 0 .. BitsPerByte - 1
    BY <2>1, Sizes
  <2> QED
    BY <1>1, <1>2, <2>1, <2>2 DEF cell_byte_index, cell_shift, m
<1>4. ASSUME NEW i \in Cell, NEW j \in Cell,
             cell_byte_index(i) = cell_byte_index(j), cell_shift(i) = cell_shift(j)
      PROVE  i = j
  <2>1. i % CellsPerByte = j % CellsPerByte
    BY <1>3, <1>4
  <2> QED
    BY <1>3, <1>4, <2>1
<1>5. ASSUME NEW i \in Cell, NEW j \in Cell PROVE cell_shift(i) + 1 # cell_shift(j)
  BY <1>3
<1> QED
  BY <1>3, <1>4, <1>5
-----------------------------------------------------------------------------
\* What qh256_get reads: the two bits of the cell.
LEMMA GetView ==
  ASSUME NEW o, NEW i
  PROVE  /\ qh256_get(o, i) \in State /\ Valid(qh256_get(o, i))
         /\ HasTrue(qh256_get(o, i)) <=> cell_shift(i) + 1 \in o[cell_byte_index(i)]
         /\ HasFalse(qh256_get(o, i)) <=> cell_shift(i) \in o[cell_byte_index(i)]
<1> DEFINE p == cell_shift(i) + 1 \in o[cell_byte_index(i)]
           n == cell_shift(i) \in o[cell_byte_index(i)]
<1>1. p \in BOOLEAN /\ n \in BOOLEAN
  OBVIOUS
<1>2. qh256_get(o, i) = Encode(p, n)
  BY DEF qh256_get
<1> HIDE DEF p, n
<1>3. /\ qh256_get(o, i) \in State /\ Valid(qh256_get(o, i))
      /\ HasTrue(qh256_get(o, i)) <=> p
      /\ HasFalse(qh256_get(o, i)) <=> n
  BY <1>1, <1>2, EncodeFacts
<1> QED
  BY <1>3 DEF p, n

\* Two states with the same evidence are the same.
LEMMA SameEvidence ==
  ASSUME NEW a \in State, NEW b \in State,
         HasTrue(a) <=> HasTrue(b), HasFalse(a) <=> HasFalse(b)
  PROVE  a = b
BY DEF State, HasTrue, HasFalse, QH_UNKNOWN, QH_FALSE, QH_TRUE, QH_GUARD

LEMMA ZeroView == /\ qh256_zero \in Object
                  /\ \A i \in Cell : qh256_get(qh256_zero, i) = QH_UNKNOWN
<1>1. qh256_zero \in Object
  BY DEF qh256_zero, Object
<1>2. ASSUME NEW i \in Cell PROVE qh256_get(qh256_zero, i) = QH_UNKNOWN
  <2>1. qh256_zero[cell_byte_index(i)] = {}
    BY Places DEF qh256_zero
  <2> QED
    BY <2>1 DEF qh256_get, Encode, QH_UNKNOWN
<1> QED
  BY <1>1, <1>2

LEMMA SetView ==
  ASSUME NEW o \in Object, NEW i \in Cell, NEW s \in State
  PROVE  /\ qh256_set(o, i, s) \in Object
         /\ \A j \in Cell : qh256_get(qh256_set(o, i, s), j)
                              = IF j = i THEN s ELSE qh256_get(o, j)
<1> DEFINE B == cell_byte_index(i)
           S == cell_shift(i)
           new == (o[B] \ {S, S + 1}) \cup (IF HasTrue(s) THEN {S + 1} ELSE {})
                                     \cup (IF HasFalse(s) THEN {S} ELSE {})
<1>1. qh256_set(o, i, s) = [o EXCEPT ![B] = new]
  BY DEF qh256_set
<1>2. B \in 0 .. QH256_BYTES - 1 /\ S \in 0 .. BitsPerByte - 1 /\ S + 1 \in 0 .. BitsPerByte - 1
  BY Places
<1>3. o[B] \subseteq 0 .. BitsPerByte - 1
  BY <1>2 DEF Object
<1>4. new \subseteq 0 .. BitsPerByte - 1
  BY <1>2, <1>3
<1>5. S \in new <=> HasFalse(s)
  BY <1>2
<1>6. S + 1 \in new <=> HasTrue(s)
  BY <1>2
<1>7. \A n : n # S /\ n # S + 1 => (n \in new <=> n \in o[B])
  OBVIOUS
<1> HIDE DEF new
<1>8. qh256_set(o, i, s) \in Object
  BY <1>1, <1>4 DEF Object
<1>9. \A b \in 0 .. QH256_BYTES - 1 : qh256_set(o, i, s)[b] = IF b = B THEN new ELSE o[b]
  BY <1>1 DEF Object
<1> HIDE DEF B, S
<1>10. ASSUME NEW j \in Cell
       PROVE  qh256_get(qh256_set(o, i, s), j) = IF j = i THEN s ELSE qh256_get(o, j)
  <2> DEFINE w == qh256_set(o, i, s)
  <2>1. cell_byte_index(j) \in 0 .. QH256_BYTES - 1
    BY Places
  <2>2. w[cell_byte_index(j)] = IF cell_byte_index(j) = B THEN new ELSE o[cell_byte_index(j)]
    BY <1>9, <2>1
  <2>3. CASE j = i
    <3>1. w[cell_byte_index(j)] = new
      BY <2>2, <2>3 DEF B
    <3>2. HasTrue(qh256_get(w, j)) <=> HasTrue(s)
      BY <1>6, <2>3, <3>1, GetView DEF S
    <3>3. HasFalse(qh256_get(w, j)) <=> HasFalse(s)
      BY <1>5, <2>3, <3>1, GetView DEF S
    <3> QED
      BY <2>3, <3>2, <3>3, GetView, SameEvidence
  <2>4. CASE j # i
    <3>1. cell_byte_index(j) = B => cell_shift(j) # S /\ cell_shift(j) # S + 1
                                    /\ cell_shift(j) + 1 # S /\ cell_shift(j) + 1 # S + 1
      BY <2>4, Places DEF B, S, cell_shift
    <3>2. cell_shift(j) \in w[cell_byte_index(j)] <=> cell_shift(j) \in o[cell_byte_index(j)]
      BY <1>7, <2>2, <3>1
    <3>3. cell_shift(j) + 1 \in w[cell_byte_index(j)] <=> cell_shift(j) + 1 \in o[cell_byte_index(j)]
      BY <1>7, <2>2, <3>1
    <3> QED
      BY <2>4, <3>2, <3>3, GetView, SameEvidence
  <2> QED
    BY <2>3, <2>4
<1> QED
  BY <1>8, <1>10

LEMMA MergeView ==
  ASSUME NEW a \in Object, NEW b \in Object
  PROVE  /\ qh256_merge(a, b) \in Object
         /\ \A j \in Cell : qh256_get(qh256_merge(a, b), j)
                              = CellMerge(qh256_get(a, j), qh256_get(b, j))
<1>1. /\ qh256_merge(a, b) \in Object
      /\ \A n \in 0 .. QH256_BYTES - 1 : qh256_merge(a, b)[n] = a[n] \cup b[n]
  BY DEF qh256_merge, Object
<1>2. ASSUME NEW j \in Cell
      PROVE  qh256_get(qh256_merge(a, b), j) = CellMerge(qh256_get(a, j), qh256_get(b, j))
  <2> DEFINE m == qh256_get(qh256_merge(a, b), j)
             x == qh256_get(a, j)
             y == qh256_get(b, j)
             p == HasTrue(x) \/ HasTrue(y)
             n == HasFalse(x) \/ HasFalse(y)
  <2>1. qh256_merge(a, b)[cell_byte_index(j)] = a[cell_byte_index(j)] \cup b[cell_byte_index(j)]
    BY <1>1, Places
  <2>2. p \in BOOLEAN /\ n \in BOOLEAN
    BY DEF HasTrue, HasFalse
  <2>3. (HasTrue(m) <=> p) /\ (HasFalse(m) <=> n)
    BY <2>1, GetView
  <2>4. CellMerge(x, y) = Encode(p, n)
    BY GetView DEF CellMerge
  <2>5. m \in State
    BY GetView
  <2> HIDE DEF m, p, n
  <2>6. m = Encode(p, n)
    BY <2>2, <2>3, <2>5, EncodeFacts, SameEvidence
  <2> QED
    BY <2>4, <2>6 DEF m
<1> QED
  BY <1>1, <1>2

LEMMA PackedView ==
  ASSUME NEW v \in Vector
  PROVE  /\ Packed(v) \in Object
         /\ \A j \in Cell : qh256_get(Packed(v), j) = GetCell(v, j)
<1>1. Packed(v) \in Object
  BY DEF Packed, Object
<1>2. ASSUME NEW j \in Cell PROVE qh256_get(Packed(v), j) = GetCell(v, j)
  <2> DEFINE B == cell_byte_index(j)
             S == cell_shift(j)
  <2>1. /\ B \in 0 .. QH256_BYTES - 1 /\ S \in 0 .. BitsPerByte - 1 /\ S + 1 \in 0 .. BitsPerByte - 1
        /\ B * CellsPerByte + S \div 2 = j /\ S % 2 = 0
        /\ B * CellsPerByte + (S + 1) \div 2 = j /\ (S + 1) % 2 = 1
    BY Places
  <2>2. Packed(v)[B] = {n \in 0 .. BitsPerByte - 1 :
                          IF n % 2 = 1 THEN HasTrue(GetCell(v, B * CellsPerByte + n \div 2))
                                       ELSE HasFalse(GetCell(v, B * CellsPerByte + n \div 2))}
    BY <2>1 DEF Packed
  <2> HIDE DEF B, S
  <2>3. S + 1 \in Packed(v)[B] <=> HasTrue(GetCell(v, j))
    BY <2>1, <2>2
  <2>4. S \in Packed(v)[B] <=> HasFalse(GetCell(v, j))
    BY <2>1, <2>2
  <2> QED
    BY <2>3, <2>4, GetView, CellView, SameEvidence DEF B, S
<1> QED
  BY <1>1, <1>2
-----------------------------------------------------------------------------
\* Every bit has one position in the bit string.
LEMMA Positions ==
  /\ \A i \in 0 .. QH256_BITS - 1 :
       /\ i \div BitsPerByte \in 0 .. QH256_BYTES - 1
       /\ BitsPerByte - 1 - (i % BitsPerByte) \in 0 .. BitsPerByte - 1
  /\ \A b \in 0 .. QH256_BYTES - 1, n \in 0 .. BitsPerByte - 1 :
       LET i == b * BitsPerByte + (BitsPerByte - 1 - n)
       IN  /\ i \in 0 .. QH256_BITS - 1 /\ i \div BitsPerByte = b
           /\ BitsPerByte - 1 - (i % BitsPerByte) = n
<1>1. ASSUME NEW i \in 0 .. QH256_BITS - 1
      PROVE  /\ i \div BitsPerByte \in 0 .. QH256_BYTES - 1
             /\ BitsPerByte - 1 - (i % BitsPerByte) \in 0 .. BitsPerByte - 1
  <2>1. i \div BitsPerByte \in 0 .. QH256_BYTES - 1 /\ i % BitsPerByte \in 0 .. BitsPerByte - 1
    BY Sizes, InPart
  <2>2. \A m \in 0 .. BitsPerByte - 1 : BitsPerByte - 1 - m \in 0 .. BitsPerByte - 1
    BY Sizes
  <2> QED
    BY <2>1, <2>2
<1>2. ASSUME NEW b \in 0 .. QH256_BYTES - 1, NEW n \in 0 .. BitsPerByte - 1
      PROVE  LET i == b * BitsPerByte + (BitsPerByte - 1 - n)
             IN  /\ i \in 0 .. QH256_BITS - 1 /\ i \div BitsPerByte = b
                 /\ BitsPerByte - 1 - (i % BitsPerByte) = n
  <2> DEFINE m == BitsPerByte - 1 - n
             i == b * BitsPerByte + m
  <2>1. m \in 0 .. BitsPerByte - 1 /\ b \in Nat /\ BitsPerByte - 1 - m = n
    BY Sizes
  <2> HIDE DEF m
  <2>2. i \div BitsPerByte = b /\ i % BitsPerByte = m
    BY <2>1, Sizes, DivModUnique
  <2>3. b * BitsPerByte + BitsPerByte <= QH256_BYTES * BitsPerByte
    BY Sizes, TimesGrows
  <2>4. b * BitsPerByte \in Nat
    BY <2>1, Sizes
  <2>5. i \in 0 .. QH256_BITS - 1
    BY <2>1, <2>3, <2>4, Sizes
  <2>6. BitsPerByte - 1 - (i % BitsPerByte) = n
    BY <2>1, <2>2
  <2> QED
    BY <2>2, <2>5, <2>6 DEF m
<1> QED
  BY <1>1, <1>2

\* A bit string that was not damaged reads back as the object it was made of;
\* one with a character that is no bit, or without its end, is refused, and
\* only bits that were 1 have been read from it.
LEMMA BitStringView ==
  ASSUME NEW o \in Object
  PROVE  /\ Accepted(qh256_to_bitstring(o)) /\ Parsed(qh256_to_bitstring(o)) = o
         /\ DOMAIN qh256_to_bitstring(o) = 0 .. QH256_BITS
         /\ \A k \in 0 .. QH256_BITS :
              LET bits == [qh256_to_bitstring(o) EXCEPT ![k] = "x"]
              IN  /\ ~Accepted(bits) /\ Parsed(bits) \in Object
                  /\ \A b \in 0 .. QH256_BYTES - 1 : Parsed(bits)[b] \subseteq o[b]
<1> DEFINE str == qh256_to_bitstring(o)
<1>1. /\ DOMAIN str = 0 .. QH256_BITS /\ str[QH256_BITS] = "end"
      /\ \A i \in 0 .. QH256_BITS - 1 :
           /\ str[i] \in {"0", "1"} /\ i # QH256_BITS
           /\ str[i] = "1" <=> BitsPerByte - 1 - (i % BitsPerByte) \in o[i \div BitsPerByte]
  BY Sizes, SMTT(20) DEF qh256_to_bitstring, Terminator, Holds
<1> HIDE DEF str
<1>2. Readable(str) = 0 .. QH256_BITS - 1
  <2>1. \A i \in 0 .. QH256_BITS - 1 : \A k \in 0 .. i : k \in 0 .. QH256_BITS - 1
    BY Sizes
  <2> QED
    BY <1>1, <2>1 DEF Readable
<1>3. Accepted(str)
  BY <1>1, <1>2 DEF Accepted, Terminator
<1>4. \A b \in 0 .. QH256_BYTES - 1 : o[b] \subseteq 0 .. BitsPerByte - 1
  BY DEF Object
<1>5. ASSUME NEW b \in 0 .. QH256_BYTES - 1 PROVE Parsed(str)[b] = o[b]
  <2>1. Parsed(str)[b] = {BitsPerByte - 1 - (i % BitsPerByte) :
                            i \in {k \in 0 .. QH256_BITS - 1 : str[k] = "1" /\ k \div BitsPerByte = b}}
    BY <1>2 DEF Parsed
  <2>2. \A n \in Parsed(str)[b] : n \in o[b]
    BY <1>1, <2>1
  <2>3. \A n \in o[b] : n \in Parsed(str)[b]
    <3> TAKE n \in o[b]
    <3>1. n \in 0 .. BitsPerByte - 1
      BY <1>4
    <3>2. PICK i \in 0 .. QH256_BITS - 1 : i \div BitsPerByte = b /\ BitsPerByte - 1 - (i % BitsPerByte) = n
      BY <3>1, Positions
    <3>3. str[i] = "1"
      BY <1>1, <3>2
    <3> QED
      BY <2>1, <3>2, <3>3
  <2> QED
    BY <2>2, <2>3
<1>6. Parsed(str) = o
  BY <1>5 DEF Parsed, Object
<1>7. ASSUME NEW k \in 0 .. QH256_BITS
      PROVE  LET bits == [str EXCEPT ![k] = "x"]
             IN  /\ ~Accepted(bits) /\ Parsed(bits) \in Object
                 /\ \A b \in 0 .. QH256_BYTES - 1 : Parsed(bits)[b] \subseteq o[b]
  <2> DEFINE bits == [str EXCEPT ![k] = "x"]
  <2>1. bits[k] = "x" /\ \A i \in 0 .. QH256_BITS : i # k => bits[i] = str[i]
    BY <1>1
  <2> HIDE DEF bits
  <2>2. Readable(bits) \subseteq 0 .. QH256_BITS - 1
    BY DEF Readable
  <2>3. ~Accepted(bits)
    <3>1. CASE k = QH256_BITS
      BY <2>1, <3>1 DEF Accepted, Terminator
    <3>2. CASE k # QH256_BITS
      <4>1. k \in 0 .. QH256_BITS - 1 /\ k \in 0 .. k
        BY <3>2, Sizes
      <4>2. k \notin Readable(bits)
        BY <2>1, <4>1 DEF Readable
      <4> QED
        BY <4>1, <4>2 DEF Accepted
    <3> QED
      BY <3>1, <3>2
  <2>4. ASSUME NEW b \in 0 .. QH256_BYTES - 1, NEW n \in Parsed(bits)[b] PROVE n \in o[b]
    <3>1. PICK i \in Readable(bits) :
            bits[i] = "1" /\ i \div BitsPerByte = b /\ n = BitsPerByte - 1 - (i % BitsPerByte)
      BY <2>4 DEF Parsed
    <3>2. i \in 0 .. QH256_BITS - 1 /\ i \in 0 .. QH256_BITS
      BY <2>2, <3>1, Sizes
    <3>3. str[i] = "1"
      BY <2>1, <3>1, <3>2
    <3> QED
      BY <1>1, <3>1, <3>2, <3>3
  <2>5. Parsed(bits) \in Object
    <3>1. \A b \in 0 .. QH256_BYTES - 1 : Parsed(bits)[b] \in SUBSET (0 .. BitsPerByte - 1)
      BY <1>4, <2>4
    <3>2. Parsed(bits) = [b \in 0 .. QH256_BYTES - 1 |-> Parsed(bits)[b]]
      BY DEF Parsed
    <3> QED
      BY <3>1, <3>2 DEF Object
  <2> QED
    BY <2>3, <2>4, <2>5 DEF bits
<1> QED
  BY <1>1, <1>3, <1>6, <1>7 DEF str
-----------------------------------------------------------------------------
\* Cell by cell the object is the vector.
SameAs(o, v) == \A i \in Cell : qh256_get(o, i) = GetCell(v, i)

\* What was saved is an object with the cells of the vector of that time.
V01Inv == /\ q \in Object /\ r \in Vector /\ savedR \in Vector /\ intact \in BOOLEAN
          /\ intact => SameAs(q, r)
          /\ \E o \in Object : saved = qh256_to_bitstring(o) /\ SameAs(o, savedR)

LEMMA RestoreKeeps == V01Inv /\ Restore => V01Inv' /\ intact'
<1> SUFFICES ASSUME V01Inv, Restore PROVE V01Inv' /\ intact'
  OBVIOUS
<1>1. PICK o \in Object : saved = qh256_to_bitstring(o) /\ SameAs(o, savedR)
  BY DEF V01Inv
<1>2. q' = o /\ intact' = TRUE
  BY <1>1, BitStringView DEF Restore, RestoreFrom, qh256_from_bitstring
<1>3. r' = savedR /\ UNCHANGED <<saved, savedR>>
  BY <1>2 DEF Restore, RestoreFrom
<1>4. /\ q' \in Object /\ r' \in Vector /\ savedR' \in Vector
      /\ \A i \in Cell : qh256_get(q', i) = GetCell(r', i)
  BY <1>1, <1>2, <1>3 DEF V01Inv, SameAs
<1>5. saved' = qh256_to_bitstring(o) /\ \A i \in Cell : qh256_get(o, i) = GetCell(savedR', i)
  BY <1>1, <1>3 DEF SameAs
<1> QED
  BY <1>2, <1>4, <1>5 DEF V01Inv, SameAs, qh256_get, GetCell, qh256_to_bitstring, Holds

LEMMA DamagedKeeps ==
  V01Inv /\ RestoreDamaged => V01Inv' /\ ~intact'
                              /\ \A i \in Cell : CellLeqK(qh256_get(q', i), GetCell(savedR, i))
<1> SUFFICES ASSUME V01Inv, RestoreDamaged
             PROVE  V01Inv' /\ ~intact'
                    /\ \A i \in Cell : CellLeqK(qh256_get(q', i), GetCell(savedR, i))
  OBVIOUS
<1>1. PICK o \in Object : saved = qh256_to_bitstring(o) /\ SameAs(o, savedR)
  BY DEF V01Inv
<1>2. PICK k \in 0 .. QH256_BITS : RestoreFrom([saved EXCEPT ![k] = "x"])
  BY DEF RestoreDamaged
<1>3. /\ q' = Parsed([saved EXCEPT ![k] = "x"]) /\ intact' = Accepted([saved EXCEPT ![k] = "x"])
      /\ r' = (IF intact' THEN savedR ELSE Unknown) /\ UNCHANGED <<saved, savedR>>
  BY <1>2 DEF RestoreFrom, qh256_from_bitstring
<1>4. /\ q' \in Object /\ ~Accepted([saved EXCEPT ![k] = "x"])
      /\ \A b \in 0 .. QH256_BYTES - 1 : q'[b] \subseteq o[b]
  BY <1>1, <1>3, BitStringView
<1>5. intact' = FALSE /\ r' \in Vector
  BY <1>3, <1>4, UnknownView DEF Accepted
<1>6. \A i \in Cell : CellLeqK(qh256_get(q', i), GetCell(savedR, i))
  <2> TAKE i \in Cell
  <2>1. q'[cell_byte_index(i)] \subseteq o[cell_byte_index(i)]
    BY <1>4, Places
  <2>2. CellLeqK(qh256_get(q', i), qh256_get(o, i))
    BY <2>1, GetView DEF CellLeqK
  <2> QED
    BY <1>1, <2>2 DEF SameAs
<1>7. saved' = qh256_to_bitstring(o) /\ savedR' \in Vector
      /\ \A i \in Cell : qh256_get(o, i) = GetCell(savedR', i)
  BY <1>1, <1>3 DEF SameAs, V01Inv
<1> QED
  BY <1>4, <1>5, <1>6, <1>7 DEF V01Inv, SameAs, qh256_get, GetCell, qh256_to_bitstring, Holds

LEMMA CallsKeep == V01Inv /\ (SetCall \/ MergeCall \/ Zero \/ Save) => V01Inv' /\ (intact => intact')
<1> SUFFICES ASSUME V01Inv, SetCall \/ MergeCall \/ Zero \/ Save PROVE V01Inv' /\ (intact => intact')
  OBVIOUS
<1>1. ASSUME q' \in Object, r' \in Vector, UNCHANGED <<saved, savedR>>, intact' \in BOOLEAN,
             intact' => \A i \in Cell : qh256_get(q', i) = GetCell(r', i)
      PROVE  V01Inv'
  <2>1. PICK o \in Object : saved = qh256_to_bitstring(o) /\ SameAs(o, savedR)
    BY DEF V01Inv
  <2>2. saved' = qh256_to_bitstring(o) /\ savedR' \in Vector
        /\ \A i \in Cell : qh256_get(o, i) = GetCell(savedR', i)
    BY <1>1, <2>1 DEF SameAs, V01Inv
  <2> QED
    BY <1>1, <2>2 DEF V01Inv, SameAs, qh256_get, GetCell, qh256_to_bitstring, Holds
<1>2. CASE SetCall
  <2>1. PICK i \in Index, s \in Value :
          /\ q' = IF i < QH256_CELLS /\ Valid(s) THEN qh256_set(q, i, s) ELSE q
          /\ r' = IF intact THEN SetCell(r, i, s) ELSE r
          /\ UNCHANGED <<saved, savedR, intact>>
    BY <1>2 DEF SetCall
  <2>2. i \in Nat /\ s \in Nat
    BY V01Assumption
  <2>3. CASE CanSet(i, s)
    <3>1. i \in Cell /\ s \in State /\ SetCell(r, i, s) \in Vector
          /\ \A j \in Cell : GetCell(SetCell(r, i, s), j) = IF j = i THEN s ELSE GetCell(r, j)
      BY <2>2, <2>3, SetCellView DEF V01Inv
    <3>2. q' = qh256_set(q, i, s)
      BY <2>1, <2>3 DEF CanSet
    <3>3. q' \in Object /\ \A j \in Cell : qh256_get(q', j) = IF j = i THEN s ELSE qh256_get(q, j)
      BY <3>1, <3>2, SetView DEF V01Inv
    <3>4. r' \in Vector
      BY <2>1, <3>1 DEF V01Inv
    <3>5. intact => \A j \in Cell : qh256_get(q', j) = GetCell(r', j)
      BY <2>1, <3>1, <3>3 DEF V01Inv, SameAs
    <3> QED
      BY <1>1, <2>1, <3>3, <3>4, <3>5 DEF V01Inv
  <2>4. CASE ~CanSet(i, s)
    <3>1. q' = q /\ r' = r
      BY <2>1, <2>4 DEF CanSet, SetCell
    <3> QED
      BY <1>1, <2>1, <3>1 DEF V01Inv, SameAs
  <2> QED
    BY <2>3, <2>4
<1>3. CASE MergeCall
  <2>1. PICK b \in Operands : /\ q' = qh256_merge(q, Packed(b))
                              /\ r' = IF intact THEN Merge(r, b) ELSE r
                              /\ UNCHANGED <<saved, savedR, intact>>
    BY <1>3 DEF MergeCall
  <2>2. b \in Vector
    BY V01Assumption
  <2>3. q' \in Object /\ \A j \in Cell : qh256_get(q', j) = CellMerge(qh256_get(q, j), GetCell(b, j))
    BY <2>1, <2>2, MergeView, PackedView DEF V01Inv
  <2>4. Merge(r, b) \in Vector
        /\ \A j \in Cell : GetCell(Merge(r, b), j) = CellMerge(GetCell(r, j), GetCell(b, j))
    <3>1. r \in Vector
      BY DEF V01Inv
    <3> QED
      BY <2>2, <3>1, BinaryViews
  <2>5. r' \in Vector
    BY <2>1, <2>4 DEF V01Inv
  <2>6. intact => \A j \in Cell : qh256_get(q', j) = GetCell(r', j)
    BY <2>1, <2>3, <2>4 DEF V01Inv, SameAs
  <2> QED
    BY <1>1, <2>1, <2>3, <2>5, <2>6 DEF V01Inv
<1>4. CASE Zero
  <2>1. q' \in Object /\ r' \in Vector /\ intact' = TRUE /\ UNCHANGED <<saved, savedR>>
        /\ \A i \in Cell : qh256_get(q', i) = GetCell(r', i)
    BY <1>4, ZeroView, UnknownView DEF Zero
  <2> QED
    BY <1>1, <2>1
<1>5. CASE Save
  <2>1. intact /\ saved' = qh256_to_bitstring(q) /\ savedR' = r /\ UNCHANGED <<q, r, intact>>
    BY <1>5 DEF Save
  <2>2. /\ q \in Object /\ q' = q /\ r' \in Vector /\ savedR' \in Vector /\ intact' = TRUE
        /\ \A i \in Cell : qh256_get(q, i) = GetCell(r', i) /\ GetCell(r', i) = GetCell(savedR', i)
    BY <2>1 DEF V01Inv, SameAs
  <2> QED
    BY <2>1, <2>2 DEF V01Inv, SameAs, qh256_get, GetCell, qh256_to_bitstring, Holds
<1> QED
  BY <1>2, <1>3, <1>4, <1>5

LEMMA V01Invariant == Spec => []V01Inv
<1>1. Init => V01Inv
  BY ZeroView, UnknownView DEF Init, V01Inv, SameAs
<1>2. V01Inv /\ UNCHANGED vars => V01Inv'
  BY DEF V01Inv, vars, SameAs, qh256_get, GetCell, qh256_to_bitstring, Holds
<1>3. V01Inv /\ [Next]_vars => V01Inv'
  BY <1>2, CallsKeep, RestoreKeeps, DamagedKeeps DEF Next
<1> QED
  BY <1>1, <1>3, PTL DEF Spec
-----------------------------------------------------------------------------
(* The object keeps its bytes and their bits, whatever is called and       *)
(* whatever a damaged bit string holds.                                    *)
THEOREM V01TypeCorrect == Spec => []TypeOK
<1>1. V01Inv => TypeOK
  BY BitStringView DEF V01Inv, TypeOK
<1> QED
  BY <1>1, V01Invariant, PTL

(* After the same calls the byte-packed core of v0.1 and the two planes of *)
(* v2.0 hold the same state in every cell and count the same.              *)
THEOREM V01AgreesWithV2 == Spec => []AgreesWithV2
<1>1. V01Inv => AgreesWithV2
  <2> SUFFICES ASSUME V01Inv, intact, NEW s \in State
               PROVE  /\ \A i \in Cell : qh256_get(q, i) = GetCell(r, i)
                      /\ qh256_count_state(q, s) = Cardinality({i \in Cell : GetCell(r, i) = s})
    BY EncodeFacts DEF AgreesWithV2, State, QH_UNKNOWN, QH_GUARD, V01Inv, SameAs
  <2>1. \A i \in Cell : qh256_get(q, i) = GetCell(r, i)
    BY DEF V01Inv, SameAs
  <2>2. {i \in Cell : qh256_get(q, i) = s} = {i \in Cell : GetCell(r, i) = s}
    BY <2>1
  <2> QED
    BY <2>1, <2>2 DEF qh256_count_state
<1> QED
  BY <1>1, V01Invariant, PTL

(* A restore that is refused leaves in the object only evidence that the   *)
(* saved vector held: the characters before the damage were read as saved. *)
THEOREM V01RefusedInventsNothing == Spec => RefusedRestoreInventsNothing
<1>1. V01Inv /\ [Next]_vars =>
        [intact /\ ~intact' =>
           \A i \in Cell : CellLeqK(qh256_get(q', i), GetCell(savedR, i))]_vars
  <2> SUFFICES ASSUME V01Inv, [Next]_vars, intact, ~intact'
               PROVE  \A i \in Cell : CellLeqK(qh256_get(q', i), GetCell(savedR, i))
    OBVIOUS
  <2>1. RestoreDamaged
    BY CallsKeep, RestoreKeeps DEF Next, vars
  <2> QED
    BY <2>1, DamagedKeeps
<1> QED
  BY <1>1, V01Invariant, PTL DEF Spec, RefusedRestoreInventsNothing
=============================================================================
