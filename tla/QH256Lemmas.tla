----------------------------- MODULE QH256Lemmas -----------------------------
(***************************************************************************)
(* The addressing and the operations of the v2.0 core, cell by cell, for   *)
(* every number and width of words; and induction over the naturals.       *)
(***************************************************************************)
EXTENDS QH256, TLAPS, WellFoundedInduction

\* A set of numbers has a least one; and so what holds of 0 and of n + 1
\* whenever of n holds of every number.
LEMMA LeastNatural ==
  ASSUME NEW T, T \subseteq Nat, T # {}
  PROVE  \E x \in T : \A y \in T : x <= y
<1> DEFINE R == {ss \in Nat \X Nat : ss[1] < ss[2]}
<1>1. IsWellFoundedOn(R, Nat)
  BY NatLessThanWellFounded DEF OpToRel
<1> HIDE DEF R
<1>2. PICK x \in T : \A y \in T : ~(<<y, x>> \in R)
  BY <1>1, WFMin
<1>3. \A y, z \in Nat : y < z => <<y, z>> \in R
  BY DEF R
<1>4. ASSUME NEW y \in T PROVE x <= y
  <2>1. x \in Nat /\ y \in Nat
    OBVIOUS
  <2>2. ~(y < x)
    BY <1>2, <1>3, <2>1
  <2> QED
    BY <2>1, <2>2
<1> QED
  BY <1>4

LEMMA SetInduction ==
  ASSUME NEW S, 0 \in S, \A n \in Nat : n \in S => n + 1 \in S
  PROVE  Nat \subseteq S
<1> SUFFICES ASSUME Nat \ S # {} PROVE FALSE
  OBVIOUS
<1>1. PICK x \in Nat \ S : \A y \in Nat \ S : x <= y
  BY LeastNatural
<1>2. x # 0 /\ x - 1 \in Nat /\ x - 1 \in S
  BY <1>1
<1> QED
  BY <1>1, <1>2

-----------------------------------------------------------------------------
LEMMA DivMod ==
  ASSUME NEW x \in Nat, NEW n \in Nat \ {0}
  PROVE  /\ x \div n \in Nat /\ x % n \in 0 .. n - 1
         /\ x = (x \div n) * n + (x % n)
OBVIOUS

LEMMA TimesGrows ==
  ASSUME NEW a \in Nat, NEW b \in Nat, a < b, NEW n \in Nat
  PROVE  a * n + n <= b * n
<1>1. PICK d \in Nat : b = a + 1 + d
  <2>1. b - a - 1 \in Nat /\ b = a + 1 + (b - a - 1)
    OBVIOUS
  <2> QED
    BY <2>1
<1>2. b * n = a * n + n + d * n
  BY <1>1
<1>3. d * n \in Nat
  OBVIOUS
<1>4. a * n \in Nat
  OBVIOUS
<1> QED
  BY <1>2, <1>3, <1>4

\* Quotient and remainder are the only ones.
LEMMA DivModUnique ==
  ASSUME NEW n \in Nat \ {0}, NEW a \in Nat, NEW r \in 0 .. n - 1
  PROVE  (a * n + r) \div n = a /\ (a * n + r) % n = r
<1> DEFINE x == a * n + r
           d == x \div n
           m == x % n
<1>1. a * n \in Nat /\ x \in Nat
  OBVIOUS
<1>2. d \in Nat /\ m \in 0 .. n - 1 /\ x = d * n + m
  BY <1>1, DivMod
<1> HIDE DEF d, m
<1>3. d * n \in Nat
  BY <1>2
<1>4. ~(a < d)
  <2>1. a < d => a * n + n <= d * n
    BY <1>2, TimesGrows
  <2> QED
    BY <1>1, <1>2, <1>3, <2>1
<1>5. ~(d < a)
  <2>1. d < a => d * n + n <= a * n
    BY <1>2, TimesGrows
  <2> QED
    BY <1>1, <1>2, <1>3, <2>1
<1>6. d = a
  BY <1>2, <1>4, <1>5
<1>7. m = r
  BY <1>1, <1>2, <1>6
<1> QED
  BY <1>6, <1>7 DEF d, m

\* Every cell has a place of its own, and every place is a cell's.
LEMMA Addressing ==
  /\ \A i \in Cell : WordIndex(i) \in 0 .. Words - 1 /\ Bit(i) \in Bits
  /\ \A i, j \in Cell : WordIndex(i) = WordIndex(j) /\ Bit(i) = Bit(j) => i = j
  /\ \A w \in 0 .. Words - 1, b \in Bits :
       LET i == w * WordBits + b
       IN  i \in Cell /\ WordIndex(i) = w /\ Bit(i) = b
<1>1. Words \in Nat \ {0} /\ WordBits \in Nat \ {0} /\ QH256_CELLS \in Nat
  BY QH256Assumption DEF QH256_CELLS
<1>2. ASSUME NEW i \in Cell
      PROVE  /\ i \in Nat /\ i < QH256_CELLS
             /\ WordIndex(i) \in Nat /\ Bit(i) \in Bits
             /\ i = WordIndex(i) * WordBits + Bit(i)
  <2>1. i \in Nat /\ i < QH256_CELLS
    BY <1>1 DEF Cell
  <2> QED
    BY <1>1, <2>1, DivMod DEF WordIndex, Bit, Bits
<1>3. ASSUME NEW i \in Cell PROVE WordIndex(i) < Words
  <2>1. Words < WordIndex(i) \/ Words = WordIndex(i) => Words * WordBits <= WordIndex(i) * WordBits
    <3>1. Words < WordIndex(i) => Words * WordBits + WordBits <= WordIndex(i) * WordBits
      BY <1>1, <1>2, TimesGrows
    <3>2. Words * WordBits \in Nat /\ WordIndex(i) * WordBits \in Nat
      BY <1>1, <1>2
    <3> QED
      BY <1>1, <3>1, <3>2
  <2>2. Words * WordBits \in Nat /\ WordIndex(i) * WordBits \in Nat /\ Bit(i) \in Nat
    BY <1>1, <1>2 DEF Bits
  <2> QED
    BY <1>1, <1>2, <2>1, <2>2 DEF QH256_CELLS
<1>4. ASSUME NEW w \in 0 .. Words - 1, NEW b \in Bits
      PROVE  /\ w * WordBits + b \in Cell
             /\ WordIndex(w * WordBits + b) = w /\ Bit(w * WordBits + b) = b
  <2>1. w \in Nat /\ w < Words /\ b \in 0 .. WordBits - 1
    BY <1>1 DEF Bits
  <2>2. w * WordBits + WordBits <= Words * WordBits
    BY <1>1, <2>1, TimesGrows
  <2>3. w * WordBits \in Nat /\ Words * WordBits \in Nat
    BY <1>1, <2>1
  <2>4. w * WordBits + b \in Cell
    BY <1>1, <2>1, <2>2, <2>3 DEF Cell, QH256_CELLS
  <2> QED
    BY <1>1, <2>1, <2>4, DivModUnique DEF WordIndex, Bit
<1>5. \A i \in Cell : WordIndex(i) \in 0 .. Words - 1 /\ Bit(i) \in Bits
  BY <1>1, <1>2, <1>3
<1>6. \A i, j \in Cell : WordIndex(i) = WordIndex(j) /\ Bit(i) = Bit(j) => i = j
  BY <1>2
<1> QED
  BY <1>4, <1>5, <1>6
-----------------------------------------------------------------------------
\* A cell value is its two pieces of evidence.
LEMMA EncodeFacts ==
  /\ \A p, n \in BOOLEAN :
       /\ Encode(p, n) \in State /\ Valid(Encode(p, n))
       /\ HasTrue(Encode(p, n)) <=> p
       /\ HasFalse(Encode(p, n)) <=> n
  /\ \A s \in State : Encode(HasTrue(s), HasFalse(s)) = s
BY DEF Encode, State, Valid, HasTrue, HasFalse, QH_UNKNOWN, QH_FALSE, QH_TRUE, QH_GUARD

LEMMA CellView ==
  ASSUME NEW v, NEW i
  PROVE  /\ GetCell(v, i) \in State /\ Valid(GetCell(v, i))
         /\ HasTrue(GetCell(v, i)) <=> Bit(i) \in v.t[WordIndex(i)]
         /\ HasFalse(GetCell(v, i)) <=> Bit(i) \in v.f[WordIndex(i)]
<1> DEFINE p == Bit(i) \in v.t[WordIndex(i)]
           n == Bit(i) \in v.f[WordIndex(i)]
<1>1. p \in BOOLEAN /\ n \in BOOLEAN
  OBVIOUS
<1>2. GetCell(v, i) = Encode(p, n)
  BY DEF GetCell
<1> HIDE DEF p, n
<1>3. /\ Encode(p, n) \in State /\ Valid(Encode(p, n))
      /\ HasTrue(Encode(p, n)) <=> p
      /\ HasFalse(Encode(p, n)) <=> n
  BY <1>1, EncodeFacts
<1> QED
  BY <1>2, <1>3 DEF p, n

LEMMA PutBitFacts ==
  ASSUME NEW plane \in Plane, NEW i \in Cell, NEW on \in BOOLEAN
  PROVE  /\ PutBit(plane, i, on) \in Plane
         /\ \A j \in Cell : Bit(j) \in PutBit(plane, i, on)[WordIndex(j)]
                              <=> IF j = i THEN on ELSE Bit(j) \in plane[WordIndex(j)]
<1>1. WordIndex(i) \in 0 .. Words - 1 /\ Bit(i) \in Bits
  BY Addressing
<1>2. \A w \in 0 .. Words - 1 :
        PutBit(plane, i, on)[w] = IF w = WordIndex(i)
                                  THEN (plane[w] \ {Bit(i)}) \cup (IF on THEN {Bit(i)} ELSE {})
                                  ELSE plane[w]
  BY <1>1 DEF PutBit, Plane
<1>3. PutBit(plane, i, on) \in Plane
  BY <1>1 DEF PutBit, Plane
<1>4. ASSUME NEW j \in Cell
      PROVE  Bit(j) \in PutBit(plane, i, on)[WordIndex(j)]
               <=> IF j = i THEN on ELSE Bit(j) \in plane[WordIndex(j)]
  <2>1. WordIndex(j) \in 0 .. Words - 1
    BY Addressing
  <2>2. j # i => WordIndex(j) # WordIndex(i) \/ Bit(j) # Bit(i)
    BY Addressing
  <2> QED
    BY <1>2, <2>1, <2>2
<1> QED
  BY <1>3, <1>4

LEMMA SetCellView ==
  ASSUME NEW v \in Vector, NEW i \in Nat, NEW s \in Nat, CanSet(i, s)
  PROVE  /\ i \in Cell /\ s \in State
         /\ SetCell(v, i, s) \in Vector
         /\ \A j \in Cell : GetCell(SetCell(v, i, s), j) = IF j = i THEN s ELSE GetCell(v, j)
<1>1. i \in Cell /\ s \in State
  BY QH256Assumption DEF CanSet, Valid, Cell, QH256_CELLS
<1>2. SetCell(v, i, s) = [t |-> PutBit(v.t, i, HasTrue(s)), f |-> PutBit(v.f, i, HasFalse(s))]
  BY DEF SetCell
<1>3. v.t \in Plane /\ v.f \in Plane /\ HasTrue(s) \in BOOLEAN /\ HasFalse(s) \in BOOLEAN
  BY DEF Vector, HasTrue, HasFalse
<1>4. SetCell(v, i, s) \in Vector
  BY <1>1, <1>2, <1>3, PutBitFacts DEF Vector
<1>5. ASSUME NEW j \in Cell
      PROVE  GetCell(SetCell(v, i, s), j) = IF j = i THEN s ELSE GetCell(v, j)
  <2>1. /\ Bit(j) \in SetCell(v, i, s).t[WordIndex(j)]
             <=> IF j = i THEN HasTrue(s) ELSE Bit(j) \in v.t[WordIndex(j)]
        /\ Bit(j) \in SetCell(v, i, s).f[WordIndex(j)]
             <=> IF j = i THEN HasFalse(s) ELSE Bit(j) \in v.f[WordIndex(j)]
    BY <1>1, <1>2, <1>3, PutBitFacts
  <2>2. CASE j = i
    <3>1. GetCell(SetCell(v, i, s), j) = Encode(HasTrue(s), HasFalse(s))
      BY <2>1, <2>2 DEF GetCell, Encode
    <3> QED
      BY <1>1, <2>2, <3>1, EncodeFacts
  <2>3. CASE j # i
    BY <2>1, <2>3 DEF GetCell, Encode
  <2> QED
    BY <2>2, <2>3
<1> QED
  BY <1>1, <1>4, <1>5

\* The binary operations, plane by plane and cell by cell.
LEMMA JoinMeet ==
  ASSUME NEW p \in Plane, NEW r \in Plane
  PROVE  /\ Join(p, r) \in Plane /\ Meet(p, r) \in Plane
         /\ \A w \in 0 .. Words - 1 : Join(p, r)[w] = p[w] \cup r[w] /\ Meet(p, r)[w] = p[w] \cap r[w]
BY DEF Join, Meet, Plane

LEMMA BinaryViews ==
  ASSUME NEW a \in Vector, NEW b \in Vector
  PROVE  /\ Merge(a, b) \in Vector /\ And(a, b) \in Vector /\ Or(a, b) \in Vector /\ Not(a) \in Vector
         /\ \A j \in Cell :
              /\ GetCell(Merge(a, b), j) = CellMerge(GetCell(a, j), GetCell(b, j))
              /\ GetCell(And(a, b), j) = CellAnd(GetCell(a, j), GetCell(b, j))
              /\ GetCell(Or(a, b), j) = CellOr(GetCell(a, j), GetCell(b, j))
              /\ GetCell(Not(a), j) = CellNot(GetCell(a, j))
<1>1. a.t \in Plane /\ a.f \in Plane /\ b.t \in Plane /\ b.f \in Plane
  BY DEF Vector
<1>2. Merge(a, b) \in Vector /\ And(a, b) \in Vector /\ Or(a, b) \in Vector /\ Not(a) \in Vector
  BY <1>1, JoinMeet DEF Merge, And, Or, Not, Vector
<1>3. ASSUME NEW j \in Cell
      PROVE  /\ GetCell(Merge(a, b), j) = CellMerge(GetCell(a, j), GetCell(b, j))
             /\ GetCell(And(a, b), j) = CellAnd(GetCell(a, j), GetCell(b, j))
             /\ GetCell(Or(a, b), j) = CellOr(GetCell(a, j), GetCell(b, j))
             /\ GetCell(Not(a), j) = CellNot(GetCell(a, j))
  <2> DEFINE w == WordIndex(j)
             x == Bit(j)
  <2>1. w \in 0 .. Words - 1
    BY Addressing
  <2>2. /\ Valid(GetCell(a, j)) /\ Valid(GetCell(b, j))
        /\ HasTrue(GetCell(a, j)) <=> x \in a.t[w]
        /\ HasFalse(GetCell(a, j)) <=> x \in a.f[w]
        /\ HasTrue(GetCell(b, j)) <=> x \in b.t[w]
        /\ HasFalse(GetCell(b, j)) <=> x \in b.f[w]
    BY CellView
  <2> HIDE DEF w, x
  <2>3. GetCell(Merge(a, b), j) = CellMerge(GetCell(a, j), GetCell(b, j))
    <3>1. /\ Merge(a, b).t[w] = a.t[w] \cup b.t[w] /\ Merge(a, b).f[w] = a.f[w] \cup b.f[w]
      BY <1>1, <2>1, JoinMeet DEF Merge
    <3>2. GetCell(Merge(a, b), j) = Encode(x \in Merge(a, b).t[w], x \in Merge(a, b).f[w])
      BY DEF GetCell, w, x
    <3> QED
      BY <2>2, <3>1, <3>2 DEF CellMerge, Encode
  <2>4. GetCell(And(a, b), j) = CellAnd(GetCell(a, j), GetCell(b, j))
    <3>1. /\ And(a, b).t[w] = a.t[w] \cap b.t[w] /\ And(a, b).f[w] = a.f[w] \cup b.f[w]
      BY <1>1, <2>1, JoinMeet DEF And
    <3>2. GetCell(And(a, b), j) = Encode(x \in And(a, b).t[w], x \in And(a, b).f[w])
      BY DEF GetCell, w, x
    <3> QED
      BY <2>2, <3>1, <3>2 DEF CellAnd, Encode
  <2>5. GetCell(Or(a, b), j) = CellOr(GetCell(a, j), GetCell(b, j))
    <3>1. /\ Or(a, b).t[w] = a.t[w] \cup b.t[w] /\ Or(a, b).f[w] = a.f[w] \cap b.f[w]
      BY <1>1, <2>1, JoinMeet DEF Or
    <3>2. GetCell(Or(a, b), j) = Encode(x \in Or(a, b).t[w], x \in Or(a, b).f[w])
      BY DEF GetCell, w, x
    <3> QED
      BY <2>2, <3>1, <3>2 DEF CellOr, Encode
  <2>6. GetCell(Not(a), j) = CellNot(GetCell(a, j))
    <3>1. GetCell(Not(a), j) = Encode(x \in a.f[w], x \in a.t[w])
      BY DEF GetCell, Not, w, x
    <3> QED
      BY <2>2, <3>1 DEF CellNot, Encode
  <2> QED
    BY <2>3, <2>4, <2>5, <2>6
<1> QED
  BY <1>2, <1>3
-----------------------------------------------------------------------------
LEMMA WordBytesFacts ==
  /\ WordBits \in Nat \ {0} /\ ByteBits \in Nat \ {0} /\ WordBytes \in Nat \ {0}
  /\ WordBytes * ByteBits = WordBits
<1>1. WordBits \in Nat \ {0} /\ ByteBits \in Nat \ {0} /\ WordBits % ByteBits = 0
  BY QH256Assumption
<1>2. WordBytes \in Nat /\ WordBits = WordBytes * ByteBits + 0
  BY <1>1, DivMod DEF WordBytes
<1>3. WordBytes # 0
  BY <1>1, <1>2
<1> QED
  BY <1>1, <1>2, <1>3

\* A word is read back from the bytes it was put into.
LEMMA WordRoundTrip ==
  ASSUME NEW word \in SUBSET Bits
  PROVE  GetLE([k \in 0 .. WordBytes - 1 |-> PutLE(word, k)]) = word
<1>1. ASSUME NEW x \in Bits
      PROVE  x \div ByteBits \in 0 .. WordBytes - 1
             /\ (x % ByteBits \in PutLE(word, x \div ByteBits) <=> x \in word)
  <2>1. x \in Nat /\ x < WordBits
    BY WordBytesFacts DEF Bits
  <2>2. /\ x \div ByteBits \in Nat /\ x % ByteBits \in 0 .. ByteBits - 1
        /\ x = (x \div ByteBits) * ByteBits + (x % ByteBits)
    BY <2>1, DivMod, WordBytesFacts
  <2>3. ~(WordBytes <= x \div ByteBits)
    <3> DEFINE d == x \div ByteBits
    <3>1. d \in Nat /\ WordBytes \in Nat /\ ByteBits \in Nat
      BY <2>2, WordBytesFacts
    <3> HIDE DEF d
    <3>2. WordBytes < d => WordBytes * ByteBits + ByteBits <= d * ByteBits
      BY <3>1, TimesGrows
    <3>3. d * ByteBits <= x /\ d * ByteBits \in Nat
      BY <2>1, <2>2, <3>1 DEF d
    <3>4. WordBytes = d => WordBytes * ByteBits = d * ByteBits
      OBVIOUS
    <3>5. ~(WordBytes < d) /\ WordBytes # d
      BY <2>1, <3>1, <3>2, <3>3, <3>4, WordBytesFacts
    <3> QED
      BY <3>1, <3>5 DEF d
  <2>4. x % ByteBits \in PutLE(word, x \div ByteBits) <=> x \in word
    BY <2>2 DEF PutLE
  <2>5. x \div ByteBits \in 0 .. WordBytes - 1
    BY <2>2, <2>3, WordBytesFacts
  <2> QED
    BY <2>4, <2>5
<1>2. \A x \in Bits : x \in GetLE([k \in 0 .. WordBytes - 1 |-> PutLE(word, k)]) <=> x \in word
  BY <1>1 DEF GetLE
<1>3. GetLE([k \in 0 .. WordBytes - 1 |-> PutLE(word, k)]) \subseteq Bits
  BY DEF GetLE
<1> QED
  BY <1>2, <1>3

\* The W-th of the serialized words.
LEMMA SerializedByte ==
  ASSUME NEW v \in Vector, NEW W \in 0 .. 2 * Words - 1, NEW k \in 0 .. WordBytes - 1
  PROVE  Serialize(v)[W * WordBytes + k] = PutLE(IF W < Words THEN v.t[W] ELSE v.f[W - Words], k)
<1> DEFINE j == W * WordBytes + k
<1>1. Words \in Nat \ {0} /\ WordBytes \in Nat \ {0} /\ W \in Nat /\ k \in Nat /\ W < 2 * Words
      /\ k < WordBytes
  BY WordBytesFacts, QH256Assumption
<1>2. j \div WordBytes = W /\ j % WordBytes = k
  BY <1>1, DivModUnique
<1>3. W * WordBytes + WordBytes <= (2 * Words) * WordBytes
  BY <1>1, TimesGrows
<1>4. W * WordBytes \in Nat /\ 2 * Words * WordBytes \in Nat
  BY <1>1
<1>5. j \in 0 .. 2 * Words * WordBytes - 1
  BY <1>1, <1>3, <1>4
<1> HIDE DEF j
<1>6. Serialize(v)[j] = PutLE(IF W < Words THEN v.t[W] ELSE v.f[W - Words], k)
  BY <1>2, <1>5 DEF Serialize
<1> QED
  BY <1>6 DEF j

LEMMA ReloadView ==
  ASSUME NEW v \in Vector
  PROVE  Deserialize(Serialize(v)) = v
<1> DEFINE WordAt(w) == GetLE([k \in 0 .. WordBytes - 1 |-> Serialize(v)[w * WordBytes + k]])
<1>1. ASSUME NEW w \in 0 .. 2 * Words - 1
      PROVE  WordAt(w) = IF w < Words THEN v.t[w] ELSE v.f[w - Words]
  <2> DEFINE word == IF w < Words THEN v.t[w] ELSE v.f[w - Words]
  <2>1. word \in SUBSET Bits
    <3>1. Words \in Nat
      BY QH256Assumption
    <3>2. w < Words => w \in 0 .. Words - 1
      BY <3>1
    <3>3. ~(w < Words) => w - Words \in 0 .. Words - 1
      BY <3>1
    <3> QED
      BY <3>2, <3>3 DEF Vector, Plane
  <2>2. \A k \in 0 .. WordBytes - 1 : Serialize(v)[w * WordBytes + k] = PutLE(word, k)
    BY SerializedByte
  <2> HIDE DEF word
  <2>3. WordAt(w) = GetLE([k \in 0 .. WordBytes - 1 |-> PutLE(word, k)])
    BY <2>2
  <2>4. WordAt(w) = word
    BY <2>1, <2>3, WordRoundTrip
  <2> QED
    BY <2>4 DEF word
<1>2. Deserialize(Serialize(v)) = [t |-> [w \in 0 .. Words - 1 |-> WordAt(w)],
                                   f |-> [w \in 0 .. Words - 1 |-> WordAt(w + Words)]]
  BY DEF Deserialize
<1> HIDE DEF WordAt
<1>3. \A w \in 0 .. Words - 1 : WordAt(w) = v.t[w] /\ WordAt(w + Words) = v.f[w]
  <2> TAKE w \in 0 .. Words - 1
  <2>1. /\ w \in 0 .. 2 * Words - 1 /\ w + Words \in 0 .. 2 * Words - 1
        /\ w < Words /\ ~(w + Words < Words) /\ (w + Words) - Words = w
    BY QH256Assumption
  <2> QED
    BY <1>1, <2>1
<1>4. [w \in 0 .. Words - 1 |-> WordAt(w)] = v.t /\ [w \in 0 .. Words - 1 |-> WordAt(w + Words)] = v.f
  BY <1>3 DEF Vector, Plane
<1>5. v = [t |-> v.t, f |-> v.f]
  BY DEF Vector
<1> QED
  BY <1>2, <1>4, <1>5
-----------------------------------------------------------------------------
LEMMA UnknownView ==
  /\ Unknown \in Vector
  /\ \A j \in Cell : GetCell(Unknown, j) = QH_UNKNOWN
<1>1. Unknown \in Vector
  BY DEF Unknown, Vector, Plane
<1>2. \A j \in Cell : GetCell(Unknown, j) = QH_UNKNOWN
  BY Addressing DEF GetCell, Encode, Unknown, QH_UNKNOWN
<1> QED
  BY <1>1, <1>2

\* A bit of a plane is the evidence of a cell.
LEMMA PlaneCells ==
  ASSUME NEW p \in Plane, NEW r \in Plane
  PROVE  /\ Within(p, r) <=>
              \A j \in Cell : Bit(j) \in p[WordIndex(j)] => Bit(j) \in r[WordIndex(j)]
         /\ (\E w \in 0 .. Words - 1 : p[w] # {}) <=> \E j \in Cell : Bit(j) \in p[WordIndex(j)]
<1>1. \A w \in 0 .. Words - 1 : p[w] \subseteq Bits /\ r[w] \subseteq Bits
  BY DEF Plane
<1>2. \A j \in Cell : WordIndex(j) \in 0 .. Words - 1
  BY Addressing
<1>3. ASSUME NEW w \in 0 .. Words - 1, NEW b \in p[w]
      PROVE  \E j \in Cell : WordIndex(j) = w /\ Bit(j) = b
  <2>1. b \in Bits
    BY <1>1
  <2>2. LET i == w * WordBits + b
        IN  i \in Cell /\ WordIndex(i) = w /\ Bit(i) = b
    BY <2>1, Addressing
  <2> QED
    BY <2>2
<1>4. Within(p, r) => \A j \in Cell : Bit(j) \in p[WordIndex(j)] => Bit(j) \in r[WordIndex(j)]
  BY <1>2 DEF Within
<1>5. ASSUME \A j \in Cell : Bit(j) \in p[WordIndex(j)] => Bit(j) \in r[WordIndex(j)]
      PROVE  Within(p, r)
  <2>1. ASSUME NEW w \in 0 .. Words - 1, NEW b \in p[w] PROVE b \in r[w]
    BY <1>3, <1>5, <2>1
  <2> QED
    BY <2>1 DEF Within
<1>6. (\E w \in 0 .. Words - 1 : p[w] # {}) <=> \E j \in Cell : Bit(j) \in p[WordIndex(j)]
  <2>1. ASSUME NEW w \in 0 .. Words - 1, p[w] # {}
        PROVE  \E j \in Cell : Bit(j) \in p[WordIndex(j)]
    <3>1. PICK b : b \in p[w]
      BY <2>1
    <3> QED
      BY <1>3, <3>1
  <2>2. ASSUME NEW j \in Cell, Bit(j) \in p[WordIndex(j)]
        PROVE  \E w \in 0 .. Words - 1 : p[w] # {}
    BY <1>2, <2>2
  <2> QED
    BY <2>1, <2>2
<1> QED
  BY <1>4, <1>5, <1>6
=============================================================================
