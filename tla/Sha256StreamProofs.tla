------------------------- MODULE Sha256StreamProofs -------------------------
(***************************************************************************)
(* What is compressed is the padded message, for every size of a block,    *)
(* every width of the length and every message.                            *)
(***************************************************************************)
EXTENDS Sha256Stream, TLAPS, WellFoundedInduction, SequenceTheorems

\* What holds of 0 and of n + 1 whenever of n holds of every number.
LEMMA SetInduction ==
  ASSUME NEW S, 0 \in S, \A n \in Nat : n \in S => n + 1 \in S
  PROVE  Nat \subseteq S
<1> DEFINE R == {ss \in Nat \X Nat : ss[1] < ss[2]}
           T == Nat \ S
<1>1. IsWellFoundedOn(R, Nat)
  BY NatLessThanWellFounded DEF OpToRel
<1>2. \A y, z \in Nat : y < z => <<y, z>> \in R
  OBVIOUS
<1> HIDE DEF R
<1> SUFFICES ASSUME T # {} PROVE FALSE
  OBVIOUS
<1>3. PICK x \in T : \A y \in T : ~(<<y, x>> \in R)
  <2>1. T \subseteq Nat
    OBVIOUS
  <2> HIDE DEF T
  <2> QED
    BY <1>1, <2>1, WFMin
<1>4. x \in Nat /\ x # 0 /\ x - 1 \in Nat /\ x - 1 < x /\ (x - 1) + 1 = x
  OBVIOUS
<1>5. x - 1 \in S
  BY <1>2, <1>3, <1>4
<1> QED
  BY <1>4, <1>5

LEMMA DivMod ==
  ASSUME NEW x \in Nat, NEW n \in Nat \ {0}
  PROVE  /\ x \div n \in Nat /\ x % n \in 0 .. n - 1
         /\ x = (x \div n) * n + (x % n)
OBVIOUS

LEMMA TimesGrows ==
  ASSUME NEW a \in Nat, NEW b \in Nat, a < b, NEW n \in Nat
  PROVE  a * n + n <= b * n
<1>1. PICK d \in Nat : b = a + 1 + d
  <2>1. b - a - 1 \in Nat /\ b = a + 1 + (b - a - 1)
    OBVIOUS
  <2> QED
    BY <2>1
<1>2. b * n = a * n + n + d * n
  BY <1>1
<1>3. d * n \in Nat /\ a * n \in Nat
  OBVIOUS
<1> QED
  BY <1>2, <1>3

\* Quotient and remainder are the only ones.
LEMMA DivModUnique ==
  ASSUME NEW n \in Nat \ {0}, NEW a \in Nat, NEW r \in 0 .. n - 1
  PROVE  (a * n + r) \div n = a /\ (a * n + r) % n = r
<1> DEFINE x == a * n + r
           d == x \div n
           m == x % n
<1>1. a * n \in Nat /\ x \in Nat
  OBVIOUS
<1>2. d \in Nat /\ m \in 0 .. n - 1 /\ x = d * n + m
  BY <1>1, DivMod
<1> HIDE DEF d, m
<1>3. d * n \in Nat
  BY <1>2
<1>4. ~(a < d)
  <2>1. a < d => a * n + n <= d * n
    BY <1>2, TimesGrows
  <2> QED
    BY <1>1, <1>2, <1>3, <2>1
<1>5. ~(d < a)
  <2>1. d < a => d * n + n <= a * n
    BY <1>2, TimesGrows
  <2> QED
    BY <1>1, <1>2, <1>3, <2>1
<1>6. d = a
  BY <1>2, <1>4, <1>5
<1>7. m = r
  BY <1>1, <1>2, <1>6
<1> QED
  BY <1>6, <1>7 DEF d, m

\* A remainder may be taken before adding.
LEMMA ModAdd ==
  ASSUME NEW x \in Nat, NEW y \in Nat, NEW n \in Nat \ {0}
  PROVE  ((x % n) + y) % n = (x + y) % n
<1> DEFINE p == x \div n
           r == x % n
           z == r + y
           s == z \div n
           t == z % n
<1>1. p \in Nat /\ r \in Nat /\ x = p * n + r
  BY DivMod
<1> HIDE DEF p, r
<1>2. z \in Nat
  BY <1>1
<1>3. s \in Nat /\ t \in 0 .. n - 1 /\ z = s * n + t
  BY <1>2, DivMod
<1>4. x + y = p * n + z
  <2>1. p * n \in Nat
    BY <1>1
  <2> QED
    BY <1>1, <2>1
<1> HIDE DEF s, t
<1>5. p * n + s * n = (p + s) * n /\ p + s \in Nat
  BY <1>1, <1>3
<1>6. x + y = (p + s) * n + t
  <2>1. p * n \in Nat /\ s * n \in Nat /\ (p + s) * n \in Nat
    BY <1>1, <1>3
  <2> HIDE DEF z
  <2> QED
    BY <1>3, <1>4, <1>5, <2>1
<1>7. ((p + s) * n + t) % n = t
  BY <1>3, <1>5, DivModUnique
<1> QED
  BY <1>6, <1>7 DEF t, z, r

\* Division in two steps.
LEMMA Nested ==
  ASSUME NEW x \in Nat, NEW a \in Nat \ {0}, NEW b \in Nat \ {0}
  PROVE  /\ x \div (a * b) = (x \div a) \div b
         /\ x % (a * b) = ((x \div a) % b) * a + (x % a)
<1> DEFINE p == x \div a
           r == x % a
           q == p \div b
           s == p % b
<1>1. p \in Nat /\ r \in 0 .. a - 1 /\ x = p * a + r
  BY DivMod
<1>2. q \in Nat /\ s \in 0 .. b - 1 /\ p = q * b + s
  BY <1>1, DivMod
<1> HIDE DEF p, r, q, s
<1>3. a * b \in Nat \ {0}
  OBVIOUS
<1>4. s * a \in Nat /\ s * a + a <= a * b
  <2>1. s < b /\ s \in Nat
    BY <1>2
  <2>2. s * a + a <= b * a
    BY <2>1, TimesGrows
  <2> QED
    BY <2>1, <2>2
<1>5. s * a + r \in 0 .. a * b - 1
  BY <1>1, <1>3, <1>4
<1>6. x = q * (a * b) + (s * a + r)
  <2>1. (q * b + s) * a = q * (a * b) + s * a
    BY <1>2
  <2>2. q * (a * b) \in Nat
    BY <1>2, <1>3
  <2>3. p * a = q * (a * b) + s * a
    BY <1>2, <2>1
  <2> QED
    BY <1>1, <1>4, <2>2, <2>3
<1>7. x \div (a * b) = q /\ x % (a * b) = s * a + r
  BY <1>2, <1>3, <1>5, <1>6, DivModUnique
<1> QED
  BY <1>7 DEF p, r, q, s

\* What a remainder drops lies above its divisors.
LEMMA Dropped ==
  ASSUME NEW x \in Nat, NEW w \in Nat \ {0}, NEW v \in Nat \ {0}, NEW c \in Nat \ {0}
  PROVE  ((x % (w * (v * c))) \div w) % v = (x \div w) % v
<1> DEFINE z == x \div w
           r == x % w
           e == v * c
           s == z % e
           y == z \div v
           t == z % v
           u == y % c
<1>1. e \in Nat \ {0}
  OBVIOUS
<1>2. z \in Nat /\ r \in 0 .. w - 1
  BY DivMod
<1>3. y \in Nat /\ t \in 0 .. v - 1
  <2> HIDE DEF z
  <2> QED
    BY <1>2, DivMod
<1>4. u \in Nat
  <2> HIDE DEF y
  <2> QED
    BY <1>3, DivMod
<1>5. s = u * v + t
  <2> HIDE DEF z
  <2>1. z % (v * c) = ((z \div v) % c) * v + (z % v)
    BY <1>2, Nested
  <2> QED
    BY <2>1
<1>6. x % (w * e) = s * w + r
  <2> HIDE DEF e
  <2>1. x % (w * e) = ((x \div w) % e) * w + (x % w)
    BY <1>1, Nested
  <2> QED
    BY <2>1
<1>7. s \in Nat
  <2> HIDE DEF z, e
  <2> QED
    BY <1>1, <1>2, DivMod
<1> HIDE DEF z, r, e, s, y, t, u
<1>8. s % v = t
  BY <1>3, <1>4, <1>5, DivModUnique
<1>9. (s * w + r) \div w = s
  BY <1>2, <1>7, DivModUnique
<1>10. ((x % (w * e)) \div w) % v = t
  BY <1>6, <1>8, <1>9
<1> QED
  BY <1>10 DEF z, e, t
-----------------------------------------------------------------------------
LEMMA Sizes ==
  /\ BlockBytes \in Nat \ {0} /\ LengthBytes \in Nat \ {0} /\ Room \in Nat \ {0}
  /\ BlockBytes = Room + LengthBytes /\ ByteBits \in Nat \ {0} /\ ByteValues \in Nat \ {0}
  /\ Index = 0 .. BlockBytes - 1 /\ 0 \in Bytes /\ Mark \in Bytes
<1>1. ByteValues \div 2 \in 0 .. ByteValues - 1
  BY Sha256Assumption
<1> QED
  BY <1>1, Sha256Assumption DEF Room, Index, Bytes, Mark

\* The recursive functions exist, that is, they are what their equations say.
IsWeight(f, n) == f = [k \in 0 .. n |-> IF k = 0 THEN 1 ELSE f[k - 1] * ByteValues]
LEMMA WeightExists == \A n \in Nat : \E f : IsWeight(f, n)
<1> DEFINE G == {n \in Nat : \E f : IsWeight(f, n)}
<1>1. 0 \in G
  <2>1. IsWeight([k \in 0 .. 0 |-> 1], 0)
    BY DEF IsWeight
  <2> QED
    BY <2>1
<1>2. ASSUME NEW n \in Nat, n \in G PROVE n + 1 \in G
  <2>1. PICK f : IsWeight(f, n)
    BY <1>2
  <2> DEFINE e == [k \in 0 .. n + 1 |-> IF k = n + 1 THEN f[n] * ByteValues ELSE f[k]]
  <2>2. ASSUME NEW k \in 0 .. n + 1 PROVE e[k] = IF k = 0 THEN 1 ELSE e[k - 1] * ByteValues
    BY <2>1, <2>2 DEF IsWeight
  <2>3. IsWeight(e, n + 1)
    BY <2>2 DEF IsWeight
  <2> HIDE DEF e
  <2> QED
    BY <2>3
<1>3. Nat \subseteq G
  <2> HIDE DEF G
  <2> QED
    BY <1>1, <1>2, SetInduction
<1> QED
  BY <1>3

LEMMA WeightFacts ==
  /\ Weight[0] = 1
  /\ \A k \in 0 .. LengthBytes - 1 : Weight[k + 1] = Weight[k] * ByteValues
  /\ \A k \in 0 .. LengthBytes : Weight[k] \in Nat \ {0}
<1>1. Weight = [k \in 0 .. LengthBytes |-> IF k = 0 THEN 1 ELSE Weight[k - 1] * ByteValues]
  <2>1. \E f : IsWeight(f, LengthBytes)
    BY WeightExists, Sizes
  <2> QED
    BY <2>1 DEF Weight, IsWeight
<1>2. Weight[0] = 1
  BY <1>1, Sizes
<1>3. ASSUME NEW k \in 0 .. LengthBytes - 1 PROVE Weight[k + 1] = Weight[k] * ByteValues
  <2>1. k + 1 \in 0 .. LengthBytes /\ k + 1 # 0 /\ (k + 1) - 1 = k
    BY Sizes
  <2> QED
    BY <1>1, <2>1
<1> DEFINE G == {k \in Nat : k <= LengthBytes => Weight[k] \in Nat \ {0}}
<1>4. 0 \in G
  BY <1>2
<1>5. ASSUME NEW k \in Nat, k \in G PROVE k + 1 \in G
  <2> SUFFICES ASSUME k + 1 <= LengthBytes PROVE Weight[k + 1] \in Nat \ {0}
    OBVIOUS
  <2>1. k \in 0 .. LengthBytes - 1 /\ Weight[k] \in Nat \ {0} /\ ByteValues \in Nat \ {0}
    BY <1>5, Sizes
  <2>2. \A x, y \in Nat \ {0} : x * y \in Nat \ {0}
    OBVIOUS
  <2> QED
    BY <1>3, <2>1, <2>2
<1>6. Nat \subseteq G
  <2> HIDE DEF G
  <2> QED
    BY <1>4, <1>5, SetInduction
<1> QED
  BY <1>2, <1>3, <1>6

\* The weight of every byte divides the modulus of the count.
LEMMA WeightDivides ==
  \A k \in 0 .. LengthBytes : \E c \in Nat \ {0} : LengthMod = Weight[k] * c
<1> DEFINE G == {j \in Nat : j <= LengthBytes =>
                    \E c \in Nat \ {0} : LengthMod = Weight[LengthBytes - j] * c}
<1>1. 0 \in G
  <2>1. LengthBytes - 0 = LengthBytes /\ Weight[LengthBytes] \in Nat
    BY Sizes, WeightFacts
  <2>2. LengthMod = Weight[LengthBytes - 0] * 1
    BY <2>1 DEF LengthMod
  <2> QED
    BY <2>2
<1>2. ASSUME NEW j \in Nat, j \in G PROVE j + 1 \in G
  <2> SUFFICES ASSUME j + 1 <= LengthBytes
               PROVE  \E c \in Nat \ {0} : LengthMod = Weight[LengthBytes - (j + 1)] * c
    OBVIOUS
  <2>1. PICK c \in Nat \ {0} : LengthMod = Weight[LengthBytes - j] * c
    BY <1>2, Sizes
  <2> DEFINE i == LengthBytes - (j + 1)
  <2>2. i \in 0 .. LengthBytes - 1 /\ i + 1 = LengthBytes - j
    BY Sizes
  <2> HIDE DEF i
  <2>3. Weight[LengthBytes - j] = Weight[i] * ByteValues /\ Weight[i] \in Nat
    BY <2>2, WeightFacts, Sizes
  <2>4. \A x \in Nat, y, z \in Nat \ {0} : (x * y) * z = x * (y * z) /\ y * z \in Nat \ {0}
    OBVIOUS
  <2>5. LengthMod = Weight[i] * (ByteValues * c) /\ ByteValues * c \in Nat \ {0}
    BY <2>1, <2>3, <2>4, Sizes
  <2> QED
    BY <2>5 DEF i
<1>3. Nat \subseteq G
  <2> HIDE DEF G
  <2> QED
    BY <1>1, <1>2, SetInduction
<1>4. ASSUME NEW k \in 0 .. LengthBytes PROVE \E c \in Nat \ {0} : LengthMod = Weight[k] * c
  <2>1. LengthBytes - k \in Nat /\ LengthBytes - k <= LengthBytes /\ LengthBytes - (LengthBytes - k) = k
    BY Sizes
  <2> QED
    BY <1>3, <2>1
<1> QED
  BY <1>4

\* What the count drops is not in the bytes that are stored of it.
LEMMA CountedBytes ==
  ASSUME NEW x \in Nat, NEW k \in 0 .. LengthBytes - 1
  PROVE  ((x % LengthMod) \div Weight[k]) % ByteValues = (x \div Weight[k]) % ByteValues
<1>1. k \in 0 .. LengthBytes /\ k + 1 \in 0 .. LengthBytes
  BY Sizes
<1>2. PICK c \in Nat \ {0} : LengthMod = Weight[k + 1] * c
  BY <1>1, WeightDivides
<1> DEFINE w == Weight[k]
           v == ByteValues
<1>3. w \in Nat \ {0} /\ v \in Nat \ {0} /\ Weight[k + 1] = w * v
  BY <1>1, WeightFacts, Sizes
<1> HIDE DEF w, v
<1>4. LengthMod = w * (v * c) /\ v * c \in Nat \ {0}
  <2>1. \A a, b, d \in Nat \ {0} : (a * b) * d = a * (b * d) /\ b * d \in Nat \ {0}
    OBVIOUS
  <2> QED
    BY <1>2, <1>3, <2>1
<1>5. ((x % (w * (v * c))) \div w) % v = (x \div w) % v
  BY <1>3, Dropped, ZenonT(40)
<1> QED
  BY <1>4, <1>5 DEF w, v

IsWord(f, block, n) ==
  f = [k \in 0 .. n |-> IF k = 0 THEN 0 ELSE f[k - 1] * ByteValues + block[Room + k - 1]]
LEMMA WordExists == \A block : \A n \in Nat : \E f : IsWord(f, block, n)
<1> SUFFICES ASSUME NEW block PROVE \A n \in Nat : \E f : IsWord(f, block, n)
  OBVIOUS
<1> DEFINE G == {n \in Nat : \E f : IsWord(f, block, n)}
<1>1. 0 \in G
  <2>1. IsWord([k \in 0 .. 0 |-> 0], block, 0)
    BY DEF IsWord
  <2> QED
    BY <2>1
<1>2. ASSUME NEW n \in Nat, n \in G PROVE n + 1 \in G
  <2>1. PICK f : IsWord(f, block, n)
    BY <1>2
  <2> DEFINE e == [k \in 0 .. n + 1 |->
                     IF k = n + 1 THEN f[n] * ByteValues + block[Room + n] ELSE f[k]]
  <2>2. ASSUME NEW k \in 0 .. n + 1
        PROVE  e[k] = IF k = 0 THEN 0 ELSE e[k - 1] * ByteValues + block[Room + k - 1]
    <3>1. CASE k = n + 1
      <4>1. n \in 0 .. n + 1 /\ n # n + 1 /\ k # 0 /\ k - 1 = n /\ Room + k - 1 = Room + n
        BY <3>1, Sizes
      <4> QED
        BY <3>1, <4>1
    <3>2. CASE k # n + 1 /\ k # 0
      <4>1. k \in 0 .. n /\ k - 1 \in 0 .. n + 1 /\ k - 1 # n + 1
        BY <3>2
      <4>2. f[k] = f[k - 1] * ByteValues + block[Room + k - 1]
        BY <2>1, <3>2, <4>1 DEF IsWord
      <4> QED
        BY <3>2, <4>1, <4>2
    <3>3. CASE k = 0
      BY <2>1, <3>3 DEF IsWord
    <3> QED
      BY <3>1, <3>2, <3>3
  <2>3. IsWord(e, block, n + 1)
    BY <2>2 DEF IsWord
  <2> HIDE DEF e
  <2> QED
    BY <2>3
<1>3. Nat \subseteq G
  <2> HIDE DEF G
  <2> QED
    BY <1>1, <1>2, SetInduction
<1> QED
  BY <1>3

\* The length stored at the end of a block reads back.
LEMMA LengthReadsBack ==
  ASSUME NEW block, NEW x \in 0 .. LengthMod - 1,
         \A k \in 0 .. LengthBytes - 1 : block[BlockBytes - 1 - k] = (x \div Weight[k]) % ByteValues
  PROVE  LengthRead(block) = x
<1> DEFINE word[k \in 0 .. LengthBytes] ==
             IF k = 0 THEN 0 ELSE word[k - 1] * ByteValues + block[Room + k - 1]
<1>1. word = [k \in 0 .. LengthBytes |->
                IF k = 0 THEN 0 ELSE word[k - 1] * ByteValues + block[Room + k - 1]]
  <2>1. \E f : IsWord(f, block, LengthBytes)
    BY WordExists, Sizes
  <2> QED
    BY <2>1 DEF IsWord
<1>2. LengthRead(block) = word[LengthBytes]
  BY DEF LengthRead
<1> HIDE DEF word
<1>3. x \in Nat /\ LengthMod \in Nat \ {0}
  BY WeightFacts, Sizes DEF LengthMod
<1> DEFINE G == {k \in Nat : k <= LengthBytes => word[k] = x \div Weight[LengthBytes - k]}
<1>4. 0 \in G
  <2>1. word[0] = 0
    BY <1>1, Sizes
  <2>2. x = 0 * LengthMod + x
    BY <1>3
  <2>3. x \div LengthMod = 0
    BY <1>3, <2>2, DivModUnique
  <2>4. LengthBytes - 0 = LengthBytes
    BY Sizes
  <2> QED
    BY <2>1, <2>3, <2>4 DEF LengthMod
<1>5. ASSUME NEW k \in Nat, k \in G PROVE k + 1 \in G
  <2> SUFFICES ASSUME k + 1 <= LengthBytes
               PROVE  word[k + 1] = x \div Weight[LengthBytes - (k + 1)]
    OBVIOUS
  <2> DEFINE i == LengthBytes - (k + 1)
  <2>1. /\ i \in 0 .. LengthBytes - 1 /\ i + 1 = LengthBytes - k /\ BlockBytes - 1 - i = Room + k
        /\ k + 1 \in 0 .. LengthBytes /\ k + 1 # 0 /\ (k + 1) - 1 = k /\ Room + (k + 1) - 1 = Room + k
        /\ i \in 0 .. LengthBytes
    BY Sizes
  <2> HIDE DEF i
  <2> DEFINE w == Weight[i]
             y == x \div w
  <2>2. word[k + 1] = word[k] * ByteValues + block[Room + k]
    BY <1>1, <2>1
  <2>3. block[Room + k] = y % ByteValues
    BY <2>1
  <2>4. word[k] = x \div Weight[i + 1]
    <3>1. k <= LengthBytes
      BY <2>1, Sizes
    <3> QED
      BY <1>5, <2>1, <3>1
  <2>5. w \in Nat \ {0} /\ Weight[i + 1] = w * ByteValues
    BY <2>1, WeightFacts
  <2> HIDE DEF w
  <2>6. x \div (w * ByteValues) = (x \div w) \div ByteValues
    <3>1. \A n \in Nat, a, b \in Nat \ {0} : n \div (a * b) = (n \div a) \div b
      BY Nested
    <3>2. ByteValues \in Nat \ {0}
      BY Sizes
    <3> QED
      BY <1>3, <2>5, <3>1, <3>2, Zenon
  <2>7. y \in Nat
    BY <1>3, <2>5, DivMod
  <2>8. word[k] = y \div ByteValues
    BY <2>4, <2>5, <2>6
  <2> HIDE DEF y
  <2>9. y = (y \div ByteValues) * ByteValues + (y % ByteValues)
    BY <2>7, Sizes, DivMod
  <2>10. word[k + 1] = y
    BY <2>2, <2>3, <2>8, <2>9
  <2> QED
    BY <2>10 DEF y, w, i
<1>6. Nat \subseteq G
  <2> HIDE DEF G
  <2> QED
    BY <1>4, <1>5, SetInduction
<1>7. word[LengthBytes] = x \div Weight[0]
  <2>1. LengthBytes \in Nat /\ LengthBytes - LengthBytes = 0
    BY Sizes
  <2> QED
    BY <1>6, <2>1
<1>8. x \div 1 = x
  BY <1>3
<1> QED
  BY <1>2, <1>7, <1>8, WeightFacts
-----------------------------------------------------------------------------
\* There is one number of zeros that fills the last block.
LEMMA ZerosUnique ==
  ASSUME NEW m \in Seq(Bytes), NEW z \in Index,
         (Len(m) + 1 + z + LengthBytes) % BlockBytes = 0
  PROVE  Zeros(m) = z
<1> SUFFICES ASSUME NEW y \in Index, (Len(m) + 1 + y + LengthBytes) % BlockBytes = 0
             PROVE  y = z
  BY DEF Zeros
<1> DEFINE a == Len(m) + 1 + y + LengthBytes
           b == Len(m) + 1 + z + LengthBytes
           p == a \div BlockBytes
           q == b \div BlockBytes
<1>1. Len(m) \in Nat /\ a \in Nat /\ b \in Nat /\ y \in 0 .. BlockBytes - 1 /\ z \in 0 .. BlockBytes - 1
  BY Sizes
<1>2. a % BlockBytes = 0 /\ b % BlockBytes = 0
  OBVIOUS
<1>3. /\ p \in Nat /\ a = p * BlockBytes + 0
      /\ q \in Nat /\ b = q * BlockBytes + 0
  <2> HIDE DEF a, b
  <2> QED
    <3>1. p \in Nat /\ a = p * BlockBytes + (a % BlockBytes)
      BY <1>1, Sizes, DivMod
    <3>2. q \in Nat /\ b = q * BlockBytes + (b % BlockBytes)
      BY <1>1, Sizes, DivMod
    <3> QED
      BY <1>2, <3>1, <3>2
<1> HIDE DEF p, q
<1>4. p * BlockBytes \in Nat /\ q * BlockBytes \in Nat
  BY <1>3, Sizes
<1>5. ~(p < q)
  <2>1. p < q => p * BlockBytes + BlockBytes <= q * BlockBytes
    BY <1>3, Sizes, TimesGrows
  <2> QED
    BY <1>1, <1>3, <1>4, <2>1, Sizes
<1>6. ~(q < p)
  <2>1. q < p => q * BlockBytes + BlockBytes <= p * BlockBytes
    BY <1>3, Sizes, TimesGrows
  <2> QED
    BY <1>1, <1>3, <1>4, <2>1, Sizes
<1>7. a = b
  BY <1>3, <1>5, <1>6
<1> QED
  BY <1>1, <1>7, Sizes

\* And there is one.
LEMMA ZerosExist ==
  ASSUME NEW L \in Nat
  PROVE  \E z \in Index : (L + 1 + z + LengthBytes) % BlockBytes = 0
<1> DEFINE a == L + 1 + LengthBytes
           q == a \div BlockBytes
           r == a % BlockBytes
           z == IF r = 0 THEN 0 ELSE BlockBytes - r
           N == IF r = 0 THEN q ELSE q + 1
<1>1. a \in Nat
  BY Sizes
<1>2. q \in Nat /\ r \in 0 .. BlockBytes - 1 /\ a = q * BlockBytes + r
  <2> HIDE DEF a
  <2> QED
    BY <1>1, Sizes, DivMod
<1> HIDE DEF a, q, r
<1>3. z \in Index /\ N \in Nat
  BY <1>2, Sizes
<1>4. a + z = N * BlockBytes + 0
  <2>1. (q + 1) * BlockBytes = q * BlockBytes + BlockBytes /\ q * BlockBytes \in Nat
    BY <1>2, Sizes
  <2> QED
    BY <1>2, <2>1, Sizes
<1>5. a + z = L + 1 + z + LengthBytes
  BY <1>3, Sizes DEF a
<1> HIDE DEF z, N
<1>6. (N * BlockBytes + 0) % BlockBytes = 0
  <2>1. 0 \in 0 .. BlockBytes - 1
    BY Sizes
  <2> QED
    BY <1>3, <2>1, Sizes, DivModUnique
<1> QED
  BY <1>3, <1>4, <1>5, <1>6

\* A concatenation, element by element.
LEMMA ConcatAt ==
  ASSUME NEW s \in Seq(Nat), NEW t \in Seq(Nat)
  PROVE  /\ s \o t \in Seq(Nat) /\ Len(s \o t) = Len(s) + Len(t)
         /\ \A p \in 1 .. Len(s) : (s \o t)[p] = s[p]
         /\ \A p \in 1 .. Len(t) : (s \o t)[Len(s) + p] = t[p]
<1>1. Len(s) \in Nat /\ Len(t) \in Nat
  OBVIOUS
<1>2. ASSUME NEW p \in 1 .. Len(s) PROVE (s \o t)[p] = s[p]
  <2>1. p \in 1 .. Len(s) + Len(t) /\ p <= Len(s)
    BY <1>1
  <2> QED
    BY <2>1, ConcatProperties
<1>3. ASSUME NEW p \in 1 .. Len(t) PROVE (s \o t)[Len(s) + p] = t[p]
  <2>1. /\ Len(s) + p \in 1 .. Len(s) + Len(t)
        /\ ~(Len(s) + p <= Len(s)) /\ (Len(s) + p) - Len(s) = p
    BY <1>1
  <2> QED
    BY <2>1, ConcatProperties
<1> QED
  BY <1>2, <1>3, ConcatProperties

\* The padded message, byte by byte.
LEMMA PaddedBytes ==
  ASSUME NEW m \in Seq(Bytes), NEW z \in Index,
         (Len(m) + 1 + z + LengthBytes) % BlockBytes = 0
  PROVE  /\ Padded(m) \in Seq(Nat)
         /\ Len(Padded(m)) = Len(m) + 1 + z + LengthBytes
         /\ \A p \in 1 .. Len(m) : Padded(m)[p] = m[p]
         /\ Padded(m)[Len(m) + 1] = Mark
         /\ \A p \in 1 .. z : Padded(m)[Len(m) + 1 + p] = 0
         /\ \A p \in 1 .. LengthBytes : Padded(m)[Len(m) + 1 + z + p] =
              ((Len(m) * ByteBits) \div Weight[LengthBytes - p]) % ByteValues
<1> DEFINE d(n) == ((Len(m) * ByteBits) \div Weight[LengthBytes - n]) % ByteValues
           zs == [n \in 1 .. z |-> 0]
           ls == [n \in 1 .. LengthBytes |-> d(n)]
<1>1. m \in Seq(Nat) /\ <<Mark>> \in Seq(Nat) /\ Len(m) \in Nat /\ z \in Nat /\ LengthBytes \in Nat
  BY Sizes DEF Bytes
<1>2. zs \in Seq(Nat) /\ Len(zs) = z
  BY <1>1
<1>3. ASSUME NEW n \in 1 .. LengthBytes PROVE d(n) \in Nat
  <2>1. LengthBytes - n \in 0 .. LengthBytes
    BY Sizes
  <2> DEFINE w == Weight[LengthBytes - n]
             x == Len(m) * ByteBits
  <2>2. w \in Nat \ {0}
    BY <2>1, WeightFacts
  <2>3. x \in Nat
    BY <1>1, Sizes
  <2> HIDE DEF w, x
  <2>4. x \div w \in Nat
    BY <2>2, <2>3, DivMod
  <2>5. (x \div w) % ByteValues \in Nat
    <3> DEFINE y == x \div w
    <3> HIDE DEF y
    <3>1. y \in Nat => y % ByteValues \in Nat
      BY Sizes, DivMod
    <3> QED
      BY <2>4, <3>1 DEF y
  <2> QED
    BY <2>5 DEF w, x
<1>4. ls \in Seq(Nat) /\ Len(ls) = LengthBytes
  <2> HIDE DEF d
  <2> QED
    BY <1>1, <1>3
<1>5. \A n \in 1 .. LengthBytes : ls[n] = d(n)
  OBVIOUS
<1>6. \A n \in 1 .. z : zs[n] = 0
  OBVIOUS
<1> DEFINE a == m \o <<Mark>>
           b == a \o zs
           c == b \o ls
<1>7. c = Padded(m)
  BY ZerosUnique DEF Padded
<1> HIDE DEF zs, ls, d
<1>8. /\ a \in Seq(Nat) /\ Len(a) = Len(m) + 1
      /\ \A p \in 1 .. Len(m) : a[p] = m[p]
      /\ a[Len(m) + 1] = Mark
  <2> DEFINE t == <<Mark>>
  <2>1. t \in Seq(Nat) /\ Len(t) = 1 /\ t[1] = Mark
    BY <1>1
  <2> HIDE DEF t
  <2>2. /\ m \o t \in Seq(Nat) /\ Len(m \o t) = Len(m) + Len(t)
        /\ \A p \in 1 .. Len(m) : (m \o t)[p] = m[p]
        /\ \A p \in 1 .. Len(t) : (m \o t)[Len(m) + p] = t[p]
    BY <1>1, <2>1, ConcatAt
  <2> QED
    BY <2>1, <2>2 DEF t
<1> HIDE DEF a
<1>9. /\ b \in Seq(Nat) /\ Len(b) = Len(a) + z
      /\ \A p \in 1 .. Len(a) : b[p] = a[p]
      /\ \A p \in 1 .. z : b[Len(a) + p] = 0
  <2>1. /\ b \in Seq(Nat) /\ Len(b) = Len(a) + Len(zs)
        /\ \A p \in 1 .. Len(a) : b[p] = a[p]
        /\ \A p \in 1 .. Len(zs) : b[Len(a) + p] = zs[p]
    BY <1>2, <1>8, ConcatAt
  <2> HIDE DEF b
  <2> QED
    BY <1>2, <1>6, <2>1
<1> HIDE DEF b
<1>10. /\ c \in Seq(Nat) /\ Len(c) = Len(b) + LengthBytes
       /\ \A p \in 1 .. Len(b) : c[p] = b[p]
       /\ \A p \in 1 .. LengthBytes : c[Len(b) + p] = d(p)
  <2>1. /\ c \in Seq(Nat) /\ Len(c) = Len(b) + Len(ls)
        /\ \A p \in 1 .. Len(b) : c[p] = b[p]
        /\ \A p \in 1 .. Len(ls) : c[Len(b) + p] = ls[p]
    BY <1>4, <1>9, ConcatAt
  <2> HIDE DEF c
  <2> QED
    BY <1>4, <1>5, <2>1
<1> HIDE DEF c
<1>11. Len(b) = Len(m) + 1 + z /\ Len(a) = Len(m) + 1
  BY <1>8, <1>9
<1>12. \A p \in 1 .. Len(m) : c[p] = m[p]
  BY <1>1, <1>8, <1>9, <1>10, <1>11
<1>13. c[Len(m) + 1] = Mark
  <2>1. Len(m) + 1 \in 1 .. Len(a) /\ Len(m) + 1 \in 1 .. Len(b)
    BY <1>1, <1>11
  <2> QED
    BY <1>8, <1>9, <1>10, <2>1
<1>14. \A p \in 1 .. z : c[Len(m) + 1 + p] = 0
  <2> TAKE p \in 1 .. z
  <2>1. Len(m) + 1 + p \in 1 .. Len(b)
    BY <1>1, <1>11
  <2> QED
    BY <1>9, <1>10, <1>11, <2>1
<1>15. \A p \in 1 .. LengthBytes : c[Len(m) + 1 + z + p] = d(p)
  BY <1>10, <1>11
<1>16. Len(c) = Len(m) + 1 + z + LengthBytes
  BY <1>10, <1>11
<1> QED
  BY <1>7, <1>10, <1>12, <1>13, <1>14, <1>15, <1>16 DEF d

LEMMA CompressedIs ==
  ASSUME NEW blocks \in Seq([Index -> Bytes]), NEW s \in Seq(Nat),
         Len(s) = Len(blocks) * BlockBytes,
         \A k \in 1 .. Len(blocks), n \in Index : s[(k - 1) * BlockBytes + n + 1] = blocks[k][n]
  PROVE  Compressed(blocks) = s
<1> SUFFICES ASSUME NEW p \in 1 .. Len(blocks) * BlockBytes
             PROVE  s[p] = blocks[((p - 1) \div BlockBytes) + 1][(p - 1) % BlockBytes]
  BY DEF Compressed
<1> DEFINE N == Len(blocks)
           B == BlockBytes
           k == (p - 1) \div B
           n == (p - 1) % B
<1>1. N \in Nat /\ B \in Nat \ {0} /\ N * B \in Nat /\ p - 1 \in Nat
  BY Sizes
<1>2. k \in Nat /\ n \in 0 .. B - 1 /\ p - 1 = k * B + n
  <2> HIDE DEF B
  <2> QED
    BY <1>1, DivMod
<1> HIDE DEF k, n
<1>3. k < N
  <2> SUFFICES ASSUME N <= k PROVE FALSE
    BY <1>1, <1>2
  <2> HIDE DEF N, B
  <2>1. PICK d \in Nat : k = N + d
    <3>1. k - N \in Nat /\ k = N + (k - N)
      BY <1>1, <1>2
    <3> QED
      BY <3>1
  <2>2. k * B = N * B + d * B /\ d * B \in Nat
    BY <1>1, <2>1
  <2>3. p \in Int /\ p <= N * B
    BY <1>1 DEF N, B
  <2> QED
    <3> DEFINE x == N * B
               y == d * B
    <3>1. p - 1 = (x + y) + n
      BY <1>2, <2>2
    <3>2. x \in Nat /\ y \in Nat /\ n \in Nat /\ p \in Int /\ p <= x
      BY <1>1, <1>2, <2>2, <2>3
    <3> HIDE DEF x, y
    <3> QED
      BY <3>1, <3>2
<1>4. k + 1 \in 1 .. Len(blocks) /\ n \in Index /\ (k + 1) - 1 = k
  BY <1>1, <1>2, <1>3, Sizes
<1>5. s[k * B + n + 1] = blocks[k + 1][n]
  BY <1>4
<1>6. k * B + n + 1 = p
  <2>1. k * B \in Nat
    BY <1>1, <1>2
  <2> QED
    BY <1>1, <1>2, <2>1
<1> QED
  BY <1>5, <1>6 DEF k, n
-----------------------------------------------------------------------------
(* The blocks compressed and the bytes waiting are the message, and what   *)
(* is counted of it is its length but for what the counter cannot hold.    *)
Fed ==
  /\ message \in Seq(Bytes) /\ state \in Seq([Index -> Bytes])
  /\ Bits = (Len(message) * ByteBits) % LengthMod
  /\ pc = "open" =>
       /\ Len(message) = Len(state) * BlockBytes + datalen
       /\ \A k \in 1 .. Len(state), n \in Index :
            state[k][n] = message[(k - 1) * BlockBytes + n + 1]
       /\ \A n \in 0 .. datalen - 1 : data[n] = message[Len(state) * BlockBytes + n + 1]
  /\ pc = "final" =>
       /\ state # <<>>
       /\ \A k \in 0 .. LengthBytes - 1 : state[Len(state)][BlockBytes - 1 - k] = LengthByte(k)

IInv == TypeOK /\ Fed /\ DigestIsOfMessage

LEMMA CountRange == LengthMod \in Nat \ {0} /\ \A x \in Nat : x % LengthMod \in 0 .. LengthMod - 1
<1>1. LengthMod \in Nat \ {0}
  BY WeightFacts, Sizes DEF LengthMod
<1> QED
  BY <1>1, DivMod

LEMMA LengthByteRange ==
  ASSUME TypeOK, NEW k \in 0 .. LengthBytes - 1
  PROVE  LengthByte(k) \in Bytes
<1>1. Bits \in Nat
  <2>1. bitlen \in Nat /\ datalen \in Nat /\ datalen * ByteBits \in Nat
    BY CountRange, Sizes DEF TypeOK
  <2>2. bitlen + datalen * ByteBits \in Nat
    BY <2>1
  <2> QED
    BY <2>2, CountRange DEF Bits
<1>2. k \in 0 .. LengthBytes
  BY Sizes
<1> DEFINE y == Bits \div Weight[k]
<1>3. y \in Nat
  BY <1>1, <1>2, WeightFacts, DivMod
<1> HIDE DEF y
<1>4. y % ByteValues \in 0 .. ByteValues - 1
  BY <1>3, Sizes, DivMod
<1> QED
  BY <1>4 DEF y, LengthByte, Bytes

LEMMA BlockTypes ==
  ASSUME TypeOK
  PROVE  Marked \in [Index -> Bytes] /\ LastBlock \in [Index -> Bytes]
<1>1. ASSUME NEW n \in Index PROVE Marked[n] \in Bytes
  <2>1. data[n] \in Bytes /\ n \in Nat /\ datalen \in Nat /\ Mark \in Bytes /\ 0 \in Bytes
    BY Sizes DEF TypeOK
  <2>2. n < datalen \/ n = datalen \/ n > datalen
    BY <2>1
  <2> QED
    BY <2>1, <2>2 DEF Marked
<1>2. Marked = [n \in Index |-> Marked[n]]
  <2> DEFINE e(n) == CASE n < datalen -> data[n]
                       [] n = datalen -> Mark
                       [] n > datalen -> IF n < Room \/ Overflows THEN 0 ELSE data[n]
  <2>1. Marked = [n \in Index |-> e(n)]
    BY DEF Marked
  <2> HIDE DEF e
  <2> QED
    BY <2>1
<1>3. ASSUME NEW n \in Index PROVE LastBlock[n] \in Bytes
  <2>1. CASE n >= Room
    <3>1. BlockBytes - 1 - n \in 0 .. LengthBytes - 1
      BY <2>1, Sizes
    <3>2. LastBlock[n] = LengthByte(BlockBytes - 1 - n)
      BY <2>1, Sizes DEF LastBlock
    <3> QED
      BY <3>1, <3>2, LengthByteRange
  <2>2. CASE n < Room
    BY <1>1, <2>2, Sizes DEF LastBlock
  <2> QED
    BY <2>1, <2>2, Sizes
<1>4. LastBlock = [n \in Index |-> LastBlock[n]]
  <2> DEFINE e(n) == CASE n >= Room             -> LengthByte(BlockBytes - 1 - n)
                       [] n < Room /\ Overflows -> 0
                       [] n < Room /\ ~Overflows -> Marked[n]
  <2>1. LastBlock = [n \in Index |-> e(n)]
    BY DEF LastBlock
  <2> HIDE DEF e
  <2> QED
    BY <2>1
<1> QED
  BY <1>1, <1>2, <1>3, <1>4

LEMMA IInvInit == Init => IInv
<1> SUFFICES ASSUME Init PROVE IInv
  OBVIOUS
<1> USE DEF Init
<1>1. data \in [Index -> Bytes] /\ 0 \in Index
  BY Sizes, Sha256Assumption
<1>2. state \in Seq([Index -> Bytes]) /\ DOMAIN state = {} /\ Len(state) = 0
      /\ message \in Seq(Bytes) /\ Len(message) = 0
  OBVIOUS
<1>3. LengthMod \in Nat \ {0} /\ 0 \in 0 .. LengthMod - 1
  BY CountRange
<1>4. TypeOK
  BY <1>1, <1>2, <1>3 DEF TypeOK
<1>5. Bits = (Len(message) * ByteBits) % LengthMod
  <2>1. bitlen + datalen * ByteBits = 0 * ByteBits /\ Len(message) * ByteBits = 0 * ByteBits
    BY <1>2, Sizes
  <2> QED
    BY <2>1 DEF Bits
<1>6. Fed
  <2>1. Len(message) = Len(state) * BlockBytes + datalen
    BY <1>2, Sizes
  <2> QED
    BY <1>2, <1>5, <2>1 DEF Fed
<1> QED
  BY <1>4, <1>6 DEF IInv, DigestIsOfMessage

\* A byte of one of the blocks compressed has its place before their end.
LEMMA PlaceWithin ==
  ASSUME NEW N \in Nat, NEW k \in 1 .. N, NEW n \in Index
  PROVE  (k - 1) * BlockBytes + n + 1 \in 1 .. N * BlockBytes
<1> DEFINE x == (k - 1) * BlockBytes
           y == N * BlockBytes
<1>1. k - 1 \in Nat /\ k - 1 < N
  OBVIOUS
<1>2. x + BlockBytes <= y
  BY <1>1, Sizes, TimesGrows
<1>3. x \in Nat /\ y \in Nat /\ n \in 0 .. BlockBytes - 1
  BY <1>1, Sizes
<1> HIDE DEF x, y
<1>4. x + n + 1 \in 1 .. y
  BY <1>2, <1>3, Sizes
<1> QED
  BY <1>4 DEF x, y

LEMMA UpdateKept == IInv /\ Update => IInv'
<1> SUFFICES ASSUME IInv, Update PROVE IInv'
  OBVIOUS
<1> USE DEF IInv
<1>1. PICK b \in Symbols : data' = [data EXCEPT ![datalen] = b] /\ message' = Append(message, b)
  BY DEF Update
<1>2. pc = "open" /\ pc' = "open"
  BY DEF Update
<1> DEFINE L == Len(message)
           S == Len(state)
           base == S * BlockBytes
<1>3. /\ L \in Nat /\ S \in Nat /\ base \in Nat /\ datalen \in 0 .. BlockBytes - 1 /\ datalen \in Nat
      /\ L = base + datalen
      /\ message \in Seq(Bytes) /\ state \in Seq([Index -> Bytes]) /\ data \in [Index -> Bytes]
      /\ b \in Bytes /\ bitlen \in Nat
  <2>1. message \in Seq(Bytes) /\ state \in Seq([Index -> Bytes]) /\ L \in Nat /\ S \in Nat
    BY DEF Fed
  <2>2. L = base + datalen
    BY <1>2 DEF Fed
  <2>3. datalen \in 0 .. BlockBytes - 1 /\ data \in [Index -> Bytes] /\ bitlen \in Nat
    BY CountRange, Sizes DEF TypeOK
  <2>4. datalen \in Nat /\ base \in Nat
    BY <2>1, <2>3, Sizes
  <2>5. b \in Bytes
    BY Sha256Assumption
  <2> QED
    BY <2>1, <2>2, <2>3, <2>4, <2>5
<1>4. /\ message' \in Seq(Bytes) /\ Len(message') = L + 1
      /\ \A p \in 1 .. L : message'[p] = message[p]
      /\ message'[L + 1] = b
  BY <1>1, <1>3
<1>5. /\ data' \in [Index -> Bytes]
      /\ \A n \in 0 .. datalen : data'[n] = message'[base + n + 1]
  <2>1. data' \in [Index -> Bytes]
    BY <1>1, <1>3
  <2>2. ASSUME NEW n \in 0 .. datalen, n # datalen PROVE data'[n] = message'[base + n + 1]
    <3>1. n \in 0 .. datalen - 1 /\ n \in Index /\ base + n + 1 \in 1 .. L
      <4> HIDE DEF base
      <4> QED
        BY <1>3, <2>2, Sizes
    <3>2. data[n] = message[base + n + 1]
      BY <1>2, <3>1 DEF Fed
    <3> QED
      BY <1>1, <1>3, <1>4, <2>2, <3>1, <3>2
  <2>3. data'[datalen] = message'[base + datalen + 1]
    <3>1. datalen \in Index /\ base + datalen + 1 = L + 1
      BY <1>3, Sizes
    <3> QED
      BY <1>1, <1>3, <1>4, <3>1
  <2> QED
    BY <2>1, <2>2, <2>3
<1>6. ASSUME NEW k \in 1 .. S, NEW n \in Index
      PROVE  state[k][n] = message'[(k - 1) * BlockBytes + n + 1]
  <2>1. state[k][n] = message[(k - 1) * BlockBytes + n + 1]
    BY <1>2 DEF Fed
  <2>2. (k - 1) * BlockBytes + n + 1 \in 1 .. base
    BY <1>3, PlaceWithin
  <2>3. (k - 1) * BlockBytes + n + 1 \in 1 .. L
    <3> DEFINE p == (k - 1) * BlockBytes + n + 1
    <3>1. p \in 1 .. base
      BY <2>2
    <3> HIDE DEF p, base
    <3>2. p \in 1 .. L
      BY <1>3, <3>1
    <3> QED
      BY <3>2 DEF p
  <2> QED
    BY <1>4, <2>1, <2>3
<1>7. (bitlen + (datalen + 1) * ByteBits) % LengthMod = ((L + 1) * ByteBits) % LengthMod
  <2> DEFINE x == L * ByteBits
             y == bitlen + datalen * ByteBits
  <2>1. x \in Nat /\ y \in Nat /\ ByteBits \in Nat /\ LengthMod \in Nat \ {0}
    <3>1. datalen * ByteBits \in Nat /\ L * ByteBits \in Nat
      BY <1>3, Sizes
    <3>2. \A m, n \in Nat : m + n \in Nat
      OBVIOUS
    <3> QED
      BY <1>3, <3>1, <3>2, Sizes, CountRange
  <2>2. y % LengthMod = x % LengthMod
    BY DEF Fed, Bits
  <2>3. (L + 1) * ByteBits = x + ByteBits /\ bitlen + (datalen + 1) * ByteBits = y + ByteBits
    <3>1. (L + 1) * ByteBits = L * ByteBits + ByteBits /\ (datalen + 1) * ByteBits = datalen * ByteBits + ByteBits
      BY <1>3, Sizes
    <3>2. datalen * ByteBits \in Nat
      BY <1>3, Sizes
    <3> QED
      BY <1>3, <3>1, <3>2, Sizes
  <2> HIDE DEF x, y
  <2>4. ((y % LengthMod) + ByteBits) % LengthMod = (y + ByteBits) % LengthMod
    BY <2>1, ModAdd
  <2>5. ((x % LengthMod) + ByteBits) % LengthMod = (x + ByteBits) % LengthMod
    BY <2>1, ModAdd
  <2> QED
    BY <2>2, <2>3, <2>4, <2>5
<1>8. CASE Full(datalen + 1)
  <2>1. /\ datalen + 1 = BlockBytes /\ state' = Append(state, data') /\ datalen' = 0
        /\ bitlen' = (bitlen + BlockBytes * ByteBits) % LengthMod
    BY <1>8 DEF Update, Full
  <2>2. /\ state' \in Seq([Index -> Bytes]) /\ Len(state') = S + 1
        /\ \A k \in 1 .. S : state'[k] = state[k]
        /\ state'[S + 1] = data'
    BY <1>3, <1>5, <2>1
  <2>3. bitlen' \in 0 .. LengthMod - 1 /\ bitlen' = ((L + 1) * ByteBits) % LengthMod
    <3>1. bitlen' = ((L + 1) * ByteBits) % LengthMod
      BY <1>7, <2>1
    <3>2. (L + 1) * ByteBits \in Nat
      BY <1>3, Sizes
    <3> QED
      BY <3>1, <3>2, CountRange
  <2>4. TypeOK'
    <3>1. \A k \in DOMAIN state' : state'[k] \in [Index -> Bytes]
      BY <2>2
    <3> QED
      BY <1>2, <1>5, <2>1, <2>3, <3>1, Sizes DEF TypeOK
  <2>5. Bits' = (Len(message') * ByteBits) % LengthMod
    <3>1. Bits' = (bitlen' + 0 * ByteBits) % LengthMod
      BY <2>1 DEF Bits
    <3>2. bitlen' + 0 * ByteBits = bitlen'
      BY <2>3, Sizes, CountRange
    <3>3. bitlen' % LengthMod = bitlen'
      <4>1. ASSUME NEW n \in Nat \ {0}, NEW r \in 0 .. n - 1 PROVE (0 * n + r) % n = r
        BY DivModUnique
      <4>2. ASSUME NEW n \in Nat \ {0}, NEW r \in 0 .. n - 1 PROVE r % n = r
        <5>1. 0 * n + r = r
          OBVIOUS
        <5> QED
          BY <4>1, <5>1
      <4> QED
        BY <2>3, <4>2, CountRange
    <3> QED
      BY <1>4, <2>3, <3>1, <3>2, <3>3
  <2>6. Len(message') = Len(state') * BlockBytes + datalen'
    <3>1. (S + 1) * BlockBytes = base + BlockBytes
      BY <1>3, Sizes
    <3> QED
      BY <1>3, <1>4, <2>1, <2>2, <3>1, Sizes
  <2>7. ASSUME NEW k \in 1 .. Len(state'), NEW n \in Index
        PROVE  state'[k][n] = message'[(k - 1) * BlockBytes + n + 1]
    <3>1. CASE k = S + 1
      <4>1. (k - 1) * BlockBytes = base /\ n \in 0 .. datalen
        BY <1>3, <2>1, <3>1, Sizes
      <4> QED
        BY <1>5, <2>2, <3>1, <4>1
    <3>2. CASE k # S + 1
      <4>1. k \in 1 .. S
        BY <1>3, <2>2, <3>2
      <4> QED
        BY <1>6, <2>2, <4>1
    <3> QED
      BY <3>1, <3>2
  <2>8. \A n \in 0 .. datalen' - 1 : data'[n] = message'[Len(state') * BlockBytes + n + 1]
    BY <2>1
  <2>9. Fed'
    BY <1>2, <1>4, <2>2, <2>5, <2>6, <2>7, <2>8 DEF Fed
  <2> QED
    BY <1>2, <2>4, <2>9 DEF DigestIsOfMessage
<1>9. CASE ~Full(datalen + 1)
  <2>1. /\ datalen + 1 # BlockBytes /\ state' = state /\ datalen' = datalen + 1 /\ bitlen' = bitlen
    BY <1>9 DEF Update, Full
  <2>2. datalen' \in Index
    BY <1>3, <2>1, Sizes
  <2>3. TypeOK'
    BY <1>2, <1>5, <2>1, <2>2 DEF TypeOK
  <2>4. Bits' = (Len(message') * ByteBits) % LengthMod
    BY <1>4, <1>7, <2>1 DEF Bits
  <2>5. Len(message') = Len(state') * BlockBytes + datalen'
    BY <1>3, <1>4, <2>1
  <2>6. \A k \in 1 .. Len(state'), n \in Index : state'[k][n] = message'[(k - 1) * BlockBytes + n + 1]
    BY <1>6, <2>1
  <2>7. \A n \in 0 .. datalen' - 1 : data'[n] = message'[Len(state') * BlockBytes + n + 1]
    BY <1>3, <1>5, <2>1
  <2>8. Fed'
    BY <1>2, <1>3, <1>4, <2>1, <2>4, <2>5, <2>6, <2>7 DEF Fed
  <2> QED
    BY <1>2, <2>3, <2>8 DEF DigestIsOfMessage
<1> QED
  BY <1>8, <1>9

LEMMA MarkedBytes ==
  ASSUME TypeOK, NEW n \in Index
  PROVE  /\ n < datalen => Marked[n] = data[n]
         /\ n = datalen => Marked[n] = Mark
         /\ n > datalen /\ (n < Room \/ Overflows) => Marked[n] = 0
<1>1. n \in Nat /\ datalen \in Nat
  BY Sizes DEF TypeOK
<1>2. Marked[n] = CASE n < datalen -> data[n]
                    [] n = datalen -> Mark
                    [] n > datalen -> IF n < Room \/ Overflows THEN 0 ELSE data[n]
  BY DEF Marked
<1>3. CASE n < datalen
  BY <1>1, <1>2, <1>3
<1>4. CASE n = datalen
  BY <1>1, <1>2, <1>4
<1>5. CASE n > datalen
  BY <1>1, <1>2, <1>5
<1> QED
  BY <1>1, <1>3, <1>4, <1>5

\* Final pads the message: the marked block and the last, or the last alone.
LEMMA FinalBlocks ==
  ASSUME IInv, pc = "open",
         NEW blocks, blocks = state \o (IF Overflows THEN <<Marked, LastBlock>> ELSE <<LastBlock>>)
  PROVE  /\ blocks \in Seq([Index -> Bytes]) /\ Len(blocks) \in Nat \ {0}
         /\ blocks[Len(blocks)] = LastBlock
         /\ Compressed(blocks) = Padded(message)
<1> USE DEF IInv
<1> DEFINE L == Len(message)
           S == Len(state)
           base == S * BlockBytes
           z == IF Overflows THEN BlockBytes + Room - 1 - datalen ELSE Room - 1 - datalen
           s == Padded(message)
           x == L * ByteBits
<1>1. /\ L \in Nat /\ S \in Nat /\ base \in Nat /\ datalen \in 0 .. BlockBytes - 1 /\ L = base + datalen
      /\ message \in Seq(Bytes) /\ state \in Seq([Index -> Bytes]) /\ x \in Nat
  <2>1. message \in Seq(Bytes) /\ state \in Seq([Index -> Bytes]) /\ L \in Nat /\ S \in Nat
    BY DEF Fed
  <2>2. L = base + datalen /\ datalen \in 0 .. BlockBytes - 1
    BY Sizes DEF Fed, TypeOK
  <2> QED
    BY <2>1, <2>2, Sizes
<1>2. Marked \in [Index -> Bytes] /\ LastBlock \in [Index -> Bytes]
  BY BlockTypes
<1>13. (S + 1) * BlockBytes = base + BlockBytes /\ (S + 2) * BlockBytes = base + 2 * BlockBytes
  BY <1>1, Sizes
<1> HIDE DEF base
<1> DEFINE extra == IF Overflows THEN <<Marked, LastBlock>> ELSE <<LastBlock>>
<1>3. /\ blocks \in Seq([Index -> Bytes]) /\ Len(blocks) = S + (IF Overflows THEN 2 ELSE 1)
      /\ \A k \in 1 .. S : blocks[k] = state[k]
      /\ Overflows => blocks[S + 1] = Marked /\ blocks[S + 2] = LastBlock
      /\ ~Overflows => blocks[S + 1] = LastBlock
  <2>1. CASE Overflows
    BY <1>1, <1>2, <2>1
  <2>2. CASE ~Overflows
    BY <1>1, <1>2, <2>2
  <2> QED
    BY <2>1, <2>2
<1>4. z \in Index /\ L + 1 + z + LengthBytes = base + (IF Overflows THEN 2 * BlockBytes ELSE BlockBytes)
  <2>1. CASE Overflows
    BY <1>1, <2>1, Sizes DEF Overflows
  <2>2. CASE ~Overflows
    BY <1>1, <2>2, Sizes DEF Overflows
  <2> QED
    BY <2>1, <2>2
<1>5. Len(blocks) * BlockBytes = L + 1 + z + LengthBytes
  BY <1>3, <1>4, <1>13
<1>6. (L + 1 + z + LengthBytes) % BlockBytes = 0
  <2> DEFINE N == Len(blocks)
  <2>1. N \in Nat
    BY <1>1, <1>3
  <2> HIDE DEF N
  <2>2. (N * BlockBytes + 0) % BlockBytes = 0
    <3>1. 0 \in 0 .. BlockBytes - 1
      BY Sizes
    <3> QED
      BY <2>1, <3>1, Sizes, DivModUnique
  <2>3. N * BlockBytes + 0 = N * BlockBytes
    BY <2>1, Sizes
  <2> QED
    BY <1>5, <2>2, <2>3 DEF N
<1>7. /\ s \in Seq(Nat) /\ Len(s) = L + 1 + z + LengthBytes
      /\ \A p \in 1 .. L : s[p] = message[p]
      /\ s[L + 1] = Mark
      /\ \A p \in 1 .. z : s[L + 1 + p] = 0
      /\ \A p \in 1 .. LengthBytes : s[L + 1 + z + p] = (x \div Weight[LengthBytes - p]) % ByteValues
  <2> HIDE DEF z
  <2> QED
    BY <1>1, <1>4, <1>6, PaddedBytes
<1> HIDE DEF s
\* The bytes of the length.
<1>8. ASSUME NEW n \in Index, n >= Room
      PROVE  LastBlock[n] = s[L + 1 + z + (n + 1 - Room)]
  <2> DEFINE j == BlockBytes - 1 - n
  <2>1. j \in 0 .. LengthBytes - 1 /\ n + 1 - Room \in 1 .. LengthBytes /\ LengthBytes - (n + 1 - Room) = j
    BY <1>8, Sizes
  <2> HIDE DEF j
  <2>2. s[L + 1 + z + (n + 1 - Room)] = (x \div Weight[j]) % ByteValues
    <3> HIDE DEF z, x
    <3> QED
      BY <1>7, <2>1
  <2>3. Bits = x % LengthMod
    BY DEF Fed
  <2>4. ((x % LengthMod) \div Weight[j]) % ByteValues = (x \div Weight[j]) % ByteValues
    <3> HIDE DEF x
    <3> QED
      BY <1>1, <2>1, CountedBytes
  <2>5. LastBlock[n] = LengthByte(j)
    BY <1>8, Sizes DEF LastBlock, j
  <2> QED
    BY <2>2, <2>3, <2>4, <2>5 DEF LengthByte
\* The bytes before it, where there is one block.
<1>9. ASSUME NEW n \in Index, ~Overflows PROVE LastBlock[n] = s[base + n + 1]
  <2>1. CASE n >= Room
    <3>1. L + 1 + z + (n + 1 - Room) = base + n + 1
      BY <1>1, <1>9, <2>1, Sizes
    <3> QED
      BY <1>8, <2>1, <3>1
  <2>2. CASE n < Room
    <3>1. LastBlock[n] = Marked[n]
      BY <1>9, <2>2, Sizes DEF LastBlock
    <3>2. CASE n < datalen
      <4>1. Marked[n] = data[n]
        BY <3>2, MarkedBytes
      <4>2. base + n + 1 \in 1 .. L /\ n \in 0 .. datalen - 1
        BY <1>1, <3>2, Sizes
      <4> QED
        BY <1>7, <3>1, <4>1, <4>2 DEF Fed, base
    <3>3. CASE n = datalen
      BY <1>1, <1>7, <3>1, <3>3, MarkedBytes
    <3>4. CASE n > datalen
      <4>1. Marked[n] = 0
        BY <2>2, <3>4, MarkedBytes
      <4>2. n - datalen \in 1 .. z /\ base + n + 1 = L + 1 + (n - datalen)
        BY <1>1, <1>9, <2>2, <3>4, Sizes
      <4> QED
        BY <1>7, <3>1, <4>1, <4>2
    <3> QED
      BY <1>1, <3>2, <3>3, <3>4, Sizes
  <2> QED
    BY <2>1, <2>2, Sizes
\* And where there are two.
<1>10. ASSUME NEW n \in Index, Overflows
       PROVE  Marked[n] = s[base + n + 1] /\ LastBlock[n] = s[base + BlockBytes + n + 1]
  <2>1. Marked[n] = s[base + n + 1]
    <3>1. CASE n < datalen
      <4>1. Marked[n] = data[n]
        BY <3>1, MarkedBytes
      <4>2. base + n + 1 \in 1 .. L /\ n \in 0 .. datalen - 1
        BY <1>1, <3>1, Sizes
      <4> QED
        BY <1>7, <4>1, <4>2 DEF Fed, base
    <3>2. CASE n = datalen
      BY <1>1, <1>7, <3>2, MarkedBytes
    <3>3. CASE n > datalen
      <4>1. Marked[n] = 0
        BY <1>10, <3>3, MarkedBytes
      <4>2. n - datalen \in 1 .. z /\ base + n + 1 = L + 1 + (n - datalen)
        BY <1>1, <1>10, <3>3, Sizes
      <4> QED
        BY <1>7, <4>1, <4>2
    <3> QED
      BY <1>1, <3>1, <3>2, <3>3, Sizes
  <2>2. CASE n >= Room
    <3>1. L + 1 + z + (n + 1 - Room) = base + BlockBytes + n + 1
      BY <1>1, <1>10, <2>2, Sizes
    <3> QED
      BY <1>8, <2>1, <2>2, <3>1
  <2>3. CASE n < Room
    <3>1. LastBlock[n] = 0
      BY <1>10, <2>3, Sizes DEF LastBlock
    <3>2. /\ BlockBytes + n - datalen \in 1 .. z
          /\ base + BlockBytes + n + 1 = L + 1 + (BlockBytes + n - datalen)
      BY <1>1, <1>10, <2>3, Sizes
    <3> QED
      BY <1>7, <2>1, <3>1, <3>2
  <2> QED
    BY <2>2, <2>3, Sizes
<1>11. ASSUME NEW k \in 1 .. Len(blocks), NEW n \in Index
       PROVE  s[(k - 1) * BlockBytes + n + 1] = blocks[k][n]
  <2>1. CASE k \in 1 .. S
    <3> DEFINE p == (k - 1) * BlockBytes + n + 1
    <3>1. p \in 1 .. base
      BY <1>1, <2>1, PlaceWithin DEF base
    <3>2. blocks[k][n] = message[p]
      BY <1>3, <2>1 DEF Fed
    <3> HIDE DEF p
    <3>3. p \in 1 .. L
      BY <1>1, <3>1
    <3> QED
      BY <1>7, <3>2, <3>3 DEF p
  <2>2. CASE k = S + 1
    <3>1. (k - 1) * BlockBytes = base
      BY <1>1, <2>2 DEF base
    <3> QED
      BY <1>3, <1>9, <1>10, <2>2, <3>1
  <2>3. CASE k = S + 2 /\ Overflows
    <3>1. (k - 1) * BlockBytes = base + BlockBytes
      <4>1. k - 1 = S + 1
        BY <1>1, <2>3
      <4> QED
        BY <1>13, <4>1
    <3> QED
      BY <1>3, <1>10, <2>3, <3>1
  <2> QED
    BY <1>1, <1>3, <2>1, <2>2, <2>3
<1>12. Compressed(blocks) = s
  <2> HIDE DEF z
  <2> QED
    BY <1>3, <1>5, <1>7, <1>11, CompressedIs
<1> QED
  BY <1>1, <1>3, <1>12 DEF s

LEMMA FinalKept == IInv /\ Final => IInv'
<1> SUFFICES ASSUME IInv, Final PROVE IInv'
  OBVIOUS
<1>1. /\ pc = "open" /\ pc' = "final" /\ data' = LastBlock
      /\ datalen' = datalen /\ bitlen' = bitlen /\ message' = message
      /\ state' = state \o (IF Overflows THEN <<Marked, LastBlock>> ELSE <<LastBlock>>)
  BY DEF Final
<1>2. /\ state' \in Seq([Index -> Bytes]) /\ Len(state') \in Nat \ {0}
      /\ state'[Len(state')] = LastBlock
      /\ Compressed(state') = Padded(message)
  BY <1>1, FinalBlocks
<1>3. TypeOK'
  <2>1. LastBlock \in [Index -> Bytes]
    BY BlockTypes DEF IInv
  <2>2. \A k \in DOMAIN state' : state'[k] \in [Index -> Bytes]
    BY <1>2
  <2> QED
    BY <1>1, <2>1, <2>2 DEF IInv, TypeOK
<1>4. Bits' = Bits /\ \A k : LengthByte(k)' = LengthByte(k)
  BY <1>1 DEF Bits, LengthByte
<1>5. ASSUME NEW k \in 0 .. LengthBytes - 1 PROVE LastBlock[BlockBytes - 1 - k] = LengthByte(k)
  <2>1. /\ BlockBytes - 1 - k \in Index /\ BlockBytes - 1 - k >= Room /\ ~(BlockBytes - 1 - k < Room)
        /\ BlockBytes - 1 - (BlockBytes - 1 - k) = k
    BY Sizes
  <2> QED
    BY <2>1 DEF LastBlock
<1>6. Fed'
  BY <1>1, <1>2, <1>4, <1>5 DEF IInv, Fed
<1>7. DigestIsOfMessage'
  BY <1>1, <1>2 DEF DigestIsOfMessage
<1> QED
  BY <1>3, <1>6, <1>7 DEF IInv

LEMMA Invariant == Spec => []IInv
<1>1. IInv /\ [Next]_vars => IInv'
  <2> SUFFICES ASSUME IInv, UNCHANGED vars PROVE IInv'
    BY UpdateKept, FinalKept DEF Next, Done
  <2> QED
    BY DEF vars, IInv, TypeOK, Fed, DigestIsOfMessage, Bits, LengthByte
<1> QED
  BY <1>1, IInvInit, PTL DEF Spec
-----------------------------------------------------------------------------
(* Between calls the block is never full, and all else keeps its range,    *)
(* for every size of a block and whatever the memory it is put in held.    *)
THEOREM Sha256TypeCorrect == Spec => []TypeOK
<1>1. IInv => TypeOK
  BY DEF IInv
<1> QED
  BY <1>1, Invariant, PTL

(* What k501_sha256_final has compressed is the message, padded as the     *)
(* standard says, for every message, also one longer than the counter of   *)
(* bits can hold: nothing of what was in the block before remains in it.   *)
THEOREM Sha256DigestIsOfMessage == Spec => []DigestIsOfMessage
<1>1. IInv => DigestIsOfMessage
  BY DEF IInv
<1> QED
  BY <1>1, Invariant, PTL

(* As long as the counter holds its length, every message can be read back *)
(* from the blocks compressed: padding makes no two messages alike.        *)
THEOREM Sha256DigestDeterminesMessage == Spec => []DigestDeterminesMessage
<1>1. IInv => DigestDeterminesMessage
  <2> SUFFICES ASSUME IInv, pc = "final", Len(message) * ByteBits < LengthMod
               PROVE  message = SubSeq(Compressed(state), 1, LengthRead(state[Len(state)]) \div ByteBits)
    BY DEF DigestDeterminesMessage
  <2> DEFINE L == Len(message)
             x == L * ByteBits
             block == state[Len(state)]
             s == Compressed(state)
  <2>1. message \in Seq(Bytes) /\ L \in Nat /\ x \in Nat /\ x < LengthMod /\ s = Padded(message)
    <3>1. message \in Seq(Bytes) /\ L \in Nat
      BY DEF IInv, Fed
    <3> QED
      BY <3>1, Sizes DEF IInv, DigestIsOfMessage
  <2> HIDE DEF x, s
  <2>2. x \in 0 .. LengthMod - 1
    BY <2>1, CountRange
  <2>3. Bits = x
    <3>1. Bits = x % LengthMod
      BY DEF IInv, Fed, x
    <3>2. (0 * LengthMod + x) % LengthMod = x
      BY <2>2, CountRange, DivModUnique
    <3>3. 0 * LengthMod + x = x
      BY <2>1, CountRange
    <3> QED
      BY <3>1, <3>2, <3>3
  <2>4. \A k \in 0 .. LengthBytes - 1 : block[BlockBytes - 1 - k] = (x \div Weight[k]) % ByteValues
    BY <2>3 DEF IInv, Fed, LengthByte
  <2>5. LengthRead(block) = x
    <3> HIDE DEF block
    <3> QED
      BY <2>2, <2>4, LengthReadsBack
  <2>6. x \div ByteBits = L
    <3>1. (L * ByteBits + 0) \div ByteBits = L
      <4>1. 0 \in 0 .. ByteBits - 1
        BY Sizes
      <4> QED
        BY <2>1, <4>1, Sizes, DivModUnique
    <3>2. L * ByteBits + 0 = L * ByteBits
      BY <2>1, Sizes
    <3> QED
      BY <3>1, <3>2 DEF x
  <2>7. PICK z \in Index : (L + 1 + z + LengthBytes) % BlockBytes = 0
    BY <2>1, ZerosExist
  <2>8. /\ s \in Seq(Nat) /\ L <= Len(s)
        /\ \A p \in 1 .. L : s[p] = message[p]
    <3>1. z \in Nat /\ LengthBytes \in Nat
      BY Sizes
    <3> QED
      BY <2>1, <2>7, <3>1, PaddedBytes
  <2>9. SubSeq(s, 1, L) = [p \in 1 .. L |-> s[p]]
    BY <2>1, <2>8
  <2>10. message = [p \in 1 .. L |-> message[p]]
    BY <2>1
  <2> QED
    BY <2>5, <2>6, <2>8, <2>9, <2>10 DEF s
<1> QED
  BY <1>1, Invariant, PTL

(* No two messages are padded alike, as long as the counter holds their    *)
(* lengths: k501_sha256_final gives the compression different blocks for   *)
(* different messages.                                                     *)
THEOREM PaddingInjective ==
  ASSUME NEW m \in Seq(Bytes), Len(m) * ByteBits < LengthMod,
         NEW o \in Seq(Bytes), Len(o) * ByteBits < LengthMod,
         Padded(m) = Padded(o)
  PROVE  m = o
<1> DEFINE d(x, k) == (x \div Weight[k]) % ByteValues
           s == Padded(m)
           N == Len(s)
           block == [n \in Index |-> s[N - BlockBytes + n + 1]]
<1>1. ASSUME NEW q \in Seq(Bytes), Len(q) * ByteBits < LengthMod, Padded(q) = s
      PROVE  /\ LengthRead(block) = Len(q) * ByteBits
             /\ q = SubSeq(s, 1, LengthRead(block) \div ByteBits)
  <2> DEFINE L == Len(q)
             x == L * ByteBits
  <2>1. L \in Nat /\ x \in 0 .. LengthMod - 1
    <3>1. L \in Nat
      BY <1>1
    <3>2. x \in Nat
      BY <3>1, Sizes
    <3>3. x < LengthMod
      BY <1>1
    <3> HIDE DEF x
    <3> QED
      BY <3>1, <3>2, <3>3, CountRange
  <2>2. PICK z \in Index : (L + 1 + z + LengthBytes) % BlockBytes = 0
    BY <2>1, ZerosExist
  <2>3. /\ s \in Seq(Nat) /\ N = L + 1 + z + LengthBytes
        /\ \A p \in 1 .. L : s[p] = q[p]
        /\ \A p \in 1 .. LengthBytes : s[L + 1 + z + p] = d(x, LengthBytes - p)
    BY <1>1, <2>2, PaddedBytes
  <2> HIDE DEF s, N, d, x
  <2>4. ASSUME NEW k \in 0 .. LengthBytes - 1 PROVE block[BlockBytes - 1 - k] = d(x, k)
    <3>1. /\ BlockBytes - 1 - k \in Index /\ LengthBytes - k \in 1 .. LengthBytes
          /\ LengthBytes - (LengthBytes - k) = k /\ z \in Nat
      BY Sizes
    <3>2. N - BlockBytes + (BlockBytes - 1 - k) + 1 = L + 1 + z + (LengthBytes - k)
      BY <2>1, <2>3, <3>1, Sizes
    <3> QED
      BY <2>3, <3>1, <3>2
  <2>5. LengthRead(block) = x
    <3> HIDE DEF block
    <3> QED
      BY <2>1, <2>4, LengthReadsBack DEF d
  <2>6. x \div ByteBits = L
    <3>1. (L * ByteBits + 0) \div ByteBits = L
      <4>1. 0 \in 0 .. ByteBits - 1
        BY Sizes
      <4> QED
        BY <2>1, <4>1, Sizes, DivModUnique
    <3>2. L * ByteBits + 0 = L * ByteBits
      BY <2>1, Sizes
    <3> QED
      BY <3>1, <3>2 DEF x
  <2>7. L <= Len(s)
    BY <2>1, <2>3, Sizes DEF N
  <2>8. SubSeq(s, 1, L) = [p \in 1 .. L |-> s[p]]
    BY <2>1, <2>3, <2>7
  <2>9. q = [p \in 1 .. L |-> q[p]]
    BY <1>1, <2>1
  <2> QED
    BY <2>3, <2>5, <2>6, <2>8, <2>9 DEF x
<1>2. m = SubSeq(s, 1, LengthRead(block) \div ByteBits)
  BY <1>1
<1>3. o = SubSeq(s, 1, LengthRead(block) \div ByteBits)
  BY <1>1
<1> QED
  BY <1>2, <1>3
=============================================================================
