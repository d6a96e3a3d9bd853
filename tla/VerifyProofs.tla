---------------------------- MODULE VerifyProofs ----------------------------
(***************************************************************************)
(* What holds of the buffers, of the files and of the verdict over their   *)
(* bytes, for every run, every width of a length and any number of faults. *)
(***************************************************************************)
EXTENDS Verify, QH256Lemmas, SequenceTheorems

\* Sequences, by their elements.
LEMMA SequenceForm ==
  ASSUME NEW s, IsSequence(s)
  PROVE  Len(s) \in Nat /\ DOMAIN s = 1 .. Len(s) /\ s = [k \in 1 .. Len(s) |-> s[k]]
BY DEF IsSequence

LEMMA FormSequence ==
  ASSUME NEW s, NEW n \in Nat, s = [k \in 1 .. n |-> s[k]]
  PROVE  IsSequence(s) /\ Len(s) = n
BY DEF IsSequence

LEMMA ConcatForm ==
  ASSUME NEW s, IsSequence(s), NEW t, IsSequence(t)
  PROVE  /\ IsSequence(s \o t) /\ Len(s \o t) = Len(s) + Len(t)
         /\ \A k \in 1 .. Len(s) : (s \o t)[k] = s[k]
         /\ \A k \in 1 .. Len(t) : (s \o t)[Len(s) + k] = t[k]
<1> DEFINE S == {s[k] : k \in DOMAIN s} \cup {t[k] : k \in DOMAIN t}
<1>1. s \in Seq(S) /\ t \in Seq(S)
  BY SequenceForm DEF IsSequence
<1> HIDE DEF S
<1>2. /\ s \o t \in Seq(S) /\ Len(s \o t) = Len(s) + Len(t)
      /\ \A k \in 1 .. Len(s) : (s \o t)[k] = s[k]
      /\ \A k \in 1 .. Len(t) : (s \o t)[Len(s) + k] = t[k]
  BY <1>1
<1>3. s \o t = [k \in 1 .. Len(s) + Len(t) |-> (s \o t)[k]] /\ Len(s) + Len(t) \in Nat
  <2>1. Len(s) \in Nat /\ Len(t) \in Nat
    BY SequenceForm
  <2> DEFINE q == s \o t
             n == Len(s) + Len(t)
  <2>2. n \in Nat /\ q \in [1 .. n -> S]
    BY <1>2, <2>1, LenProperties
  <2> HIDE DEF q, n
  <2>3. q = [k \in 1 .. n |-> q[k]]
    BY <2>2
  <2> QED
    BY <2>2, <2>3 DEF q, n
<1>4. IsSequence(s \o t)
  BY <1>3, FormSequence
<1> QED
  BY <1>2, <1>4

LEMMA SubSeqForm ==
  ASSUME NEW s, IsSequence(s), NEW m \in Nat \ {0}, NEW n \in Nat, n <= Len(s)
  PROVE  /\ IsSequence(SubSeq(s, m, n))
         /\ Len(SubSeq(s, m, n)) = IF m <= n THEN n - m + 1 ELSE 0
         /\ \A k \in 1 .. Len(SubSeq(s, m, n)) : SubSeq(s, m, n)[k] = s[m + k - 1]
<1>1. Len(s) \in Nat
  BY SequenceForm
<1>2. SubSeq(s, m, n) = [k \in 1 .. (1 + n - m) |-> s[k + m - 1]]
  OBVIOUS
<1>3. CASE m <= n
  <2>1. 1 + n - m \in Nat
    BY <1>3
  <2> QED
    BY <1>2, <1>3, <2>1, FormSequence
<1>4. CASE ~(m <= n)
  <2>1. SubSeq(s, m, n) = <<>>
    BY <1>4
  <2>2. <<>> = [k \in 1 .. 0 |-> <<>>[k]]
    OBVIOUS
  <2>3. IsSequence(<<>>) /\ Len(<<>>) = 0
    BY <2>2, FormSequence
  <2> QED
    BY <1>4, <2>1, <2>3
<1> QED
  BY <1>3, <1>4
-----------------------------------------------------------------------------
\* The recursive functions of the buffers exist, that is, they are what their
\* equations say.
LEMMA WeightExists == \E f : f = [k \in Nat |-> IF k = 0 THEN 1 ELSE f[k - 1] * ByteValues]
<1> DEFINE P(m, f) == f = [k \in 0 .. m |-> IF k = 0 THEN 1 ELSE f[k - 1] * ByteValues]
           G == {m \in Nat : \E f : P(m, f)}
<1>1. 0 \in G
  <2>1. P(0, [k \in 0 .. 0 |-> 1])
    OBVIOUS
  <2> QED
    BY <2>1
<1>2. ASSUME NEW m \in Nat, m \in G PROVE m + 1 \in G
  <2>1. PICK f : P(m, f)
    BY <1>2
  <2> DEFINE e == [k \in 0 .. m + 1 |-> IF k = m + 1 THEN f[m] * ByteValues ELSE f[k]]
  <2>2. ASSUME NEW k \in 0 .. m + 1 PROVE e[k] = IF k = 0 THEN 1 ELSE e[k - 1] * ByteValues
    BY <2>1, <2>2
  <2>3. P(m + 1, e)
    BY <2>2
  <2> HIDE DEF P, e
  <2> QED
    BY <2>3
<1>3. Nat \subseteq G
  <2> HIDE DEF G
  <2> QED
    BY <1>1, <1>2, SetInduction
<1> DEFINE c == [m \in Nat |-> CHOOSE f : P(m, f)]
           w == [m \in Nat |-> c[m][m]]
<1>4. ASSUME NEW m \in Nat PROVE P(m, c[m])
  BY <1>3
<1> HIDE DEF c
<1>5. ASSUME NEW m \in Nat, NEW k \in 0 .. m PROVE c[m][k] = IF k = 0 THEN 1 ELSE c[m][k - 1] * ByteValues
  BY <1>4, <1>5
<1>6. ASSUME NEW m \in Nat PROVE \A k \in 0 .. m : c[m + 1][k] = c[m][k]
  <2> DEFINE Same == {k \in Nat : k <= m => c[m + 1][k] = c[m][k]}
  <2>1. 0 \in Same
    BY <1>5
  <2>2. ASSUME NEW k \in Nat, k \in Same PROVE k + 1 \in Same
    <3> SUFFICES ASSUME k + 1 <= m PROVE c[m + 1][k + 1] = c[m][k + 1]
      OBVIOUS
    <3>1. c[m + 1][k] = c[m][k]
      BY <2>2
    <3>2. c[m + 1][k + 1] = c[m + 1][k] * ByteValues
      <4>1. m + 1 \in Nat /\ k + 1 \in 0 .. m + 1 /\ k + 1 # 0 /\ (k + 1) - 1 = k
        OBVIOUS
      <4> QED
        BY <1>5, <4>1
    <3>3. c[m][k + 1] = c[m][k] * ByteValues
      <4>1. k + 1 \in 0 .. m /\ k + 1 # 0 /\ (k + 1) - 1 = k
        OBVIOUS
      <4> QED
        BY <1>5, <4>1
    <3> QED
      BY <3>1, <3>2, <3>3
  <2>3. Nat \subseteq Same
    <3> HIDE DEF Same
    <3> QED
      BY <2>1, <2>2, SetInduction
  <2> QED
    BY <2>3
<1>7. ASSUME NEW k \in Nat PROVE w[k] = IF k = 0 THEN 1 ELSE w[k - 1] * ByteValues
  <2>1. CASE k = 0
    BY <1>5, <2>1
  <2>2. CASE k # 0
    <3>1. k - 1 \in Nat /\ k - 1 \in 0 .. k - 1 /\ (k - 1) + 1 = k /\ k \in 0 .. k
      BY <2>2
    <3>2. c[k][k - 1] = c[k - 1][k - 1]
      BY <1>6, <3>1
    <3>3. c[k][k] = c[k][k - 1] * ByteValues
      BY <1>5, <2>2, <3>1
    <3> QED
      BY <2>2, <3>1, <3>2, <3>3
  <2> QED
    BY <2>1, <2>2
<1>8. w = [k \in Nat |-> IF k = 0 THEN 1 ELSE w[k - 1] * ByteValues]
  BY <1>7
<1> QED
  BY <1>8

LEMMA WeightFacts ==
  /\ Weight[0] = 1
  /\ \A k \in Nat : Weight[k + 1] = Weight[k] * ByteValues
  /\ \A k \in Nat : Weight[k] \in Nat \ {0}
<1>1. Weight = [k \in Nat |-> IF k = 0 THEN 1 ELSE Weight[k - 1] * ByteValues]
  BY WeightExists DEF Weight
<1>2. Weight[0] = 1
  BY <1>1
<1>3. ASSUME NEW k \in Nat PROVE Weight[k + 1] = Weight[k] * ByteValues
  <2>1. k + 1 \in Nat /\ k + 1 # 0 /\ (k + 1) - 1 = k
    OBVIOUS
  <2> QED
    BY <1>1, <2>1
<1> DEFINE Good == {k \in Nat : Weight[k] \in Nat \ {0}}
<1>4. 0 \in Good
  BY <1>2
<1>5. ASSUME NEW k \in Nat, k \in Good PROVE k + 1 \in Good
  <2>1. Weight[k] \in Nat \ {0} /\ ByteValues \in Nat \ {0}
    BY <1>5, ByteBufAssumption
  <2>2. \A x, y \in Nat \ {0} : x * y \in Nat \ {0}
    OBVIOUS
  <2> QED
    BY <1>3, <2>1, <2>2
<1>6. Nat \subseteq Good
  <2> HIDE DEF Good
  <2> QED
    BY <1>4, <1>5, SetInduction
<1> QED
  BY <1>2, <1>3, <1>6

\* A buffer or a file: a digit is one of a length.
IsBytes(b) == /\ IsSequence(b)
              /\ \A k \in 1 .. Len(b) : IsDigit(b[k]) => b[k][2] \in 0 .. ByteValues - 1

LEMMA OctetRange ==
  ASSUME NEW b, IsBytes(b), NEW k \in 1 .. Len(b)
  PROVE  Octet(b[k]) \in 0 .. ByteValues - 1
<1>1. 0 \in 0 .. ByteValues - 1
  BY ByteBufAssumption
<1> QED
  BY <1>1 DEF Octet, IsBytes

IsSum(f, b, pos, n) ==
  f = [k \in 0 .. n |-> IF k = 0 THEN 0 ELSE f[k - 1] + Octet(b[pos + k]) * Weight[k - 1]]
LEMMA SumExists == \A b, pos : \A n \in Nat : \E f : IsSum(f, b, pos, n)
<1> SUFFICES ASSUME NEW b, NEW pos, NEW n \in Nat PROVE \E f : IsSum(f, b, pos, n)
  OBVIOUS
<1> USE DEF IsSum
<1> DEFINE P(m, f) == IsSum(f, b, pos, m)
           G == {m \in Nat : \E f : P(m, f)}
<1>1. 0 \in G
  <2>1. P(0, [k \in 0 .. 0 |-> 0])
    OBVIOUS
  <2> QED
    BY <2>1
<1>2. ASSUME NEW m \in Nat, m \in G PROVE m + 1 \in G
  <2>1. PICK f : P(m, f)
    BY <1>2
  <2> DEFINE e == [k \in 0 .. m + 1 |-> IF k = m + 1 THEN f[m] + Octet(b[pos + k]) * Weight[k - 1]
                                        ELSE f[k]]
  <2>2. ASSUME NEW k \in 0 .. m + 1
        PROVE  e[k] = IF k = 0 THEN 0 ELSE e[k - 1] + Octet(b[pos + k]) * Weight[k - 1]
    BY <2>1, <2>2
  <2>3. P(m + 1, e)
    BY <2>2
  <2> HIDE DEF P, e
  <2> QED
    BY <2>3
<1>3. Nat \subseteq G
  <2> HIDE DEF G
  <2> QED
    BY <1>1, <1>2, SetInduction
<1> QED
  BY <1>3

LEMMA LengthNat ==
  ASSUME NEW b, IsBytes(b), NEW pos \in Nat, CanTake(b, pos, LengthBytes)
  PROVE  LengthAt(b, pos) \in Nat
<1> DEFINE sum == CHOOSE f : IsSum(f, b, pos, LengthBytes)
<1>1. LengthBytes \in Nat /\ Len(b) \in Nat /\ pos + LengthBytes <= Len(b)
  BY ByteBufAssumption, SequenceForm DEF IsBytes, CanTake
<1>2. sum = [k \in 0 .. LengthBytes |->
               IF k = 0 THEN 0 ELSE sum[k - 1] + Octet(b[pos + k]) * Weight[k - 1]]
  <2>1. \E f : IsSum(f, b, pos, LengthBytes)
    BY <1>1, SumExists
  <2>2. IsSum(sum, b, pos, LengthBytes)
    BY <2>1
  <2> QED
    BY <2>2 DEF IsSum
<1>3. LengthAt(b, pos) = sum[LengthBytes]
  BY DEF LengthAt, IsSum
<1> HIDE DEF sum
<1> DEFINE G == {k \in Nat : k <= LengthBytes => sum[k] \in Nat}
<1>4. 0 \in G
  BY <1>1, <1>2
<1>5. ASSUME NEW k \in Nat, k \in G PROVE k + 1 \in G
  <2> SUFFICES ASSUME k + 1 <= LengthBytes PROVE sum[k + 1] \in Nat
    OBVIOUS
  <2>1. sum[k] \in Nat
    BY <1>1, <1>5
  <2>2. Octet(b[pos + (k + 1)]) \in Nat
    <3>1. pos + (k + 1) \in 1 .. Len(b)
      BY <1>1
    <3>2. ByteValues \in Nat \ {0}
      BY ByteBufAssumption
    <3> QED
      BY <3>1, <3>2, OctetRange
  <2>3. sum[k + 1] = sum[k] + Octet(b[pos + (k + 1)]) * Weight[k]
    <3>1. k + 1 \in 0 .. LengthBytes /\ k + 1 # 0 /\ (k + 1) - 1 = k
      BY <1>1
    <3> QED
      BY <1>2, <3>1
  <2>4. Weight[k] \in Nat
    BY WeightFacts
  <2>5. \A x, y, z \in Nat : x + y * z \in Nat
    OBVIOUS
  <2> QED
    BY <2>1, <2>2, <2>3, <2>4, <2>5
<1>6. Nat \subseteq G
  <2> HIDE DEF G
  <2> QED
    BY <1>4, <1>5, SetInduction
<1> QED
  BY <1>1, <1>3, <1>6

\* A frame lies within the bytes and is longer than its length field.
LEMMA FrameWithin ==
  ASSUME NEW b, IsBytes(b), NEW p \in Nat, FrameAt(b, p)
  PROVE  /\ FrameEnd(b, p) \in Nat /\ FrameEnd(b, p) <= Len(b)
         /\ p + LengthBytes < FrameEnd(b, p) /\ p < Len(b)
<1>1. LengthBytes \in Nat \ {0} /\ Len(b) \in Nat
  BY ByteBufAssumption, SequenceForm DEF IsBytes
<1>2. LengthAt(b, p) \in Nat
  BY LengthNat DEF FrameAt, FrameFits
<1>3. p + LengthBytes <= Len(b) /\ p + LengthBytes + LengthAt(b, p) <= Len(b)
  BY <1>1, <1>2 DEF FrameAt, FrameFits, CanTake
<1>4. LengthAt(b, p) # 0
  <2> SUFFICES ASSUME LengthAt(b, p) = 0 PROVE FALSE
    OBVIOUS
  <2>1. FramePayload(b, p) = SubSeq(b, p + LengthBytes + 1, p + LengthBytes)
    BY <1>1 DEF FramePayload, FrameEnd
  <2>2. SubSeq(b, p + LengthBytes + 1, p + LengthBytes) = <<>>
    BY <1>1, SubSeqEmpty
  <2> QED
    BY <2>1, <2>2 DEF FrameAt, IsPayload
<1> QED
  BY <1>1, <1>2, <1>3, <1>4 DEF FrameEnd
-----------------------------------------------------------------------------
\* A reader of b after each number of frames.
IsWalk(f, b, n) == f = [k \in 0 .. n |-> IF k = 0 THEN 0 ELSE Past(b, f[k - 1])]
LEMMA WalkExists == \A b : \A n \in Nat : \E f : IsWalk(f, b, n)
<1> SUFFICES ASSUME NEW b, NEW n \in Nat PROVE \E f : IsWalk(f, b, n)
  OBVIOUS
<1> USE DEF IsWalk
<1> DEFINE P(m, f) == IsWalk(f, b, m)
           G == {m \in Nat : \E f : P(m, f)}
<1>1. 0 \in G
  <2>1. P(0, [k \in 0 .. 0 |-> 0])
    OBVIOUS
  <2> QED
    BY <2>1
<1>2. ASSUME NEW m \in Nat, m \in G PROVE m + 1 \in G
  <2>1. PICK f : P(m, f)
    BY <1>2
  <2> DEFINE e == [k \in 0 .. m + 1 |-> IF k = m + 1 THEN Past(b, f[m]) ELSE f[k]]
  <2>2. ASSUME NEW k \in 0 .. m + 1 PROVE e[k] = IF k = 0 THEN 0 ELSE Past(b, e[k - 1])
    BY <2>1, <2>2
  <2>3. P(m + 1, e)
    BY <2>2
  <2> HIDE DEF P, e
  <2> QED
    BY <2>3
<1>3. Nat \subseteq G
  <2> HIDE DEF G
  <2> QED
    BY <1>1, <1>2, SetInduction
<1> QED
  BY <1>3

LEMMA WalkSteps ==
  ASSUME NEW b, IsBytes(b)
  PROVE  /\ FramePos(b)[0] = 0
         /\ \A k \in 0 .. Len(b) : FramePos(b)[k] \in 0 .. Len(b)
         /\ \A k \in 0 .. Len(b) - 1 : FramePos(b)[k + 1] = Past(b, FramePos(b)[k])
<1> DEFINE at == FramePos(b)
           N == Len(b)
<1>0. N \in Nat
  BY SequenceForm DEF IsBytes
<1>1. at = [k \in 0 .. N |-> IF k = 0 THEN 0 ELSE Past(b, at[k - 1])]
  <2>1. at = CHOOSE f : IsWalk(f, b, N)
    BY DEF FramePos, IsWalk
  <2>2. \E f : IsWalk(f, b, N)
    BY <1>0, WalkExists
  <2> HIDE DEF at, N
  <2>3. IsWalk(at, b, N)
    BY <2>1, <2>2
  <2> QED
    BY <2>3 DEF IsWalk
<1> HIDE DEF at
<1>2. at[0] = 0
  BY <1>0, <1>1
<1>3. ASSUME NEW k \in 0 .. N - 1 PROVE at[k + 1] = Past(b, at[k])
  <2>1. k + 1 \in 0 .. N /\ k + 1 # 0 /\ (k + 1) - 1 = k
    BY <1>0
  <2> QED
    BY <1>1, <2>1
<1> DEFINE G == {k \in Nat : k <= N => at[k] \in 0 .. N}
<1>4. 0 \in G
  BY <1>0, <1>2
<1>5. ASSUME NEW k \in Nat, k \in G PROVE k + 1 \in G
  <2> SUFFICES ASSUME k + 1 <= N PROVE at[k + 1] \in 0 .. N
    OBVIOUS
  <2>1. at[k] \in 0 .. N /\ at[k + 1] = Past(b, at[k])
    BY <1>0, <1>3, <1>5
  <2>2. FrameAt(b, at[k]) => FrameEnd(b, at[k]) \in 0 .. N
    BY <1>0, <2>1, FrameWithin
  <2> QED
    BY <2>1, <2>2 DEF Past
<1>6. Nat \subseteq G
  <2> HIDE DEF G
  <2> QED
    BY <1>4, <1>5, SetInduction
<1>7. \A k \in 0 .. N : at[k] \in 0 .. N
  BY <1>0, <1>6
<1> QED
  BY <1>2, <1>3, <1>7 DEF at

\* The frames that can be read from the front, counted.
LEMMA CountFacts ==
  ASSUME NEW b, IsBytes(b)
  PROVE  /\ FrameCount(b) \in 0 .. Len(b)
         /\ ~FrameAt(b, FramePos(b)[FrameCount(b)])
         /\ \A k \in 0 .. FrameCount(b) - 1 : FrameAt(b, FramePos(b)[k])
<1> DEFINE at == FramePos(b)
           N == Len(b)
           Stuck(k) == k \in 0 .. N /\ ~FrameAt(b, at[k])
           Count(n) == n \in 0 .. N /\ ~FrameAt(b, at[n]) /\ (n > 0 => FrameAt(b, at[n - 1]))
           c == FrameCount(b)
<1>0. N \in Nat
  BY SequenceForm DEF IsBytes
<1>1. \E k \in Nat : Stuck(k)
  <2> SUFFICES ASSUME \A k \in 0 .. N : FrameAt(b, at[k]) PROVE FALSE
    BY <1>0
  <2> DEFINE G == {k \in Nat : k <= N => at[k] >= k}
  <2>1. 0 \in G
    BY <1>0, WalkSteps
  <2>2. ASSUME NEW k \in Nat, k \in G PROVE k + 1 \in G
    <3> SUFFICES ASSUME k + 1 <= N PROVE at[k + 1] >= k + 1
      OBVIOUS
    <3>1. k \in 0 .. N /\ k \in 0 .. N - 1 /\ at[k] >= k
      BY <1>0, <2>2
    <3>2. at[k] \in 0 .. N /\ at[k + 1] = FrameEnd(b, at[k])
      BY <3>1, WalkSteps DEF Past
    <3> HIDE DEF at
    <3>3. FrameEnd(b, at[k]) \in Nat /\ at[k] < FrameEnd(b, at[k])
      <4>1. at[k] \in Nat /\ FrameAt(b, at[k]) /\ LengthBytes \in Nat
        BY <1>0, <3>1, <3>2, ByteBufAssumption
      <4> QED
        BY <4>1, FrameWithin
    <3> QED
      BY <1>0, <3>1, <3>2, <3>3
  <2>3. Nat \subseteq G
    <3> HIDE DEF G
    <3> QED
      BY <2>1, <2>2, SetInduction
  <2>4. at[N] = N
    BY <1>0, <2>3, WalkSteps
  <2>5. FrameAt(b, N)
    BY <1>0, <2>4
  <2> QED
    BY <1>0, <2>5, FrameWithin
<1>2. \E n : Count(n)
  <2> DEFINE T == {k \in Nat : Stuck(k)}
  <2>1. T \subseteq Nat /\ T # {}
    BY <1>1
  <2>2. PICK n \in T : \A k \in T : n <= k
    <3> HIDE DEF T
    <3> QED
      BY <2>1, LeastNatural
  <2>3. n > 0 => n - 1 \in 0 .. N /\ n - 1 \in Nat /\ ~(n <= n - 1)
    BY <1>0, <2>2
  <2>4. n > 0 => FrameAt(b, at[n - 1])
    BY <2>2, <2>3
  <2> QED
    BY <2>2, <2>4
<1>3. Count(c)
  <2>1. c = CHOOSE n \in 0 .. N : ~FrameAt(b, at[n]) /\ (n > 0 => FrameAt(b, at[n - 1]))
    BY DEF FrameCount
  <2> HIDE DEF c, at, N
  <2>2. \E n \in 0 .. N : ~FrameAt(b, at[n]) /\ (n > 0 => FrameAt(b, at[n - 1]))
    BY <1>2
  <2> QED
    BY <2>1, <2>2
<1>4. ASSUME NEW j \in 0 .. c - 1, ~FrameAt(b, at[j]) PROVE FALSE
  <2> DEFINE G == {k \in Nat : j + k <= N => ~FrameAt(b, at[j + k])}
  <2>0. c \in 0 .. N /\ j \in Nat /\ j < c
    BY <1>0, <1>3
  <2> HIDE DEF c
  <2>1. 0 \in G
    BY <1>4, <2>0
  <2>2. ASSUME NEW k \in Nat, k \in G PROVE k + 1 \in G
    <3> SUFFICES ASSUME j + (k + 1) <= N PROVE ~FrameAt(b, at[j + (k + 1)])
      OBVIOUS
    <3>1. j + k \in 0 .. N - 1 /\ (j + k) + 1 = j + (k + 1) /\ j + k <= N
      BY <1>0, <2>0
    <3>2. ~FrameAt(b, at[j + k])
      BY <2>2, <3>1
    <3>3. at[(j + k) + 1] = at[j + k]
      BY <3>1, <3>2, WalkSteps DEF Past
    <3> QED
      BY <3>1, <3>2, <3>3
  <2>3. Nat \subseteq G
    <3> HIDE DEF G
    <3> QED
      BY <2>1, <2>2, SetInduction
  <2>4. (c - 1) - j \in Nat /\ j + ((c - 1) - j) = c - 1 /\ c - 1 <= N /\ c > 0
    BY <1>0, <2>0
  <2>5. ~FrameAt(b, at[c - 1])
    BY <2>3, <2>4
  <2> QED
    BY <1>3, <2>4, <2>5 DEF c
<1> QED
  BY <1>3, <1>4

\* So many frames are there as were read before one could not be.
LEMMA CountUnique ==
  ASSUME NEW b, IsBytes(b), NEW n \in 0 .. Len(b), \A k \in 0 .. n - 1 : FrameAt(b, FramePos(b)[k])
  PROVE  n <= FrameCount(b) /\ (~FrameAt(b, FramePos(b)[n]) => n = FrameCount(b))
<1>1. /\ FrameCount(b) \in 0 .. Len(b) /\ Len(b) \in Nat /\ n \in Nat
  BY CountFacts, SequenceForm DEF IsBytes
<1>2. n <= FrameCount(b)
  <2> SUFFICES ASSUME FrameCount(b) < n PROVE FALSE
    BY <1>1
  <2>1. FrameCount(b) \in 0 .. n - 1
    BY <1>1
  <2> QED
    BY <2>1, CountFacts
<1>3. ASSUME n < FrameCount(b) PROVE FrameAt(b, FramePos(b)[n])
  <2>1. n \in 0 .. FrameCount(b) - 1
    BY <1>1, <1>3
  <2> QED
    BY <2>1, CountFacts
<1> QED
  BY <1>1, <1>2, <1>3
-----------------------------------------------------------------------------
\* What a run writes: a chain of entries, one for each record.
IsChain(f, raw, n) ==
  f = [k \in 1 .. n |->
         HistoryEntry(raw[k], k - 1, IF k = 1 THEN ZeroHash ELSE f[k - 1].chain_hash,
                      CHOOSE g \in Garbage : TRUE)]
LEMMA ChainExists == \A raw : \A n \in Nat : \E f : IsChain(f, raw, n)
<1> SUFFICES ASSUME NEW raw, NEW n \in Nat PROVE \E f : IsChain(f, raw, n)
  OBVIOUS
<1> DEFINE P(m, f) == IsChain(f, raw, m)
           G == {m \in Nat : \E f : P(m, f)}
<1>1. 0 \in G
  <2>1. P(0, [k \in 1 .. 0 |-> 0])
    BY DEF IsChain
  <2> QED
    BY <2>1
<1>2. ASSUME NEW m \in Nat, m \in G PROVE m + 1 \in G
  <2>1. PICK f : P(m, f)
    BY <1>2
  <2> DEFINE g0 == CHOOSE g \in Garbage : TRUE
             last == IF m = 0 THEN ZeroHash ELSE f[m].chain_hash
             e == [k \in 1 .. m + 1 |->
                     IF k = m + 1 THEN HistoryEntry(raw[k], m, last, g0) ELSE f[k]]
  <2>2. ASSUME NEW k \in 1 .. m + 1
        PROVE  e[k] = HistoryEntry(raw[k], k - 1, IF k = 1 THEN ZeroHash ELSE e[k - 1].chain_hash, g0)
    <3>1. f = [j \in 1 .. m |->
                 HistoryEntry(raw[j], j - 1, IF j = 1 THEN ZeroHash ELSE f[j - 1].chain_hash, g0)]
      BY <2>1 DEF IsChain
    <3>2. CASE k = m + 1
      <4>1. e[k] = HistoryEntry(raw[k], m, last, g0) /\ k - 1 = m
        BY <3>2
      <4>2. last = IF k = 1 THEN ZeroHash ELSE e[k - 1].chain_hash
        <5>1. CASE m = 0
          BY <3>2, <5>1
        <5>2. CASE m # 0
          <6>1. m \in 1 .. m + 1 /\ m # m + 1 /\ k # 1 /\ k - 1 = m
            BY <3>2, <5>2
          <6>2. e[m] = f[m]
            BY <6>1
          <6> HIDE DEF e
          <6> QED
            BY <5>2, <6>1, <6>2
        <5> QED
          BY <5>1, <5>2
      <4> HIDE DEF e, last, g0
      <4> QED
        BY <4>1, <4>2
    <3>3. CASE k # m + 1
      <4>1. k \in 1 .. m /\ (k # 1 => k - 1 \in 1 .. m /\ k - 1 # m + 1 /\ k - 1 \in 1 .. m + 1)
        BY <2>2, <3>3
      <4>2. e[k] = f[k] /\ (k # 1 => e[k - 1] = f[k - 1])
        BY <3>3, <4>1
      <4> HIDE DEF e, last, g0
      <4>3. f[k] = HistoryEntry(raw[k], k - 1, IF k = 1 THEN ZeroHash ELSE f[k - 1].chain_hash, g0)
        BY <3>1, <4>1
      <4> QED
        BY <4>2, <4>3
    <3> QED
      BY <3>2, <3>3
  <2>3. P(m + 1, e)
    <3>1. e = [k \in 1 .. m + 1 |-> e[k]]
      OBVIOUS
    <3> HIDE DEF e, g0
    <3> QED
      BY <2>2, <3>1 DEF IsChain, g0
  <2> HIDE DEF P, e
  <2> QED
    BY <2>3
<1>3. Nat \subseteq G
  <2> HIDE DEF G
  <2> QED
    BY <1>1, <1>2, SetInduction
<1> QED
  BY <1>3

LEMMA OutputFacts ==
  ASSUME NEW o \in Outputs
  PROVE  /\ o = [records |-> o.records, history |-> o.history]
         /\ IsSequence(o.records) /\ IsSequence(o.history)
         /\ Len(o.records) \in Nat /\ Len(o.history) = Len(o.records)
         /\ IsChain(o.history, o.records, Len(o.records))
         /\ \A k \in 1 .. Len(o.records) : /\ SizeOf(o.records[k]) \in Nat \ {0}
                                           /\ SizeOf(o.history[k]) \in Nat \ {0}
<1>1. PICK id \in RootIds, tree \in Trees : o = RunOutput(id, tree)
  BY DEF Outputs
<1> DEFINE n == Len(tree)
           raw == [k \in 1 .. n |-> RecordBytes(id, tree[k])]
           entry == CHOOSE f : IsChain(f, raw, n)
<1>2. n \in Nat /\ DOMAIN tree = 1 .. n
  BY VerifyAssumption, SequenceForm
<1>3. o = [records |-> raw, history |-> entry]
  <2> HIDE DEF n
  <2> QED
    BY <1>1, <1>2 DEF RunOutput, IsChain
<1>4. IsChain(entry, raw, n)
  <2>1. \E f : IsChain(f, raw, n)
    BY <1>2, ChainExists
  <2> HIDE DEF raw, n
  <2> QED
    BY <2>1
<1>5. IsSequence(raw) /\ Len(raw) = n
  <2> HIDE DEF n
  <2>1. raw = [k \in 1 .. n |-> raw[k]]
    OBVIOUS
  <2> HIDE DEF raw
  <2> QED
    BY <1>2, <2>1, FormSequence
<1> HIDE DEF entry
<1>6. IsSequence(entry) /\ Len(entry) = n
  <2> HIDE DEF n, raw
  <2>1. entry = [k \in 1 .. n |-> entry[k]]
    BY <1>4 DEF IsChain
  <2> QED
    BY <1>2, <2>1, FormSequence
<1> HIDE DEF raw, n
<1>7. \A k \in 1 .. n : SizeOf(raw[k]) \in Nat \ {0} /\ SizeOf(entry[k]) \in Nat \ {0}
  <2>1. DOMAIN raw = 1 .. n /\ DOMAIN entry = 1 .. n
    BY <1>5, <1>6, SequenceForm
  <2>2. o.records = raw /\ o.history = entry
    BY <1>3
  <2> QED
    BY <2>1, <2>2, VerifyAssumption
<1> QED
  BY <1>2, <1>3, <1>4, <1>5, <1>6, <1>7
-----------------------------------------------------------------------------
\* What framing puts into a buffer.
LEMMA U32leBytes ==
  ASSUME NEW n \in Nat
  PROVE  /\ IsSequence(U32le(n)) /\ Len(U32le(n)) = LengthBytes
         /\ \A k \in 1 .. LengthBytes : /\ U32le(n)[k] = Digit((n \div Weight[k - 1]) % ByteValues)
                                        /\ (n \div Weight[k - 1]) % ByteValues \in 0 .. ByteValues - 1
<1>1. U32le(n) = [k \in 1 .. LengthBytes |-> Digit((n \div Weight[k - 1]) % ByteValues)]
  BY DEF U32le
<1>2. LengthBytes \in Nat /\ ByteValues \in Nat \ {0}
  BY ByteBufAssumption
<1>3. ASSUME NEW k \in 1 .. LengthBytes
      PROVE  (n \div Weight[k - 1]) % ByteValues \in 0 .. ByteValues - 1
  <2>1. k - 1 \in Nat
    BY <1>2
  <2>2. Weight[k - 1] \in Nat \ {0}
    BY <2>1, WeightFacts
  <2>3. n \div Weight[k - 1] \in Nat
    BY <2>2, DivMod
  <2> QED
    BY <1>2, <2>3, DivMod
<1>4. U32le(n) = [k \in 1 .. LengthBytes |-> U32le(n)[k]]
  BY <1>1
<1>5. IsSequence(U32le(n)) /\ Len(U32le(n)) = LengthBytes
  BY <1>2, <1>4, FormSequence
<1> QED
  BY <1>1, <1>3, <1>5

LEMMA PayloadBytes ==
  ASSUME NEW x, SizeOf(x) \in Nat
  PROVE  /\ IsSequence(Payload(x)) /\ Len(Payload(x)) = SizeOf(x)
         /\ \A k \in 1 .. SizeOf(x) : Payload(x)[k] = IF k = 1 THEN <<"byte", x>> ELSE <<"rest", k>>
<1>1. Payload(x) = [k \in 1 .. SizeOf(x) |-> IF k = 1 THEN <<"byte", x>> ELSE <<"rest", k>>]
  BY DEF Payload
<1>2. Payload(x) = [k \in 1 .. SizeOf(x) |-> Payload(x)[k]]
  BY <1>1
<1>3. IsSequence(Payload(x)) /\ Len(Payload(x)) = SizeOf(x)
  BY <1>2, FormSequence
<1> QED
  BY <1>1, <1>3

\* Bytes that come from frames of values of the sequence s.
Comes(c, s) == \/ \E d \in 0 .. ByteValues - 1 : c = Digit(d)
               \/ \E k \in 1 .. Len(s) : c = <<"byte", s[k]>>
               \/ \E n \in Nat : c = <<"rest", n>>
BytesOf(b, s) == IsSequence(b) /\ \A k \in 1 .. Len(b) : Comes(b[k], s)

LEMMA BytesOfAreBytes ==
  ASSUME NEW b, NEW s, BytesOf(b, s)
  PROVE  IsBytes(b)
BY DEF BytesOf, IsBytes, Comes, Digit, IsDigit

LEMMA FramedBytes ==
  ASSUME NEW b, NEW s, BytesOf(b.data, s), NEW k \in 1 .. Len(s), SizeOf(s[k]) \in Nat
  PROVE  /\ Framed(b, s[k]).data = (b.data \o U32le(SizeOf(s[k]))) \o Payload(s[k])
         /\ BytesOf(Framed(b, s[k]).data, s)
<1> DEFINE u == U32le(SizeOf(s[k]))
           p == Payload(s[k])
<1>1. Framed(b, s[k]).data = (b.data \o u) \o p
  BY DEF Framed, Put
<1>2. IsSequence(u) /\ \A j \in 1 .. Len(u) : Comes(u[j], s)
  BY U32leBytes DEF Comes
<1>3. IsSequence(p) /\ \A j \in 1 .. Len(p) : Comes(p[j], s)
  <2>1. ASSUME NEW j \in 1 .. SizeOf(s[k]) PROVE j \in Nat
    BY <2>1
  <2> QED
    BY <2>1, PayloadBytes DEF Comes
<1>4. ASSUME NEW x, NEW y, BytesOf(x, s), BytesOf(y, s) PROVE BytesOf(x \o y, s)
  <2>1. /\ IsSequence(x \o y) /\ Len(x \o y) = Len(x) + Len(y)
        /\ \A j \in 1 .. Len(x) : (x \o y)[j] = x[j]
        /\ \A j \in 1 .. Len(y) : (x \o y)[Len(x) + j] = y[j]
        /\ Len(x) \in Nat /\ Len(y) \in Nat
    <3>1. IsSequence(x) /\ IsSequence(y)
      BY <1>4 DEF BytesOf
    <3>2. Len(x) \in Nat /\ Len(y) \in Nat
      BY <3>1, SequenceForm
    <3>3. /\ IsSequence(x \o y) /\ Len(x \o y) = Len(x) + Len(y)
          /\ \A j \in 1 .. Len(x) : (x \o y)[j] = x[j]
          /\ \A j \in 1 .. Len(y) : (x \o y)[Len(x) + j] = y[j]
      BY <3>1, ConcatForm
    <3> QED
      BY <3>2, <3>3
  <2>2. ASSUME NEW j \in 1 .. Len(x \o y) PROVE Comes((x \o y)[j], s)
    <3>1. CASE j <= Len(x)
      BY <1>4, <2>1, <2>2, <3>1 DEF BytesOf
    <3>2. CASE j > Len(x)
      <4>1. j - Len(x) \in 1 .. Len(y) /\ Len(x) + (j - Len(x)) = j
        BY <2>1, <2>2, <3>2
      <4>2. (x \o y)[j] = y[j - Len(x)]
        BY <2>1, <4>1
      <4> QED
        BY <1>4, <4>1, <4>2 DEF BytesOf
    <3> QED
      BY <2>1, <2>2, <3>1, <3>2
  <2> QED
    BY <2>1, <2>2 DEF BytesOf
<1> HIDE DEF u, p
<1>5. BytesOf(u, s) /\ BytesOf(p, s)
  BY <1>2, <1>3 DEF BytesOf
<1>6. BytesOf((b.data \o u) \o p, s)
  BY <1>4, <1>5
<1> QED
  BY <1>1, <1>6 DEF u, p

\* The buffer after each of the frames of s.
Framable(s) == IsSequence(s) /\ \A k \in 1 .. Len(s) : SizeOf(s[k]) \in Nat \ {0}
IsFraming(f, s, n) == f = [k \in 0 .. n |-> IF k = 0 THEN EmptyBuf ELSE Framed(f[k - 1], s[k])]
LEMMA FramingExists == \A s : \A n \in Nat : \E f : IsFraming(f, s, n)
<1> SUFFICES ASSUME NEW s, NEW n \in Nat PROVE \E f : IsFraming(f, s, n)
  OBVIOUS
<1> USE DEF IsFraming
<1> DEFINE P(m, f) == IsFraming(f, s, m)
           G == {m \in Nat : \E f : P(m, f)}
<1>1. 0 \in G
  <2>1. P(0, [k \in 0 .. 0 |-> EmptyBuf])
    OBVIOUS
  <2> QED
    BY <2>1
<1>2. ASSUME NEW m \in Nat, m \in G PROVE m + 1 \in G
  <2>1. PICK f : P(m, f)
    BY <1>2
  <2> DEFINE e == [k \in 0 .. m + 1 |-> IF k = m + 1 THEN Framed(f[m], s[k]) ELSE f[k]]
  <2>2. ASSUME NEW k \in 0 .. m + 1 PROVE e[k] = IF k = 0 THEN EmptyBuf ELSE Framed(e[k - 1], s[k])
    BY <2>1, <2>2
  <2>3. P(m + 1, e)
    BY <2>2
  <2> HIDE DEF P, e
  <2> QED
    BY <2>3
<1>3. Nat \subseteq G
  <2> HIDE DEF G
  <2> QED
    BY <1>1, <1>2, SetInduction
<1> QED
  BY <1>3

LEMMA FramingSteps ==
  ASSUME NEW s, Framable(s)
  PROVE  /\ FramedFirst(s)[0] = EmptyBuf
         /\ \A k \in 0 .. Len(s) - 1 : FramedFirst(s)[k + 1] = Framed(FramedFirst(s)[k], s[k + 1])
         /\ \A k \in 0 .. Len(s) : BytesOf(FramedFirst(s)[k].data, s)
<1> DEFINE f == FramedFirst(s)
           N == Len(s)
<1>0. N \in Nat
  BY SequenceForm DEF Framable
<1>1. f = [k \in 0 .. N |-> IF k = 0 THEN EmptyBuf ELSE Framed(f[k - 1], s[k])]
  <2>1. f = CHOOSE buf : IsFraming(buf, s, N)
    BY DEF FramedFirst, IsFraming
  <2>2. \E buf : IsFraming(buf, s, N)
    BY <1>0, FramingExists
  <2> HIDE DEF f, N
  <2>3. IsFraming(f, s, N)
    BY <2>1, <2>2
  <2> QED
    BY <2>3 DEF IsFraming
<1> HIDE DEF f
<1>2. f[0] = EmptyBuf
  BY <1>0, <1>1
<1>3. ASSUME NEW k \in 0 .. N - 1 PROVE f[k + 1] = Framed(f[k], s[k + 1])
  <2>1. k + 1 \in 0 .. N /\ k + 1 # 0 /\ (k + 1) - 1 = k
    BY <1>0
  <2> QED
    BY <1>1, <2>1
<1> DEFINE G == {k \in Nat : k <= N => BytesOf(f[k].data, s)}
<1>4. 0 \in G
  <2>1. f[0].data = <<>> /\ <<>> = [k \in 1 .. 0 |-> <<>>[k]]
    BY <1>2 DEF EmptyBuf
  <2>2. IsSequence(<<>>) /\ Len(<<>>) = 0
    BY <2>1, FormSequence
  <2> QED
    BY <2>1, <2>2 DEF BytesOf
<1>5. ASSUME NEW k \in Nat, k \in G PROVE k + 1 \in G
  <2> SUFFICES ASSUME k + 1 <= N PROVE BytesOf(f[k + 1].data, s)
    OBVIOUS
  <2>1. k + 1 \in 1 .. Len(s) /\ k \in 0 .. N - 1 /\ BytesOf(f[k].data, s)
    BY <1>0, <1>5
  <2>2. SizeOf(s[k + 1]) \in Nat
    BY <2>1 DEF Framable
  <2> QED
    BY <1>3, <2>1, <2>2, FramedBytes
<1>6. Nat \subseteq G
  <2> HIDE DEF G
  <2> QED
    BY <1>4, <1>5, SetInduction
<1>7. \A k \in 0 .. N : BytesOf(f[k].data, s)
  BY <1>0, <1>6
<1> QED
  BY <1>2, <1>3, <1>7 DEF f
-----------------------------------------------------------------------------
\* A fault that exchanges no values makes the bytes from bytes that were there
\* and digits.
Drawn(c, b) ==
  /\ IsSequence(c)
  /\ \A k \in 1 .. Len(c) : \/ \E j \in 1 .. Len(b) : c[k] = b[j]
                            \/ \E d \in 0 .. ByteValues - 1 : c[k] = Digit(d)

LEMMA DrawnBytes ==
  ASSUME NEW b, IsBytes(b), NEW c, Drawn(c, b)
  PROVE  IsBytes(c)
BY DEF Drawn, IsBytes, Digit, IsDigit

LEMMA DrawnPart ==
  ASSUME NEW b, NEW c, Drawn(c, b), NEW m \in Nat \ {0}, NEW n \in Nat, n <= Len(c)
  PROVE  Drawn(SubSeq(c, m, n), b)
<1>1. IsSequence(c) /\ Len(c) \in Nat
  BY SequenceForm DEF Drawn
<1>2. /\ IsSequence(SubSeq(c, m, n))
      /\ Len(SubSeq(c, m, n)) = IF m <= n THEN n - m + 1 ELSE 0
      /\ \A k \in 1 .. Len(SubSeq(c, m, n)) : SubSeq(c, m, n)[k] = c[m + k - 1]
  BY <1>1, SubSeqForm
<1>3. ASSUME NEW k \in 1 .. Len(SubSeq(c, m, n)) PROVE m + k - 1 \in 1 .. Len(c)
  BY <1>1, <1>2, <1>3
<1> QED
  BY <1>2, <1>3 DEF Drawn

LEMMA DrawnTwice ==
  ASSUME NEW b, NEW x, Drawn(x, b), NEW y, Drawn(y, b)
  PROVE  Drawn(x \o y, b) /\ Len(x \o y) = Len(x) + Len(y)
<1>1. IsSequence(x) /\ IsSequence(y)
  BY DEF Drawn
<1>2. Len(x) \in Nat /\ Len(y) \in Nat
  BY <1>1, SequenceForm
<1>3. /\ IsSequence(x \o y) /\ Len(x \o y) = Len(x) + Len(y)
      /\ \A j \in 1 .. Len(x) : (x \o y)[j] = x[j]
      /\ \A j \in 1 .. Len(y) : (x \o y)[Len(x) + j] = y[j]
  BY <1>1, ConcatForm
<1> DEFINE q == x \o y
<1> HIDE DEF q
<1>4. ASSUME NEW j \in 1 .. Len(q)
      PROVE  (\E i \in 1 .. Len(x) : q[j] = x[i]) \/ (\E i \in 1 .. Len(y) : q[j] = y[i])
  <2>1. CASE j <= Len(x)
    BY <1>2, <1>3, <2>1 DEF q
  <2>2. CASE j > Len(x)
    <3>1. j - Len(x) \in 1 .. Len(y) /\ Len(x) + (j - Len(x)) = j
      BY <1>2, <1>3, <2>2 DEF q
    <3>2. q[j] = y[j - Len(x)]
      BY <1>3, <3>1 DEF q
    <3> QED
      BY <3>1, <3>2
  <2> QED
    BY <1>2, <1>3, <2>1, <2>2 DEF q
<1>5. Drawn(q, b)
  BY <1>3, <1>4, SMTT(60) DEF Drawn, q
<1> QED
  BY <1>3, <1>5 DEF q

LEMMA DrawnSplice ==
  ASSUME NEW b, NEW c, Drawn(c, b), NEW s, Drawn(s, b), NEW p \in 0 .. Len(c), NEW q \in p .. Len(c)
  PROVE  /\ Drawn(Spliced(c, p, q, s), b)
         /\ Len(Spliced(c, p, q, s)) = p + Len(s) + (Len(c) - q)
<1>1. IsSequence(c) /\ IsSequence(s) /\ Len(c) \in Nat /\ Len(s) \in Nat
  BY SequenceForm DEF Drawn
<1>2. /\ Drawn(SubSeq(c, 1, p), b) /\ Len(SubSeq(c, 1, p)) = p
      /\ Drawn(SubSeq(c, q + 1, Len(c)), b) /\ Len(SubSeq(c, q + 1, Len(c))) = Len(c) - q
  <2>1. p \in Nat /\ p <= Len(c) /\ q + 1 \in Nat \ {0} /\ Len(c) <= Len(c) /\ q \in Nat /\ q <= Len(c)
        /\ 1 \in Nat \ {0}
    BY <1>1
  <2>2. Drawn(SubSeq(c, 1, p), b) /\ Drawn(SubSeq(c, q + 1, Len(c)), b)
    BY <1>1, <2>1, DrawnPart
  <2>3. Len(SubSeq(c, 1, p)) = p
    BY <1>1, <2>1, SubSeqForm
  <2>4. Len(SubSeq(c, q + 1, Len(c))) = Len(c) - q
    BY <1>1, <2>1, SubSeqForm
  <2> QED
    BY <2>2, <2>3, <2>4
<1>3. Drawn(SubSeq(c, 1, p) \o s, b) /\ Len(SubSeq(c, 1, p) \o s) = p + Len(s)
  BY <1>2, DrawnTwice
<1>4. Spliced(c, p, q, s) = (SubSeq(c, 1, p) \o s) \o SubSeq(c, q + 1, Len(c))
  BY DEF Spliced
<1>5. /\ Drawn((SubSeq(c, 1, p) \o s) \o SubSeq(c, q + 1, Len(c)), b)
      /\ Len((SubSeq(c, 1, p) \o s) \o SubSeq(c, q + 1, Len(c)))
           = Len(SubSeq(c, 1, p) \o s) + Len(SubSeq(c, q + 1, Len(c)))
  BY <1>2, <1>3, DrawnTwice
<1>6. Len(Spliced(c, p, q, s)) = Len(SubSeq(c, 1, p) \o s) + Len(SubSeq(c, q + 1, Len(c)))
  BY <1>4, <1>5
<1>7. Len(Spliced(c, p, q, s)) = (p + Len(s)) + (Len(c) - q)
  BY <1>2, <1>3, <1>6
<1> QED
  BY <1>4, <1>5, <1>7

LEMMA StartFacts ==
  ASSUME NEW b, IsBytes(b), NEW p \in FrameStarts(b)
  PROVE  /\ p \in 0 .. Len(b) /\ FrameAt(b, p) /\ Len(b) \in Nat
         /\ FrameEnd(b, p) \in p .. Len(b) /\ p + LengthBytes + 1 \in 1 .. Len(b)
<1>1. PICK k \in 1 .. FrameCount(b) : p = FramePos(b)[k - 1]
  BY DEF FrameStarts
<1>2. Len(b) \in Nat /\ LengthBytes \in Nat
  BY SequenceForm, ByteBufAssumption DEF IsBytes
<1>3. FrameCount(b) \in 0 .. Len(b) /\ k - 1 \in 0 .. FrameCount(b) - 1 /\ k - 1 \in 0 .. Len(b)
  BY <1>1, <1>2, CountFacts
<1>4. FrameAt(b, p) /\ p \in 0 .. Len(b)
  BY <1>1, <1>3, CountFacts, WalkSteps
<1>5. p \in Nat
  BY <1>2, <1>4
<1> QED
  BY <1>2, <1>4, <1>5, FrameWithin

LEMMA FaultsDraw ==
  ASSUME NEW b, IsBytes(b), NEW c \in Rearranged(b) \cup Garbled(b)
  PROVE  Drawn(c, b)
<1>1. IsSequence(b) /\ Len(b) \in Nat /\ DOMAIN b = 1 .. Len(b) /\ Drawn(b, b)
      /\ b = [k \in 1 .. Len(b) |-> b[k]]
  BY SequenceForm DEF IsBytes, Drawn
<1>2. Drawn(<<>>, b) /\ Len(<<>>) = 0
  <2>1. <<>> = [k \in 1 .. 0 |-> <<>>[k]]
    OBVIOUS
  <2>2. IsSequence(<<>>) /\ Len(<<>>) = 0
    BY <2>1, FormSequence
  <2> QED
    BY <2>2 DEF Drawn
<1>3. CASE c \in Rearranged(b)
  <2> DEFINE end(p)   == FrameEnd(b, p)
             frame(p) == SubSeq(b, p + 1, end(p))
             lost(p)  == Spliced(b, p, end(p), <<>>)
  <2>1. PICK p \in FrameStarts(b) :
          c \in {lost(p), Spliced(b, p, p, frame(p))}
                \cup {Spliced(lost(p), q, q, frame(p)) : q \in {s \in FrameStarts(b) : s < p}}
    BY <1>3 DEF Rearranged
  <2>2. p \in 0 .. Len(b) /\ end(p) \in p .. Len(b)
    BY StartFacts
  <2>3. Drawn(lost(p), b) /\ Len(lost(p)) = p + (Len(b) - end(p))
    BY <1>1, <1>2, <2>2, DrawnSplice
  <2>4. Drawn(frame(p), b)
    <3>1. p + 1 \in Nat \ {0} /\ end(p) \in Nat /\ end(p) <= Len(b)
      BY <1>1, <2>2
    <3> QED
      BY <1>1, <3>1, DrawnPart
  <2>5. p \in p .. Len(b)
    BY <1>1, <2>2
  <2>6. Drawn(Spliced(b, p, p, frame(p)), b)
    BY <1>1, <2>2, <2>4, <2>5, DrawnSplice
  <2>7. ASSUME NEW q \in FrameStarts(b), q < p PROVE Drawn(Spliced(lost(p), q, q, frame(p)), b)
    <3>1. q \in 0 .. Len(b)
      BY StartFacts
    <3>2. q \in 0 .. Len(lost(p)) /\ q \in q .. Len(lost(p))
      BY <1>1, <2>2, <2>3, <2>7, <3>1
    <3> HIDE DEF lost, frame
    <3> QED
      BY <2>3, <2>4, <3>2, DrawnSplice
  <2> HIDE DEF lost, frame
  <2> QED
    BY <2>1, <2>3, <2>6, <2>7
<1>4. CASE c \in {[b EXCEPT ![k] = Digit(d)] : k \in {n \in DOMAIN b : IsDigit(b[n])}, d \in 0 .. ByteValues - 1}
  <2>1. PICK k \in 1 .. Len(b), d \in 0 .. ByteValues - 1 : c = [b EXCEPT ![k] = Digit(d)]
    BY <1>1, <1>4
  <2>2. c = [j \in 1 .. Len(b) |-> c[j]] /\ \A j \in 1 .. Len(b) : c[j] = b[j] \/ c[j] = Digit(d)
    BY <1>1, <2>1
  <2>3. IsSequence(c) /\ Len(c) = Len(b)
    BY <1>1, <2>2, FormSequence
  <2> QED
    BY <2>2, <2>3 DEF Drawn
<1>5. CASE c \in {SubSeq(b, 1, n) : n \in 0 .. Len(b)}
  <2>1. PICK n \in 0 .. Len(b) : c = SubSeq(b, 1, n)
    BY <1>5
  <2>2. n \in Nat /\ n <= Len(b) /\ 1 \in Nat \ {0}
    BY <1>1
  <2> QED
    BY <1>1, <2>1, <2>2, DrawnPart
<1>6. CASE c \in {[k \in DOMAIN b |-> IF k <= n THEN b[k] ELSE Digit(0)] : n \in 0 .. Len(b)}
  <2>1. PICK n \in 0 .. Len(b) : c = [k \in 1 .. Len(b) |-> IF k <= n THEN b[k] ELSE Digit(0)]
    BY <1>1, <1>6
  <2>2. c = [j \in 1 .. Len(b) |-> c[j]] /\ \A j \in 1 .. Len(b) : c[j] = b[j] \/ c[j] = Digit(0)
    BY <1>1, <2>1
  <2>3. IsSequence(c) /\ Len(c) = Len(b) /\ 0 \in 0 .. ByteValues - 1
    BY <1>1, <2>2, FormSequence, ByteBufAssumption, SMTT(20)
  <2> QED
    BY <2>2, <2>3 DEF Drawn
<1> QED
  BY <1>3, <1>4, <1>5, <1>6 DEF Garbled

\* A damaged value stands where its frame's value stood.
LEMMA AlteredBytes ==
  ASSUME NEW b, IsBytes(b), NEW p \in FrameStarts(b), NEW bad, NEW c \in Altered(b, p, bad)
  PROVE  /\ IsBytes(c) /\ Len(c) = Len(b)
         /\ \A k \in 1 .. Len(c) : c[k] = b[k] \/ \E x \in bad : c[k] = <<"byte", x>>
<1>1. IsSequence(b) /\ Len(b) \in Nat /\ DOMAIN b = 1 .. Len(b)
  BY SequenceForm DEF IsBytes
<1>2. PICK x \in bad : c = [b EXCEPT ![p + LengthBytes + 1] = <<"byte", x>>]
  BY DEF Altered
<1>3. c = [j \in 1 .. Len(b) |-> c[j]] /\ \A j \in 1 .. Len(b) : c[j] = b[j] \/ c[j] = <<"byte", x>>
  BY <1>1, <1>2
<1>4. IsSequence(c) /\ Len(c) = Len(b)
  BY <1>1, <1>3, FormSequence
<1>5. IsBytes(c)
  BY <1>3, <1>4 DEF IsBytes, IsDigit
<1> QED
  BY <1>3, <1>4, <1>5
-----------------------------------------------------------------------------
\* The uninitialized size of a record without one does not reach the verdict.
LEMMA VerdictIgnoresGarbage ==
  ASSUME NEW rec, NEW h, NEW n, NEW c, NEW g0, NEW g, EntryAccepted(rec, h, n, c, g0)
  PROVE  EntryAccepted(rec, h, n, c, g)
<1> DEFINE d == Decode(rec, g0)
           e == Decode(rec, g)
<1>1. /\ d.readable = e.readable /\ d.object_type = e.object_type /\ d.path = e.path
      /\ d.size_present = e.size_present /\ d.content_present = e.content_present
      /\ d.root_id = e.root_id /\ d.object_id = e.object_id /\ d.record_hash = e.record_hash
      /\ d.schema = e.schema /\ d.content_sha256 = e.content_sha256 /\ d.stamp = e.stamp
      /\ d.size_present => d.size_bytes = e.size_bytes
  BY DEF Decode
<1>2. RecordVerify(rec, g0) <=> CanDecode(rec) /\ CanSerialize(d) /\ Sha256(SerializePrefix(d)) = d.record_hash
  BY DEF RecordVerify
<1>3. RecordVerify(rec, g) <=> CanDecode(rec) /\ CanSerialize(e) /\ Sha256(SerializePrefix(e)) = e.record_hash
  BY DEF RecordVerify
<1> HIDE DEF d, e
<1>4. SerializePrefix(d) = SerializePrefix(e)
  BY <1>1 DEF SerializePrefix
<1>5. CanSerialize(d) <=> CanSerialize(e)
  BY <1>1 DEF CanSerialize, ComputeObjectId
<1>6. RecordVerify(rec, g)
  <2>1. RecordVerify(rec, g0)
    BY DEF EntryAccepted
  <2>2. Sha256(SerializePrefix(d)) = Sha256(SerializePrefix(e))
    BY <1>4
  <2> QED
    BY <1>1, <1>2, <1>3, <1>5, <2>1, <2>2
<1> QED
  BY <1>1, <1>6 DEF EntryAccepted, d, e
-----------------------------------------------------------------------------
\* The inductive invariant.  While the run frames, the buffers are what framing
\* the first observations gives, and nothing is on storage ...
Framing == pc \in {"records", "history", "refused", "no memory"}
WriterInv ==
  /\ count \in 0 .. Len(out.records)
  /\ rf = NoFile /\ hf = NoFile /\ rp = 0 /\ hp = 0 /\ prev = ZeroHash /\ faults = 0
  /\ wh = FramedFirst(out.history)[count]
  /\ \/ wr = FramedFirst(out.records)[count] /\ pc # "history"
     \/ /\ pc # "records" /\ count < Len(out.records)
        /\ wr = FramedFirst(out.records)[count + 1]

\* ... then the files are bytes, those of the buffers before the first fault ...
IsFile(f) == /\ f = [exists |-> f.exists, bytes |-> f.bytes]
             /\ f.exists \in BOOLEAN /\ IsBytes(f.bytes)
FilesInv ==
  /\ wr = EmptyBuf /\ wh = EmptyBuf
  /\ IsFile(rf) /\ IsFile(hf)
  /\ rp \in 0 .. Len(rf.bytes) /\ hp \in 0 .. Len(hf.bytes)
  /\ count \in Nat /\ count <= rp /\ count <= hp
  /\ pc = "stored" =>
       /\ count = 0 /\ rp = 0 /\ hp = 0 /\ prev = ZeroHash
       /\ faults = 0 => rf = Stored(FramedAll(out.records)) /\ hf = Stored(FramedAll(out.history))

\* ... and the loop stands behind as many frames of each as it has accepted,
\* with the chain of the last.
ChainBefore(h, n) == IF n = 0 THEN ZeroHash ELSE ValueAt(h, FramePos(h)[n - 1]).chain_hash
PairAccepted(r, h, n) ==
  /\ FrameAt(r, FramePos(r)[n]) /\ FrameAt(h, FramePos(h)[n])
  /\ \A g \in Garbage : EntryAccepted(ValueAt(r, FramePos(r)[n]), ValueAt(h, FramePos(h)[n]),
                                      n, ChainBefore(h, n), g)
InStep(r, h, n, chain, p, q) ==
  /\ n \in 0 .. Len(r) /\ n \in 0 .. Len(h)
  /\ p = FramePos(r)[n] /\ q = FramePos(h)[n] /\ chain = ChainBefore(h, n)
  /\ \A k \in 0 .. n - 1 : PairAccepted(r, h, k)
LoopInv == /\ rf.exists /\ hf.exists
           /\ InStep(rf.bytes, hf.bytes, count, prev, rp, hp)

VInv ==
  /\ out \in Outputs /\ faults \in 0 .. MaxFaults
  /\ pc \in {"records", "history", "stored", "loop"} \/ Ended
  /\ Framing => WriterInv
  /\ ~Framing => FilesInv
  /\ pc = "loop" => LoopInv
  /\ VerdictIsAccepts

LEMMA VInvType == VInv => TypeOK
<1> SUFFICES ASSUME VInv PROVE TypeOK
  OBVIOUS
<1>1. CASE Framing
  <2>1. Len(rf.bytes) = 0 /\ Len(hf.bytes) = 0
    BY <1>1 DEF VInv, WriterInv, NoFile
  <2>2. Len(out.records) \in Nat
    BY OutputFacts DEF VInv
  <2> QED
    BY <1>1, <2>1, <2>2 DEF VInv, WriterInv, TypeOK
<1>2. CASE ~Framing
  BY <1>2 DEF VInv, FilesInv, TypeOK
<1> QED
  BY <1>1, <1>2

LEMMA EmptyBytes == Len(<<>>) = 0 /\ IsBytes(<<>>) /\ IsBytes(EmptyBuf.data) /\ IsFile(NoFile)
<1>1. <<>> = [k \in 1 .. 0 |-> <<>>[k]]
  OBVIOUS
<1>2. IsSequence(<<>>) /\ Len(<<>>) = 0
  BY <1>1, FormSequence
<1>3. IsBytes(<<>>)
  BY <1>2 DEF IsBytes
<1> QED
  BY <1>2, <1>3 DEF EmptyBuf, IsFile, NoFile

LEMMA VInvInit == Init => VInv
<1> SUFFICES ASSUME Init PROVE VInv
  OBVIOUS
<1>1. IsSequence(out.records) /\ IsSequence(out.history) /\ Len(out.records) \in Nat
      /\ Framable(out.records) /\ Framable(out.history)
  BY OutputFacts DEF Init, Framable
<1>2. FramedFirst(out.records)[0] = EmptyBuf /\ FramedFirst(out.history)[0] = EmptyBuf
  BY <1>1, FramingSteps
<1>3. WriterInv
  BY <1>1, <1>2 DEF Init, WriterInv
<1>4. 0 \in 0 .. MaxFaults
  BY VerifyAssumption
<1> QED
  BY <1>3, <1>4 DEF Init, VInv, Framing, VerdictIsAccepts, Ended

LEMMA FramingKept == VInv /\ (FrameRecord \/ FrameHistory) => VInv'
<1> SUFFICES ASSUME VInv, FrameRecord \/ FrameHistory PROVE VInv'
  OBVIOUS
<1> DEFINE N == Len(out.records)
           R == FramedFirst(out.records)
           H == FramedFirst(out.history)
<1>1. /\ N \in Nat /\ Len(out.history) = N
      /\ Framable(out.records) /\ Framable(out.history)
  BY OutputFacts DEF VInv, Framable
<1>2. /\ pc \in {"records", "history"} /\ WriterInv /\ out \in Outputs
  BY DEF VInv, FrameRecord, FrameHistory, Framing
<1>3. count \in 0 .. N
  BY <1>2 DEF WriterInv
<1>4. count < N => /\ R[count + 1] = Framed(R[count], out.records[count + 1])
                   /\ H[count + 1] = Framed(H[count], out.history[count + 1])
  <2> SUFFICES ASSUME count < N PROVE /\ R[count + 1] = Framed(R[count], out.records[count + 1])
                                      /\ H[count + 1] = Framed(H[count], out.history[count + 1])
    OBVIOUS
  <2>1. count \in 0 .. Len(out.records) - 1 /\ count \in 0 .. Len(out.history) - 1
    BY <1>1, <1>3
  <2> QED
    BY <1>1, <2>1, FramingSteps
<1> HIDE DEF R, H
<1>5. WriterInv' /\ pc' \in {"records", "history", "refused", "no memory"}
  <2>1. CASE FrameRecord
    <3>1. count < N /\ wr = R[count] /\ wh = H[count] /\ pc = "records"
      BY <1>2, <2>1 DEF FrameRecord, WriterInv, R, H
    <3>2. /\ UNCHANGED <<out, wh, rf, hf, count, prev, rp, hp, faults>>
          /\ \/ wr' = Framed(wr, out.records[count + 1]) /\ pc' = "history"
             \/ pc' \in {"refused", "no memory"} /\ wr' = wr
      BY <2>1 DEF FrameRecord, cursors
    <3>3. \/ wr' = R[count + 1] /\ pc' = "history"
          \/ pc' \in {"refused", "no memory"} /\ wr' = R[count]
      BY <1>4, <3>1, <3>2
    <3> QED
      BY <1>2, <1>3, <3>1, <3>2, <3>3 DEF WriterInv, R, H
  <2>2. CASE FrameHistory
    <3>1. count < N /\ wr = R[count + 1] /\ wh = H[count] /\ pc = "history"
      BY <1>2, <2>2 DEF FrameHistory, WriterInv, R, H
    <3>2. /\ UNCHANGED <<out, wr, rf, hf, prev, rp, hp, faults>>
          /\ \/ wh' = Framed(wh, out.history[count + 1]) /\ count' = count + 1 /\ pc' = "records"
             \/ pc' \in {"refused", "no memory"} /\ wh' = wh /\ count' = count
      BY <2>2 DEF FrameHistory
    <3>3. \/ wh' = H[count + 1] /\ count' = count + 1 /\ pc' = "records"
          \/ pc' \in {"refused", "no memory"} /\ wh' = H[count] /\ count' = count
      BY <1>4, <3>1, <3>2
    <3>4. count + 1 \in 0 .. N
      BY <1>1, <1>3, <3>1
    <3> QED
      BY <1>2, <1>3, <3>1, <3>2, <3>3, <3>4 DEF WriterInv, R, H
  <2> QED
    BY <2>1, <2>2
<1>6. out' = out /\ faults' = faults
  BY DEF FrameRecord, FrameHistory
<1> QED
  BY <1>2, <1>5, <1>6 DEF VInv, Framing, VerdictIsAccepts, Ended

LEMMA WriteFilesKept == VInv /\ WriteFiles => VInv'
<1> SUFFICES ASSUME VInv, WriteFiles PROVE VInv'
  OBVIOUS
<1> DEFINE N == Len(out.records)
<1>1. /\ N \in Nat /\ Len(out.history) = N
      /\ Framable(out.records) /\ Framable(out.history)
  BY OutputFacts DEF VInv, Framable
<1>2. /\ WriterInv /\ out \in Outputs /\ count = N /\ pc = "records"
  BY DEF VInv, WriteFiles, Framing
<1>3. wr.data = FramedAll(out.records) /\ wh.data = FramedAll(out.history)
  BY <1>1, <1>2 DEF WriterInv, FramedAll
<1>4. IsBytes(wr.data) /\ IsBytes(wh.data)
  BY <1>1, <1>3, FramingSteps, BytesOfAreBytes DEF FramedAll
<1>5. /\ rf' = Stored(wr.data) /\ hf' = Stored(wh.data) /\ wr' = EmptyBuf /\ wh' = EmptyBuf
      /\ count' = 0 /\ prev' = ZeroHash /\ rp' = 0 /\ hp' = 0 /\ faults' = 0 /\ pc' = "stored" /\ out' = out
  BY <1>2 DEF WriteFiles, WriterInv
<1>6. Len(wr.data) \in Nat /\ Len(wh.data) \in Nat
  BY <1>4, SequenceForm DEF IsBytes
<1>7. IsFile(rf)' /\ IsFile(hf)'
  BY <1>4, <1>5 DEF IsFile, Stored
<1>8. FilesInv'
  BY <1>3, <1>5, <1>6, <1>7 DEF FilesInv, Stored
<1>9. faults' \in 0 .. MaxFaults
  BY <1>5, VerifyAssumption
<1> QED
  BY <1>2, <1>5, <1>8, <1>9 DEF VInv, Framing, VerdictIsAccepts, Ended

\* Whatever happens to a file, a file is left.
LEMMA StorageFiles ==
  ASSUME VInv, Storage
  PROVE  /\ pc = "stored" /\ faults < MaxFaults /\ faults' = faults + 1
         /\ UNCHANGED <<pc, written, cursors>>
         /\ IsFile(rf') /\ IsFile(hf')
<1>1. /\ pc = "stored" /\ faults < MaxFaults /\ faults' = faults + 1
      /\ UNCHANGED <<pc, written, cursors>>
  BY DEF Storage, DamageRecord, DamageHistory, DamageBytes, OtherRun, Lose, Fault
<1>2. IsFile(rf) /\ IsFile(hf)
  BY <1>1 DEF VInv, Framing, FilesInv
<1>3. IsBytes(rf.bytes) /\ IsBytes(hf.bytes)
  BY <1>2 DEF IsFile
<1>4. ASSUME NEW f, IsFile(f), NEW b, IsBytes(b) PROVE IsFile([f EXCEPT !.bytes = b]) /\ IsFile(Stored(b))
  BY <1>4 DEF IsFile, Stored
<1>5. CASE DamageRecord
  <2>1. PICK p \in FrameStarts(rf.bytes) :
          \E b \in Altered(rf.bytes, p, BadRecord(ValueAt(rf.bytes, p))) : Fault(Stored(b), hf)
    BY <1>5 DEF DamageRecord
  <2>2. PICK b \in Altered(rf.bytes, p, BadRecord(ValueAt(rf.bytes, p))) : Fault(Stored(b), hf)
    BY <2>1
  <2>3. IsBytes(b)
    BY <1>3, AlteredBytes
  <2> QED
    BY <1>1, <1>2, <1>4, <2>2, <2>3 DEF Fault
<1>6. CASE DamageHistory
  <2>1. PICK p \in FrameStarts(hf.bytes) :
          \E b \in Altered(hf.bytes, p, BadEntry(ValueAt(hf.bytes, p))) : Fault(rf, Stored(b))
    BY <1>6 DEF DamageHistory
  <2>2. PICK b \in Altered(hf.bytes, p, BadEntry(ValueAt(hf.bytes, p))) : Fault(rf, Stored(b))
    BY <2>1
  <2>3. IsBytes(b)
    BY <1>3, AlteredBytes
  <2> QED
    BY <1>1, <1>2, <1>4, <2>2, <2>3 DEF Fault
<1>7. CASE DamageBytes
  <2>1. CASE \E b \in Rearranged(rf.bytes) \cup Garbled(rf.bytes) : Fault([rf EXCEPT !.bytes = b], hf)
    <3>1. PICK b \in Rearranged(rf.bytes) \cup Garbled(rf.bytes) : Fault([rf EXCEPT !.bytes = b], hf)
      BY <2>1
    <3>2. IsBytes(b)
      BY <1>3, FaultsDraw, DrawnBytes
    <3> QED
      BY <1>1, <1>2, <1>4, <3>1, <3>2 DEF Fault
  <2>2. CASE \E b \in Rearranged(hf.bytes) \cup Garbled(hf.bytes) : Fault(rf, [hf EXCEPT !.bytes = b])
    <3>1. PICK b \in Rearranged(hf.bytes) \cup Garbled(hf.bytes) : Fault(rf, [hf EXCEPT !.bytes = b])
      BY <2>2
    <3>2. IsBytes(b)
      BY <1>3, FaultsDraw, DrawnBytes
    <3> QED
      BY <1>1, <1>2, <1>4, <3>1, <3>2 DEF Fault
  <2> QED
    BY <1>7, <2>1, <2>2 DEF DamageBytes
<1>8. CASE OtherRun
  <2>1. PICK o \in Outputs : Fault(rf, Stored(FramedAll(o.history)))
    BY <1>8 DEF OtherRun
  <2>2. Framable(o.history) /\ Len(o.history) \in Nat
    BY OutputFacts DEF Framable
  <2>3. IsBytes(FramedAll(o.history))
    BY <2>2, FramingSteps, BytesOfAreBytes DEF FramedAll
  <2> QED
    BY <1>1, <1>2, <1>4, <2>1, <2>3 DEF Fault
<1>9. CASE Lose
  BY <1>1, <1>2, <1>9, EmptyBytes DEF Lose, Fault
<1> QED
  BY <1>1, <1>5, <1>6, <1>7, <1>8, <1>9 DEF Storage

LEMMA StorageKept == VInv /\ Storage => VInv'
<1> SUFFICES ASSUME VInv, Storage PROVE VInv'
  OBVIOUS
<1>1. /\ pc = "stored" /\ faults < MaxFaults /\ faults' = faults + 1
      /\ UNCHANGED <<pc, written, cursors>>
      /\ IsFile(rf') /\ IsFile(hf')
  BY StorageFiles
<1>2. FilesInv /\ faults \in 0 .. MaxFaults /\ MaxFaults \in Nat
  BY <1>1, VerifyAssumption DEF VInv, Framing
<1>3. Len(rf'.bytes) \in Nat /\ Len(hf'.bytes) \in Nat
  BY <1>1, SequenceForm DEF IsFile, IsBytes
<1>4. faults' # 0 /\ faults' \in 0 .. MaxFaults
  BY <1>1, <1>2
<1>5. FilesInv'
  BY <1>1, <1>2, <1>3, <1>4 DEF FilesInv, written, cursors
<1> QED
  BY <1>1, <1>4, <1>5 DEF VInv, Framing, VerdictIsAccepts, Ended, written
-----------------------------------------------------------------------------
\* A file at the level of frames, and the loop's place in it.
LEMMA AsFileFacts ==
  ASSUME NEW f, IsFile(f), NEW r, r = AsFile(f)
  PROVE  /\ r.exists = f.exists
         /\ f.exists => /\ Len(r.frames) = FrameCount(f.bytes)
                        /\ IsSequence(r.frames)
                        /\ \A k \in 1 .. FrameCount(f.bytes) :
                             r.frames[k] = ValueAt(f.bytes, FramePos(f.bytes)[k - 1])
                        /\ r.torn = (FramePos(f.bytes)[FrameCount(f.bytes)] # Len(f.bytes))
<1> DEFINE b == f.bytes
           n == FrameCount(b)
           s == [k \in 1 .. n |-> ValueAt(b, FramePos(b)[k - 1])]
<1>1. IsBytes(b) /\ f.exists \in BOOLEAN
  BY DEF IsFile
<1>2. n \in Nat
  BY <1>1, CountFacts, SequenceForm DEF IsBytes
<1>3. r = IF ~f.exists THEN Missing ELSE IF FramePos(b)[n] = Len(b) THEN Whole(s) ELSE Partial(s)
  BY DEF AsFile
<1>4. IsSequence(s) /\ Len(s) = n
  <2> HIDE DEF n
  <2>1. s = [k \in 1 .. n |-> s[k]]
    OBVIOUS
  <2> HIDE DEF s
  <2> QED
    BY <1>2, <2>1, FormSequence
<1>5. \A k \in 1 .. n : s[k] = ValueAt(b, FramePos(b)[k - 1])
  OBVIOUS
<1> HIDE DEF n, s, b
<1>6. CASE ~f.exists
  <2>1. r = Missing /\ f.exists = FALSE
    BY <1>1, <1>3, <1>6
  <2>2. r.exists = FALSE
    BY <2>1 DEF Missing
  <2> QED
    BY <1>6, <2>1, <2>2
<1>7. CASE f.exists /\ FramePos(b)[n] = Len(b)
  <2>1. r = Whole(s) /\ f.exists = TRUE
    BY <1>1, <1>3, <1>7
  <2>2. r.exists = TRUE /\ r.frames = s /\ r.torn = FALSE
    BY <2>1 DEF Whole
  <2> QED
    BY <1>4, <1>5, <1>7, <2>1, <2>2 DEF b, n
<1>8. CASE f.exists /\ FramePos(b)[n] # Len(b)
  <2>1. r = Partial(s) /\ f.exists = TRUE
    BY <1>1, <1>3, <1>8
  <2>2. r.exists = TRUE /\ r.frames = s /\ r.torn = TRUE
    BY <2>1 DEF Partial
  <2> QED
    BY <1>4, <1>5, <1>8, <2>1, <2>2 DEF b, n
<1> QED
  BY <1>6, <1>7, <1>8

\* The verdict, decided at the place where the loop stops.
LEMMA VerdictAt ==
  ASSUME NEW x, IsFile(x), x.exists, NEW y, IsFile(y), y.exists,
         NEW n, NEW c, NEW p, NEW q, InStep(x.bytes, y.bytes, n, c, p, q), NEW g \in Garbage
  PROVE  /\ Accepts(AsFile(x), AsFile(y), g) =>
              /\ FrameAt(x.bytes, p) <=> FrameAt(y.bytes, q)
              /\ FrameAt(x.bytes, p) => EntryAccepted(ValueAt(x.bytes, p), ValueAt(y.bytes, q), n, c, g)
              /\ ~FrameAt(x.bytes, p) => p = Len(x.bytes) /\ q = Len(y.bytes)
         /\ p = Len(x.bytes) /\ q = Len(y.bytes) => Accepts(AsFile(x), AsFile(y), g)
<1> DEFINE r == AsFile(x)
           h == AsFile(y)
           b == x.bytes
           d == y.bytes
           rn == FrameCount(b)
           hn == FrameCount(d)
<1>1. IsBytes(b) /\ IsBytes(d)
  BY DEF IsFile
<1>2. /\ r.exists = TRUE /\ h.exists = TRUE
      /\ Len(r.frames) = rn /\ Len(h.frames) = hn
      /\ \A k \in 1 .. rn : r.frames[k] = ValueAt(b, FramePos(b)[k - 1])
      /\ \A k \in 1 .. hn : h.frames[k] = ValueAt(d, FramePos(d)[k - 1])
      /\ r.torn = (FramePos(b)[rn] # Len(b)) /\ h.torn = (FramePos(d)[hn] # Len(d))
  BY AsFileFacts DEF IsFile
<1>3. /\ n \in 0 .. Len(b) /\ n \in 0 .. Len(d) /\ p = FramePos(b)[n] /\ q = FramePos(d)[n]
      /\ c = ChainBefore(d, n) /\ \A k \in 0 .. n - 1 : PairAccepted(b, d, k)
  BY DEF InStep
<1>4. /\ n <= rn /\ (~FrameAt(b, p) => n = rn)
      /\ n <= hn /\ (~FrameAt(d, q) => n = hn)
  BY <1>1, <1>3, CountUnique DEF PairAccepted
<1>5. rn \in Nat /\ hn \in Nat /\ n \in Nat
  BY <1>1, <1>3, CountFacts, SequenceForm DEF IsBytes
<1>6. (FrameAt(b, p) => n # rn) /\ (FrameAt(d, q) => n # hn)
  BY <1>1, <1>3, CountFacts
<1> HIDE DEF r, h, rn, hn, b, d
<1>7. ASSUME Accepts(r, h, g)
      PROVE  /\ FrameAt(b, p) <=> FrameAt(d, q)
             /\ FrameAt(b, p) => EntryAccepted(ValueAt(b, p), ValueAt(d, q), n, c, g)
             /\ ~FrameAt(b, p) => p = Len(b) /\ q = Len(d)
  <2>1. rn = hn /\ ~r.torn /\ ~h.torn
    BY <1>2, <1>7 DEF Accepts
  <2>2. FrameAt(b, p) <=> FrameAt(d, q)
    BY <1>4, <1>6, <2>1
  <2>3. ASSUME FrameAt(b, p) PROVE EntryAccepted(ValueAt(b, p), ValueAt(d, q), n, c, g)
    <3>1. n < rn /\ n + 1 \in 1 .. rn /\ n + 1 \in 1 .. hn /\ (n + 1) - 1 = n /\ (n + 1 = 1 <=> n = 0)
      BY <1>4, <1>5, <1>6, <2>1, <2>3
    <3>2. EntryAccepted(r.frames[n + 1], h.frames[n + 1], n,
                        IF n = 0 THEN ZeroHash ELSE h.frames[n].chain_hash, g)
      <4>1. EntryAccepted(r.frames[n + 1], h.frames[n + 1], (n + 1) - 1,
                          IF n + 1 = 1 THEN ZeroHash ELSE h.frames[(n + 1) - 1].chain_hash, g)
        BY <1>2, <1>7, <3>1 DEF Accepts
      <4> QED
        BY <3>1, <4>1
    <3>3. r.frames[n + 1] = ValueAt(b, p) /\ h.frames[n + 1] = ValueAt(d, q)
      BY <1>2, <1>3, <3>1
    <3>4. c = IF n = 0 THEN ZeroHash ELSE h.frames[n].chain_hash
      <4>1. n # 0 => n \in 1 .. hn
        BY <1>5, <3>1, <2>1
      <4> QED
        BY <1>2, <1>3, <4>1 DEF ChainBefore
    <3> QED
      BY <3>2, <3>3, <3>4
  <2>4. ~FrameAt(b, p) => p = Len(b) /\ q = Len(d)
    BY <1>2, <1>3, <1>4, <2>1, <2>2
  <2> QED
    BY <2>2, <2>3, <2>4
<1>8. ASSUME p = Len(b), q = Len(d)
      PROVE  Accepts(r, h, g)
  <2>1. ~FrameAt(b, p) /\ ~FrameAt(d, q)
    <3>1. Len(b) \in Nat /\ Len(d) \in Nat
      BY <1>1, SequenceForm DEF IsBytes
    <3> QED
      BY <1>1, <1>8, <3>1, FrameWithin
  <2>2. rn = n /\ hn = n /\ ~r.torn /\ ~h.torn
    BY <1>2, <1>3, <1>4, <1>8, <2>1
  <2>3. ASSUME NEW k \in 1 .. n
        PROVE  EntryAccepted(r.frames[k], h.frames[k], k - 1,
                             IF k = 1 THEN ZeroHash ELSE h.frames[k - 1].chain_hash, g)
    <3>1. k - 1 \in 0 .. n - 1 /\ (k = 1 <=> k - 1 = 0) /\ (k # 1 => k - 1 \in 1 .. hn)
          /\ k \in 1 .. rn /\ k \in 1 .. hn
      BY <1>5, <2>2
    <3>2. EntryAccepted(ValueAt(b, FramePos(b)[k - 1]), ValueAt(d, FramePos(d)[k - 1]),
                        k - 1, ChainBefore(d, k - 1), g)
      BY <1>3, <3>1 DEF PairAccepted
    <3>3. ChainBefore(d, k - 1) = IF k = 1 THEN ZeroHash ELSE h.frames[k - 1].chain_hash
      BY <1>2, <3>1 DEF ChainBefore
    <3> QED
      BY <1>2, <3>1, <3>2, <3>3
  <2> QED
    BY <1>2, <2>2, <2>3 DEF Accepts
<1> QED
  BY <1>7, <1>8 DEF r, h, b, d

LEMMA ReadKept == VInv /\ Read => VInv'
<1> SUFFICES ASSUME VInv, Read PROVE VInv'
  OBVIOUS
<1>1. /\ FilesInv /\ pc = "stored" /\ UNCHANGED <<out, wr, wh, rf, hf, count, prev, rp, hp, faults>>
      /\ pc' = IF rf.exists /\ hf.exists THEN "loop" ELSE "FAIL"
  BY DEF VInv, Read, Framing, written, cursors
<1>2. IsFile(rf) /\ IsFile(hf) /\ IsBytes(rf.bytes) /\ IsBytes(hf.bytes)
  BY <1>1 DEF FilesInv, IsFile
<1>3. FilesInv'
  <2>1. pc' # "stored"
    BY <1>1
  <2> QED
    BY <1>1, <2>1 DEF FilesInv
<1>4. CASE rf.exists /\ hf.exists
  <2>1. Len(rf.bytes) \in Nat /\ Len(hf.bytes) \in Nat
    BY <1>2, SequenceForm DEF IsBytes
  <2>2. InStep(rf.bytes, hf.bytes, 0, ZeroHash, 0, 0)
    BY <1>2, <2>1, WalkSteps DEF InStep, ChainBefore
  <2>3. count' = 0 /\ prev' = ZeroHash /\ rp' = 0 /\ hp' = 0 /\ rf' = rf /\ hf' = hf /\ pc' = "loop"
    BY <1>1, <1>4 DEF FilesInv
  <2>4. LoopInv'
    BY <1>4, <2>2, <2>3 DEF LoopInv
  <2> QED
    BY <1>1, <1>3, <2>3, <2>4 DEF VInv, Framing, VerdictIsAccepts, Ended
<1>5. CASE ~(rf.exists /\ hf.exists)
  <2>1. pc' = "FAIL" /\ rf' = rf /\ hf' = hf
    BY <1>1, <1>5
  <2>2. \A g \in Garbage : ~Accepts(AsFile(rf), AsFile(hf), g)
    BY <1>2, <1>5, AsFileFacts DEF Accepts
  <2>3. VerdictIsAccepts'
    BY <2>1, <2>2 DEF VerdictIsAccepts
  <2> QED
    BY <1>1, <1>3, <2>1, <2>3 DEF VInv, Framing, Ended
<1> QED
  BY <1>4, <1>5

LEMMA OneFurther ==
  ASSUME NEW m \in Nat, NEW x \in Nat, NEW e \in Nat, NEW p \in 0 .. m, NEW n \in Nat,
         n <= p, p + x < e, e <= m
  PROVE  n + 1 \in 0 .. m /\ n \in 0 .. m - 1 /\ n + 1 <= e
OBVIOUS

LEMMA TurnKept == VInv /\ Turn => VInv'
<1> SUFFICES ASSUME VInv, Turn PROVE VInv'
  OBVIOUS
<1> DEFINE r == rf.bytes
           h == hf.bytes
           good(g) == /\ FrameAt(r, rp) /\ FrameAt(h, hp)
                      /\ EntryAccepted(ValueAt(r, rp), ValueAt(h, hp), count, prev, g)
<1>1. /\ FilesInv /\ LoopInv /\ pc = "loop" /\ rp < Len(r)
      /\ UNCHANGED <<out, wr, wh, rf, hf, faults>>
  BY DEF VInv, Turn, Framing, written
<1>2. PICK g \in Garbage :
        IF good(g)
        THEN /\ prev' = ValueAt(h, hp).chain_hash /\ count' = count + 1
             /\ rp' = FrameEnd(r, rp) /\ hp' = FrameEnd(h, hp) /\ pc' = pc
        ELSE pc' = "FAIL" /\ UNCHANGED cursors
  BY DEF Turn
<1>3. IsFile(rf) /\ IsFile(hf) /\ IsBytes(r) /\ IsBytes(h)
  BY <1>1 DEF FilesInv, IsFile
<1>4. InStep(r, h, count, prev, rp, hp) /\ rf.exists /\ hf.exists
  BY <1>1 DEF LoopInv
<1>5. /\ Len(r) \in Nat /\ Len(h) \in Nat /\ rp \in 0 .. Len(r) /\ hp \in 0 .. Len(h)
      /\ count \in Nat /\ count <= rp /\ count <= hp
      /\ rp = FramePos(r)[count] /\ hp = FramePos(h)[count]
  BY <1>1, <1>3, <1>4, SequenceForm DEF FilesInv, IsBytes, InStep
<1>6. CASE good(g)
  <2>1. /\ FrameEnd(r, rp) \in Nat /\ FrameEnd(r, rp) <= Len(r) /\ rp + LengthBytes < FrameEnd(r, rp)
        /\ FrameEnd(h, hp) \in Nat /\ FrameEnd(h, hp) <= Len(h) /\ hp + LengthBytes < FrameEnd(h, hp)
        /\ LengthBytes \in Nat /\ hp < Len(h)
    <3> HIDE DEF r, h
    <3>1. /\ IsBytes(r) /\ rp \in Nat /\ FrameAt(r, rp)
          /\ IsBytes(h) /\ hp \in Nat /\ FrameAt(h, hp)
      BY <1>3, <1>5, <1>6
    <3>2. /\ FrameEnd(r, rp) \in Nat /\ FrameEnd(r, rp) <= Len(r)
          /\ rp + LengthBytes < FrameEnd(r, rp)
      BY ONLY <3>1, FrameWithin
    <3>3. /\ FrameEnd(h, hp) \in Nat /\ FrameEnd(h, hp) <= Len(h)
          /\ hp + LengthBytes < FrameEnd(h, hp) /\ hp < Len(h)
      BY ONLY <3>1, FrameWithin
    <3>4. LengthBytes \in Nat
      BY ByteBufAssumption
    <3> QED
      BY <3>2, <3>3, <3>4
  <2>2. /\ prev' = ValueAt(h, hp).chain_hash /\ count' = count + 1
        /\ rp' = FrameEnd(r, rp) /\ hp' = FrameEnd(h, hp) /\ pc' = "loop"
    BY <1>1, <1>2, <1>6
  <2> HIDE DEF r, h
  <2>3. /\ count + 1 \in 0 .. Len(r) /\ count + 1 \in 0 .. Len(h) /\ count \in 0 .. Len(r) - 1
        /\ count \in 0 .. Len(h) - 1
        /\ count + 1 <= FrameEnd(r, rp) /\ count + 1 <= FrameEnd(h, hp)
        /\ (count + 1) - 1 = count /\ count + 1 # 0
    <3>2. /\ Len(r) \in Nat /\ rp \in 0 .. Len(r) /\ count \in Nat /\ count <= rp /\ LengthBytes \in Nat
          /\ FrameEnd(r, rp) \in Nat /\ rp + LengthBytes < FrameEnd(r, rp) /\ FrameEnd(r, rp) <= Len(r)
      BY <1>5, <2>1 DEF r
    <3>3. /\ Len(h) \in Nat /\ hp \in 0 .. Len(h) /\ count <= hp
          /\ FrameEnd(h, hp) \in Nat /\ hp + LengthBytes < FrameEnd(h, hp) /\ FrameEnd(h, hp) <= Len(h)
      BY <1>5, <2>1 DEF h
    <3> QED
      <4>1. count + 1 \in 0 .. Len(r) /\ count \in 0 .. Len(r) - 1 /\ count + 1 <= FrameEnd(r, rp)
        BY ONLY <3>2, OneFurther
      <4>2. count + 1 \in 0 .. Len(h) /\ count \in 0 .. Len(h) - 1 /\ count + 1 <= FrameEnd(h, hp)
        BY ONLY <3>2, <3>3, OneFurther
      <4>3. (count + 1) - 1 = count /\ count + 1 # 0
        BY ONLY <3>2
      <4> QED
        BY ONLY <4>1, <4>2, <4>3
  <2>4. FilesInv'
    BY <1>1, <1>5, <2>1, <2>2, <2>3 DEF FilesInv, r, h
  <2>5. FramePos(r)[count + 1] = FrameEnd(r, rp) /\ FramePos(h)[count + 1] = FrameEnd(h, hp)
    BY <1>3, <1>5, <1>6, <2>3, WalkSteps DEF Past
  <2>6. ChainBefore(h, count + 1) = ValueAt(h, hp).chain_hash
    BY <1>5, <2>3 DEF ChainBefore
  <2>7. PairAccepted(r, h, count)
    <3>1. prev = ChainBefore(h, count)
      BY <1>4 DEF InStep
    <3> QED
      BY <1>5, <1>6, <3>1, VerdictIgnoresGarbage DEF PairAccepted
  <2>8. \A k \in 0 .. (count + 1) - 1 : PairAccepted(r, h, k)
    <3>1. \A k \in 0 .. (count + 1) - 1 : k = count \/ k \in 0 .. count - 1
      BY <1>5
    <3> QED
      BY <1>4, <2>7, <3>1 DEF InStep
  <2>9. InStep(r, h, count + 1, ValueAt(h, hp).chain_hash, FrameEnd(r, rp), FrameEnd(h, hp))
    BY <2>3, <2>5, <2>6, <2>8 DEF InStep
  <2>10. LoopInv'
    BY <1>1, <1>4, <2>2, <2>9 DEF LoopInv, r, h
  <2> QED
    BY <1>1, <2>2, <2>4, <2>10 DEF VInv, Framing, VerdictIsAccepts, Ended
<1>7. CASE ~good(g)
  <2>1. pc' = "FAIL" /\ UNCHANGED <<count, prev, rp, hp>>
    BY <1>2, <1>7 DEF cursors
  <2>2. FilesInv'
    BY <1>1, <2>1 DEF FilesInv
  <2>3. ASSUME NEW g2 \in Garbage, Accepts(AsFile(rf), AsFile(hf), g2) PROVE FALSE
    <3>1. /\ FrameAt(r, rp) <=> FrameAt(h, hp)
          /\ FrameAt(r, rp) => EntryAccepted(ValueAt(r, rp), ValueAt(h, hp), count, prev, g2)
          /\ ~FrameAt(r, rp) => rp = Len(r)
      BY <1>3, <1>4, <2>3, VerdictAt
    <3>2. FrameAt(r, rp) /\ FrameAt(h, hp)
      BY <1>1, <1>5, <3>1
    <3> QED
      BY <1>7, <3>1, <3>2, VerdictIgnoresGarbage
  <2>4. VerdictIsAccepts'
    BY <1>1, <2>1, <2>3 DEF VerdictIsAccepts
  <2> QED
    BY <1>1, <2>1, <2>2, <2>4 DEF VInv, Framing, Ended
<1> QED
  BY <1>6, <1>7

LEMMA EndKept == VInv /\ End => VInv'
<1> SUFFICES ASSUME VInv, End PROVE VInv'
  OBVIOUS
<1> DEFINE r == rf.bytes
           h == hf.bytes
<1>1. /\ FilesInv /\ LoopInv /\ pc = "loop" /\ rp >= Len(r)
      /\ UNCHANGED <<out, wr, wh, rf, hf, count, prev, rp, hp, faults>>
      /\ pc' = IF rp = Len(r) /\ hp = Len(h) THEN "PASS" ELSE "FAIL"
  BY DEF VInv, End, Framing, written, cursors
<1>2. IsFile(rf) /\ IsFile(hf) /\ IsBytes(r) /\ IsBytes(h)
  BY <1>1 DEF FilesInv, IsFile
<1>3. InStep(r, h, count, prev, rp, hp) /\ rf.exists /\ hf.exists
  BY <1>1 DEF LoopInv
<1>4. rp = Len(r)
  <2>1. rp \in 0 .. Len(r) /\ Len(r) \in Nat
    BY <1>1, <1>2, SequenceForm DEF FilesInv, IsBytes
  <2> QED
    BY <1>1, <2>1
<1>5. ~FrameAt(r, rp)
  <2>1. Len(r) \in Nat
    BY <1>2, SequenceForm DEF IsBytes
  <2> QED
    BY <1>2, <1>4, <2>1, FrameWithin
<1>6. \A g \in Garbage : Accepts(AsFile(rf), AsFile(hf), g) <=> hp = Len(h)
  BY <1>2, <1>3, <1>4, <1>5, VerdictAt, ZenonT(40)
<1>7. VerdictIsAccepts'
  BY <1>1, <1>4, <1>6 DEF VerdictIsAccepts
<1>8. FilesInv'
  BY <1>1 DEF FilesInv
<1> QED
  BY <1>1, <1>7, <1>8 DEF VInv, Framing, Ended

LEMMA VInvKept == VInv /\ [Next]_vars => VInv'
<1> SUFFICES ASSUME VInv, [Next]_vars PROVE VInv'
  OBVIOUS
<1>1. CASE UNCHANGED vars
  BY <1>1 DEF vars, written, cursors, VInv, Framing, WriterInv, FilesInv, LoopInv, VerdictIsAccepts, Ended
<1> QED
  BY <1>1, FramingKept, WriteFilesKept, StorageKept, ReadKept, TurnKept, EndKept
     DEF Next, Program, Done

LEMMA VInvAlways == Spec => []VInv
BY VInvInit, VInvKept, PTL DEF Spec

(* The two cursors never leave their files, and the count never runs ahead *)
(* of them.                                                                *)
THEOREM VerifyTypeCorrect == Spec => []TypeOK
BY VInvAlways, VInvType, PTL

(* The loop that parses, checks and stops at the first disagreement gives  *)
(* the verdict over the two files as wholes, after any number of faults,   *)
(* whatever the uninitialized sizes of records hold.                       *)
THEOREM LoopDecidesAccepts == Spec => []VerdictIsAccepts
<1>1. VInv => VerdictIsAccepts
  BY DEF VInv
<1> QED
  BY <1>1, VInvAlways, PTL
-----------------------------------------------------------------------------
\* The chain hash of a history entry on storage is one that a run computed, or
\* damaged beyond being one.
EntryLike(h) ==
  /\ h = [magic |-> h.magic, sequence |-> h.sequence, object_id |-> h.object_id,
          record_hash |-> h.record_hash, qh_state |-> h.qh_state,
          previous_chain_hash |-> h.previous_chain_hash, chain_hash |-> h.chain_hash]
  /\ \/ h.chain_hash = BadHash
     \/ \E o \in Outputs : \E k \in 1 .. Len(o.history) : h.chain_hash = o.history[k].chain_hash
HoldsEntries(b) == \A k \in 1 .. Len(b) : b[k][1] = "byte" => EntryLike(b[k][2])
EntriesInv == HoldsEntries(hf.bytes)

LEMMA WrittenEntries ==
  ASSUME NEW o \in Outputs, NEW k \in 1 .. Len(o.history)
  PROVE  LET before == IF k = 1 THEN ZeroHash ELSE o.history[k - 1].chain_hash
             r == Decode(o.records[k], CHOOSE g \in Garbage : TRUE)
         IN  /\ o.history[k].magic = K501_HISTORY_MAGIC
             /\ o.history[k].sequence = k - 1
             /\ o.history[k].object_id = r.object_id
             /\ o.history[k].record_hash = r.record_hash
             /\ o.history[k].previous_chain_hash = before
             /\ o.history[k].chain_hash = ChainHash(before, o.records[k])
             /\ EntryLike(o.history[k])
<1> DEFINE before == IF k = 1 THEN ZeroHash ELSE o.history[k - 1].chain_hash
           g0 == CHOOSE g \in Garbage : TRUE
           r == Decode(o.records[k], g0)
           h == o.history[k]
<1>1. h = HistoryEntry(o.records[k], k - 1, before, g0)
  <2>1. IsChain(o.history, o.records, Len(o.history))
    BY OutputFacts
  <2> QED
    BY <2>1 DEF IsChain
<1>2. h = [magic |-> K501_HISTORY_MAGIC, sequence |-> k - 1, object_id |-> r.object_id,
           record_hash |-> r.record_hash, qh_state |-> Serialize(MapRecord(r)),
           previous_chain_hash |-> before, chain_hash |-> ChainHash(before, o.records[k])]
  BY <1>1 DEF HistoryEntry, HistoryBuild
<1>3. h.chain_hash = o.history[k].chain_hash
  OBVIOUS
<1> HIDE DEF h, r, before, g0
<1>4. EntryLike(h)
  BY <1>2, <1>3 DEF EntryLike
<1> QED
  BY <1>2, <1>4 DEF h, r, before, g0

LEMMA FramedHolds ==
  ASSUME NEW o \in Outputs
  PROVE  HoldsEntries(FramedAll(o.history))
<1>1. BytesOf(FramedAll(o.history), o.history)
  <2>1. Framable(o.history) /\ Len(o.history) \in Nat
    BY OutputFacts DEF Framable
  <2> QED
    BY <2>1, FramingSteps DEF FramedAll
<1>2. ASSUME NEW c, Comes(c, o.history), c[1] = "byte" PROVE EntryLike(c[2])
  <2>1. PICK k \in 1 .. Len(o.history) : c = <<"byte", o.history[k]>>
    BY <1>2 DEF Comes, Digit
  <2>2. EntryLike(o.history[k])
    BY WrittenEntries
  <2> QED
    BY <2>1, <2>2
<1> QED
  BY <1>1, <1>2 DEF BytesOf, HoldsEntries

\* The value of a frame is what its payload's first byte holds.
LEMMA ValueHeld ==
  ASSUME NEW b, IsBytes(b), NEW p \in Nat, FrameAt(b, p)
  PROVE  /\ p + LengthBytes + 1 \in 1 .. Len(b)
         /\ b[p + LengthBytes + 1][1] = "byte" /\ ValueAt(b, p) = b[p + LengthBytes + 1][2]
<1>1. /\ FrameEnd(b, p) \in Nat /\ FrameEnd(b, p) <= Len(b) /\ p + LengthBytes < FrameEnd(b, p)
      /\ LengthBytes \in Nat /\ Len(b) \in Nat
  BY FrameWithin, ByteBufAssumption, SequenceForm DEF IsBytes
<1>2. FramePayload(b, p) = SubSeq(b, p + LengthBytes + 1, FrameEnd(b, p))
  BY DEF FramePayload
<1>3. Len(FramePayload(b, p)) = FrameEnd(b, p) - (p + LengthBytes)
      /\ \A k \in 1 .. Len(FramePayload(b, p)) : FramePayload(b, p)[k] = b[(p + LengthBytes + 1) + k - 1]
  <2>1. p + LengthBytes + 1 \in Nat \ {0} /\ p + LengthBytes + 1 <= FrameEnd(b, p) /\ IsSequence(b)
    BY <1>1 DEF IsBytes
  <2>2. /\ Len(FramePayload(b, p)) = FrameEnd(b, p) - (p + LengthBytes + 1) + 1
        /\ \A k \in 1 .. Len(FramePayload(b, p)) : FramePayload(b, p)[k] = b[(p + LengthBytes + 1) + k - 1]
    BY <1>1, <1>2, <2>1, SubSeqForm, SMTT(20)
  <2> QED
    BY <1>1, <2>2
<1>4. FramePayload(b, p)[1] = b[p + LengthBytes + 1]
  BY <1>1, <1>3
<1>5. FramePayload(b, p)[1][1] = "byte"
  BY DEF FrameAt, IsPayload
<1> QED
  BY <1>1, <1>4, <1>5 DEF ValueAt, ValueOf

LEMMA BadEntryLike ==
  ASSUME NEW h, EntryLike(h), NEW x \in BadEntry(h)
  PROVE  EntryLike(x)
<1>1. /\ x = [magic |-> x.magic, sequence |-> x.sequence, object_id |-> x.object_id,
              record_hash |-> x.record_hash, qh_state |-> x.qh_state,
              previous_chain_hash |-> x.previous_chain_hash, chain_hash |-> x.chain_hash]
      /\ x.chain_hash \in {h.chain_hash, BadHash}
  <2>1. h = [magic |-> h.magic, sequence |-> h.sequence, object_id |-> h.object_id,
             record_hash |-> h.record_hash, qh_state |-> h.qh_state,
             previous_chain_hash |-> h.previous_chain_hash, chain_hash |-> h.chain_hash]
    BY DEF EntryLike
  <2>2. \/ \E v : x = [h EXCEPT !.magic = v]
        \/ \E v : x = [h EXCEPT !.object_id = v]
        \/ \E v : x = [h EXCEPT !.record_hash = v]
        \/ \E v : x = [h EXCEPT !.previous_chain_hash = v]
        \/ x = [h EXCEPT !.chain_hash = BadHash]
        \/ \E v : x = [h EXCEPT !.qh_state = v]
        \/ \E v : x = [h EXCEPT !.sequence = v]
    BY DEF BadEntry
  <2> HIDE DEF BadHash
  <2>3. CASE \E v : x = [h EXCEPT !.magic = v]
    BY <2>1, <2>3
  <2>4. CASE \E v : x = [h EXCEPT !.object_id = v]
    BY <2>1, <2>4
  <2>5. CASE \E v : x = [h EXCEPT !.record_hash = v]
    BY <2>1, <2>5
  <2>6. CASE \E v : x = [h EXCEPT !.previous_chain_hash = v]
    BY <2>1, <2>6
  <2>7. CASE x = [h EXCEPT !.chain_hash = BadHash]
    BY <2>1, <2>7
  <2>8. CASE \E v : x = [h EXCEPT !.qh_state = v]
    BY <2>1, <2>8
  <2>9. CASE \E v : x = [h EXCEPT !.sequence = v]
    BY <2>1, <2>9
  <2> QED
    BY <2>2, <2>3, <2>4, <2>5, <2>6, <2>7, <2>8, <2>9
<1> QED
  BY <1>1 DEF EntryLike

LEMMA EntriesKept == VInv /\ VInv' /\ EntriesInv /\ [Next]_vars => EntriesInv'
<1> SUFFICES ASSUME VInv, VInv', EntriesInv, [Next]_vars PROVE EntriesInv'
  OBVIOUS
<1>1. CASE hf' = hf
  BY <1>1 DEF EntriesInv, HoldsEntries
<1>2. CASE WriteFiles
  <2>1. WriterInv /\ out \in Outputs /\ count = Len(out.records) /\ hf' = Stored(wh.data)
    BY <1>2 DEF VInv, WriteFiles, Framing
  <2>2. wh.data = FramedAll(out.history)
    BY <2>1, OutputFacts DEF WriterInv, FramedAll
  <2>3. hf'.bytes = FramedAll(out.history)
    BY <2>1, <2>2 DEF Stored
  <2> QED
    BY <2>1, <2>3, FramedHolds DEF EntriesInv, HoldsEntries
<1>3. CASE Storage
  <2>1. IsFile(hf) /\ IsBytes(hf.bytes)
    BY <1>3, StorageFiles DEF VInv, Framing, FilesInv, IsFile
  <2>2. CASE DamageHistory
    <3>1. PICK p \in FrameStarts(hf.bytes) :
            \E b \in Altered(hf.bytes, p, BadEntry(ValueAt(hf.bytes, p))) : Fault(rf, Stored(b))
      BY <2>2 DEF DamageHistory
    <3>2. PICK b \in Altered(hf.bytes, p, BadEntry(ValueAt(hf.bytes, p))) : Fault(rf, Stored(b))
      BY <3>1
    <3>3. EntryLike(ValueAt(hf.bytes, p))
      <4>1. p \in Nat /\ FrameAt(hf.bytes, p)
        BY <2>1, StartFacts
      <4> QED
        BY <2>1, <4>1, ValueHeld DEF EntriesInv, HoldsEntries
    <3>4. /\ Len(b) = Len(hf.bytes)
          /\ \A k \in 1 .. Len(b) :
               b[k] = hf.bytes[k] \/ \E x \in BadEntry(ValueAt(hf.bytes, p)) : b[k] = <<"byte", x>>
      BY <2>1, AlteredBytes
    <3>5. HoldsEntries(b)
      BY <3>3, <3>4, BadEntryLike DEF EntriesInv, HoldsEntries
    <3>6. hf'.bytes = b
      BY <3>2 DEF Fault, Stored
    <3> QED
      BY <3>5, <3>6 DEF EntriesInv, HoldsEntries
  <2>3. CASE DamageBytes /\ hf' # hf
    <3>1. PICK b \in Rearranged(hf.bytes) \cup Garbled(hf.bytes) : hf' = [hf EXCEPT !.bytes = b]
      BY <2>3 DEF DamageBytes, Fault
    <3>2. hf'.bytes = b
      BY <2>1, <3>1 DEF IsFile
    <3>3. Drawn(b, hf.bytes)
      BY <2>1, FaultsDraw
    <3>4. HoldsEntries(b)
      BY <3>3 DEF Drawn, Digit, EntriesInv, HoldsEntries
    <3> QED
      BY <3>2, <3>4 DEF EntriesInv, HoldsEntries
  <2>4. CASE OtherRun
    <3>1. PICK o \in Outputs : hf' = Stored(FramedAll(o.history))
      BY <2>4 DEF OtherRun, Fault
    <3>2. hf'.bytes = FramedAll(o.history)
      BY <3>1 DEF Stored
    <3> QED
      BY <3>2, FramedHolds DEF EntriesInv, HoldsEntries
  <2>5. CASE Lose
    <3>1. hf' = hf \/ hf' = NoFile
      BY <2>5 DEF Lose, Fault
    <3>2. hf' = NoFile => hf'.bytes = <<>> /\ Len(<<>>) = 0
      BY EmptyBytes DEF NoFile
    <3> QED
      BY <1>1, <3>1, <3>2 DEF EntriesInv, HoldsEntries
  <2>6. CASE DamageRecord
    BY <1>1, <2>6 DEF DamageRecord, Fault
  <2> QED
    BY <1>1, <1>3, <2>2, <2>3, <2>4, <2>5, <2>6 DEF Storage
<1>4. CASE ~WriteFiles /\ ~Storage
  <2>1. hf' = hf
    BY <1>4 DEF Next, Program, FrameRecord, FrameHistory, Read, Turn, End, Done, vars
  <2> QED
    BY <1>1, <2>1
<1> QED
  BY <1>2, <1>3, <1>4

LEMMA EntriesAlways == Spec => []EntriesInv
<1>1. Init => EntriesInv
  BY EmptyBytes DEF Init, EntriesInv, HoldsEntries, NoFile
<1> QED
  BY <1>1, EntriesKept, VInvAlways, PTL DEF Spec

LEMMA HashesDiffer ==
  /\ \A a, b : ChainHash(a, b) # ZeroHash /\ ChainHash(a, b) # BadHash
  /\ \A a, b, c, d : ChainHash(a, b) = ChainHash(c, d) => a = c /\ b = d
<1>1. \A a, b : Len(ChainHash(a, b)) = 2
  BY DEF ChainHash, Sha256
<1>2. Len(ZeroHash) = 0 /\ Len(BadHash) = 1
  BY DEF ZeroHash, BadHash
<1> QED
  BY <1>1, <1>2 DEF ChainHash, Sha256

\* An accepted chain of entries whose chain hashes runs computed is that of one
\* run, from its first entry on: the hash of the last one stands for all.
LEMMA AcceptedIsOneRun ==
  ASSUME NEW r, NEW h, NEW g \in Garbage, Accepts(r, h, g), IsSequence(r.frames), IsSequence(h.frames),
         Outputs # {}, \A k \in 1 .. Len(h.frames) : EntryLike(h.frames[k])
  PROVE  \E o \in Outputs :
           /\ Len(h.frames) <= Len(o.records)
           /\ \A k \in 1 .. Len(h.frames) : /\ r.frames[k] = o.records[k]
                                            /\ Unstated(h.frames[k]) = Unstated(o.history[k])
<1> DEFINE n == Len(h.frames)
           R == r.frames
           H == h.frames
<1>1. n \in Nat /\ Len(R) = n
  BY SequenceForm DEF Accepts
<1>2. ASSUME NEW k \in 1 .. n
      PROVE  /\ H[k].previous_chain_hash = IF k = 1 THEN ZeroHash ELSE H[k - 1].chain_hash
             /\ H[k].chain_hash = ChainHash(H[k].previous_chain_hash, R[k])
             /\ H[k].magic = K501_HISTORY_MAGIC /\ H[k].sequence = k - 1
             /\ H[k].object_id = Decode(R[k], g).object_id
             /\ H[k].record_hash = Decode(R[k], g).record_hash
  BY <1>1, <1>2 DEF Accepts, EntryAccepted, HistoryVerify, HistoryDecodes
<1>3. ASSUME NEW o \in Outputs, NEW k \in 1 .. Len(o.history)
      PROVE  /\ o.history[k].previous_chain_hash = IF k = 1 THEN ZeroHash ELSE o.history[k - 1].chain_hash
             /\ o.history[k].chain_hash = ChainHash(o.history[k].previous_chain_hash, o.records[k])
  <2> DEFINE before == IF k = 1 THEN ZeroHash ELSE o.history[k - 1].chain_hash
  <2>1. /\ o.history[k].previous_chain_hash = before
        /\ o.history[k].chain_hash = ChainHash(before, o.records[k])
    BY WrittenEntries
  <2> HIDE DEF before
  <2>2. o.history[k].chain_hash = ChainHash(o.history[k].previous_chain_hash, o.records[k])
    BY <2>1
  <2> QED
    BY <2>1, <2>2 DEF before
<1>4. CASE n = 0
  <2>1. PICK o \in Outputs : TRUE
    OBVIOUS
  <2>2. Len(o.records) \in Nat
    BY OutputFacts
  <2> QED
    BY <1>1, <1>4, <2>1, <2>2
<1>5. CASE n # 0
  <2>1. PICK o \in Outputs : \E j \in 1 .. Len(o.history) : H[n].chain_hash = o.history[j].chain_hash
    <3>1. n \in 1 .. n
      BY <1>1, <1>5
    <3>2. EntryLike(H[n]) /\ H[n].chain_hash # BadHash
      BY <1>2, <3>1, HashesDiffer
    <3> QED
      BY <3>2 DEF EntryLike
  <2>2. PICK j \in 1 .. Len(o.history) : H[n].chain_hash = o.history[j].chain_hash
    BY <2>1
  <2>3. Len(o.history) \in Nat /\ Len(o.records) = Len(o.history)
    BY OutputFacts
  <2> HIDE DEF H, R, n
  <2> DEFINE at(k) == k + (j - n)
             Same(k) == at(k) >= 1 /\ H[k].chain_hash = o.history[at(k)].chain_hash
  <2>4. at(n) = j /\ Same(n)
    BY <1>1, <2>2, <2>3
  <2>5. ASSUME NEW k \in 1 .. n, Same(k)
        PROVE  /\ at(k) \in 1 .. Len(o.history)
               /\ R[k] = o.records[at(k)]
               /\ H[k].previous_chain_hash = o.history[at(k)].previous_chain_hash
    <3>1. at(k) \in 1 .. Len(o.history)
      BY <1>1, <2>2, <2>3, <2>5
    <3>2. ChainHash(H[k].previous_chain_hash, R[k])
            = ChainHash(o.history[at(k)].previous_chain_hash, o.records[at(k)])
      BY <1>2, <1>3, <2>5, <3>1
    <3> QED
      BY <3>1, <3>2, HashesDiffer
  <2>6. ASSUME NEW k \in 1 .. n, Same(k)
        PROVE  (k = 1 <=> at(k) = 1) /\ (k # 1 => Same(k - 1))
    <3>1. /\ at(k) \in 1 .. Len(o.history)
          /\ H[k].previous_chain_hash = o.history[at(k)].previous_chain_hash
      BY <2>5, <2>6
    <3> DEFINE i == at(k)
    <3>2. i \in 1 .. Len(o.history) /\ at(k - 1) = i - 1
      BY <1>1, <2>3, <3>1
    <3> HIDE DEF i
    <3>3. k = 1 => H[k].previous_chain_hash = ZeroHash
      BY <1>2
    <3>4. k # 1 => /\ H[k].previous_chain_hash = H[k - 1].chain_hash
                   /\ \E a, b : H[k - 1].chain_hash = ChainHash(a, b)
      <4>1. k # 1 => k - 1 \in 1 .. n
        BY <1>1
      <4> QED
        BY <1>2, <4>1
    <3>5. i = 1 => o.history[i].previous_chain_hash = ZeroHash
      BY <1>3, <3>2
    <3>6. i # 1 => /\ o.history[i].previous_chain_hash = o.history[i - 1].chain_hash
                   /\ \E a, b : o.history[i - 1].chain_hash = ChainHash(a, b)
      <4>1. i # 1 => i - 1 \in 1 .. Len(o.history)
        BY <2>3, <3>2
      <4> QED
        BY <1>3, <3>2, <4>1
    <3>7. H[k].previous_chain_hash = o.history[i].previous_chain_hash
      BY <3>1 DEF i
    <3>8. k = 1 <=> i = 1
      BY <3>3, <3>4, <3>5, <3>6, <3>7, HashesDiffer
    <3>9. k # 1 => i - 1 >= 1 /\ H[k - 1].chain_hash = o.history[i - 1].chain_hash
      BY <2>3, <3>2, <3>4, <3>6, <3>7, <3>8
    <3>10. k # 1 => Same(k - 1)
      BY <3>2, <3>9
    <3> QED
      BY <3>8, <3>10 DEF i
  <2> HIDE DEF Same
  <2> DEFINE Agree == {m \in 1 .. n : \A k \in m .. n : Same(k)}
  <2>7. n \in Agree
    <3>1. \A k \in n .. n : k = n
      BY <1>1
    <3> QED
      BY <1>1, <1>5, <2>4, <3>1
  <2>8. PICK m \in Agree : \A k \in Agree : m <= k
    <3>1. Agree \subseteq 1 .. n
      OBVIOUS
    <3> HIDE DEF Agree
    <3>2. Agree \subseteq Nat /\ Agree # {}
      BY <1>1, <2>7, <3>1
    <3> QED
      BY <3>2, LeastNatural
  <2>9. m \in 1 .. n /\ \A k \in m .. n : Same(k)
    BY <2>8
  <2>10. Same(m)
    BY <1>1, <2>9
  <2>11. m = 1
    <3> SUFFICES ASSUME m # 1 PROVE FALSE
      OBVIOUS
    <3>1. Same(m - 1)
      BY <2>6, <2>9, <2>10
    <3>2. m - 1 \in 1 .. n /\ ~(m <= m - 1) /\ \A k \in m - 1 .. n : k = m - 1 \/ k \in m .. n
      BY <1>1, <2>9
    <3>3. m - 1 \in Agree
      BY <2>9, <3>1, <3>2
    <3> HIDE DEF Agree
    <3> QED
      BY <2>8, <3>2, <3>3
  <2>12. j = n /\ \A k \in 1 .. n : at(k) = k
    <3>1. at(1) = 1
      BY <2>6, <2>9, <2>10, <2>11
    <3> QED
      BY <1>1, <2>3, <3>1
  <2>13. ASSUME NEW k \in 1 .. n
         PROVE  R[k] = o.records[k] /\ Unstated(H[k]) = Unstated(o.history[k])
    <3>1. /\ Same(k) /\ at(k) = k
      BY <2>9, <2>11, <2>12
    <3>2. /\ k \in 1 .. Len(o.history) /\ R[k] = o.records[k]
          /\ H[k].previous_chain_hash = o.history[k].previous_chain_hash
          /\ H[k].chain_hash = o.history[k].chain_hash
      BY <2>5, <3>1 DEF Same
    <3> DEFINE d == Decode(o.records[k], CHOOSE x \in Garbage : TRUE)
               e == Decode(o.records[k], g)
    <3>3. d.object_id = e.object_id /\ d.record_hash = e.record_hash
      BY DEF Decode
    <3>4. /\ o.history[k].magic = K501_HISTORY_MAGIC /\ o.history[k].sequence = k - 1
          /\ o.history[k].object_id = d.object_id /\ o.history[k].record_hash = d.record_hash
          /\ EntryLike(o.history[k])
      BY <3>2, WrittenEntries
    <3>5. /\ H[k].magic = K501_HISTORY_MAGIC /\ H[k].sequence = k - 1
          /\ H[k].object_id = e.object_id /\ H[k].record_hash = e.record_hash
      BY <1>2, <3>2
    <3>6. EntryLike(H[k])
      BY DEF H, n
    <3>7. ASSUME NEW x, EntryLike(x)
          PROVE  Unstated(x) = [magic |-> x.magic, sequence |-> x.sequence, object_id |-> x.object_id,
                                record_hash |-> x.record_hash, qh_state |-> {},
                                previous_chain_hash |-> x.previous_chain_hash, chain_hash |-> x.chain_hash]
      <4>1. x = [magic |-> x.magic, sequence |-> x.sequence, object_id |-> x.object_id,
                 record_hash |-> x.record_hash, qh_state |-> x.qh_state,
                 previous_chain_hash |-> x.previous_chain_hash, chain_hash |-> x.chain_hash]
        BY <3>7 DEF EntryLike
      <4>2. Unstated(x) = [x EXCEPT !.qh_state = {}]
        BY DEF Unstated
      <4> QED
        BY <4>1, <4>2
    <3> HIDE DEF d, e
    <3>8. /\ H[k].magic = o.history[k].magic /\ H[k].sequence = o.history[k].sequence
          /\ H[k].object_id = o.history[k].object_id /\ H[k].record_hash = o.history[k].record_hash
      BY <3>3, <3>4, <3>5
    <3>9. Unstated(H[k]) = [magic |-> H[k].magic, sequence |-> H[k].sequence,
                            object_id |-> H[k].object_id, record_hash |-> H[k].record_hash,
                            qh_state |-> {}, previous_chain_hash |-> H[k].previous_chain_hash,
                            chain_hash |-> H[k].chain_hash]
      BY <3>6, <3>7
    <3>10. EntryLike(o.history[k])
      BY <3>4
    <3> DEFINE y == o.history[k]
    <3> HIDE DEF y
    <3>11. Unstated(y) = [magic |-> y.magic, sequence |-> y.sequence,
                          object_id |-> y.object_id, record_hash |-> y.record_hash,
                          qh_state |-> {}, previous_chain_hash |-> y.previous_chain_hash,
                          chain_hash |-> y.chain_hash]
      BY <3>7, <3>10 DEF y
    <3>12. Unstated(H[k]) = Unstated(y)
      BY <3>2, <3>8, <3>9, <3>11 DEF y
    <3> QED
      BY <3>2, <3>12 DEF y
  <2>14. n <= Len(o.records)
    BY <1>1, <2>3, <2>12
  <2> QED
    BY <2>13, <2>14 DEF n, R, H
<1> QED
  BY <1>4, <1>5

(* Whatever happens to the files on storage, what the verifier passes is   *)
(* the beginning of one run, but for the QH256 states of its history.      *)
THEOREM PassIsOneRun == Spec => []PassMeansOneRun
<1>1. VInv /\ EntriesInv => PassMeansOneRun
  <2> SUFFICES ASSUME VInv, EntriesInv, pc = "PASS" PROVE PassMeansOneRun
    BY DEF PassMeansOneRun
  <2> DEFINE r == AsFile(rf)
             h == AsFile(hf)
  <2>1. PICK g \in Garbage : Accepts(r, h, g)
    BY VerifyAssumption DEF VInv, VerdictIsAccepts
  <2>2. IsFile(rf) /\ IsFile(hf) /\ IsBytes(hf.bytes)
    BY DEF VInv, Framing, FilesInv, IsFile
  <2>3. r.exists = rf.exists /\ h.exists = hf.exists
    BY <2>2, AsFileFacts
  <2>4. rf.exists /\ hf.exists
    BY <2>1, <2>3 DEF Accepts
  <2>5. /\ IsSequence(r.frames) /\ IsSequence(h.frames) /\ Len(h.frames) = FrameCount(hf.bytes)
        /\ \A k \in 1 .. FrameCount(hf.bytes) : h.frames[k] = ValueAt(hf.bytes, FramePos(hf.bytes)[k - 1])
    BY <2>2, <2>4, AsFileFacts
  <2>6. Len(r.frames) = Len(h.frames) /\ Len(h.frames) \in Nat
    BY <2>1, <2>5, SequenceForm DEF Accepts
  <2>7. ASSUME NEW k \in 1 .. FrameCount(hf.bytes)
        PROVE  EntryLike(h.frames[k])
    <3> DEFINE p == FramePos(hf.bytes)[k - 1]
    <3>1. FrameCount(hf.bytes) \in 0 .. Len(hf.bytes) /\ Len(hf.bytes) \in Nat
      BY <2>2, CountFacts, SequenceForm DEF IsBytes
    <3>2. k - 1 \in 0 .. FrameCount(hf.bytes) - 1 /\ k - 1 \in 0 .. Len(hf.bytes)
      BY <3>1
    <3>3. p \in Nat /\ FrameAt(hf.bytes, p)
      BY <2>2, <3>1, <3>2, CountFacts, WalkSteps
    <3>4. EntryLike(ValueAt(hf.bytes, p))
      BY <2>2, <3>3, ValueHeld DEF EntriesInv, HoldsEntries
    <3> QED
      BY <2>5, <3>4
  <2> HIDE DEF r, h
  <2>8. PICK o \in Outputs :
          /\ Len(h.frames) <= Len(o.records)
          /\ \A k \in 1 .. Len(h.frames) : /\ r.frames[k] = o.records[k]
                                           /\ Unstated(h.frames[k]) = Unstated(o.history[k])
    BY <2>1, <2>5, <2>7, AcceptedIsOneRun DEF VInv
  <2>9. IsPrefix(r.frames, o.records)
    <3> DEFINE n == Len(r.frames)
    <3>1. IsSequence(o.records) /\ n \in Nat /\ n <= Len(o.records)
      BY <2>6, <2>8, OutputFacts
    <3>2. SubSeq(r.frames, 1, n) = [k \in 1 .. n |-> r.frames[k]]
      BY <3>1
    <3>3. SubSeq(o.records, 1, n) = [k \in 1 .. n |-> o.records[k]]
      BY <3>1
    <3>4. SubSeq(r.frames, 1, n) = SubSeq(o.records, 1, n)
      BY <2>6, <2>8, <3>2, <3>3
    <3> QED
      BY <3>1, <3>4 DEF IsPrefix
  <2>10. DOMAIN h.frames = 1 .. Len(h.frames)
    BY <2>5, SequenceForm
  <2> QED
    BY <2>8, <2>9, <2>10 DEF PassMeansOneRun, r, h
<1> QED
  BY <1>1, VInvAlways, EntriesAlways, PTL
-----------------------------------------------------------------------------
\* Growing by doubling ends, with room for what is needed.
IsGrowth(f, need, m) ==
  f = [cap \in SIZE_MAX - m + 1 .. SIZE_MAX |->
         IF cap >= need THEN cap ELSE IF cap > SIZE_MAX \div 2 THEN need ELSE f[2 * cap]]
LEMMA GrowthExists ==
  \A need \in 1 .. SIZE_MAX : \E f : IsGrowth(f, need, SIZE_MAX)
<1> SUFFICES ASSUME NEW need \in 1 .. SIZE_MAX PROVE \E f : IsGrowth(f, need, SIZE_MAX)
  OBVIOUS
<1>0. SIZE_MAX \in Nat \ {0}
  BY ByteBufAssumption
<1> DEFINE G == {m \in Nat : m <= SIZE_MAX => \E f : IsGrowth(f, need, m)}
<1>1. 0 \in G
  <2>1. SIZE_MAX - 0 + 1 .. SIZE_MAX = {}
    BY <1>0
  <2>2. IsGrowth([c \in {} |-> 0], need, 0)
    BY <2>1 DEF IsGrowth
  <2> QED
    BY <2>2
<1>2. ASSUME NEW m \in Nat, m \in G PROVE m + 1 \in G
  <2> SUFFICES ASSUME m + 1 <= SIZE_MAX PROVE \E f : IsGrowth(f, need, m + 1)
    OBVIOUS
  <2>1. PICK f : IsGrowth(f, need, m)
    BY <1>0, <1>2
  <2> DEFINE c0 == SIZE_MAX - m
             D == c0 + 1 .. SIZE_MAX
             body(h, c) == IF c >= need THEN c ELSE IF c > SIZE_MAX \div 2 THEN need ELSE h[2 * c]
             e == [c \in c0 .. SIZE_MAX |-> IF c = c0 THEN body(f, c) ELSE f[c]]
  <2>2. c0 \in Nat \ {0} /\ SIZE_MAX - (m + 1) + 1 = c0 /\ SIZE_MAX - m + 1 = c0 + 1
    BY <1>0
  <2>3. \A c \in D : f[c] = body(f, c)
    BY <2>1, <2>2 DEF IsGrowth
  <2> HIDE DEF c0
  <2>4. ASSUME NEW c \in c0 .. SIZE_MAX PROVE e[c] = body(e, c)
    <3>1. e[c] = body(f, c)
      BY <1>0, <2>2, <2>3, <2>4
    <3>2. ~(c > SIZE_MAX \div 2) => 2 * c \in D /\ 2 * c \in c0 .. SIZE_MAX /\ 2 * c # c0
      BY <1>0, <2>2, <2>4
    <3>3. ~(c > SIZE_MAX \div 2) => e[2 * c] = f[2 * c]
      BY <3>2
    <3> HIDE DEF e
    <3> QED
      BY <3>1, <3>3
  <2>5. e = [c \in c0 .. SIZE_MAX |-> e[c]]
    OBVIOUS
  <2> HIDE DEF e
  <2>6. IsGrowth(e, need, m + 1)
    BY <2>2, <2>4, <2>5 DEF IsGrowth
  <2> QED
    BY <2>6
<1>3. Nat \subseteq G
  <2> HIDE DEF G
  <2> QED
    BY <1>1, <1>2, SetInduction
<1> QED
  BY <1>0, <1>3

LEMMA GrowthSuffices ==
  ASSUME NEW need \in 1 .. SIZE_MAX, NEW f, IsGrowth(f, need, SIZE_MAX), NEW cap \in 1 .. SIZE_MAX
  PROVE  f[cap] \in need .. SIZE_MAX
<1>0. SIZE_MAX \in Nat \ {0}
  BY ByteBufAssumption
<1>1. \A c \in 1 .. SIZE_MAX :
        f[c] = IF c >= need THEN c ELSE IF c > SIZE_MAX \div 2 THEN need ELSE f[2 * c]
  <2>1. SIZE_MAX - SIZE_MAX + 1 = 1
    BY <1>0
  <2> QED
    BY <2>1 DEF IsGrowth
<1> DEFINE G == {m \in Nat : \A c \in 1 .. SIZE_MAX : c > SIZE_MAX - m => f[c] \in need .. SIZE_MAX}
<1>2. 0 \in G
  BY <1>0
<1>3. ASSUME NEW m \in Nat, m \in G PROVE m + 1 \in G
  <2> SUFFICES ASSUME NEW c \in 1 .. SIZE_MAX, c > SIZE_MAX - (m + 1) PROVE f[c] \in need .. SIZE_MAX
    OBVIOUS
  <2>1. CASE c >= need \/ c > SIZE_MAX \div 2
    BY <1>0, <1>1, <2>1
  <2>2. CASE ~(c >= need) /\ ~(c > SIZE_MAX \div 2)
    <3>1. 2 * c \in 1 .. SIZE_MAX /\ 2 * c > SIZE_MAX - m
      BY <1>0, <2>2
    <3>2. f[c] = f[2 * c]
      BY <1>1, <2>2
    <3> QED
      BY <1>3, <3>1, <3>2
  <2> QED
    BY <2>1, <2>2
<1>4. Nat \subseteq G
  <2> HIDE DEF G
  <2> QED
    BY <1>2, <1>3, SetInduction
<1>5. SIZE_MAX \in G
  <2> HIDE DEF G
  <2> QED
    BY <1>0, <1>4
<1>6. cap > SIZE_MAX - SIZE_MAX
  BY <1>0
<1> QED
  BY <1>5, <1>6

\* A put that was asked for finds room.
Room(b) == /\ IsSequence(b.data) /\ b.cap \in Nat
           /\ Len(b.data) <= b.cap /\ b.cap <= SIZE_MAX

LEMMA PutRoom ==
  ASSUME NEW b, Room(b), NEW s, IsSequence(s), CanReserve(b, Len(s))
  PROVE  Room(Put(b, s)) /\ Len(Put(b, s).data) = Len(b.data) + Len(s)
<1> DEFINE need == Len(b.data) + Len(s)
           from == IF b.cap = 0 THEN FirstCap ELSE b.cap
           grown == CHOOSE f : IsGrowth(f, need, SIZE_MAX)
<1>0. SIZE_MAX \in Nat \ {0} /\ FirstCap \in 1 .. SIZE_MAX /\ Len(b.data) \in Nat /\ Len(s) \in Nat
  BY ByteBufAssumption, SequenceForm DEF Room
<1>1. need \in 0 .. SIZE_MAX
  BY <1>0 DEF CanReserve
<1>2. need % (SIZE_MAX + 1) = need
  <2> HIDE DEF need
  <2>1. SIZE_MAX + 1 \in Nat \ {0} /\ 0 \in Nat /\ need \in 0 .. (SIZE_MAX + 1) - 1
    BY <1>0, <1>1
  <2>2. (0 * (SIZE_MAX + 1) + need) % (SIZE_MAX + 1) = need
    BY <2>1, DivModUnique
  <2>3. 0 * (SIZE_MAX + 1) + need = need
    BY <2>1
  <2> QED
    BY <2>2, <2>3
<1>3. Reserve(b, Len(s)) = IF need <= b.cap THEN b.cap ELSE grown[from]
  <2>1. SIZE_MAX - SIZE_MAX + 1 = 1
    BY <1>0
  <2> DEFINE sum == need % (SIZE_MAX + 1)
             growth(x) == CHOOSE f : f = [cap \in 1 .. SIZE_MAX |->
                                            IF cap >= x THEN cap
                                            ELSE IF cap > SIZE_MAX \div 2 THEN x ELSE f[2 * cap]]
  <2>2. Reserve(b, Len(s)) = IF sum <= b.cap THEN b.cap ELSE growth(sum)[from]
    BY DEF Reserve
  <2>3. sum = need
    BY <1>2
  <2>4. growth(need) = grown
    <3> HIDE DEF need
    <3> QED
      BY <2>1 DEF IsGrowth
  <2> HIDE DEF sum, growth, need, grown
  <2> QED
    BY <2>2, <2>3, <2>4
<1> HIDE DEF need, from, grown
<1>4. ~(need <= b.cap) => grown[from] \in need .. SIZE_MAX
  <2> SUFFICES ASSUME ~(need <= b.cap) PROVE grown[from] \in need .. SIZE_MAX
    OBVIOUS
  <2>1. need \in 1 .. SIZE_MAX /\ from \in 1 .. SIZE_MAX
    BY <1>0, <1>1 DEF Room, from
  <2>2. IsGrowth(grown, need, SIZE_MAX)
    BY <2>1, GrowthExists DEF grown
  <2> QED
    BY <2>1, <2>2, GrowthSuffices
<1>5. Reserve(b, Len(s)) \in need .. SIZE_MAX
  BY <1>0, <1>1, <1>3, <1>4 DEF Room
<1>6. Put(b, s).data = b.data \o s /\ Put(b, s).cap = Reserve(b, Len(s))
  BY DEF Put
<1>7. IsSequence(b.data \o s) /\ Len(b.data \o s) = need
  BY ConcatForm DEF Room, need
<1> QED
  BY <1>0, <1>1, <1>5, <1>6, <1>7 DEF Room, need

LEMMA FramedRoom ==
  ASSUME NEW b, Room(b), NEW x, SizeOf(x) \in Nat, CanFrame(b, x)
  PROVE  Room(Framed(b, x))
<1>1. IsSequence(U32le(SizeOf(x))) /\ Len(U32le(SizeOf(x))) = LengthBytes
      /\ IsSequence(Payload(x)) /\ Len(Payload(x)) = SizeOf(x)
  BY U32leBytes, PayloadBytes
<1>2. Room(Put(b, U32le(SizeOf(x))))
  BY <1>1, PutRoom DEF CanFrame
<1> QED
  BY <1>1, <1>2, PutRoom DEF CanFrame, Framed

RoomInv == Room(wr) /\ Room(wh)
LEMMA RoomKept == VInv /\ RoomInv /\ [Next]_vars => RoomInv'
<1> SUFFICES ASSUME VInv, RoomInv, [Next]_vars PROVE RoomInv'
  OBVIOUS
<1>1. CASE FrameRecord
  <2> DEFINE x == out.records[count + 1]
  <2>1. /\ wh' = wh
        /\ \/ CanFrame(wr, x) /\ wr' = Framed(wr, x)
           \/ wr' = wr
    BY <1>1 DEF FrameRecord
  <2>2. SizeOf(x) \in Nat
    <3>1. count \in 0 .. Len(out.records) /\ count < Len(out.records) /\ out \in Outputs
      BY <1>1 DEF FrameRecord, VInv, Framing, WriterInv
    <3>2. count + 1 \in 1 .. Len(out.records)
      BY <3>1, OutputFacts
    <3> QED
      BY <3>1, <3>2, OutputFacts
  <2> HIDE DEF x
  <2> QED
    BY <2>1, <2>2, FramedRoom DEF RoomInv
<1>2. CASE FrameHistory
  <2> DEFINE x == out.history[count + 1]
  <2>1. /\ wr' = wr
        /\ \/ CanFrame(wh, x) /\ wh' = Framed(wh, x)
           \/ wh' = wh
    BY <1>2 DEF FrameHistory
  <2>2. SizeOf(x) \in Nat
    <3>1. count \in 0 .. Len(out.records) /\ count < Len(out.records) /\ out \in Outputs
      BY <1>2 DEF FrameHistory, VInv, Framing, WriterInv
    <3>2. count + 1 \in 1 .. Len(out.records)
      BY <3>1, OutputFacts
    <3> QED
      BY <3>1, <3>2, OutputFacts
  <2> HIDE DEF x
  <2> QED
    BY <2>1, <2>2, FramedRoom DEF RoomInv
<1>3. Room(EmptyBuf)
  BY EmptyBytes, ByteBufAssumption DEF Room, EmptyBuf, IsBytes
<1>4. CASE WriteFiles
  BY <1>3, <1>4 DEF WriteFiles, RoomInv
<1>5. CASE ~FrameRecord /\ ~FrameHistory /\ ~WriteFiles
  <2>1. UNCHANGED <<wr, wh>>
    BY <1>5 DEF Next, Program, Storage, DamageRecord, DamageHistory, DamageBytes, OtherRun, Lose, Fault,
                Read, Turn, End, Done, vars, written
  <2> QED
    BY <2>1 DEF RoomInv
<1> QED
  BY <1>1, <1>2, <1>4, <1>5

(* No put of the pipeline program writes outside its buffer, at any sizes  *)
(* and with lengths and capacities up to the largest size.                 *)
THEOREM BuffersStayWithin == Spec => []WithinCapacity
<1>1. Init => RoomInv
  BY EmptyBytes, ByteBufAssumption DEF Init, RoomInv, Room, EmptyBuf, IsBytes
<1>2. RoomInv => WithinCapacity
  BY DEF RoomInv, Room, WithinCapacity
<1> QED
  BY <1>1, <1>2, RoomKept, VInvAlways, PTL DEF Spec
-----------------------------------------------------------------------------
\* Reading four digits back gives the length that was written.
LEMMA OneDigitMore ==
  ASSUME NEW n \in Nat, NEW w \in Nat \ {0}, NEW v \in Nat \ {0}
  PROVE  n % (w * v) = (n % w) + ((n \div w) % v) * w
<1> DEFINE q == n \div w
           r == n % w
           a == q \div v
           d == q % v
<1>1. q \in Nat /\ r \in 0 .. w - 1 /\ n = q * w + r
  BY DivMod
<1> HIDE DEF q, r
<1>2. a \in Nat /\ d \in 0 .. v - 1 /\ q = a * v + d
  BY <1>1, DivMod
<1> HIDE DEF a, d
<1>3. w * v \in Nat \ {0} /\ d * w \in Nat /\ a * (w * v) \in Nat
  BY <1>2
<1>4. n = a * (w * v) + (d * w + r)
  <2>1. (a * v + d) * w = a * (w * v) + d * w
    BY <1>2
  <2> QED
    BY <1>1, <1>2, <1>3, <2>1
<1>5. d * w + r \in 0 .. (w * v) - 1
  <2>1. d * w + w <= v * w
    <3>1. d \in Nat /\ d < v
      BY <1>2
    <3> QED
      BY <3>1, TimesGrows
  <2>2. v * w = w * v
    OBVIOUS
  <2> QED
    BY <1>1, <1>3, <2>1, <2>2
<1>6. (a * (w * v) + (d * w + r)) % (w * v) = d * w + r
  BY <1>2, <1>3, <1>5, DivModUnique
<1>7. n % (w * v) = r + d * w
  <2>1. n % (w * v) = d * w + r
    BY <1>4, <1>6, Zenon
  <2>2. d * w + r = r + d * w
    BY <1>1, <1>3
  <2> QED
    BY <2>1, <2>2
<1> QED
  BY <1>7 DEF r, d, q

LEMMA LengthReadsBack ==
  ASSUME NEW n \in Nat, n <= UINT32_MAX, NEW b, NEW pos \in Nat,
         \A k \in 1 .. LengthBytes : b[pos + k] = U32le(n)[k]
  PROVE  LengthAt(b, pos) = n
<1> DEFINE sum == CHOOSE f : IsSum(f, b, pos, LengthBytes)
<1>1. LengthBytes \in Nat /\ ByteValues \in Nat \ {0}
  BY ByteBufAssumption
<1>2. sum = [k \in 0 .. LengthBytes |->
               IF k = 0 THEN 0 ELSE sum[k - 1] + Octet(b[pos + k]) * Weight[k - 1]]
  <2>1. \E f : IsSum(f, b, pos, LengthBytes)
    BY <1>1, SumExists
  <2>2. IsSum(sum, b, pos, LengthBytes)
    BY <2>1
  <2> QED
    BY <2>2 DEF IsSum
<1>3. LengthAt(b, pos) = sum[LengthBytes]
  BY DEF LengthAt, IsSum
<1> HIDE DEF sum
<1> DEFINE G == {k \in Nat : k <= LengthBytes => sum[k] = n % Weight[k]}
<1>4. 0 \in G
  <2>1. sum[0] = 0
    BY <1>1, <1>2
  <2>2. n % 1 = 0
    OBVIOUS
  <2> QED
    BY <2>1, <2>2, WeightFacts
<1>5. ASSUME NEW k \in Nat, k \in G PROVE k + 1 \in G
  <2> SUFFICES ASSUME k + 1 <= LengthBytes PROVE sum[k + 1] = n % Weight[k + 1]
    OBVIOUS
  <2>1. sum[k] = n % Weight[k]
    BY <1>1, <1>5
  <2>2. k + 1 \in 1 .. LengthBytes /\ k + 1 \in 0 .. LengthBytes /\ k + 1 # 0 /\ (k + 1) - 1 = k
    BY <1>1
  <2>3. Octet(b[pos + (k + 1)]) = (n \div Weight[k]) % ByteValues
    <3>1. b[pos + (k + 1)] = Digit((n \div Weight[k]) % ByteValues)
      BY <2>2, U32leBytes
    <3> QED
      BY <3>1 DEF Octet, IsDigit, Digit
  <2>4. sum[k + 1] = sum[k] + Octet(b[pos + (k + 1)]) * Weight[k]
    BY <1>2, <2>2
  <2>5. n % (Weight[k] * ByteValues) = (n % Weight[k]) + ((n \div Weight[k]) % ByteValues) * Weight[k]
    BY <1>1, OneDigitMore, WeightFacts
  <2> QED
    BY <2>1, <2>3, <2>4, <2>5, WeightFacts
<1>6. Nat \subseteq G
  <2> HIDE DEF G
  <2> QED
    BY <1>4, <1>5, SetInduction
<1>7. sum[LengthBytes] = n % Weight[LengthBytes]
  BY <1>1, <1>6
<1>8. n % Weight[LengthBytes] = n
  <2> DEFINE w == Weight[LengthBytes]
  <2>1. w \in Nat \ {0}
    BY <1>1, WeightFacts
  <2>2. n \in 0 .. w - 1
    BY <2>1 DEF UINT32_MAX
  <2> HIDE DEF w
  <2>3. (0 * w + n) % w = n /\ 0 * w + n = n
    BY <2>1, <2>2, DivModUnique
  <2> QED
    BY <2>3 DEF w
<1> QED
  BY <1>3, <1>7, <1>8

\* Where framing put a value, a frame is read: its own.
LEMMA FrameReadsBack ==
  ASSUME NEW s, Framable(s), NEW k \in 0 .. Len(s) - 1, SizeOf(s[k + 1]) <= UINT32_MAX,
         NEW b, IsBytes(b), Len(FramedFirst(s)[k + 1].data) <= Len(b),
         \A i \in 1 .. Len(FramedFirst(s)[k + 1].data) : b[i] = FramedFirst(s)[k + 1].data[i]
  PROVE  LET p == Len(FramedFirst(s)[k].data)
         IN  /\ FrameAt(b, p) /\ ValueAt(b, p) = s[k + 1]
             /\ FrameEnd(b, p) = Len(FramedFirst(s)[k + 1].data)
<1> DEFINE x == s[k + 1]
           old == FramedFirst(s)[k].data
           new == FramedFirst(s)[k + 1].data
           u == U32le(SizeOf(x))
           y == Payload(x)
           p == Len(old)
           n == SizeOf(x)
<1>0. Len(s) \in Nat /\ k + 1 \in 1 .. Len(s) /\ k \in 0 .. Len(s) /\ k + 1 \in 0 .. Len(s)
  BY SequenceForm DEF Framable
<1>1. n \in Nat \ {0} /\ LengthBytes \in Nat \ {0}
  BY <1>0, ByteBufAssumption DEF Framable
<1>2. new = (old \o u) \o y
  <2>1. FramedFirst(s)[k + 1] = Framed(FramedFirst(s)[k], x)
    BY FramingSteps
  <2>2. BytesOf(FramedFirst(s)[k].data, s)
    BY <1>0, FramingSteps
  <2>3. Framed(FramedFirst(s)[k], x).data = (FramedFirst(s)[k].data \o u) \o y
    BY <1>0, <1>1, <2>2, FramedBytes, ZenonT(40)
  <2> QED
    BY <2>1, <2>3
<1>3. IsSequence(old) /\ IsSequence(u) /\ IsSequence(y) /\ Len(u) = LengthBytes /\ Len(y) = n
  <2>1. IsSequence(old)
    <3>1. \A j \in 0 .. Len(s) : BytesOf(FramedFirst(s)[j].data, s)
      BY FramingSteps
    <3> QED
      BY <1>0, <3>1 DEF BytesOf
  <2>2. IsSequence(u) /\ Len(u) = LengthBytes
    BY <1>1, U32leBytes
  <2>3. IsSequence(y) /\ Len(y) = n
    BY <1>1, PayloadBytes
  <2> QED
    BY <2>1, <2>2, <2>3
<1>4. p \in Nat /\ Len(b) \in Nat
  BY <1>3, SequenceForm DEF IsBytes
<1> HIDE DEF old, new, u, y, n
<1>5. /\ IsSequence(old \o u) /\ Len(old \o u) = p + LengthBytes
      /\ \A j \in 1 .. LengthBytes : (old \o u)[p + j] = u[j]
  <2>1. /\ IsSequence(old \o u) /\ Len(old \o u) = Len(old) + Len(u)
        /\ \A j \in 1 .. Len(u) : (old \o u)[Len(old) + j] = u[j]
    <3>1. IsSequence(old) /\ IsSequence(u)
      BY <1>3
    <3> QED
      BY <3>1, ConcatForm
  <2> QED
    BY <1>3, <2>1
<1>6. /\ Len(new) = (p + LengthBytes) + n
      /\ \A j \in 1 .. p + LengthBytes : new[j] = (old \o u)[j]
      /\ \A j \in 1 .. n : new[(p + LengthBytes) + j] = y[j]
  <2> DEFINE v == old \o u
  <2> HIDE DEF v
  <2>1. IsSequence(v) /\ IsSequence(y) /\ new = v \o y /\ Len(v) = p + LengthBytes
    BY <1>2, <1>3, <1>5 DEF v
  <2>2. /\ Len(v \o y) = Len(v) + Len(y)
        /\ \A j \in 1 .. Len(v) : (v \o y)[j] = v[j]
        /\ \A j \in 1 .. Len(y) : (v \o y)[Len(v) + j] = y[j]
    BY <2>1, ConcatForm, SMTT(20)
  <2> QED
    BY <1>3, <2>1, <2>2 DEF v
<1>7. /\ Len(new) <= Len(b) /\ \A i \in 1 .. Len(new) : b[i] = new[i]
  BY DEF new
<1>8. ASSUME NEW j \in 1 .. LengthBytes PROVE b[p + j] = u[j]
  <2>1. p + j \in 1 .. p + LengthBytes /\ p + j \in 1 .. Len(new)
    BY <1>1, <1>4, <1>6
  <2> QED
    BY <1>5, <1>6, <1>7, <2>1
<1>9. LengthAt(b, p) = n
  BY <1>1, <1>4, <1>8, LengthReadsBack DEF u, n
<1>10. FrameFits(b, p) /\ FrameEnd(b, p) = Len(new)
  BY <1>1, <1>4, <1>6, <1>7, <1>9 DEF FrameFits, CanTake, FrameEnd
<1>11. FramePayload(b, p) = y
  <2>1. FramePayload(b, p) = SubSeq(b, p + LengthBytes + 1, Len(new))
    BY <1>10 DEF FramePayload
  <2>2. SubSeq(b, p + LengthBytes + 1, Len(new)) = [j \in 1 .. n |-> b[(p + LengthBytes) + j]]
    <3>1. 1 + Len(new) - (p + LengthBytes + 1) = n
      BY <1>1, <1>4, <1>6
    <3>2. \A j \in 1 .. n : j + (p + LengthBytes + 1) - 1 = (p + LengthBytes) + j
      BY <1>1, <1>4
    <3> DEFINE from == p + LengthBytes + 1
               to == Len(new)
    <3>3. from \in Nat /\ to \in Nat
      BY <1>1, <1>4, <1>6
    <3> HIDE DEF from, to
    <3>4. SubSeq(b, from, to) = [j \in 1 .. (1 + to - from) |-> b[j + from - 1]]
      BY <3>3
    <3> HIDE DEF p
    <3> QED
      BY <3>1, <3>2, <3>4 DEF from, to
  <2>3. ASSUME NEW j \in 1 .. n PROVE b[(p + LengthBytes) + j] = y[j]
    <3>1. (p + LengthBytes) + j \in 1 .. Len(new)
      BY <1>1, <1>4, <1>6
    <3> QED
      BY <1>6, <1>7, <3>1
  <2>4. y = [j \in 1 .. n |-> y[j]]
    BY <1>3, SequenceForm
  <2> HIDE DEF p
  <2> QED
    BY <2>1, <2>2, <2>3, <2>4
<1>12. y[1] = <<"byte", x>> /\ y # <<>> /\ y = Payload(x)
  <2>1. 1 \in 1 .. n
    BY <1>1
  <2>2. y[1] = <<"byte", x>>
    BY <1>1, <2>1, PayloadBytes DEF y, n
  <2>3. Len(y) # Len(<<>>)
    BY <1>1, <1>3, EmptyBytes
  <2> QED
    BY <2>2, <2>3 DEF y
<1>13. FrameAt(b, p) /\ ValueAt(b, p) = x
  BY <1>10, <1>11, <1>12 DEF FrameAt, IsPayload, ValueAt, ValueOf
<1> QED
  BY <1>10, <1>13 DEF old, new

\* A frame more: the bytes before stay.
LEMMA FramingGrows ==
  ASSUME NEW s, Framable(s), NEW k \in 0 .. Len(s) - 1
  PROVE  LET old == FramedFirst(s)[k].data
             new == FramedFirst(s)[k + 1].data
         IN  /\ Len(old) \in Nat
             /\ Len(new) = Len(old) + LengthBytes + SizeOf(s[k + 1]) /\ Len(old) < Len(new)
             /\ \A i \in 1 .. Len(old) : new[i] = old[i]
<1> DEFINE x == s[k + 1]
           old == FramedFirst(s)[k].data
           new == FramedFirst(s)[k + 1].data
           u == U32le(SizeOf(x))
           y == Payload(x)
<1>0. Len(s) \in Nat /\ k + 1 \in 1 .. Len(s) /\ k \in 0 .. Len(s)
  BY SequenceForm DEF Framable
<1>1. SizeOf(x) \in Nat \ {0} /\ LengthBytes \in Nat \ {0}
  BY <1>0, ByteBufAssumption DEF Framable
<1>2. new = (old \o u) \o y
  <2>1. FramedFirst(s)[k + 1] = Framed(FramedFirst(s)[k], x)
    BY FramingSteps
  <2>2. BytesOf(FramedFirst(s)[k].data, s)
    BY <1>0, FramingSteps
  <2>3. Framed(FramedFirst(s)[k], x).data = (FramedFirst(s)[k].data \o u) \o y
    BY <1>0, <1>1, <2>2, FramedBytes
  <2> QED
    BY <2>1, <2>3
<1>3. IsSequence(old) /\ IsSequence(u) /\ IsSequence(y) /\ Len(u) = LengthBytes /\ Len(y) = SizeOf(x)
  BY <1>0, <1>1, FramingSteps, U32leBytes, PayloadBytes DEF BytesOf
<1> HIDE DEF old, new, u, y, x
<1>4. Len(old) \in Nat
  BY <1>3, SequenceForm
<1> DEFINE v == old \o u
<1>5. IsSequence(v) /\ Len(v) = Len(old) + Len(u) /\ \A i \in 1 .. Len(old) : v[i] = old[i]
  <2>1. IsSequence(old) /\ IsSequence(u)
    BY <1>3
  <2> QED
    BY <2>1, ConcatForm
<1>6. new = v \o y
  BY <1>2
<1> HIDE DEF v
<1>7. Len(new) = Len(v) + Len(y) /\ \A i \in 1 .. Len(v) : new[i] = v[i]
  <2>1. IsSequence(v) /\ IsSequence(y)
    BY <1>3, <1>5
  <2> QED
    BY <1>6, <2>1, ConcatForm
<1>8. Len(new) = Len(old) + LengthBytes + SizeOf(x) /\ Len(old) < Len(new)
  BY <1>1, <1>3, <1>4, <1>5, <1>7
<1>9. \A i \in 1 .. Len(old) : i \in 1 .. Len(v)
  BY <1>1, <1>3, <1>4, <1>5
<1>10. \A i \in 1 .. Len(old) : new[i] = old[i]
  BY <1>5, <1>7, <1>9
<1> QED
  BY <1>4, <1>8, <1>10 DEF old, new, x

LEMMA FramingPrefix ==
  ASSUME NEW s, Framable(s), NEW k \in 0 .. Len(s)
  PROVE  /\ Len(FramedFirst(s)[k].data) \in Nat /\ k <= Len(FramedFirst(s)[k].data)
         /\ Len(FramedFirst(s)[k].data) <= Len(FramedAll(s))
         /\ \A i \in 1 .. Len(FramedFirst(s)[k].data) : FramedAll(s)[i] = FramedFirst(s)[k].data[i]
<1> DEFINE N == Len(s)
           d(m) == FramedFirst(s)[m].data
           Before(m) == /\ Len(d(m)) <= Len(d(N))
                        /\ \A i \in 1 .. Len(d(m)) : d(N)[i] = d(m)[i]
<1>0. N \in Nat
  BY SequenceForm DEF Framable
<1>1. ASSUME NEW m \in 0 .. N PROVE Len(d(m)) \in Nat
  BY <1>1, FramingSteps, SequenceForm DEF BytesOf
<1>2. ASSUME NEW m \in 0 .. N - 1
      PROVE  Len(d(m)) < Len(d(m + 1)) /\ \A i \in 1 .. Len(d(m)) : d(m + 1)[i] = d(m)[i]
  BY <1>2, FramingGrows
<1> HIDE DEF d, N
<1> DEFINE G == {j \in Nat : j <= N => Before(N - j)}
<1>3. 0 \in G
  <2>1. N - 0 = N /\ Len(d(N)) \in Nat
    BY <1>0, <1>1
  <2> QED
    BY <2>1
<1>4. ASSUME NEW j \in Nat, j \in G PROVE j + 1 \in G
  <2> SUFFICES ASSUME j + 1 <= N PROVE Before(N - (j + 1))
    OBVIOUS
  <2> DEFINE m == N - (j + 1)
  <2>1. m \in 0 .. N - 1 /\ m \in 0 .. N /\ m + 1 \in 0 .. N /\ m + 1 = N - j /\ N \in 0 .. N
    BY <1>0
  <2>2. Before(m + 1)
    BY <1>0, <1>4, <2>1
  <2> HIDE DEF m
  <2>3. Len(d(m)) \in Nat /\ Len(d(m + 1)) \in Nat /\ Len(d(N)) \in Nat /\ Len(d(m)) < Len(d(m + 1))
    BY <1>1, <1>2, <2>1
  <2>4. \A i \in 1 .. Len(d(m)) : i \in 1 .. Len(d(m + 1))
    BY <2>3
  <2>5. \A i \in 1 .. Len(d(m)) : d(N)[i] = d(m)[i]
    BY <1>2, <2>1, <2>2, <2>4
  <2>6. Before(m)
    BY <2>2, <2>3, <2>5
  <2> QED
    BY <2>6 DEF m
<1>5. Nat \subseteq G
  <2> HIDE DEF G
  <2> QED
    BY <1>3, <1>4, SetInduction
<1>6. Before(k)
  <2>1. N - k \in Nat /\ N - k <= N /\ N - (N - k) = k
    BY <1>0 DEF N
  <2>2. N - k \in G
    <3> HIDE DEF G
    <3> QED
      BY <1>5, <2>1
  <2> QED
    BY <2>1, <2>2
<1> DEFINE L == {j \in Nat : j <= N => j <= Len(d(j))}
<1>7. 0 \in L
  BY <1>0, <1>1
<1>8. ASSUME NEW j \in Nat, j \in L PROVE j + 1 \in L
  <2> SUFFICES ASSUME j + 1 <= N PROVE j + 1 <= Len(d(j + 1))
    OBVIOUS
  <2>1. j \in 0 .. N - 1 /\ j \in 0 .. N /\ j + 1 \in 0 .. N
    BY <1>0
  <2>2. j <= Len(d(j))
    BY <1>8, <2>1
  <2> QED
    BY <1>1, <1>2, <2>1, <2>2
<1>9. Nat \subseteq L
  <2> HIDE DEF L
  <2> QED
    BY <1>7, <1>8, SetInduction
<1>10. k <= Len(d(k)) /\ Len(d(k)) \in Nat
  BY <1>0, <1>1, <1>9 DEF N
<1> QED
  BY <1>6, <1>10 DEF d, N, FramedAll

LEMMA AllReadsBack ==
  ASSUME NEW s, Framable(s), \A k \in 1 .. Len(s) : SizeOf(s[k]) <= UINT32_MAX
  PROVE  AsFile(Stored(FramedAll(s))) = Whole(s)
<1> DEFINE N == Len(s)
           b == FramedAll(s)
           d(k) == FramedFirst(s)[k].data
           at == FramePos(b)
<1>0. N \in Nat /\ s = [k \in 1 .. N |-> s[k]]
  BY SequenceForm DEF Framable
<1>1. b = d(N) /\ IsBytes(b)
  BY <1>0, FramingSteps, BytesOfAreBytes DEF FramedAll
<1>2. Len(b) \in Nat /\ N <= Len(b)
  BY <1>0, <1>1, FramingPrefix
<1>3. ASSUME NEW k \in 0 .. N - 1
      PROVE  /\ FrameAt(b, Len(d(k))) /\ ValueAt(b, Len(d(k))) = s[k + 1]
             /\ FrameEnd(b, Len(d(k))) = Len(d(k + 1))
  <2>1. k + 1 \in 0 .. N /\ k + 1 \in 1 .. N
    BY <1>0
  <2> QED
    <3>1. SizeOf(s[k + 1]) <= UINT32_MAX
      BY <2>1
    <3>2. /\ Len(FramedFirst(s)[k + 1].data) <= Len(b)
          /\ \A i \in 1 .. Len(FramedFirst(s)[k + 1].data) : b[i] = FramedFirst(s)[k + 1].data[i]
      BY <2>1, FramingPrefix
    <3> HIDE DEF b
    <3> QED
      BY <1>1, <3>1, <3>2, FrameReadsBack
<1> HIDE DEF b
<1>4. /\ at[0] = 0 /\ \A k \in 0 .. Len(b) - 1 : at[k + 1] = Past(b, at[k])
  BY <1>1, WalkSteps
<1>5. d(0) = <<>>
  BY FramingSteps DEF EmptyBuf
<1> HIDE DEF at, d, N
<1> DEFINE G == {k \in Nat : k <= N => at[k] = Len(d(k))}
<1>6. 0 \in G
  BY <1>4, <1>5, EmptyBytes
<1>7. ASSUME NEW k \in Nat, k \in G PROVE k + 1 \in G
  <2> SUFFICES ASSUME k + 1 <= N PROVE at[k + 1] = Len(d(k + 1))
    OBVIOUS
  <2>1. k \in 0 .. N - 1 /\ k \in 0 .. Len(b) - 1 /\ at[k] = Len(d(k))
    BY <1>0, <1>2, <1>7
  <2>2. FrameAt(b, at[k]) /\ FrameEnd(b, at[k]) = Len(d(k + 1))
    BY <1>3, <2>1
  <2> QED
    BY <1>4, <2>1, <2>2 DEF Past
<1>8. Nat \subseteq G
  <2> HIDE DEF G
  <2> QED
    BY <1>6, <1>7, SetInduction
<1>9. \A k \in 0 .. N : at[k] = Len(d(k))
  BY <1>0, <1>8
<1>10. \A k \in 0 .. N - 1 : FrameAt(b, at[k]) /\ ValueAt(b, at[k]) = s[k + 1]
  <2>1. \A k \in 0 .. N - 1 : k \in 0 .. N
    BY <1>0
  <2> QED
    BY <1>3, <1>9, <2>1
<1>11. at[N] = Len(b)
  BY <1>0, <1>1, <1>9
<1>12. FrameCount(b) = N
  <2>1. ~FrameAt(b, at[N])
    BY <1>1, <1>2, <1>11, FrameWithin
  <2>2. N \in 0 .. Len(b)
    BY <1>0, <1>2
  <2> QED
    BY <1>1, <1>10, <2>1, <2>2, CountUnique DEF at
<1> DEFINE r == [k \in 1 .. N |-> ValueAt(b, at[k - 1])]
<1>13. r = s
  <2>1. ASSUME NEW k \in 1 .. N PROVE ValueAt(b, at[k - 1]) = s[k]
    <3>1. k - 1 \in 0 .. N - 1 /\ (k - 1) + 1 = k
      BY <1>0
    <3> QED
      BY <1>10, <3>1
  <2> QED
    BY <1>0, <2>1
<1>14. AsFile(Stored(b)) = Whole(r)
  <2>1. Stored(b).bytes = b /\ Stored(b).exists = TRUE
    BY DEF Stored
  <2> QED
    BY <1>11, <1>12, <2>1 DEF AsFile, at
<1> QED
  BY <1>13, <1>14 DEF b
-----------------------------------------------------------------------------
\* What was framed so far has lengths that fit their fields.
Fits(s, n) == \A k \in 1 .. Len(s) : k <= n => SizeOf(s[k]) <= UINT32_MAX
FitInv ==
  /\ pc \in {"records", "history"} =>
       /\ Fits(out.history, count)
       /\ Fits(out.records, IF pc = "history" THEN count + 1 ELSE count)
  /\ pc = "stored" => Fits(out.records, Len(out.records)) /\ Fits(out.history, Len(out.history))

LEMMA FitKept == VInv /\ FitInv /\ [Next]_vars => FitInv'
<1> SUFFICES ASSUME VInv, FitInv, [Next]_vars PROVE FitInv'
  OBVIOUS
<1>0. /\ out \in Outputs /\ Len(out.records) \in Nat /\ Len(out.history) = Len(out.records)
      /\ pc \in {"records", "history"} => count \in 0 .. Len(out.records)
  BY OutputFacts DEF VInv, Framing, WriterInv
<1>1. ASSUME NEW s, NEW n \in Nat, Fits(s, n), SizeOf(s[n + 1]) <= UINT32_MAX, Len(s) \in Nat
      PROVE  Fits(s, n + 1)
  <2>1. \A k \in 1 .. Len(s) : k <= n + 1 => k <= n \/ k = n + 1
    BY <1>1
  <2> QED
    BY <1>1, <2>1 DEF Fits
<1>2. CASE FrameRecord
  <2>1. /\ pc = "records" /\ out' = out /\ count' = count /\ count \in Nat
        /\ pc' = "history" => CanFrame(wr, out.records[count + 1])
        /\ pc' \in {"history", "refused", "no memory"}
    <3> DEFINE x == out.records[count + 1]
    <3>1. /\ pc = "records" /\ UNCHANGED <<out, count>>
          /\ \/ CanFrame(wr, x) /\ pc' = "history"
             \/ pc' \in {"refused", "no memory"}
      BY <1>2 DEF FrameRecord, cursors
    <3> HIDE DEF x
    <3>2. count \in Nat
      <4>1. pc \in {"records", "history"}
        BY <3>1
      <4>2. count \in 0 .. Len(out.records) /\ Len(out.records) \in Nat
        BY <1>0, <4>1
      <4> QED
        BY <4>2
    <3> QED
      BY <3>1, <3>2 DEF x
  <2>2. pc' = "history" => Fits(out.records, count + 1)
    BY <1>0, <1>1, <2>1 DEF FitInv, CanFrame
  <2> QED
    BY <2>1, <2>2 DEF FitInv
<1>3. CASE FrameHistory
  <2>1. /\ pc = "history" /\ out' = out /\ count \in Nat
        /\ pc' = "records" => CanFrame(wh, out.history[count + 1]) /\ count' = count + 1
        /\ pc' \in {"records", "refused", "no memory"}
    <3> DEFINE x == out.history[count + 1]
    <3>1. /\ pc = "history" /\ UNCHANGED out
          /\ \/ CanFrame(wh, x) /\ pc' = "records" /\ count' = count + 1
             \/ pc' \in {"refused", "no memory"}
      BY <1>3 DEF FrameHistory
    <3> HIDE DEF x
    <3>2. count \in Nat
      <4>1. pc \in {"records", "history"}
        BY <3>1
      <4>2. count \in 0 .. Len(out.records) /\ Len(out.records) \in Nat
        BY <1>0, <4>1
      <4> QED
        BY <4>2
    <3> QED
      BY <3>1, <3>2 DEF x
  <2>2. pc' = "records" => Fits(out.history, count + 1)
    BY <1>0, <1>1, <2>1 DEF FitInv, CanFrame
  <2> QED
    BY <2>1, <2>2 DEF FitInv
<1>4. CASE WriteFiles
  <2>1. pc = "records" /\ count = Len(out.records) /\ pc' = "stored" /\ out' = out
    BY <1>4 DEF WriteFiles
  <2> QED
    BY <1>0, <2>1 DEF FitInv
<1>5. CASE Storage
  BY <1>5, StorageFiles DEF FitInv, written, Fits
<1>6. CASE Read \/ Turn \/ End
  <2>1. pc' \notin {"records", "history", "stored"}
    BY <1>6 DEF Read, Turn, End
  <2> QED
    BY <2>1 DEF FitInv
<1>7. CASE UNCHANGED vars
  BY <1>7 DEF vars, written, cursors, FitInv, Fits
<1> QED
  BY <1>2, <1>3, <1>4, <1>5, <1>6, <1>7 DEF Next, Program, Done

(* What the pipeline framed is what is read back from its files, frame by  *)
(* frame, for every number of frames and every size that fits a length.    *)
THEOREM FramesReadBack == Spec => []WrittenReadsBack
<1>1. Init => FitInv
  <2> SUFFICES ASSUME Init PROVE FitInv
    OBVIOUS
  <2>1. \A k \in Nat : k # 0 => ~(k <= 0)
    OBVIOUS
  <2>2. ASSUME NEW s, Len(s) \in Nat PROVE Fits(s, 0)
    BY <2>2 DEF Fits
  <2>3. Len(out.records) \in Nat /\ Len(out.history) \in Nat
    BY OutputFacts DEF Init
  <2> QED
    BY <2>2, <2>3 DEF Init, FitInv
<1>2. VInv /\ FitInv => WrittenReadsBack
  <2> SUFFICES ASSUME VInv, FitInv, pc = "stored", faults = 0
               PROVE  AsFile(rf) = Whole(out.records) /\ AsFile(hf) = Whole(out.history)
    BY DEF WrittenReadsBack
  <2>1. rf = Stored(FramedAll(out.records)) /\ hf = Stored(FramedAll(out.history))
    BY DEF VInv, Framing, FilesInv
  <2>2. /\ Framable(out.records) /\ Framable(out.history)
        /\ Len(out.records) \in Nat /\ Len(out.history) \in Nat
    BY OutputFacts DEF VInv, Framable
  <2>3. /\ \A k \in 1 .. Len(out.records) : SizeOf(out.records[k]) <= UINT32_MAX
        /\ \A k \in 1 .. Len(out.history) : SizeOf(out.history[k]) <= UINT32_MAX
    BY <2>2 DEF FitInv, Fits
  <2> QED
    BY <2>1, <2>2, <2>3, AllReadsBack
<1> QED
  BY <1>1, <1>2, FitKept, VInvAlways, PTL DEF Spec

\* A frame that does not fit makes the whole of them too large.
LEMMA RefusalCause ==
  ASSUME NEW s, Framable(s), NEW k \in 0 .. Len(s) - 1, ~CanFrame(FramedFirst(s)[k], s[k + 1])
  PROVE  Len(FramedAll(s)) > SIZE_MAX \/ \E j \in DOMAIN s : SizeOf(s[j]) > UINT32_MAX
<1> DEFINE b == FramedFirst(s)[k]
           x == s[k + 1]
           new == FramedFirst(s)[k + 1].data
<1>0. /\ Len(s) \in Nat /\ k + 1 \in 1 .. Len(s) /\ DOMAIN s = 1 .. Len(s)
      /\ k \in 0 .. Len(s) /\ k + 1 \in 0 .. Len(s)
  BY SequenceForm DEF Framable
<1>1. /\ SizeOf(x) \in Nat \ {0} /\ LengthBytes \in Nat \ {0} /\ SIZE_MAX \in Nat
  BY <1>0, ByteBufAssumption DEF Framable
<1>2. UINT32_MAX \in Int
  <2>1. Weight[LengthBytes] \in Nat
    BY <1>1, WeightFacts
  <2> QED
    BY <2>1 DEF UINT32_MAX
<1>3. Len(b.data) \in Nat /\ Len(new) = Len(b.data) + LengthBytes + SizeOf(x)
  BY FramingGrows
<1>4. Len(new) \in Nat /\ Len(FramedAll(s)) \in Nat /\ Len(new) <= Len(FramedAll(s))
  <2>1. Len(new) \in Nat /\ Len(new) <= Len(FramedAll(s))
    BY <1>0, FramingPrefix
  <2>2. Len(s) \in 0 .. Len(s)
    BY <1>0
  <2> QED
    BY <2>1, <2>2, FramingPrefix DEF FramedAll
<1>5. CASE ~(SizeOf(x) <= UINT32_MAX)
  BY <1>0, <1>1, <1>2, <1>5
<1>6. CASE ~CanReserve(b, LengthBytes)
  BY <1>1, <1>3, <1>4, <1>6 DEF CanReserve
<1>7. CASE ~CanReserve(Put(b, U32le(SizeOf(x))), SizeOf(x))
  <2>1. Put(b, U32le(SizeOf(x))).data = b.data \o U32le(SizeOf(x))
    BY DEF Put
  <2>2. IsSequence(b.data) /\ IsSequence(U32le(SizeOf(x))) /\ Len(U32le(SizeOf(x))) = LengthBytes
    BY <1>0, <1>1, FramingSteps, U32leBytes DEF BytesOf
  <2>3. Len(b.data \o U32le(SizeOf(x))) = Len(b.data) + LengthBytes
    BY <2>2, ConcatForm
  <2>4. ~(SizeOf(x) <= SIZE_MAX - (Len(b.data) + LengthBytes))
    BY <1>7, <2>1, <2>3 DEF CanReserve
  <2> QED
    BY <1>1, <1>3, <1>4, <2>4
<1> QED
  BY <1>5, <1>6, <1>7 DEF CanFrame

(* Nothing is refused for its size that could have been written.           *)
THEOREM RefusedForCause == Spec => []RefusalHasCause
<1>1. Init => RefusalHasCause
  BY DEF Init, RefusalHasCause
<1>2. VInv /\ RefusalHasCause /\ [Next]_vars => RefusalHasCause'
  <2> SUFFICES ASSUME VInv, RefusalHasCause, [Next]_vars, pc' = "refused"
               PROVE  \E s \in {out'.records, out'.history} :
                        Len(FramedAll(s)) > SIZE_MAX \/ \E k \in DOMAIN s : SizeOf(s[k]) > UINT32_MAX
    BY DEF RefusalHasCause
  <2>1. CASE FrameRecord
    <3>1. /\ out' = out /\ ~CanFrame(wr, out.records[count + 1]) /\ count < Len(out.records)
          /\ pc = "records"
      BY <2>1 DEF FrameRecord
    <3>2. WriterInv /\ out \in Outputs
      BY <3>1 DEF VInv, Framing
    <3>3. /\ wr = FramedFirst(out.records)[count] /\ count \in 0 .. Len(out.records)
      BY <3>1, <3>2 DEF WriterInv
    <3>4. Framable(out.records) /\ count \in 0 .. Len(out.records) - 1
      BY <3>1, <3>2, <3>3, OutputFacts DEF Framable
    <3> QED
      BY <3>1, <3>3, <3>4, RefusalCause
  <2>2. CASE FrameHistory
    <3>1. out' = out /\ ~CanFrame(wh, out.history[count + 1]) /\ pc = "history"
      BY <2>2 DEF FrameHistory
    <3>2. WriterInv /\ out \in Outputs
      BY <3>1 DEF VInv, Framing
    <3>3. wh = FramedFirst(out.history)[count] /\ count \in 0 .. Len(out.records) /\ count < Len(out.records)
      BY <3>1, <3>2 DEF WriterInv
    <3>4. Framable(out.history) /\ count \in 0 .. Len(out.history) - 1
      BY <3>2, <3>3, OutputFacts DEF Framable
    <3> QED
      BY <3>1, <3>3, <3>4, RefusalCause
  <2>3. CASE ~FrameRecord /\ ~FrameHistory
    <3>1. pc = "refused" /\ out' = out
      BY <2>3 DEF Next, Program, Storage, DamageRecord, DamageHistory, DamageBytes, OtherRun, Lose, Fault,
                  WriteFiles, Read, Turn, End, Done, vars, written
    <3> QED
      BY <3>1 DEF RefusalHasCause
  <2> QED
    BY <2>1, <2>2, <2>3
<1> QED
  BY <1>1, <1>2, VInvAlways, PTL DEF Spec
=============================================================================
