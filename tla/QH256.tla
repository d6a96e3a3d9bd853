------------------------------- MODULE QH256 -------------------------------
(***************************************************************************)
(* The QH256 v2.0 core (tests/validation/v2.0/qh256.c): a vector of        *)
(* four-valued cells kept as two planes of machine words, t (evidence for) *)
(* and f (evidence against).  A word is the set of its bits that are 1, so *)
(* |, & and &~ on words are union, intersection and difference.            *)
(***************************************************************************)
EXTENDS Integers

CONSTANTS Words,       \* words per plane (2 in qh256.h)
          WordBits,    \* bits per word (64)
          ByteBits     \* bits per serialized byte (8)

ASSUME QH256Assumption == /\ Words \in Nat \ {0}
                          /\ WordBits \in Nat \ {0}
                          /\ ByteBits \in Nat \ {0}
                          /\ WordBits % ByteBits = 0

QH256_CELLS == Words * WordBits

QH_UNKNOWN == 0
QH_FALSE   == 1
QH_TRUE    == 2
QH_GUARD   == 3
State      == QH_UNKNOWN .. QH_GUARD

Cell  == 0 .. QH256_CELLS - 1
Bits  == 0 .. WordBits - 1
Plane == [0 .. Words - 1 -> SUBSET Bits]
Vector == [t : Plane, f : Plane]
-----------------------------------------------------------------------------
\* Cell values.  A value outside the enumeration is representable in C and
\* every operation has to answer for it.
Valid(s)       == s \in State
HasTrue(s)     == s \in {QH_TRUE, QH_GUARD}
HasFalse(s)    == s \in {QH_FALSE, QH_GUARD}
Encode(p, n)   == (IF p THEN 2 ELSE 0) + (IF n THEN 1 ELSE 0)

CellMerge(a, b) == IF Valid(a) /\ Valid(b)
                   THEN Encode(HasTrue(a) \/ HasTrue(b), HasFalse(a) \/ HasFalse(b))
                   ELSE QH_UNKNOWN
CellNot(a)      == IF Valid(a) THEN Encode(HasFalse(a), HasTrue(a)) ELSE QH_UNKNOWN
CellAnd(a, b)   == IF Valid(a) /\ Valid(b)
                   THEN Encode(HasTrue(a) /\ HasTrue(b), HasFalse(a) \/ HasFalse(b))
                   ELSE QH_UNKNOWN
CellOr(a, b)    == IF Valid(a) /\ Valid(b)
                   THEN Encode(HasTrue(a) \/ HasTrue(b), HasFalse(a) /\ HasFalse(b))
                   ELSE QH_UNKNOWN
CellLeqK(a, b)  == /\ Valid(a) /\ Valid(b)
                   /\ HasTrue(a) => HasTrue(b)
                   /\ HasFalse(a) => HasFalse(b)
CellLeqT(a, b)  == /\ Valid(a) /\ Valid(b)
                   /\ HasTrue(a) => HasTrue(b)
                   /\ HasFalse(b) => HasFalse(a)
-----------------------------------------------------------------------------
\* Packed vectors.
WordIndex(i) == i \div WordBits
Bit(i)       == i % WordBits

Unknown == [t |-> [w \in 0 .. Words - 1 |-> {}], f |-> [w \in 0 .. Words - 1 |-> {}]]

GetCell(q, i) == Encode(Bit(i) \in q.t[WordIndex(i)], Bit(i) \in q.f[WordIndex(i)])

\* &=~m on both planes, then |=m on the planes the state asserts.
\* Bugged: the old value is not cleared first.
BugPutBit(plane, i, on) ==
  [plane EXCEPT ![WordIndex(i)] = @ \cup (IF on THEN {Bit(i)} ELSE {})]
PutBit(plane, i, on) ==
  [plane EXCEPT ![WordIndex(i)] = (@ \ {Bit(i)}) \cup (IF on THEN {Bit(i)} ELSE {})]
CanSet(i, s)     == i < QH256_CELLS /\ Valid(s)
SetCell(q, i, s) ==
  IF CanSet(i, s)
  THEN [t |-> PutBit(q.t, i, HasTrue(s)), f |-> PutBit(q.f, i, HasFalse(s))]
  ELSE q

Join(p, r) == [w \in 0 .. Words - 1 |-> p[w] \cup r[w]]
Meet(p, r) == [w \in 0 .. Words - 1 |-> p[w] \cap r[w]]
Within(p, r) == \A w \in 0 .. Words - 1 : p[w] \subseteq r[w]

\* Bugged: evidence against is kept only where both vectors have it.
BugMergeMeet(a, b) == [t |-> Join(a.t, b.t), f |-> Meet(a.f, b.f)]
\* Bugged: later evidence replaces earlier evidence on the same cell.
BugMergeLast(a, b) ==
  [t |-> [w \in 0 .. Words - 1 |-> (a.t[w] \ b.f[w]) \cup b.t[w]],
   f |-> [w \in 0 .. Words - 1 |-> (a.f[w] \ b.t[w]) \cup b.f[w]]]
Merge(a, b) == [t |-> Join(a.t, b.t), f |-> Join(a.f, b.f)]
Not(a)      == [t |-> a.f, f |-> a.t]
\* Bugged: both planes meet.
BugAnd(a, b) == [t |-> Meet(a.t, b.t), f |-> Meet(a.f, b.f)]
And(a, b)   == [t |-> Meet(a.t, b.t), f |-> Join(a.f, b.f)]
Or(a, b)    == [t |-> Join(a.t, b.t), f |-> Meet(a.f, b.f)]

LeqK(a, b)       == Within(a.t, b.t) /\ Within(a.f, b.f)
\* Bugged: evidence against is compared as in the knowledge order.
BugLeqT(a, b) == Within(a.t, b.t) /\ Within(a.f, b.f)
LeqT(a, b)       == Within(a.t, b.t) /\ Within(b.f, a.f)
IsDesignated(q)  == \E w \in 0 .. Words - 1 : q.t[w] # {}
-----------------------------------------------------------------------------
\* 32 bytes: t[0], t[1], f[0], f[1], each little-endian.  A byte is the set of
\* its bits that are 1.
WordBytes == WordBits \div ByteBits
Bytes     == [0 .. 2 * Words * WordBytes - 1 -> SUBSET (0 .. ByteBits - 1)]

PutLE(word, k) == {b \in 0 .. ByteBits - 1 : k * ByteBits + b \in word}
GetLE(byte)    == {x \in Bits : x % ByteBits \in byte[x \div ByteBits]}

Serialize(q) ==
  [j \in 0 .. 2 * Words * WordBytes - 1 |->
     LET w == j \div WordBytes
     IN  PutLE(IF w < Words THEN q.t[w] ELSE q.f[w - Words], j % WordBytes)]
Deserialize(in) ==
  LET WordAt(w) == GetLE([k \in 0 .. WordBytes - 1 |-> in[w * WordBytes + k]])
  IN  [t |-> [w \in 0 .. Words - 1 |-> WordAt(w)],
       f |-> [w \in 0 .. Words - 1 |-> WordAt(w + Words)]]
=============================================================================
