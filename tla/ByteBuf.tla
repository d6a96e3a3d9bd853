------------------------------ MODULE ByteBuf ------------------------------
(***************************************************************************)
(* The growable buffer and the cursor of bytes.c, and the length-prefixed  *)
(* frames that main.c appends and verify.c reads back.                     *)
(*                                                                         *)
(* A byte of a length is a digit.  The first byte of a payload stands for  *)
(* the value, the rest only say which byte of it they are: nothing here    *)
(* exchanges parts of payloads.                                            *)
(***************************************************************************)
EXTENDS Naturals, Sequences

CONSTANTS ByteValues,    \* 256
          LengthBytes,   \* 4, the bytes of a u32le
          SIZE_MAX,      \* the largest size_t
          FirstCap,      \* 256, the capacity of the first allocation
          SizeOf(_)      \* the number of bytes a value is serialized to

\* ByteValues to the k-th.
Weight[k \in Nat] == IF k = 0 THEN 1 ELSE Weight[k - 1] * ByteValues

UINT32_MAX == Weight[LengthBytes] - 1

ASSUME ByteBufAssumption ==
  /\ {ByteValues, LengthBytes, SIZE_MAX, FirstCap} \subseteq Nat \ {0}
  /\ UINT32_MAX <= SIZE_MAX /\ FirstCap <= SIZE_MAX

Digit(d)   == <<"digit", d>>
IsDigit(c) == c[1] = "digit"
\* A payload's byte that is taken for one of a length has some value.
Octet(c)   == IF IsDigit(c) THEN c[2] ELSE CHOOSE d \in 0 .. ByteValues - 1 : TRUE

\* k501_buf_put_u32le.
U32le(n) == [k \in 1 .. LengthBytes |-> Digit((n \div Weight[k - 1]) % ByteValues)]

Payload(x)   == [k \in 1 .. SizeOf(x) |-> IF k = 1 THEN <<"byte", x>> ELSE <<"rest", k>>]
ValueOf(s)   == s[1][2]
IsPayload(s) == s # <<>> /\ s[1][1] = "byte" /\ s = Payload(ValueOf(s))
-----------------------------------------------------------------------------
EmptyBuf == [data |-> <<>>, cap |-> 0]

\* Bugged: the sum is formed without asking whether it overflows.
BugCanReserve(b, add) == TRUE
\* Bugged: what is left is counted from the capacity.
BugCanReserveCap(b, add) == add <= SIZE_MAX - b.cap
CanReserve(b, add)       == add <= SIZE_MAX - Len(b.data)

\* The capacity after reserve: doubled until it suffices, or exact when
\* doubling would overflow.
Reserve(b, add) ==
  LET need == (Len(b.data) + add) % (SIZE_MAX + 1)
      grown[cap \in 1 .. SIZE_MAX] ==
        IF cap >= need THEN cap
        ELSE IF cap > SIZE_MAX \div 2 THEN need ELSE grown[2 * cap]
  IN  IF need <= b.cap THEN b.cap ELSE grown[IF b.cap = 0 THEN FirstCap ELSE b.cap]

\* k501_buf_put, once memory was found.
Put(b, s) == [data |-> b.data \o s, cap |-> Reserve(b, Len(s))]

\* framed: the length must fit its field, and both puts must find room.
\* Bugged: any length is written.
BugCanFrame(b, x) ==
  CanReserve(b, LengthBytes) /\ CanReserve(Put(b, U32le(SizeOf(x))), SizeOf(x))
CanFrame(b, x) ==
  /\ SizeOf(x) <= UINT32_MAX
  /\ CanReserve(b, LengthBytes) /\ CanReserve(Put(b, U32le(SizeOf(x))), SizeOf(x))
Framed(b, x) == Put(Put(b, U32le(SizeOf(x))), Payload(x))
-----------------------------------------------------------------------------
\* take: k bytes are left at pos.
CanTake(b, pos, k) == pos <= Len(b) /\ k <= Len(b) - pos

\* k501_get_u32le, on the four bytes taken.
LengthAt(b, pos) ==
  LET sum[k \in 0 .. LengthBytes] ==
        IF k = 0 THEN 0 ELSE sum[k - 1] + Octet(b[pos + k]) * Weight[k - 1]
  IN  sum[LengthBytes]

\* frame of verify.c and k501_get_bytes_view: a length, then as many bytes.
FrameFits(b, pos)    == /\ CanTake(b, pos, LengthBytes)
                        /\ CanTake(b, pos + LengthBytes, LengthAt(b, pos))
FrameEnd(b, pos)     == pos + LengthBytes + LengthAt(b, pos)
FramePayload(b, pos) == SubSeq(b, pos + LengthBytes + 1, FrameEnd(b, pos))
=============================================================================
