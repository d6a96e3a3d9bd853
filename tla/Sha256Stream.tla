---------------------------- MODULE Sha256Stream ----------------------------
(***************************************************************************)
(* The buffering of SHA-256 (common/sha256.c): a message arrives byte by   *)
(* byte, full blocks are compressed, and final pads what is left.  The     *)
(* compression of a block into the chaining value is an injective          *)
(* constructor, so the chaining value is the sequence of blocks compressed.*)
(***************************************************************************)
EXTENDS Integers, Sequences

CONSTANTS BlockBytes,    \* 64
          LengthBytes,   \* 8: the tail of the last block
          ByteBits,      \* 8
          ByteValues,    \* 256
          Symbols,       \* the message bytes
          Stale,         \* what an uninitialized buffer may hold
          MaxMessage     \* bound on the message

Bytes == 0 .. ByteValues - 1

ASSUME Sha256Assumption == /\ LengthBytes \in Nat \ {0} /\ ByteBits \in Nat \ {0}
                           /\ BlockBytes \in Nat /\ LengthBytes < BlockBytes
                           /\ ByteValues \in Nat \ {0} /\ ByteValues = 2 ^ ByteBits
                           /\ Symbols \subseteq Bytes /\ Stale \subseteq Bytes
                           /\ MaxMessage \in Nat

\* ByteValues to the k-th: shifting right by k bytes divides by it.
Weight[k \in 0 .. LengthBytes] == IF k = 0 THEN 1 ELSE Weight[k - 1] * ByteValues

Room      == BlockBytes - LengthBytes    \* 56
Mark      == ByteValues \div 2           \* 0x80
LengthMod == Weight[LengthBytes]
Index     == 0 .. BlockBytes - 1

VARIABLES pc,              \* "open", "final"
          state,           \* the chaining value
          data, datalen,   \* the block being filled
          bitlen,          \* bits compressed so far
          message          \* history: the bytes of all updates

vars == <<pc, state, data, datalen, bitlen, message>>

\* k501_sha256_init leaves the block as it finds it.
Init == /\ pc = "open" /\ state = <<>> /\ datalen = 0 /\ bitlen = 0
        /\ data \in [Index -> Stale]
        /\ message = <<>>

\* Bugged: the block is compressed one byte late.
BugFull(n) == n = BlockBytes + 1
Full(n)    == n = BlockBytes

\* One turn of update's loop.  Where one call ends and the next begins leaves
\* no trace in the context.
Update == /\ pc = "open" /\ Len(message) < MaxMessage
          /\ \E b \in Symbols :
               /\ data' = [data EXCEPT ![datalen] = b]
               /\ message' = Append(message, b)
          /\ IF Full(datalen + 1)
             THEN /\ state' = Append(state, data')
                  /\ bitlen' = (bitlen + BlockBytes * ByteBits) % LengthMod
                  /\ datalen' = 0
             ELSE datalen' = datalen + 1 /\ UNCHANGED <<state, bitlen>>
          /\ pc' = pc

\* Bugged: only the bits of the block being filled are counted.
BugBits == datalen * ByteBits
Bits    == (bitlen + datalen * ByteBits) % LengthMod

\* The k-th byte of the length, counted from the least significant.
LengthByte(k) == (Bits \div Weight[k]) % ByteValues

\* Bugged: a mark in the first byte of the length's place is let through.
BugOverflows == datalen > Room
\* The mark leaves no room for the length in this block.
Overflows == datalen >= Room

\* The mark, then zeros to the length's place, or to the end of the block.
Marked == [n \in Index |-> CASE n < datalen -> data[n]
                             [] n = datalen -> Mark
                             [] n > datalen -> IF n < Room \/ Overflows THEN 0 ELSE data[n]]
LastBlock == [n \in Index |-> CASE n >= Room             -> LengthByte(BlockBytes - 1 - n)
                                [] n < Room /\ Overflows -> 0
                                [] n < Room /\ ~Overflows -> Marked[n]]

Final == /\ pc = "open" /\ pc' = "final"
         /\ state' = state \o IF Overflows THEN <<Marked, LastBlock>> ELSE <<LastBlock>>
         /\ data' = LastBlock
         /\ UNCHANGED <<datalen, bitlen, message>>

Done == pc = "final" /\ UNCHANGED vars

Next == Update \/ Final \/ Done

Spec == Init /\ [][Next]_vars
-----------------------------------------------------------------------------
(* Between calls the block is never full, and all else keeps its range.    *)
TypeOK == /\ pc \in {"open", "final"}
          /\ data \in [Index -> Bytes]
          /\ datalen \in Index
          /\ bitlen \in 0 .. LengthMod - 1
          /\ \A k \in DOMAIN state : state[k] \in [Index -> Bytes]

\* The bytes of the blocks compressed, in order, as one sequence.
Compressed(blocks) == [n \in 1 .. Len(blocks) * BlockBytes |->
                         blocks[((n - 1) \div BlockBytes) + 1][(n - 1) % BlockBytes]]

\* The padding of FIPS 180-4: a mark, the fewest zeros, the length in bits.
Zeros(m)  == CHOOSE z \in Index : (Len(m) + 1 + z + LengthBytes) % BlockBytes = 0
Padded(m) == m \o <<Mark>> \o [n \in 1 .. Zeros(m) |-> 0]
               \o [n \in 1 .. LengthBytes |->
                     ((Len(m) * ByteBits) \div Weight[LengthBytes - n]) % ByteValues]

(* What was compressed is the padded message and nothing else, whatever    *)
(* its length does to the last block and whatever the buffer held before.  *)
DigestIsOfMessage == pc = "final" => Compressed(state) = Padded(message)

\* The length at the end of a block, read from its most significant byte on.
LengthRead(block) ==
  LET word[k \in 0 .. LengthBytes] ==
        IF k = 0 THEN 0 ELSE word[k - 1] * ByteValues + block[Room + k - 1]
  IN  word[LengthBytes]

(* The message can be read back from the blocks compressed, so different   *)
(* messages never share a digest for a reason other than the compression.  *)
(* The count of bits is 64 bits wide: of messages of 2^61 bytes and more   *)
(* the standard says nothing.                                              *)
DigestDeterminesMessage ==
  pc = "final" /\ Len(message) * ByteBits < LengthMod =>
    message = SubSeq(Compressed(state), 1, LengthRead(state[Len(state)]) \div ByteBits)
=============================================================================
