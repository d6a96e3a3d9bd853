------------------------------- MODULE Verify -------------------------------
(***************************************************************************)
(* From the buffers of a run to the verdict of verify.c, byte for byte:    *)
(* main.c frames records and history entries into two growable buffers,    *)
(* the files they become are damaged on storage, and the reconstruction    *)
(* program parses what is left with two cursors.                           *)
(***************************************************************************)
EXTENDS History, ByteBuf, SequencesExt

CONSTANTS RootIds, Trees,    \* the runs that are made
          MaxFaults          \* bound on the storage faults

\* The frames a run makes of what it observed: the object loop of main.c.
RunOutput(root_id, tree) ==
  LET raw == [k \in DOMAIN tree |-> RecordBytes(root_id, tree[k])]
      entry[k \in DOMAIN tree] ==
        HistoryEntry(raw[k], k - 1, IF k = 1 THEN ZeroHash ELSE entry[k - 1].chain_hash,
                     CHOOSE g \in Garbage : TRUE)
  IN  [records |-> raw, history |-> entry]

Outputs == {RunOutput(id, tree) : id \in RootIds, tree \in Trees}

\* No record and no entry is serialized to nothing.
ASSUME VerifyAssumption ==
  /\ Garbage # {} /\ MaxFaults \in Nat
  /\ \A tree \in Trees : IsSequence(tree)
  /\ \A o \in Outputs : \A s \in {o.records, o.history} : \A k \in DOMAIN s :
       SizeOf(s[k]) \in Nat \ {0}

VARIABLES
  pc,               \* where the programs are, or how it ended
  out,              \* the frames of the run
  wr, wh,           \* the two buffers of main.c
  rf, hf,           \* the two files: their bytes
  count, prev,      \* locals of verify.c: frame pairs consumed, chain so far,
  rp, hp,           \* and the two positions
  faults            \* storage faults so far

written == <<out, wr, wh>>
cursors == <<count, prev, rp, hp>>
vars    == <<pc, written, rf, hf, cursors, faults>>

NoFile      == [exists |-> FALSE, bytes |-> <<>>]
Stored(s)   == [exists |-> TRUE, bytes |-> s]

Init == /\ pc = "records" /\ out \in Outputs
        /\ wr = EmptyBuf /\ wh = EmptyBuf /\ rf = NoFile /\ hf = NoFile
        /\ count = 0 /\ prev = ZeroHash /\ rp = 0 /\ hp = 0 /\ faults = 0
-----------------------------------------------------------------------------
\* framed(&rb) and framed(&hb) of one object: a buffer that cannot hold the
\* frame, or no memory to grow it, ends the run before any file is touched.
FrameRecord ==
  /\ pc = "records" /\ count < Len(out.records)
  /\ LET x == out.records[count + 1]
     IN  \/ CanFrame(wr, x) /\ wr' = Framed(wr, x) /\ pc' = "history"
         \/ ~CanFrame(wr, x) /\ pc' = "refused" /\ wr' = wr
         \/ CanFrame(wr, x) /\ Framed(wr, x).cap # wr.cap /\ pc' = "no memory" /\ wr' = wr
  /\ UNCHANGED <<out, wh, rf, hf, cursors, faults>>
FrameHistory ==
  /\ pc = "history"
  /\ LET x == out.history[count + 1]
     IN  \/ CanFrame(wh, x) /\ wh' = Framed(wh, x) /\ count' = count + 1 /\ pc' = "records"
         \/ ~CanFrame(wh, x) /\ pc' = "refused" /\ UNCHANGED <<wh, count>>
         \/ CanFrame(wh, x) /\ Framed(wh, x).cap # wh.cap /\ pc' = "no memory" /\ UNCHANGED <<wh, count>>
  /\ UNCHANGED <<out, wr, rf, hf, prev, rp, hp, faults>>

\* Both files are written whole, and the program ends.
WriteFiles == /\ pc = "records" /\ count = Len(out.records)
              /\ pc' = "stored" /\ count' = 0
              /\ rf' = Stored(wr.data) /\ hf' = Stored(wh.data)
              /\ wr' = EmptyBuf /\ wh' = EmptyBuf
              /\ UNCHANGED <<out, prev, rp, hp, faults>>
-----------------------------------------------------------------------------
\* Damaged values differ from every value a run writes.
BadHash == <<"flipped">>
BadRecord(b) ==
  {[b EXCEPT !.record_hash = BadHash]} \cup
  {[b EXCEPT !.prefix = p] :
     p \in {[b.prefix EXCEPT !.schema = "other"], [b.prefix EXCEPT !.object_id = BadHash],
            [b.prefix EXCEPT !.root_id = <<"other">>], [b.prefix EXCEPT !.path = <<99>>],
            [b.prefix EXCEPT !.stamp = 99]}
           \cup {[b.prefix EXCEPT !.object_type = t] : t \in 0 .. 5}
           \cup {[b.prefix EXCEPT !.size_present = n] : n \in 0 .. 2}
           \cup {[b.prefix EXCEPT !.content_present = n] : n \in 0 .. 2}
           \cup {[b.prefix EXCEPT !.size_bytes = [n \in DOMAIN @ |-> 99]]}
           \cup {[b.prefix EXCEPT !.content_sha256 = [n \in DOMAIN @ |-> "flipped"]]}
           \cup {[b.prefix EXCEPT !.readable = n] : n \in 0 .. 2}}
BadEntry(h) ==
  {[h EXCEPT !.magic = "other"], [h EXCEPT !.object_id = BadHash],
   [h EXCEPT !.record_hash = BadHash], [h EXCEPT !.previous_chain_hash = BadHash],
   [h EXCEPT !.chain_hash = BadHash],
   [h EXCEPT !.qh_state = [@ EXCEPT ![0] = (0 .. ByteBits - 1) \ @]]}
  \cup {[h EXCEPT !.sequence = n] : n \in 0 .. 3}

FrameAt(b, p) == FrameFits(b, p) /\ IsPayload(FramePayload(b, p))
\* Where a reader of b stands after k frames, if there are as many.
Past(b, p)  == IF FrameAt(b, p) THEN FrameEnd(b, p) ELSE p
FramePos(b) == LET at[k \in 0 .. Len(b)] == IF k = 0 THEN 0 ELSE Past(b, at[k - 1]) IN at
FrameCount(b) == LET at == FramePos(b)
                 IN  CHOOSE n \in 0 .. Len(b) :
                       /\ ~FrameAt(b, at[n])
                       /\ n > 0 => FrameAt(b, at[n - 1])
\* Where the frames of b start that can be told apart from the front.
FrameStarts(b) == {FramePos(b)[k - 1] : k \in 1 .. FrameCount(b)}

Spliced(b, p, q, s) == SubSeq(b, 1, p) \o s \o SubSeq(b, q + 1, Len(b))

\* One frame is lost, is there twice, or moves in front of another.
Rearranged(b) ==
  LET starts == FrameStarts(b)
  IN  UNION {LET end   == FrameEnd(b, p)
                 frame == SubSeq(b, p + 1, end)
                 lost  == Spliced(b, p, end, <<>>)
             IN  {lost, Spliced(b, p, p, frame)}
                 \cup {Spliced(lost, q, q, frame) : q \in {s \in starts : s < p}} :
             p \in starts}
\* A byte of a length changes, the end is cut off or reads as zeros.
Garbled(b) ==
  {[b EXCEPT ![k] = Digit(d)] : k \in {n \in DOMAIN b : IsDigit(b[n])}, d \in 0 .. ByteValues - 1}
  \cup {SubSeq(b, 1, n) : n \in 0 .. Len(b)}
  \cup {[k \in DOMAIN b |-> IF k <= n THEN b[k] ELSE Digit(0)] : n \in 0 .. Len(b)}
\* A field of the frame at p changes where it stands.
Altered(b, p, bad) == {[b EXCEPT ![p + LengthBytes + 1] = <<"byte", x>>] : x \in bad}

Fault(newrf, newhf) == /\ pc = "stored" /\ faults < MaxFaults
                       /\ faults' = faults + 1
                       /\ rf' = newrf /\ hf' = newhf
                       /\ UNCHANGED <<pc, written, cursors>>

ValueAt(b, p) == ValueOf(FramePayload(b, p))
DamageRecord  == \E p \in FrameStarts(rf.bytes) :
                 \E b \in Altered(rf.bytes, p, BadRecord(ValueAt(rf.bytes, p))) :
                   Fault(Stored(b), hf)
DamageHistory == \E p \in FrameStarts(hf.bytes) :
                 \E b \in Altered(hf.bytes, p, BadEntry(ValueAt(hf.bytes, p))) :
                   Fault(rf, Stored(b))
DamageBytes == \/ \E b \in Rearranged(rf.bytes) \cup Garbled(rf.bytes) : Fault([rf EXCEPT !.bytes = b], hf)
               \/ \E b \in Rearranged(hf.bytes) \cup Garbled(hf.bytes) : Fault(rf, [hf EXCEPT !.bytes = b])
\* The buffer after each of the frames of s.
FramedFirst(s) ==
  LET buf[k \in 0 .. Len(s)] == IF k = 0 THEN EmptyBuf ELSE Framed(buf[k - 1], s[k])
  IN  buf
FramedAll(s) == FramedFirst(s)[Len(s)].data
\* The history of another run.
OtherRun == \E other \in Outputs : Fault(rf, Stored(FramedAll(other.history)))
Lose == Fault(NoFile, hf) \/ Fault(rf, NoFile)
-----------------------------------------------------------------------------
\* read_file on both.
Read == /\ pc = "stored"
        /\ pc' = IF rf.exists /\ hf.exists THEN "loop" ELSE "FAIL"
        /\ UNCHANGED <<written, rf, hf, cursors, faults>>

\* Bugged: the position moves past the length twice.
BugTurnPast == /\ pc = "loop" /\ rp < Len(rf.bytes)
               /\ IF FrameAt(rf.bytes, rp)
                  THEN pc' = pc /\ rp' = FrameEnd(rf.bytes, rp) + LengthBytes
                  ELSE pc' = "FAIL" /\ rp' = rp
               /\ UNCHANGED <<written, rf, hf, count, prev, hp, faults>>
\* Bugged: the positions are not advanced.
BugTurnStays == pc = "loop" /\ rp < Len(rf.bytes) /\ UNCHANGED vars

\* One turn of while(rp<rn).
Turn == /\ pc = "loop" /\ rp < Len(rf.bytes)
        /\ \E g \in Garbage :
             IF /\ FrameAt(rf.bytes, rp) /\ FrameAt(hf.bytes, hp)
                /\ EntryAccepted(ValueAt(rf.bytes, rp), ValueAt(hf.bytes, hp), count, prev, g)
             THEN /\ prev' = ValueAt(hf.bytes, hp).chain_hash
                  /\ count' = count + 1
                  /\ rp' = FrameEnd(rf.bytes, rp) /\ hp' = FrameEnd(hf.bytes, hp)
                  /\ pc' = pc
             ELSE pc' = "FAIL" /\ UNCHANGED cursors
        /\ UNCHANGED <<written, rf, hf, faults>>

\* Bugged: what is left of history.bin is not looked at.
BugEnd == /\ pc = "loop" /\ rp >= Len(rf.bytes)
          /\ pc' = "PASS"
          /\ UNCHANGED <<written, rf, hf, cursors, faults>>

\* All of records.bin is consumed; history.bin must be too.
End == /\ pc = "loop" /\ rp >= Len(rf.bytes)
       /\ pc' = IF rp = Len(rf.bytes) /\ hp = Len(hf.bytes) THEN "PASS" ELSE "FAIL"
       /\ UNCHANGED <<written, rf, hf, cursors, faults>>

Ended == pc \in {"PASS", "FAIL", "refused", "no memory"}

Storage == DamageRecord \/ DamageHistory \/ DamageBytes \/ OtherRun \/ Lose
Program == FrameRecord \/ FrameHistory \/ WriteFiles \/ Read \/ Turn \/ End
Done == Ended /\ UNCHANGED vars

Next == Storage \/ Program \/ Done

Spec == Init /\ [][Next]_vars
\* Each program is started and runs until it answers.
FairSpec == Spec /\ WF_vars(Program)
-----------------------------------------------------------------------------
\* What a file is at the level of frames: those that can be read from the
\* front, and whether anything else follows.
AsFile(f) ==
  LET b  == f.bytes
      at == FramePos(b)
      n  == FrameCount(b)
      s  == [k \in 1 .. n |-> ValueAt(b, at[k - 1])]
  IN  IF ~f.exists THEN Missing ELSE IF at[n] = Len(b) THEN Whole(s) ELSE Partial(s)

(* The positions in the two buffers never run past their ends.             *)
TypeOK == /\ pc \in {"records", "history", "stored", "loop"} \/ Ended
          /\ rp \in 0 .. Len(rf.bytes) /\ hp \in 0 .. Len(hf.bytes)
          /\ count \in Nat /\ (count <= Len(out.records) \/ (count <= rp /\ count <= hp))
          /\ faults \in 0 .. MaxFaults

(* No put writes past the memory it has, also where lengths and capacities *)
(* come to the largest size.                                               *)
WithinCapacity == \A b \in {wr, wh} : Len(b.data) <= b.cap /\ b.cap <= SIZE_MAX

(* What was framed reads back as the frames of the run, no more and no     *)
(* less, whatever their sizes and however often the buffers grew.          *)
WrittenReadsBack ==
  pc = "stored" /\ faults = 0 =>
    AsFile(rf) = Whole(out.records) /\ AsFile(hf) = Whole(out.history)

(* A run is refused for its size only if a frame is too long for its       *)
(* length field or a buffer would be larger than memory can be.            *)
RefusalHasCause ==
  pc = "refused" =>
    \E s \in {out.records, out.history} :
      Len(FramedAll(s)) > SIZE_MAX \/ \E k \in DOMAIN s : SizeOf(s[k]) > UINT32_MAX

(* The verdict of the loop over the bytes, which stops at the first        *)
(* disagreement, is the verdict over the two files as sequences of frames, *)
(* and does not depend on the uninitialized size of records without one.   *)
VerdictIsAccepts ==
  LET r == AsFile(rf)  h == AsFile(hf)
  IN  /\ pc = "PASS" => \A g \in Garbage : Accepts(r, h, g)
      /\ pc = "FAIL" => \A g \in Garbage : ~Accepts(r, h, g)

Unstated(h) == [h EXCEPT !.qh_state = {}]

(* Whatever happened to the files on storage, PASS means that the records  *)
(* are the first records of one run, byte for byte, and that the history   *)
(* is that run's, but for the QH256 state, which no hash covers.           *)
PassMeansOneRun ==
  pc = "PASS" =>
    \E o \in Outputs :
      /\ IsPrefix(AsFile(rf).frames, o.records)
      /\ LET h == AsFile(hf).frames
         IN  \A k \in DOMAIN h : Unstated(h[k]) = Unstated(o.history[k])

(* run_history_negative.sh demands that a history changed on storage is    *)
(* rejected: what is accepted is then a history some run wrote.            *)
TamperedHistoryRejected ==
  pc = "PASS" => \E o \in Outputs : IsPrefix(AsFile(hf).frames, o.history)

(* The verifier answers.                                                   *)
Answers == <>Ended
=============================================================================
