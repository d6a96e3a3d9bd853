--------------------------- MODULE PipelineProofs ---------------------------
(***************************************************************************)
(* What holds of the pipeline for every directory tree, every root id and  *)
(* any number of runs, failures, crashes and power losses; and then of the *)
(* pipeline with a verifier at work beside it.                             *)
(***************************************************************************)
EXTENDS LiveVerify, QH256Lemmas

\* A record made from an observation passes its own verification, whatever the
\* uninitialized size holds, and decoding gives back identity and hash.
LEMMA RecordRoundTrip ==
  ASSUME NEW id, NEW o, IsObservation(o), NEW g
  PROVE  LET raw == RecordBytes(id, o)
         IN  /\ RecordVerify(raw, g)
             /\ Decode(raw, g).record_hash = raw.record_hash
             /\ Decode(raw, g).object_id = raw.prefix.object_id
<1> DEFINE r == Fill(id, o)
           raw == RecordBytes(id, o)
           p == raw.prefix
           d == Decode(raw, g)
<1>1. /\ raw = [prefix |-> SerializePrefix(r), record_hash |-> Sha256(SerializePrefix(r))]
      /\ p = SerializePrefix(r)
  BY DEF RecordBytes, SerializeRecord
<1>2. /\ o.object_type \in ObjectType
      /\ o.size_present \in BOOLEAN /\ o.content_present \in BOOLEAN /\ o.readable \in BOOLEAN
  BY DEF IsObservation
<1>3. /\ r.schema = K501_BOR_SCHEMA /\ r.root_id = id /\ r.path = o.path
      /\ r.object_type = o.object_type /\ r.size_present = o.size_present
      /\ r.size_bytes = o.size_bytes /\ r.content_present = o.content_present
      /\ r.content_sha256 = o.content_sha256 /\ r.stamp = o.stamp
      /\ r.readable = o.readable /\ r.object_id = ComputeObjectId(r)
  BY DEF Fill, ComputeObjectId
<1> HIDE DEF r
<1>4. /\ p.schema = K501_BOR_SCHEMA /\ p.object_id = r.object_id /\ p.root_id = r.root_id
      /\ p.path = r.path /\ p.object_type = r.object_type
      /\ p.size_present = Byte(r.size_present) /\ p.content_present = Byte(r.content_present)
      /\ p.size_bytes = IF r.size_present THEN <<r.size_bytes>> ELSE <<>>
      /\ p.content_sha256 = IF r.content_present THEN <<r.content_sha256>> ELSE <<>>
      /\ p.stamp = r.stamp /\ p.readable = Byte(r.readable)
  BY <1>1, <1>3 DEF SerializePrefix
<1> HIDE DEF raw, p
<1>5. CanDecode(raw)
  BY <1>2, <1>3, <1>4 DEF CanDecode, Aligned, Flag, Byte, p
<1>6. /\ d.schema = r.schema /\ d.object_id = r.object_id /\ d.root_id = r.root_id
      /\ d.path = r.path /\ d.object_type = r.object_type
      /\ d.size_present = r.size_present /\ d.content_present = r.content_present
      /\ d.stamp = r.stamp /\ d.readable = r.readable
      /\ r.size_present => d.size_bytes = r.size_bytes
      /\ r.content_present => d.content_sha256 = r.content_sha256
      /\ d.record_hash = raw.record_hash
  BY <1>2, <1>3, <1>4 DEF Decode, Byte, p
<1> HIDE DEF d
<1>7. SerializePrefix(d) = SerializePrefix(r)
  BY <1>2, <1>3, <1>6 DEF SerializePrefix
<1>8. ComputeObjectId(d) = ComputeObjectId(r)
  BY <1>6 DEF ComputeObjectId
<1>9. CanSerialize(d) /\ Sha256(SerializePrefix(d)) = d.record_hash
  BY <1>1, <1>2, <1>3, <1>6, <1>7, <1>8 DEF CanSerialize
<1> QED
  BY <1>4, <1>5, <1>6, <1>9 DEF RecordVerify, raw, p, d

\* The verifier accepts the entry that the object loop builds for a record.
LEMMA BuiltEntryAccepted ==
  ASSUME NEW id, NEW o, IsObservation(o), NEW seq, NEW chain, NEW g0, NEW g
  PROVE  EntryAccepted(RecordBytes(id, o), HistoryEntry(RecordBytes(id, o), seq, chain, g0),
                       seq, chain, g)
<1> DEFINE raw == RecordBytes(id, o)
           h == HistoryEntry(raw, seq, chain, g0)
<1>1. /\ h.magic = K501_HISTORY_MAGIC /\ h.sequence = seq
      /\ h.object_id = Decode(raw, g0).object_id
      /\ h.record_hash = Decode(raw, g0).record_hash
      /\ h.previous_chain_hash = chain /\ h.chain_hash = ChainHash(chain, raw)
  BY DEF HistoryEntry, HistoryBuild
<1> HIDE DEF h, raw
<1>2. /\ RecordVerify(raw, g)
      /\ Decode(raw, g).record_hash = Decode(raw, g0).record_hash
      /\ Decode(raw, g).object_id = Decode(raw, g0).object_id
  BY RecordRoundTrip DEF raw
<1>3. EntryAccepted(raw, h, seq, chain, g)
  BY <1>1, <1>2 DEF EntryAccepted, HistoryDecodes, HistoryVerify
<1> QED
  BY <1>3 DEF raw, h
\* Nothing of the entry depends on the uninitialized size.
LEMMA EntryIgnoresGarbage ==
  ASSUME NEW raw, NEW seq, NEW chain, NEW g0, NEW g
  PROVE  HistoryEntry(raw, seq, chain, g0) = HistoryEntry(raw, seq, chain, g)
<1> DEFINE d == Decode(raw, g0)
           e == Decode(raw, g)
<1>1. /\ d.readable = e.readable /\ d.object_type = e.object_type /\ d.path = e.path
      /\ d.size_present = e.size_present /\ d.content_present = e.content_present
      /\ d.root_id = e.root_id /\ d.object_id = e.object_id /\ d.record_hash = e.record_hash
  BY DEF Decode
<1> HIDE DEF d, e
<1>2. Propositions(d) = Propositions(e)
  BY <1>1 DEF Propositions
<1>3. MapRecord(d) = MapRecord(e)
  BY <1>2 DEF MapRecord
<1>4. HistoryBuild(seq, d, MapRecord(d), chain, raw) = HistoryBuild(seq, e, MapRecord(e), chain, raw)
  BY <1>1, <1>3 DEF HistoryBuild
<1> QED
  BY <1>4 DEF HistoryEntry, d, e
-----------------------------------------------------------------------------
\* Entry by entry, the history of a run is built from its records.
Built(records, history) ==
  \A k \in 1 .. Len(history) : \A g \in Garbage :
    history[k] = HistoryEntry(records[k], k - 1,
                              IF k = 1 THEN ZeroHash ELSE history[k - 1].chain_hash, g)

\* The inductive invariant.  The buffers are a linked chain that ends in prev,
\* one entry per observation consumed ...
Linked == \A k \in 1 .. Len(rb) : \A g \in Garbage :
            EntryAccepted(rb[k], hb[k], k - 1,
                          IF k = 1 THEN ZeroHash ELSE hb[k - 1].chain_hash, g)
LocalsInv ==
  /\ \A k \in 1 .. Len(obs) : IsObservation(obs[k])
  /\ Linked /\ Built(rb, hb)
  /\ prev = IF Len(hb) = 0 THEN ZeroHash ELSE hb[Len(hb)].chain_hash
  /\ pc \in {"idle", "ingest"} => i = 0 /\ rb = <<>> /\ hb = <<>> /\ obs = <<>>
  /\ pc = "loop" => i = Len(rb)
  /\ Writing \/ pc = "pass" => Len(rb) = Len(obs)

\* ... and each file is complete before it is synced and the next is opened.
SyncedFirst ==
  Writing =>
    /\ cur # "records" => durable["records"] = Whole(rb) /\ file["records"] = Whole(rb)
    /\ cur = "manifest" => durable["history"] = Whole(hb) /\ file["history"] = Whole(hb)
DiskInv ==
  /\ pc \in {"write", "sync"} => /\ cur \in {"records", "history"}
                                 /\ file[cur].exists
                                 /\ file[cur].torn => file[cur].frames # Buffer(cur)
  /\ pc = "sync" => file[cur] = Whole(Buffer(cur))
  /\ pc \in {"print", "pass"} => cur = "manifest"
  /\ SyncedFirst
  /\ pc = "pass" => /\ file["records"] = Whole(rb) /\ durable["records"] = Whole(rb)
                    /\ file["history"] = Whole(hb) /\ durable["history"] = Whole(hb)
  /\ lapses = 0 /\ ~Writing => /\ durable["records"] = file["records"]
                               /\ durable["history"] = file["history"]

IInv == TypeOK /\ LocalsInv /\ DiskInv
-----------------------------------------------------------------------------
LEMMA EmptySequence == IsSequence(<<>>) /\ Len(<<>>) = 0 /\ DOMAIN <<>> = {}
  BY DEF IsSequence

LEMMA SequenceFacts ==
  ASSUME NEW s, IsSequence(s)
  PROVE  Len(s) \in Nat /\ DOMAIN s = 1 .. Len(s)
  BY DEF IsSequence

LEMMA TypedIsSequence ==
  ASSUME NEW T, NEW s \in Seq(T)
  PROVE  IsSequence(s)
<1> DEFINE S == {s[k] : k \in DOMAIN s}
<1>1. Len(s) \in Nat /\ s \in [1 .. Len(s) -> T]
  OBVIOUS
<1>2. s \in [1 .. Len(s) -> S]
  BY <1>1
<1>3. s \in Seq(S)
  BY <1>1, <1>2
<1> QED
  BY <1>3 DEF IsSequence

LEMMA AppendFacts ==
  ASSUME NEW s, IsSequence(s), NEW e
  PROVE  /\ IsSequence(Append(s, e))
         /\ Len(Append(s, e)) = Len(s) + 1
         /\ \A k \in 1 .. Len(s) : Append(s, e)[k] = s[k]
         /\ Append(s, e)[Len(s) + 1] = e
<1> DEFINE T == {s[k] : k \in DOMAIN s} \cup {e}
<1>1. s \in Seq(T) /\ e \in T
  BY DEF IsSequence
<1>2. Append(s, e) \in Seq(T) /\ Len(Append(s, e)) = Len(s) + 1
  BY <1>1
<1>3. IsSequence(Append(s, e))
  BY <1>2, TypedIsSequence
<1> QED
  BY <1>1, <1>2, <1>3

LEMMA SubSeqSequence ==
  ASSUME NEW s, IsSequence(s), NEW n \in 0 .. Len(s)
  PROVE  IsSequence(SubSeq(s, 1, n))
<1> DEFINE T == {s[k] : k \in DOMAIN s}
<1>1. s \in Seq(T)
  BY DEF IsSequence
<1>2. SubSeq(s, 1, n) \in Seq(T)
  BY <1>1
<1> QED
  BY <1>2, TypedIsSequence

\* Files are only ever given these contents.
LEMMA ContentsFacts ==
  ASSUME NEW s, IsSequence(s)
  PROVE  IsContents(Whole(s)) /\ IsContents(Partial(s)) /\ IsContents(Missing)
  BY EmptySequence DEF IsContents, Whole, Partial, Missing

LEMMA WholePartial ==
  ASSUME NEW s
  PROVE  /\ Whole(s).frames = s /\ Whole(s).exists /\ ~Whole(s).torn
         /\ Partial(s).frames = s /\ Partial(s).exists /\ Partial(s).torn
  BY DEF Whole, Partial

\* Contents that exist and end with a whole frame are Whole.
LEMMA UntornIsWhole ==
  ASSUME NEW c, IsContents(c), c.exists, ~c.torn
  PROVE  c = Whole(c.frames)
  BY DEF IsContents, Whole, Partial, Missing

LEMMA SurvivingContents ==
  ASSUME TypeOK, NEW f \in Output, NEW c \in Surviving(f)
  PROVE  IsContents(c)
<1>1. IsContents(file[f]) /\ IsContents(durable[f])
  BY DEF TypeOK
<1>2. IsSequence(file[f].frames) /\ Len(file[f].frames) \in Nat
  BY <1>1, SequenceFacts DEF IsContents
<1>3. CASE c \in {durable[f], file[f]}
  BY <1>1, <1>3
<1>4. ASSUME NEW n \in 0 .. Len(file[f].frames), c \in {Whole(SubSeq(file[f].frames, 1, n)),
                                                       Partial(SubSeq(file[f].frames, 1, n))}
      PROVE  IsContents(c)
  BY <1>2, <1>4, SubSeqSequence, ContentsFacts
<1>5. \A n \in 0 .. Len(file[f].frames) - 1 : n \in 0 .. Len(file[f].frames)
  BY <1>2
<1>6. IsContents(Missing)
  BY EmptySequence, ContentsFacts
<1> QED
  BY <1>3, <1>4, <1>5, <1>6 DEF Surviving
-----------------------------------------------------------------------------
LEMMA InitIInv == Init => IInv
<1> SUFFICES ASSUME Init PROVE IInv
  OBVIOUS
<1>1. TypeOK
  BY EmptySequence, ContentsFacts, PipelineAssumption DEF Init, TypeOK, Output
<1>2. LocalsInv
  BY EmptySequence DEF Init, LocalsInv, Linked, Built, Writing
<1>3. DiskInv
  BY DEF Init, DiskInv, SyncedFirst, Writing
<1> QED
  BY <1>1, <1>2, <1>3 DEF IInv

\* One turn of the object loop adds one accepted entry to the chain.
LEMMA RecordKeeps == IInv /\ Record => IInv'
<1> SUFFICES ASSUME IInv, Record PROVE IInv'
  OBVIOUS
<1> USE DEF IInv
<1>1. PICK g0 \in Garbage :
         LET raw == RecordBytes(root_id, obs[i + 1])
             h   == HistoryEntry(raw, i, prev, g0)
         IN  rb' = Append(rb, raw) /\ hb' = Append(hb, h) /\ prev' = h.chain_hash
  BY DEF Record
<1> DEFINE raw == RecordBytes(root_id, obs[i + 1])
           h   == HistoryEntry(raw, i, prev, g0)
<1>2. /\ rb' = Append(rb, raw) /\ hb' = Append(hb, h) /\ prev' = h.chain_hash
      /\ pc = "loop" /\ i < Len(obs) /\ i' = i + 1
      /\ UNCHANGED <<pc, root_id, obs, cur, disk, audit>>
  BY <1>1 DEF Record
<1>3. IsSequence(obs) /\ IsSequence(rb) /\ IsSequence(hb)
  BY DEF TypeOK
<1>4. /\ Len(obs) \in Nat /\ i \in Nat /\ Len(rb) = i /\ Len(hb) = i
  BY <1>2, <1>3, SequenceFacts DEF TypeOK, LocalsInv
<1>5. IsObservation(obs[i + 1])
  BY <1>2, <1>4 DEF LocalsInv
<1>6. \A g \in Garbage : EntryAccepted(raw, h, i, prev, g)
  BY <1>5, BuiltEntryAccepted
<1> HIDE DEF raw, h
<1>7. /\ IsSequence(rb') /\ Len(rb') = i + 1 /\ rb'[i + 1] = raw
      /\ \A k \in 1 .. i : rb'[k] = rb[k]
  BY <1>2, <1>3, <1>4, AppendFacts
<1>8. /\ IsSequence(hb') /\ Len(hb') = i + 1 /\ hb'[i + 1] = h
      /\ \A k \in 1 .. i : hb'[k] = hb[k]
  BY <1>2, <1>3, <1>4, AppendFacts
<1>9. TypeOK'
  BY <1>2, <1>3, <1>4, <1>7, <1>8 DEF TypeOK, disk, audit
<1>10. Linked'
  <2> SUFFICES ASSUME NEW k \in 1 .. i + 1, NEW g \in Garbage
               PROVE  EntryAccepted(rb'[k], hb'[k], k - 1,
                        IF k = 1 THEN ZeroHash ELSE hb'[k - 1].chain_hash, g)
    BY <1>7 DEF Linked
  <2>1. CASE k = i + 1
    <3>1. prev = IF k = 1 THEN ZeroHash ELSE hb'[k - 1].chain_hash
      BY <1>4, <1>8, <2>1 DEF LocalsInv
    <3>2. k - 1 = i
      BY <1>4, <2>1
    <3> QED
      BY <1>6, <1>7, <1>8, <2>1, <3>1, <3>2
  <2>2. CASE k \in 1 .. i
    <3>1. rb'[k] = rb[k] /\ hb'[k] = hb[k] /\ (k # 1 => hb'[k - 1] = hb[k - 1])
      BY <1>4, <1>7, <1>8, <2>2
    <3>2. EntryAccepted(rb[k], hb[k], k - 1, IF k = 1 THEN ZeroHash ELSE hb[k - 1].chain_hash, g)
      BY <1>4, <2>2 DEF LocalsInv, Linked
    <3> QED
      BY <3>1, <3>2
  <2> QED
    BY <1>4, <2>1, <2>2
<1>13. Built(rb', hb')
  <2> SUFFICES ASSUME NEW k \in 1 .. i + 1, NEW g \in Garbage
               PROVE  hb'[k] = HistoryEntry(rb'[k], k - 1,
                                 IF k = 1 THEN ZeroHash ELSE hb'[k - 1].chain_hash, g)
    BY <1>8 DEF Built
  <2>1. CASE k = i + 1
    <3>1. prev = IF k = 1 THEN ZeroHash ELSE hb'[k - 1].chain_hash
      BY <1>4, <1>8, <2>1 DEF LocalsInv
    <3>2. k - 1 = i
      BY <1>4, <2>1
    <3>3. h = HistoryEntry(raw, i, prev, g)
      BY EntryIgnoresGarbage DEF h
    <3> QED
      BY <1>7, <1>8, <2>1, <3>1, <3>2, <3>3
  <2>2. CASE k \in 1 .. i
    <3>1. rb'[k] = rb[k] /\ hb'[k] = hb[k] /\ (k # 1 => hb'[k - 1] = hb[k - 1])
      BY <1>4, <1>7, <1>8, <2>2
    <3>2. hb[k] = HistoryEntry(rb[k], k - 1, IF k = 1 THEN ZeroHash ELSE hb[k - 1].chain_hash, g)
      BY <1>4, <2>2 DEF LocalsInv, Built
    <3> QED
      BY <3>1, <3>2
  <2> QED
    BY <1>4, <2>1, <2>2
<1>14. Built(rb, hb)'
  BY <1>13 DEF Built
<1>11. LocalsInv'
  BY <1>2, <1>4, <1>7, <1>8, <1>10, <1>14 DEF LocalsInv, Writing
<1>12. DiskInv'
  BY <1>2 DEF DiskInv, SyncedFirst, Writing, disk, audit
<1> QED
  BY <1>9, <1>11, <1>12

\* The steps that leave the files alone.
LEMMA LocalStepKeeps ==
  IInv /\ (Start \/ Ingest \/ EndLoop \/ WriteDone \/ FailEarly \/ FailWriting \/ Exit \/ Kill) => IInv'
<1> USE DEF IInv
<1>0. IInv => Len(obs) \in Nat /\ Len(rb) \in Nat /\ Len(hb) \in Nat
  BY SequenceFacts DEF TypeOK
<1>1. IInv /\ Start => IInv'
  <2> SUFFICES ASSUME IInv, Start PROVE IInv'
    OBVIOUS
  <2>1. TypeOK'
    BY PipelineAssumption DEF TypeOK, Start, disk
  <2>2. LocalsInv'
    BY DEF LocalsInv, Linked, Built, Start, Writing
  <2>3. DiskInv'
    BY DEF DiskInv, SyncedFirst, Start, Writing, disk
  <2> QED
    BY <2>1, <2>2, <2>3
<1>2. IInv /\ Ingest => IInv'
  <2> SUFFICES ASSUME IInv, Ingest PROVE IInv'
    OBVIOUS
  <2>1. /\ IsSequence(obs') /\ Len(obs') \in Nat
        /\ \A k \in 1 .. Len(obs') : IsObservation(obs'[k])
    BY PipelineAssumption, SequenceFacts DEF Ingest
  <2>2. i = 0 /\ rb = <<>> /\ hb = <<>>
    BY DEF LocalsInv, Ingest
  <2>3. TypeOK'
    BY <2>1, <2>2, EmptySequence DEF TypeOK, Ingest, disk, audit
  <2>4. LocalsInv'
    BY <2>1, <2>2, EmptySequence DEF LocalsInv, Linked, Built, Ingest, Writing
  <2>5. DiskInv'
    BY DEF DiskInv, SyncedFirst, Ingest, Writing, disk, audit
  <2> QED
    BY <2>3, <2>4, <2>5
<1>3. IInv /\ EndLoop => IInv'
  <2> SUFFICES ASSUME IInv, EndLoop PROVE IInv'
    OBVIOUS
  <2>1. TypeOK'
    BY DEF TypeOK, EndLoop, disk, locals, Output
  <2>2. LocalsInv'
    BY DEF LocalsInv, Linked, Built, EndLoop, locals, Writing
  <2>3. DiskInv'
    BY DEF DiskInv, SyncedFirst, EndLoop, Writing
  <2> QED
    BY <2>1, <2>2, <2>3
<1>4. IInv /\ WriteDone => IInv'
  <2> SUFFICES ASSUME IInv, WriteDone PROVE IInv'
    OBVIOUS
  <2>1. TypeOK'
    BY DEF TypeOK, WriteDone, disk, audit, locals
  <2>2. LocalsInv'
    BY DEF LocalsInv, Linked, Built, WriteDone, locals, Writing
  <2>3. file[cur] = Whole(Buffer(cur))
    BY UntornIsWhole DEF TypeOK, DiskInv, WriteDone
  <2>4. DiskInv'
    BY <2>3, WholePartial DEF DiskInv, SyncedFirst, WriteDone, disk, locals, Writing, Buffer
  <2> QED
    BY <2>1, <2>2, <2>4
<1>5. IInv /\ (FailEarly \/ FailWriting) => IInv'
  <2> SUFFICES ASSUME IInv, FailEarly \/ FailWriting PROVE IInv'
    OBVIOUS
  <2>1. TypeOK'
    BY PipelineAssumption DEF TypeOK, FailEarly, FailWriting, disk, audit, locals
  <2>2. LocalsInv'
    BY DEF LocalsInv, Linked, Built, FailEarly, FailWriting, locals, Writing
  <2>3. DiskInv'
    <3>1. lapses \in Nat
      BY PipelineAssumption DEF TypeOK
    <3> QED
      BY <3>1 DEF DiskInv, SyncedFirst, FailEarly, FailWriting, Writing, disk, audit
  <2> QED
    BY <2>1, <2>2, <2>3
<1>6. IInv /\ (Exit \/ Kill) => IInv'
  <2> SUFFICES ASSUME IInv, Exit \/ Kill PROVE IInv'
    OBVIOUS
  <2>1. TypeOK'
    <3>1. /\ Gone /\ UNCHANGED <<disk, runs>> /\ lapses' \in 0 .. MaxLapses
      BY PipelineAssumption DEF TypeOK, Exit, Kill, audit
    <3>2. UNCHANGED <<file, durable, entries>>
      BY <3>1 DEF disk
    <3> QED
      BY <3>1, <3>2, EmptySequence DEF TypeOK, Gone, Output
  <2>2. LocalsInv'
    BY EmptySequence DEF LocalsInv, Linked, Built, Exit, Kill, Gone, Writing
  <2>3. DiskInv'
    <3>1. lapses \in Nat
      BY PipelineAssumption DEF TypeOK
    <3> QED
      BY <3>1 DEF DiskInv, SyncedFirst, Exit, Kill, Gone, Writing, disk, audit
  <2> QED
    BY <2>1, <2>2, <2>3
<1> QED
  BY <1>1, <1>2, <1>3, <1>4, <1>5, <1>6

\* The steps of write_file and write_manifest, and the power loss.
LEMMA DiskStepKeeps ==
  IInv /\ (OpenTruncate \/ WriteSome \/ Sync \/ CloseFails \/ PrintLine \/ Pass \/ PowerLoss) => IInv'
<1> USE DEF IInv
<1>1. IInv /\ OpenTruncate => IInv'
  <2> SUFFICES ASSUME IInv, OpenTruncate PROVE IInv'
    OBVIOUS
  <2> DEFINE c == Whole(<<>>)
  <2>1. cur \in Output /\ file' = [file EXCEPT ![cur] = c] /\ DOMAIN file = Output
    BY DEF OpenTruncate, TypeOK
  <2>2. IsContents(c) /\ c.exists /\ c.frames = <<>> /\ (cur # "manifest" => ~c.torn)
    BY EmptySequence, ContentsFacts, WholePartial
  <2> HIDE DEF c
  <2>3. file'[cur] = c /\ \A f \in Output : f # cur => file'[f] = file[f]
    BY <2>1
  <2>4. Len(obs) \in Nat
    BY SequenceFacts DEF TypeOK
  <2>5. TypeOK'
    BY <2>1, <2>2, <2>3, <2>4 DEF TypeOK, OpenTruncate, audit
  <2>6. LocalsInv'
    BY DEF LocalsInv, Linked, Built, OpenTruncate, Writing
  <2>7. DiskInv'
    BY <2>1, <2>2, <2>3 DEF DiskInv, SyncedFirst, OpenTruncate, Writing, Output
  <2> QED
    BY <2>5, <2>6, <2>7
<1>2. IInv /\ WriteSome => IInv'
  <2> SUFFICES ASSUME IInv, WriteSome PROVE IInv'
    OBVIOUS
  <2> DEFINE c == IF file[cur].torn
                  THEN Whole(Append(file[cur].frames, Buffer(cur)[Len(file[cur].frames) + 1]))
                  ELSE Partial(file[cur].frames)
  <2>1. /\ cur \in {"records", "history"} /\ DOMAIN file = Output /\ cur \in Output
        /\ file' = [file EXCEPT ![cur] = c] /\ IsContents(file[cur])
        /\ Len(file[cur].frames) < Len(Buffer(cur))
    BY DEF WriteSome, TypeOK, DiskInv
  <2>2. IsSequence(file[cur].frames)
    BY <2>1 DEF IsContents
  <2>3. IsContents(c) /\ c.exists
    BY <2>2, AppendFacts, ContentsFacts, WholePartial
  <2>4. c.torn => c.frames # Buffer(cur)
    BY <2>1, <2>2, SequenceFacts, WholePartial
  <2> HIDE DEF c
  <2>5. file'[cur] = c /\ \A f \in Output : f # cur => file'[f] = file[f]
    BY <2>1
  <2>6. TypeOK'
    BY <2>1, <2>3, <2>5 DEF TypeOK, WriteSome, locals, audit
  <2>7. LocalsInv'
    BY DEF LocalsInv, Linked, Built, WriteSome, locals, Writing
  <2>8. DiskInv'
    BY <2>1, <2>3, <2>4, <2>5 DEF DiskInv, SyncedFirst, WriteSome, locals, Writing, Output, Buffer
  <2> QED
    BY <2>6, <2>7, <2>8
<1>3. IInv /\ (Sync \/ CloseFails) => IInv'
  <2> SUFFICES ASSUME IInv, Sync \/ CloseFails PROVE IInv'
    OBVIOUS
  <2>1. /\ pc = "sync" /\ cur \in {"records", "history"} /\ file[cur] = Whole(Buffer(cur))
        /\ durable' = [durable EXCEPT ![cur] = file[cur]] /\ DOMAIN durable = Output
        /\ UNCHANGED <<locals, file>>
    BY DEF Sync, CloseFails, DiskInv, TypeOK
  <2>2. durable'[cur] = file[cur] /\ \A f \in Output : f # cur => durable'[f] = durable[f]
    BY <2>1 DEF Output
  <2>3. TypeOK'
    <3>1. /\ pc' \in {"open", "fail"} /\ cur' \in Output
          /\ UNCHANGED <<entries, runs>> /\ lapses' \in 0 .. MaxLapses
      BY <2>1, PipelineAssumption DEF TypeOK, Sync, CloseFails, audit, Output
    <3>2. DOMAIN durable' = Output /\ \A f \in Output : IsContents(durable'[f])
      BY <2>1, <2>2 DEF TypeOK
    <3>3. UNCHANGED <<root_id, obs, i, rb, hb, prev>>
      BY <2>1 DEF locals
    <3> QED
      BY <2>1, <3>1, <3>2, <3>3 DEF TypeOK
  <2>4. LocalsInv'
    BY <2>1 DEF LocalsInv, Linked, Built, Sync, CloseFails, locals, Writing
  <2>5. DiskInv'
    <3>1. lapses \in Nat
      BY PipelineAssumption DEF TypeOK
    <3> QED
      BY <2>1, <2>2, <3>1
         DEF DiskInv, SyncedFirst, Sync, CloseFails, locals, Writing, Output, Buffer
  <2> QED
    BY <2>3, <2>4, <2>5
<1>4. IInv /\ (PrintLine \/ Pass) => IInv'
  <2> SUFFICES ASSUME IInv, PrintLine \/ Pass PROVE IInv'
    OBVIOUS
  <2>1. /\ pc = "print" /\ cur = "manifest" /\ DOMAIN file = Output
        /\ IsContents(file["manifest"]) /\ IsSequence(file["manifest"].frames)
        /\ UNCHANGED <<root_id, obs, rb, hb, prev, cur, durable>>
    BY DEF PrintLine, Pass, DiskInv, TypeOK, IsContents, Output, locals, disk
  <2>2. /\ DOMAIN file' = Output /\ IsContents(file'["manifest"])
        /\ \A f \in Output : f # "manifest" => file'[f] = file[f]
    <3>1. CASE Pass
      BY <2>1, <3>1 DEF Pass, disk
    <3>2. CASE PrintLine
      <4>1. PICK line : file' = [file EXCEPT !["manifest"] = Whole(Append(@.frames, line))]
        BY <3>2 DEF PrintLine
      <4>2. IsContents(Whole(Append(file["manifest"].frames, line)))
        BY <2>1, AppendFacts, ContentsFacts
      <4> QED
        BY <2>1, <4>1, <4>2 DEF Output
    <3> QED
      BY <3>1, <3>2
  <2>3. i' \in 0 .. Len(obs)
    BY SequenceFacts DEF PrintLine, Pass, TypeOK, locals
  <2>4. TypeOK'
    <3>1. /\ pc' \in {"print", "pass"} /\ UNCHANGED <<entries, runs>> /\ lapses' \in 0 .. MaxLapses
      BY PipelineAssumption DEF TypeOK, PrintLine, Pass, audit, disk
    <3>2. \A f \in Output : IsContents(file'[f])
      BY <2>2 DEF TypeOK
    <3> QED
      BY <2>1, <2>2, <2>3, <3>1, <3>2 DEF TypeOK
  <2>5. LocalsInv'
    BY <2>1 DEF LocalsInv, Linked, Built, PrintLine, Pass, Writing
  <2>6. DiskInv'
    BY <2>1, <2>2 DEF DiskInv, SyncedFirst, PrintLine, Pass, Writing, Output
  <2> QED
    BY <2>4, <2>5, <2>6
<1>5. IInv /\ PowerLoss => IInv'
  <2> SUFFICES ASSUME IInv, PowerLoss PROVE IInv'
    OBVIOUS
  <2>1. PICK r \in Surviving("records"), h \in Surviving("history") :
           file' = [f \in Output |-> CASE f = "records"  -> r
                                       [] f = "history"  -> h
                                       [] f = "manifest" -> Uncertain]
    BY DEF PowerLoss
  <2>2. IsContents(r) /\ IsContents(h) /\ IsContents(Uncertain)
    BY SurvivingContents, ContentsFacts, EmptySequence DEF Output, Uncertain
  <2>3. DOMAIN file' = Output /\ \A f \in Output : IsContents(file'[f])
    BY <2>1, <2>2 DEF Output
  <2>4. TypeOK'
    BY <2>3, EmptySequence, PipelineAssumption DEF TypeOK, PowerLoss, Gone, Output
  <2>5. LocalsInv'
    BY EmptySequence DEF LocalsInv, Linked, Built, PowerLoss, Gone, Writing
  <2>6. DiskInv'
    BY DEF DiskInv, SyncedFirst, PowerLoss, Gone, Writing
  <2> QED
    BY <2>4, <2>5, <2>6
<1> QED
  BY <1>1, <1>2, <1>3, <1>4, <1>5

LEMMA StutterKeeps == IInv /\ UNCHANGED vars => IInv'
<1> SUFFICES ASSUME IInv, UNCHANGED vars PROVE IInv'
  OBVIOUS
<1>1. TypeOK'
  BY DEF IInv, TypeOK, vars, locals, disk, audit
<1>2. LocalsInv'
  BY DEF IInv, LocalsInv, Linked, Built, Writing, vars, locals
<1>3. DiskInv'
  BY DEF IInv, DiskInv, SyncedFirst, Writing, Buffer, vars, locals, disk, audit
<1> QED
  BY <1>1, <1>2, <1>3 DEF IInv

(* The inductive invariant holds whatever is interrupted and whenever.     *)
THEOREM PipelineInvariant == Spec => []IInv
<1>1. IInv /\ [Next]_vars => IInv'
  BY RecordKeeps, LocalStepKeeps, DiskStepKeeps, StutterKeeps DEF Next, Advance, Lapse
<1> QED
  BY <1>1, InitIInv, PTL DEF Spec
-----------------------------------------------------------------------------
(* Locals and files keep their shape.                                      *)
THEOREM PipelineTypeCorrect == Spec => []TypeOK
  BY PipelineInvariant, PTL DEF IInv

\* A file all of which is synced is lost only with its name.
LEMMA WholeLeaves ==
  ASSUME NEW f \in Output, NEW c, file[f] = c, durable[f] = c
  PROVE  Leaves(f, c)
  BY DEF Leaves, Surviving

LEMMA IInvPass == IInv => PassMeansVerified
<1> SUFFICES ASSUME IInv, pc = "pass" PROVE
        /\ file["records"] = Whole(rb) /\ file["history"] = Whole(hb)
        /\ Len(rb) = Len(obs)
        /\ Leaves("records", Whole(rb)) /\ Leaves("history", Whole(hb))
        /\ \A g \in Garbage : Accepts(file["records"], file["history"], g)
  BY DEF PassMeansVerified
<1>1. /\ file["records"] = Whole(rb) /\ file["history"] = Whole(hb)
      /\ durable["records"] = Whole(rb) /\ durable["history"] = Whole(hb)
      /\ Len(rb) = Len(obs) /\ Len(rb) = Len(hb) /\ Linked
  BY DEF IInv, TypeOK, LocalsInv, DiskInv
<1>2. \A g \in Garbage : Accepts(Whole(rb), Whole(hb), g)
  BY <1>1, WholePartial DEF Accepts, Linked
<1>3. Leaves("records", Whole(rb)) /\ Leaves("history", Whole(hb))
  BY <1>1, WholeLeaves DEF Output
<1> QED
  BY <1>1, <1>2, <1>3

(* Whatever earlier runs, failed calls, crashes and power losses left      *)
(* behind, a run that reports PASS leaves two whole files that the         *)
(* verifier accepts, and of which a power loss can take no part, though    *)
(* all of one whose name is new.                                           *)
THEOREM PassVerified == Spec => []PassMeansVerified
  BY PipelineInvariant, IInvPass, PTL

(* Before the history is opened no power loss can leave a part of the      *)
(* records, and before the manifest is, of neither; what it can leave is   *)
(* the whole or, of a file whose name is new, nothing.                     *)
THEOREM RecordsFirst == Spec => []WriteOrder
<1>1. IInv => WriteOrder
  BY WholeLeaves DEF IInv, DiskInv, SyncedFirst, WriteOrder, Output
<1> QED
  BY <1>1, PipelineInvariant, PTL

(* While no run has started to write since the last PASS, nothing changes  *)
(* what the verifier reads, except that a power loss may take away, as a   *)
(* whole, a file whose name is new.                                        *)
THEOREM PassStays == Spec => PassIsDurable
<1>1. IInv /\ [Next]_vars =>
        (lapses = 0 /\ ~Writing => \A f \in {"records", "history"} :
           \/ file'[f] = file[f]
           \/ f \notin entries /\ file'[f] = Missing)
  <2> SUFFICES ASSUME IInv, [Next]_vars, lapses = 0, ~Writing, NEW f \in {"records", "history"}
               PROVE  \/ file'[f] = file[f]
                      \/ f \notin entries /\ file'[f] = Missing
    OBVIOUS
  <2>1. durable["records"] = file["records"] /\ durable["history"] = file["history"]
    BY DEF IInv, DiskInv
  <2>2. CASE PowerLoss
    <3>1. file'[f] \in Surviving(f)
      BY <2>2 DEF PowerLoss, Output
    <3>2. Surviving(f) = {file[f]} \cup (IF f \in entries THEN {} ELSE {Missing})
      BY <2>1 DEF Surviving
    <3> QED
      BY <3>1, <3>2
  <2>3. CASE Start \/ Ingest \/ Record \/ EndLoop \/ FailEarly \/ Exit \/ Kill \/ UNCHANGED vars
    BY <2>3 DEF Start, Ingest, Record, EndLoop, FailEarly, Exit, Kill, vars, disk
  <2> QED
    BY <2>2, <2>3 DEF Next, Advance, Lapse, OpenTruncate, WriteSome, WriteDone, Sync,
         CloseFails, PrintLine, Pass, FailWriting, Writing
<1> QED
  BY <1>1, PipelineInvariant, PTL DEF Spec, PassIsDurable
-----------------------------------------------------------------------------
\* What the verifier accepts was made by one run, and is all of that run unless
\* two lapses came together.

\* s is the beginning of t, or all of it.
Begins(s, t) == Len(s) <= Len(t) /\ \A k \in 1 .. Len(s) : s[k] = t[k]

\* The entries of a run are chained to its records.
RunOK(q) ==
  /\ q = [records |-> q.records, history |-> q.history]
  /\ IsSequence(q.records) /\ IsSequence(q.history) /\ Len(q.records) = Len(q.history)
  /\ \A k \in 1 .. Len(q.history) :
       q.history[k].chain_hash = ChainHash(q.history[k].previous_chain_hash, q.records[k])
  /\ Built(q.records, q.history)

OfARun(c)       == c.exists => \E q \in produced : Begins(c.frames, q.history)
WholeHistory(c) == c = Missing \/ \E q \in produced : c = Whole(q.history)

\* Whatever happens to history.bin, it holds the beginning of one run's history,
\* while it is written that of the run at work.
RunsInv ==
  /\ \A q \in produced : RunOK(q)
  /\ Writing => [records |-> rb, history |-> hb] \in produced
  /\ pc \in {"write", "sync"} /\ cur = "history" => Begins(file["history"].frames, hb)
  /\ OfARun(file["history"]) /\ OfARun(durable["history"])

\* One of the two files is complete and will stay so.
HistorySettled == WholeHistory(file["history"]) /\ durable["history"] = file["history"]
RecordsSettled ==
  /\ durable["records"] = file["records"]
  /\ \/ file["records"] = Missing
     \/ \E q \in produced : /\ file["records"] = Whole(q.records)
                            /\ Begins(file["history"].frames, q.history)

\* How the first lapse finds the files, and how it leaves them.
LapseInv ==
  /\ lapses = 0 /\ ~Writing => HistorySettled
  /\ lapses = 0 /\ Writing /\ cur = "records" => HistorySettled
  /\ lapses = 0 /\ Writing /\ cur = "history" =>
       /\ WholeHistory(durable["history"])
       /\ \/ durable["history"] = file["history"]
          \/ Begins(file["history"].frames, hb)
  /\ lapses = 1 /\ ~Writing => HistorySettled \/ RecordsSettled
-----------------------------------------------------------------------------
LEMMA SequencesEqual ==
  ASSUME NEW S, NEW T, NEW s \in Seq(S), NEW t \in Seq(T), Len(s) = Len(t),
         \A k \in 1 .. Len(s) : s[k] = t[k]
  PROVE  s = t
<1>1. /\ s \in [1 .. Len(s) -> S] /\ t \in [1 .. Len(t) -> T]
  OBVIOUS
<1> QED
  BY <1>1

LEMMA BeginsFacts ==
  ASSUME NEW s, NEW t, IsSequence(s), IsSequence(t), Begins(s, t)
  PROVE  /\ Len(s) < Len(t) => Begins(Append(s, t[Len(s) + 1]), t)
         /\ \A n \in 0 .. Len(s) : Begins(SubSeq(s, 1, n), t)
         /\ s = SubSeq(t, 1, Len(s))
<1>1. Len(s) \in Nat /\ Len(t) \in Nat
  BY SequenceFacts
<1>2. Len(s) < Len(t) => Begins(Append(s, t[Len(s) + 1]), t)
  <2> SUFFICES ASSUME Len(s) < Len(t) PROVE Begins(Append(s, t[Len(s) + 1]), t)
    OBVIOUS
  <2> DEFINE e == t[Len(s) + 1]
             a == Append(s, e)
  <2>1. /\ Len(a) = Len(s) + 1 /\ a[Len(s) + 1] = e
        /\ \A k \in 1 .. Len(s) : a[k] = s[k]
    BY AppendFacts
  <2> HIDE DEF a
  <2>2. \A k \in 1 .. Len(a) : a[k] = t[k]
    BY <1>1, <2>1 DEF Begins
  <2> QED
    BY <1>1, <2>1, <2>2 DEF Begins, a
<1>3. \A n \in 0 .. Len(s) : Begins(SubSeq(s, 1, n), t)
  <2> TAKE n \in 0 .. Len(s)
  <2> DEFINE S == {s[k] : k \in DOMAIN s}
  <2>1. s \in Seq(S)
    BY DEF IsSequence
  <2>2. Len(SubSeq(s, 1, n)) = n /\ \A k \in 1 .. n : SubSeq(s, 1, n)[k] = s[k]
    BY <1>1, <2>1
  <2> QED
    BY <1>1, <2>2 DEF Begins
<1>4. s = SubSeq(t, 1, Len(s))
  <2> DEFINE S == {s[k] : k \in DOMAIN s}
             T == {t[k] : k \in DOMAIN t}
             u == SubSeq(t, 1, Len(s))
  <2>1. s \in Seq(S) /\ t \in Seq(T)
    BY DEF IsSequence
  <2>2. Len(s) <= Len(t)
    BY DEF Begins
  <2>3. u \in Seq(T) /\ Len(u) = Len(s) /\ \A k \in 1 .. Len(s) : u[k] = t[k]
    BY <1>1, <2>1, <2>2
  <2>4. \A k \in 1 .. Len(s) : s[k] = u[k]
    BY <2>3 DEF Begins
  <2> HIDE DEF u
  <2>5. s = u
    BY <1>1, <2>1, <2>3, <2>4, SequencesEqual
  <2> QED
    BY <2>5 DEF u
<1> QED
  BY <1>2, <1>3, <1>4

\* A hash says what was hashed.
LEMMA ChainHashInjective ==
  ASSUME NEW a, NEW b, NEW c, NEW d, ChainHash(a, b) = ChainHash(c, d)
  PROVE  b = d
BY DEF ChainHash, Sha256

\* The records that are accepted beside the beginning of a run's history are the
\* run's own.
LEMMA AcceptedMatches ==
  ASSUME NEW rf, NEW hf, NEW g, Accepts(rf, hf, g), NEW q, RunOK(q), IsSequence(rf.frames),
         Begins(hf.frames, q.history)
  PROVE  Len(rf.frames) = Len(hf.frames) /\ Begins(rf.frames, q.records)
<1>1. Len(rf.frames) = Len(hf.frames)
  BY DEF Accepts
<1>2. Len(q.records) = Len(q.history) /\ Len(rf.frames) <= Len(q.records)
  BY <1>1 DEF RunOK, Begins
<1>3. ASSUME NEW k \in 1 .. Len(rf.frames)
      PROVE  rf.frames[k] = q.records[k]
  <2>1. HistoryVerify(hf.frames[k], rf.frames[k])
    BY DEF Accepts, EntryAccepted
  <2>2. hf.frames[k] = q.history[k] /\ k \in 1 .. Len(q.history)
    <3>1. Len(rf.frames) \in Nat /\ Len(q.history) \in Nat
      BY SequenceFacts DEF RunOK
    <3> QED
      BY <1>1, <1>2, <3>1 DEF Begins
  <2>3. ChainHash(q.history[k].previous_chain_hash, rf.frames[k])
          = ChainHash(q.history[k].previous_chain_hash, q.records[k])
    BY <2>1, <2>2 DEF HistoryVerify, RunOK
  <2> QED
    BY <2>3, ChainHashInjective
<1> QED
  BY <1>1, <1>2, <1>3 DEF Begins

\* The buffers of the run that ends its loop are chained.
LEMMA ThisRunOK ==
  ASSUME IInv
  PROVE  RunOK([records |-> rb, history |-> hb])
<1>1. IsSequence(rb) /\ IsSequence(hb) /\ Len(rb) = Len(hb) /\ Linked /\ Built(rb, hb)
  BY DEF IInv, TypeOK, LocalsInv
<1>2. \A k \in 1 .. Len(hb) : hb[k].chain_hash = ChainHash(hb[k].previous_chain_hash, rb[k])
  BY <1>1, PipelineAssumption DEF Linked, EntryAccepted, HistoryVerify
<1> QED
  BY <1>1, <1>2 DEF RunOK

\* Each file is as it was, or shares its beginning with what it was.
LEMMA SurvivingHistory ==
  ASSUME IInv, RunsInv, NEW c \in Surviving("history")
  PROVE  OfARun(c)
<1>1. /\ IsContents(file["history"]) /\ IsContents(durable["history"])
      /\ IsSequence(file["history"].frames) /\ Len(file["history"].frames) \in Nat
  BY SequenceFacts DEF IInv, TypeOK, Output, IsContents
<1>2. CASE c \in {durable["history"], file["history"]}
  BY <1>2 DEF RunsInv
<1>3. ASSUME durable["history"] # file["history"],
             NEW n \in 0 .. Len(file["history"].frames), c.frames = SubSeq(file["history"].frames, 1, n)
      PROVE  OfARun(c)
  <2>1. CASE file["history"].exists
    <3>1. PICK q \in produced : Begins(file["history"].frames, q.history)
      BY <2>1 DEF RunsInv, OfARun
    <3>2. IsSequence(q.history)
      BY DEF RunsInv, RunOK
    <3>3. Begins(c.frames, q.history)
      BY <1>1, <1>3, <3>1, <3>2, BeginsFacts
    <3> QED
      BY <3>3 DEF OfARun
  <2>2. CASE ~file["history"].exists
    <3>1. file["history"] = Missing /\ durable["history"].exists
      <4>1. file["history"] = Missing
        BY <1>1, <2>2, WholePartial DEF IsContents
      <4>2. durable["history"] # Missing
        BY <1>3, <4>1
      <4> QED
        BY <1>1, <4>1, <4>2, WholePartial DEF IsContents
    <3>2. PICK q \in produced : Begins(durable["history"].frames, q.history)
      BY <3>1 DEF RunsInv, OfARun
    <3>3. c.frames = <<>>
      BY <1>3, <3>1 DEF Missing
    <3>4. IsSequence(q.history) /\ Len(q.history) \in Nat
      BY SequenceFacts DEF RunsInv, RunOK
    <3>5. Begins(c.frames, q.history)
      BY <3>3, <3>4 DEF Begins
    <3> QED
      BY <3>5 DEF OfARun
  <2> QED
    BY <2>1, <2>2
<1>4. \A n \in 0 .. Len(file["history"].frames) - 1 : n \in 0 .. Len(file["history"].frames)
  BY <1>1
<1>5. CASE c \notin {durable["history"], file["history"], Missing}
  <2>1. PICK n \in 0 .. Len(file["history"].frames) :
           c = Whole(SubSeq(file["history"].frames, 1, n)) \/ c = Partial(SubSeq(file["history"].frames, 1, n))
    BY <1>4, <1>5 DEF Surviving
  <2>2. c.frames = SubSeq(file["history"].frames, 1, n) /\ durable["history"] # file["history"]
    BY <1>5, <2>1, WholePartial DEF Surviving
  <2> QED
    BY <1>3, <2>2
<1>6. CASE c = Missing
  BY <1>6 DEF OfARun, Missing
<1> QED
  BY <1>2, <1>5, <1>6
-----------------------------------------------------------------------------
LEMMA InitRuns == Init => RunsInv /\ LapseInv
BY DEF Init, RunsInv, LapseInv, Writing, OfARun, HistorySettled, WholeHistory, Missing, Output

LEMMA RunsKept == IInv /\ RunsInv /\ [Next]_vars => RunsInv'
<1> SUFFICES ASSUME IInv, RunsInv, [Next]_vars PROVE RunsInv'
  OBVIOUS
<1>0. /\ \A f \in Output : IsContents(file[f]) /\ IsContents(durable[f])
      /\ IsSequence(file["history"].frames)
      /\ DOMAIN file = Output /\ DOMAIN durable = Output /\ cur \in Output
      /\ IsSequence(hb) /\ IsSequence(rb)
  BY DEF IInv, TypeOK, Output, IsContents
\* Steps that leave history.bin and what is known of the runs.
<1>1. CASE /\ UNCHANGED produced
           /\ file'["history"] = file["history"] /\ durable'["history"] = durable["history"]
           /\ Writing' => Writing /\ rb' = rb /\ hb' = hb
           /\ pc' \in {"write", "sync"} /\ cur' = "history" => pc \in {"write", "sync"} /\ cur = "history"
  BY <1>1 DEF RunsInv, OfARun, RunOK, Writing
<1>2. CASE Start \/ Ingest \/ Record \/ WriteDone \/ FailEarly \/ FailWriting \/ Exit \/ Kill
           \/ UNCHANGED vars
  BY <1>1, <1>2 DEF Start, Ingest, Record, WriteDone, FailEarly, FailWriting, Exit, Kill, Gone,
                    Writing, disk, audit, locals, vars
<1>3. CASE PrintLine \/ Pass
  BY <1>0, <1>1, <1>3 DEF PrintLine, Pass, Writing, locals, audit, disk, Output
<1>4. CASE EndLoop
  <2>1. produced' = produced \cup {[records |-> rb, history |-> hb]} /\ UNCHANGED <<rb, hb, file, durable>>
        /\ pc' = "open"
    BY <1>4 DEF EndLoop, locals, disk
  <2>2. \A q \in produced' : RunOK(q)
    BY <2>1, ThisRunOK DEF RunsInv
  <2>3. (\A q \in produced : RunOK(q))' <=> \A q \in produced' : RunOK(q)
    BY DEF RunOK
  <2> QED
    BY <2>1, <2>2, <2>3 DEF RunsInv, OfARun, Writing
<1>5. CASE OpenTruncate
  <2>1. /\ pc = "open" /\ pc' \in {"write", "print"} /\ UNCHANGED <<rb, hb, cur, durable, produced>>
        /\ file' = [file EXCEPT ![cur] = Whole(<<>>)]
    BY <1>5 DEF OpenTruncate, audit
  <2>2. CASE cur # "history"
    BY <1>0, <1>1, <2>1, <2>2 DEF Writing, Output
  <2>3. CASE cur = "history"
    <3>1. file'["history"].frames = <<>> /\ file'["history"].exists
      BY <1>0, <2>1, <2>3, WholePartial
    <3>2. [records |-> rb, history |-> hb] \in produced
      BY <2>1 DEF RunsInv, Writing
    <3>3. Begins(<<>>, hb)
      BY <1>0, SequenceFacts DEF Begins
    <3> QED
      BY <2>1, <3>1, <3>2, <3>3 DEF RunsInv, OfARun, RunOK, Writing
  <2> QED
    BY <2>2, <2>3
<1>6. CASE WriteSome
  <2> DEFINE c == IF file[cur].torn
                  THEN Whole(Append(file[cur].frames, Buffer(cur)[Len(file[cur].frames) + 1]))
                  ELSE Partial(file[cur].frames)
  <2>1. /\ pc = "write" /\ UNCHANGED <<pc, rb, hb, cur, durable, produced>>
        /\ file' = [file EXCEPT ![cur] = c] /\ Len(file[cur].frames) < Len(Buffer(cur))
    BY <1>6 DEF WriteSome, audit, locals
  <2>2. CASE cur # "history"
    BY <1>0, <1>1, <2>1, <2>2 DEF Writing, Output
  <2>3. CASE cur = "history"
    <3>1. /\ Begins(file["history"].frames, hb) /\ Buffer("history") = hb
          /\ [records |-> rb, history |-> hb] \in produced
      BY <2>1, <2>3 DEF RunsInv, Writing, Buffer
    <3>2. Begins(Append(file["history"].frames, hb[Len(file["history"].frames) + 1]), hb)
      BY <1>0, <2>1, <2>3, <3>1, BeginsFacts
    <3>3. Begins(c.frames, hb)
      BY <2>3, <3>1, <3>2, WholePartial
    <3> HIDE DEF c
    <3>4. file'["history"] = c
      BY <1>0, <2>1, <2>3
    <3> QED
      BY <2>1, <3>1, <3>3, <3>4 DEF RunsInv, OfARun, RunOK, Writing
  <2> QED
    BY <2>2, <2>3
<1>7. CASE Sync \/ CloseFails
  <2>1. /\ pc = "sync" /\ UNCHANGED <<rb, hb, file, produced>>
        /\ durable' = [durable EXCEPT ![cur] = file[cur]]
        /\ pc' \in {"open", "fail"}
    BY <1>7 DEF Sync, CloseFails, locals, audit
  <2>2. durable'["history"] \in {durable["history"], file["history"]}
    BY <1>0, <2>1 DEF Output
  <2> QED
    BY <2>1, <2>2 DEF RunsInv, OfARun, RunOK, Writing
<1>8. CASE PowerLoss
  <2>1. /\ file'["history"] \in Surviving("history") /\ durable' = file'
        /\ pc' = "idle" /\ UNCHANGED produced
    BY <1>8 DEF PowerLoss, Gone, Output
  <2>2. OfARun(file'["history"])
    BY <2>1, SurvivingHistory
  <2> QED
    BY <2>1, <2>2 DEF RunsInv, OfARun, RunOK, Writing
<1> QED
  BY <1>2, <1>3, <1>4, <1>5, <1>6, <1>7, <1>8 DEF Next, Advance, Lapse

LEMMA RunsAlways == Spec => []RunsInv
  BY InitRuns, RunsKept, PipelineInvariant, PTL DEF Spec

(* What the verifier accepts, at any moment, is the beginning of the       *)
(* records and of the history of one run.                                  *)
THEOREM PipelineOneRun == Spec => []AcceptedIsOneRun
<1>1. IInv /\ RunsInv => AcceptedIsOneRun
  <2> SUFFICES ASSUME IInv, RunsInv, NEW g \in Garbage, Accepts(file["records"], file["history"], g)
               PROVE  \E p \in produced :
                        LET n == Len(file["records"].frames)
                        IN  /\ n <= Len(p.records)
                            /\ file["records"].frames = SubSeq(p.records, 1, n)
                            /\ file["history"].frames = SubSeq(p.history, 1, n)
    BY DEF AcceptedIsOneRun, Accepted
  <2>1. IsSequence(file["records"].frames) /\ IsSequence(file["history"].frames)
    BY DEF IInv, TypeOK, Output, IsContents
  <2>2. PICK q \in produced : Begins(file["history"].frames, q.history)
    BY DEF RunsInv, OfARun, Accepts
  <2>3. RunOK(q)
    BY DEF RunsInv
  <2>4. Len(file["records"].frames) = Len(file["history"].frames) /\ Begins(file["records"].frames, q.records)
    BY <2>1, <2>2, <2>3, AcceptedMatches
  <2>5. /\ file["records"].frames = SubSeq(q.records, 1, Len(file["records"].frames))
        /\ file["history"].frames = SubSeq(q.history, 1, Len(file["history"].frames))
    BY <2>1, <2>2, <2>3, <2>4, BeginsFacts DEF RunOK
  <2> QED
    BY <2>4, <2>5 DEF Begins
<1> QED
  BY <1>1, InitRuns, RunsKept, PipelineInvariant, PTL DEF Spec
-----------------------------------------------------------------------------
LEMMA LapsesKept == IInv /\ RunsInv /\ LapseInv /\ [Next]_vars => LapseInv'
<1> SUFFICES ASSUME IInv, RunsInv, LapseInv, [Next]_vars PROVE LapseInv'
  OBVIOUS
<1>0. /\ lapses \in Nat /\ DOMAIN file = Output /\ DOMAIN durable = Output /\ cur \in Output
      /\ IsSequence(hb) /\ IsSequence(file["history"].frames)
  BY PipelineAssumption DEF IInv, TypeOK, Output, IsContents
\* What the first lapse, if it leaves the files alone, makes of them.
<1>1. lapses = 0 => HistorySettled \/ RecordsSettled
  <2> SUFFICES ASSUME lapses = 0 PROVE HistorySettled \/ RecordsSettled
    OBVIOUS
  <2>1. CASE ~Writing \/ cur = "records"
    BY <2>1 DEF LapseInv
  <2>2. CASE Writing /\ cur = "history"
    <3>1. /\ durable["records"] = Whole(rb) /\ file["records"] = Whole(rb)
          /\ [records |-> rb, history |-> hb] \in produced
      BY <2>2 DEF IInv, DiskInv, SyncedFirst, RunsInv
    <3>2. \/ HistorySettled
          \/ Begins(file["history"].frames, hb)
      BY <2>2 DEF LapseInv, HistorySettled
    <3> QED
      BY <3>1, <3>2 DEF RecordsSettled
  <2>3. CASE Writing /\ cur = "manifest"
    <3>1. /\ durable["history"] = Whole(hb) /\ file["history"] = Whole(hb)
          /\ [records |-> rb, history |-> hb] \in produced
      BY <2>3 DEF IInv, DiskInv, SyncedFirst, RunsInv
    <3> QED
      BY <3>1 DEF HistorySettled, WholeHistory
  <2> QED
    BY <1>0, <2>1, <2>2, <2>3 DEF Output
<1>3. CASE Start \/ Ingest \/ Record \/ WriteDone \/ FailEarly \/ UNCHANGED vars
  <2>1. /\ UNCHANGED <<lapses, produced, file, durable>>
        /\ Writing' <=> Writing
        /\ Writing => cur' = cur /\ hb' = hb
    BY <1>3 DEF Start, Ingest, Record, WriteDone, FailEarly, Writing, disk, audit, locals, vars
  <2> QED
    BY <2>1 DEF LapseInv, HistorySettled, RecordsSettled, WholeHistory
<1>4. CASE FailWriting \/ Exit \/ Kill
  <2>1. UNCHANGED <<produced, file, durable>> /\ ~Writing'
    BY <1>4 DEF FailWriting, Exit, Kill, Gone, Writing, disk, audit
  <2>2. lapses' = IF Writing THEN lapses + 1 ELSE lapses
    BY <1>4 DEF FailWriting, Exit, Kill, Writing, audit
  <2>3. HistorySettled \/ RecordsSettled => (HistorySettled \/ RecordsSettled)'
    BY <2>1 DEF HistorySettled, RecordsSettled, WholeHistory
  <2>4. HistorySettled => HistorySettled'
    BY <2>1 DEF HistorySettled, WholeHistory
  <2> QED
    BY <1>0, <1>1, <2>1, <2>2, <2>3, <2>4 DEF LapseInv
<1>5. CASE EndLoop
  <2>1. /\ produced \subseteq produced' /\ UNCHANGED <<lapses, file, durable>>
        /\ pc' = "open" /\ cur' = "records" /\ pc = "loop"
    BY <1>5 DEF EndLoop, disk
  <2> QED
    BY <2>1 DEF LapseInv, HistorySettled, WholeHistory, Writing
<1>6. CASE OpenTruncate \/ WriteSome
  <2>1. /\ Writing /\ Writing' /\ UNCHANGED <<lapses, produced, durable, cur, hb>>
        /\ \A f \in Output : f # cur => file'[f] = file[f]
    BY <1>0, <1>6 DEF OpenTruncate, WriteSome, Writing, audit, locals
  <2>2. cur = "history" => pc' = "write"
    BY <1>6 DEF OpenTruncate, WriteSome
  <2>3. cur = "history" => Begins(file'["history"].frames, hb')
    BY <2>1, <2>2, RunsKept DEF RunsInv
  <2> QED
    BY <2>1, <2>3 DEF LapseInv, HistorySettled, WholeHistory, Output
<1>7. CASE Sync
  <2>1. /\ pc = "sync" /\ pc' = "open" /\ UNCHANGED <<hb, file, produced, lapses>>
        /\ durable' = [durable EXCEPT ![cur] = file[cur]]
        /\ cur' = IF cur = "records" THEN "history" ELSE "manifest"
    BY <1>7 DEF Sync, locals, audit
  <2>2. cur = "records" => durable'["history"] = durable["history"]
    BY <1>0, <2>1 DEF Output
  <2> QED
    BY <2>1, <2>2 DEF LapseInv, HistorySettled, WholeHistory, Writing
<1>8. CASE CloseFails
  <2>1. /\ pc = "sync" /\ pc' = "fail" /\ UNCHANGED <<hb, file, produced>> /\ lapses' = lapses + 1
        /\ durable' = [durable EXCEPT ![cur] = file[cur]] /\ file[cur] = Whole(Buffer(cur))
        /\ cur \in {"records", "history"}
    BY <1>8 DEF CloseFails, locals, IInv, DiskInv
  <2>2. \A f \in Output : durable'[f] = IF f = cur THEN file[f] ELSE durable[f]
    BY <1>0, <2>1
  <2>3. HistorySettled \/ RecordsSettled => (HistorySettled \/ RecordsSettled)'
    BY <2>1, <2>2 DEF HistorySettled, RecordsSettled, WholeHistory, Output
  <2> QED
    BY <1>0, <1>1, <2>1, <2>3 DEF LapseInv, Writing
<1>9. CASE PrintLine
  <2>1. /\ UNCHANGED <<lapses, produced, durable, hb, cur>> /\ cur = "manifest" /\ Writing /\ Writing'
    BY <1>9 DEF PrintLine, Writing, audit, IInv, DiskInv
  <2> QED
    BY <2>1 DEF LapseInv
<1>10. CASE Pass
  <2>1. /\ pc = "print" /\ cur = "manifest" /\ pc' = "pass" /\ lapses' = 0
        /\ UNCHANGED <<produced, durable, hb, cur>> /\ file'["history"] = file["history"]
    BY <1>0, <1>10 DEF Pass, locals, disk, IInv, DiskInv
  <2>2. /\ durable["history"] = Whole(hb) /\ file["history"] = Whole(hb)
        /\ [records |-> rb, history |-> hb] \in produced
    BY <2>1 DEF IInv, DiskInv, SyncedFirst, RunsInv, Writing
  <2>3. HistorySettled'
    BY <2>1, <2>2 DEF HistorySettled, WholeHistory
  <2> QED
    BY <2>1, <2>3 DEF LapseInv, Writing
<1>11. CASE PowerLoss
  <2>1. /\ file'["history"] \in Surviving("history") /\ file'["records"] \in Surviving("records")
        /\ durable' = file' /\ pc' = "idle" /\ UNCHANGED produced
        /\ lapses' = IF Writing \/ Unsynced THEN lapses + 1 ELSE lapses
    BY <1>11 DEF PowerLoss, Gone, Output
  <2>2. \A f \in Output : durable[f] = file[f] => Surviving(f) \subseteq {file[f], Missing}
    BY DEF Surviving
  <2>3. HistorySettled => HistorySettled'
    BY <2>1, <2>2 DEF HistorySettled, WholeHistory, Output
  <2>4. CASE ~Writing /\ ~Unsynced
    <3>1. /\ file'["history"] \in {file["history"], Missing}
          /\ file'["records"] \in {file["records"], Missing}
      BY <2>1, <2>2, <2>4 DEF Unsynced, Output
    <3>2. RecordsSettled => (HistorySettled \/ RecordsSettled)'
      BY <2>1, <3>1 DEF HistorySettled, WholeHistory, RecordsSettled
    <3> QED
      BY <2>1, <2>3, <2>4, <3>2 DEF LapseInv, Writing
  <2>5. CASE lapses = 0 /\ Writing /\ cur = "history" /\ ~HistorySettled
    <3>1. /\ durable["records"] = Whole(rb) /\ file["records"] = Whole(rb)
          /\ [records |-> rb, history |-> hb] \in produced
      BY <2>5 DEF IInv, DiskInv, SyncedFirst, RunsInv
    <3>2. WholeHistory(durable["history"]) /\ Begins(file["history"].frames, hb)
      BY <2>5 DEF LapseInv, HistorySettled
    <3>3. file'["history"] \in {durable["history"], Missing} => HistorySettled'
      BY <2>1, <3>2 DEF HistorySettled, WholeHistory
    <3>4. ASSUME file'["history"] \notin {durable["history"], Missing} PROVE RecordsSettled'
      <4>1. Begins(file'["history"].frames, hb)
        <5>1. \A n \in 0 .. Len(file["history"].frames) : Begins(SubSeq(file["history"].frames, 1, n), hb)
          BY <1>0, <3>2, BeginsFacts
        <5>2. \A n \in 0 .. Len(file["history"].frames) - 1 : n \in 0 .. Len(file["history"].frames)
          BY <1>0, SequenceFacts
        <5>3. CASE file'["history"] = file["history"]
          BY <3>2, <5>3
        <5>4. CASE file'["history"] # file["history"]
          <6>1. PICK n \in 0 .. Len(file["history"].frames) :
                   \/ file'["history"] = Whole(SubSeq(file["history"].frames, 1, n))
                   \/ file'["history"] = Partial(SubSeq(file["history"].frames, 1, n))
            BY <2>1, <3>4, <5>2, <5>4 DEF Surviving
          <6> QED
            BY <5>1, <6>1, WholePartial
        <5> QED
          BY <5>3, <5>4
      <4>2. file'["records"] \in {Whole(rb), Missing}
        BY <2>1, <2>2, <3>1 DEF Output
      <4> QED
        BY <2>1, <3>1, <4>1, <4>2 DEF RecordsSettled
    <3>5. (HistorySettled \/ RecordsSettled)'
      BY <3>3, <3>4
    <3> QED
      BY <2>1, <2>5, <3>5 DEF LapseInv, Writing
  <2>6. CASE lapses = 0 /\ Writing /\ (cur # "history" \/ HistorySettled)
    <3>1. HistorySettled
      <4>1. cur = "manifest" => HistorySettled
        BY <2>6 DEF IInv, DiskInv, SyncedFirst, RunsInv, HistorySettled, WholeHistory
      <4> QED
        BY <1>0, <2>6, <4>1 DEF LapseInv, Output
    <3> QED
      BY <2>1, <2>3, <2>6, <3>1 DEF LapseInv, Writing
  <2>7. CASE lapses = 0 /\ ~Writing
    BY <2>4, <2>7 DEF IInv, DiskInv, Unsynced
  <2>8. CASE lapses # 0 /\ (Writing \/ Unsynced)
    BY <1>0, <2>1, <2>8 DEF LapseInv, Writing
  <2> QED
    BY <2>4, <2>5, <2>6, <2>7, <2>8
<1> QED
  BY <1>3, <1>4, <1>5, <1>6, <1>7, <1>8, <1>9, <1>10, <1>11 DEF Next, Advance, Lapse
LEMMA BeginsAll ==
  ASSUME NEW s, NEW t, IsSequence(s), IsSequence(t), Begins(s, t), Len(s) = Len(t)
  PROVE  s = t
BY SequencesEqual DEF IsSequence, Begins

(* Unless two lapses came together, what the verifier accepts while no run *)
(* writes is all of one run.                                               *)
THEOREM PipelineWholeRun == Spec => []AcceptedIsWholeRun
<1>1. IInv /\ RunsInv /\ LapseInv => AcceptedIsWholeRun
  <2> DEFINE rf == file["records"]
             hf == file["history"]
  <2> SUFFICES ASSUME IInv, RunsInv, LapseInv, lapses <= 1, ~Writing,
                      NEW g \in Garbage, Accepts(rf, hf, g)
               PROVE  [records |-> rf.frames, history |-> hf.frames] \in produced
    BY DEF AcceptedIsWholeRun, Accepted
  <2>1. /\ lapses \in Nat /\ IsContents(rf) /\ IsContents(hf)
        /\ IsSequence(rf.frames) /\ IsSequence(hf.frames)
    BY PipelineAssumption DEF IInv, TypeOK, Output, IsContents
  <2>2. rf.exists /\ hf.exists /\ Len(rf.frames) = Len(hf.frames)
    BY DEF Accepts
  <2>3. HistorySettled \/ RecordsSettled
    BY <2>1 DEF LapseInv
  <2>4. ASSUME NEW q \in produced, Begins(hf.frames, q.history),
               hf.frames = q.history \/ rf.frames = q.records
        PROVE  [records |-> rf.frames, history |-> hf.frames] \in produced
    <3>1. RunOK(q)
      BY DEF RunsInv
    <3>2. Begins(rf.frames, q.records)
      BY <2>1, <2>4, <3>1, AcceptedMatches
    <3>3. Len(rf.frames) = Len(q.records) /\ Len(hf.frames) = Len(q.history)
      BY <2>2, <2>4, <3>1 DEF RunOK
    <3>4. rf.frames = q.records /\ hf.frames = q.history
      BY <2>1, <2>4, <3>1, <3>2, <3>3, BeginsAll DEF RunOK
    <3> QED
      BY <3>1, <3>4 DEF RunOK
  <2>5. CASE HistorySettled
    <3>1. PICK q \in produced : hf = Whole(q.history)
      BY <2>2, <2>5 DEF HistorySettled, WholeHistory, Missing
    <3>2. hf.frames = q.history /\ Begins(hf.frames, q.history)
      BY <2>1, <3>1, WholePartial, SequenceFacts DEF Begins
    <3> QED
      BY <2>4, <3>2
  <2>6. CASE RecordsSettled
    BY <2>2, <2>4, <2>6, WholePartial DEF RecordsSettled, Missing
  <2> QED
    BY <2>3, <2>5, <2>6
<1> QED
  BY <1>1, InitRuns, RunsKept, LapsesKept, PipelineInvariant, PTL DEF Spec
-----------------------------------------------------------------------------
\* The manifest is about the objects of the run that prints it: what the lines
\* hold is of the first objects of the run, one by one.
Describes(lines) ==
  \A n \in DOMAIN lines : \A x \in DOMAIN lines[n] :
    lines[n][x] = Line(rb[n].prefix.path, hb[n])[x]

\* Each record carries its observation's path.
PathsInv == \A n \in 1 .. Len(rb) : rb[n].prefix.path = obs[n].path

ManifestInv ==
  /\ PathsInv
  /\ pc = "print" => Len(file["manifest"].frames) = i /\ Describes(file["manifest"].frames)
  /\ ManifestDescribesRun

LEMMA PathsKept == IInv /\ PathsInv /\ [Next]_vars => PathsInv'
<1> SUFFICES ASSUME IInv, PathsInv, [Next]_vars PROVE PathsInv'
  OBVIOUS
<1>1. CASE Record
  <2>1. PICK raw : raw = RecordBytes(root_id, obs[i + 1]) /\ rb' = Append(rb, raw)
    BY <1>1 DEF Record
  <2>2. obs' = obs /\ i = Len(rb) /\ IsSequence(rb) /\ Len(rb) \in Nat
    BY <1>1, SequenceFacts DEF Record, IInv, TypeOK, LocalsInv
  <2>3. /\ Len(rb') = i + 1 /\ rb'[i + 1] = raw
        /\ \A n \in 1 .. i : rb'[n] = rb[n]
    BY <2>1, <2>2, AppendFacts
  <2>4. raw.prefix.path = obs[i + 1].path
    BY <2>1 DEF RecordBytes, SerializeRecord, SerializePrefix, Fill
  <2>5. \A n \in 1 .. i + 1 : n = i + 1 \/ n \in 1 .. i
    BY <2>2
  <2> QED
    BY <2>2, <2>3, <2>4, <2>5 DEF PathsInv
<1>2. CASE Ingest
  <2>1. rb' = <<>>
    BY <1>2 DEF Ingest, IInv, LocalsInv
  <2> QED
    BY <2>1, EmptySequence DEF PathsInv
<1>3. CASE Gone
  BY <1>3, EmptySequence DEF PathsInv, Gone
<1>4. CASE UNCHANGED <<rb, obs>>
  BY <1>4 DEF PathsInv
<1> QED
  BY <1>1, <1>2, <1>3, <1>4
     DEF Next, Advance, Lapse, Start, EndLoop, OpenTruncate, WriteSome, WriteDone, Sync, PrintLine,
         Pass, Exit, FailEarly, FailWriting, CloseFails, Kill, PowerLoss, vars, locals

\* What is left of the line of the next object is of its record and its entry.
LEMMA PrintLineKeeps ==
  ASSUME IInv, PathsInv, PrintLine,
         Len(file["manifest"].frames) = i, Describes(file["manifest"].frames)
  PROVE  Len(file'["manifest"].frames) = i' /\ Describes(file["manifest"].frames)'
<1> DEFINE lines == file["manifest"].frames
           left(lost) == [x \in {"path", "rest"} \ lost |-> ManifestLine(i + 1)[x]]
<1>1. /\ IsSequence(lines) /\ DOMAIN file = Output /\ "manifest" \in Output
      /\ Len(obs) \in Nat /\ i \in Nat
  BY SequenceFacts DEF IInv, TypeOK, Output, IsContents
<1>2. PICK lost \in SUBSET Losable :
        file' = [file EXCEPT !["manifest"] = Whole(Append(@.frames, left(lost)))]
  BY DEF PrintLine
<1>3. file'["manifest"].frames = Append(lines, left(lost))
  BY <1>1, <1>2, WholePartial
<1>4. /\ pc = "print" /\ i < Len(obs) /\ i' = i + 1 /\ UNCHANGED <<rb, hb>>
  BY DEF PrintLine
<1>5. obs[i + 1].path = rb[i + 1].prefix.path
  BY <1>1, <1>4 DEF IInv, LocalsInv, Writing, PathsInv
<1>6. \A x \in DOMAIN left(lost) : left(lost)[x] = Line(rb[i + 1].prefix.path, hb[i + 1])[x]
  BY <1>5 DEF ManifestLine
<1> HIDE DEF left
<1>7. /\ IsSequence(Append(lines, left(lost))) /\ Len(Append(lines, left(lost))) = i + 1
      /\ Append(lines, left(lost))[i + 1] = left(lost)
      /\ \A n \in 1 .. i : Append(lines, left(lost))[n] = lines[n]
  BY <1>1, AppendFacts
<1>8. DOMAIN Append(lines, left(lost)) = 1 .. i + 1 /\ DOMAIN lines = 1 .. i
  BY <1>1, <1>7, SequenceFacts
<1>9. ASSUME NEW n \in 1 .. i + 1, NEW x \in DOMAIN Append(lines, left(lost))[n]
      PROVE  Append(lines, left(lost))[n][x] = Line(rb[n].prefix.path, hb[n])[x]
  <2>1. CASE n = i + 1
    BY <1>6, <1>7, <1>9, <2>1
  <2>2. CASE n # i + 1
    <3>1. n \in 1 .. i
      BY <1>1, <1>9, <2>2
    <3> QED
      BY <1>7, <1>8, <1>9, <3>1 DEF Describes
  <2> QED
    BY <2>1, <2>2
<1> QED
  BY <1>3, <1>4, <1>7, <1>8, <1>9 DEF Describes

LEMMA ManifestKept == IInv /\ ManifestInv /\ [Next]_vars => ManifestInv'
<1> SUFFICES ASSUME IInv, ManifestInv, [Next]_vars PROVE ManifestInv'
  OBVIOUS
<1>0. PathsInv' /\ lapses \in Nat /\ DOMAIN file = Output /\ "manifest" \in Output
  BY PathsKept, PipelineAssumption DEF ManifestInv, IInv, TypeOK, Output
\* Only Pass leads from the write phase to where nothing has lapsed.
<1>1. CASE Start \/ Ingest \/ Record \/ FailEarly \/ UNCHANGED vars \/ Exit
           \/ (Kill /\ ~Writing)
  <2>1. /\ UNCHANGED <<lapses, file, durable>> /\ (~Writing' => ~Writing)
        /\ pc' = "pass" => pc = "pass"
        /\ pc' = "print" => pc = "print" /\ UNCHANGED <<i, rb, hb>>
    BY <1>0, <1>1 DEF Start, Ingest, Record, FailEarly, Exit, Kill, Gone, Writing, disk, audit, locals, vars
  <2>2. ManifestDescribesRun'
    BY <2>1 DEF ManifestInv, ManifestDescribesRun
  <2> QED
    BY <1>0, <2>1, <2>2 DEF ManifestInv, Describes
<1>2. CASE EndLoop \/ WriteSome \/ WriteDone \/ Sync
  <2>1. Writing' /\ pc' # "print"
    BY <1>2 DEF EndLoop, WriteSome, WriteDone, Sync, Writing
  <2> QED
    BY <1>0, <2>1 DEF ManifestInv, ManifestDescribesRun
<1>3. CASE FailWriting \/ CloseFails \/ (Kill /\ Writing)
  <2>1. lapses' # 0 /\ pc' # "print"
    BY <1>0, <1>3 DEF FailWriting, CloseFails, Kill, Gone
  <2> QED
    BY <1>0, <2>1 DEF ManifestInv, ManifestDescribesRun
<1>4. CASE PowerLoss
  <2>1. pc' = "idle" /\ durable' = file'
    BY <1>4 DEF PowerLoss, Gone
  <2> QED
    BY <1>0, <2>1 DEF ManifestInv, ManifestDescribesRun
<1>5. CASE OpenTruncate
  <2>1. Writing' /\ (pc' = "print" => i' = 0 /\ file'["manifest"].frames = <<>>)
    BY <1>0, <1>5, WholePartial DEF OpenTruncate, Writing
  <2> QED
    BY <1>0, <2>1, EmptySequence DEF ManifestInv, ManifestDescribesRun, Describes
<1>6. CASE PrintLine
  <2>1. pc = "print" /\ Writing'
    BY <1>6 DEF PrintLine, Writing
  <2>2. Len(file'["manifest"].frames) = i' /\ Describes(file["manifest"].frames)'
    BY <1>6, <2>1, PrintLineKeeps DEF ManifestInv
  <2> QED
    BY <1>0, <2>1, <2>2 DEF ManifestInv, ManifestDescribesRun
<1>7. CASE Pass
  <2>1. pc = "print" /\ i = Len(obs) /\ pc' = "pass" /\ UNCHANGED <<rb, hb, file>>
    BY <1>7 DEF Pass, locals, disk
  <2>2. /\ file["records"].frames = rb /\ file["history"].frames = hb
        /\ Len(hb) = Len(obs)
    BY <2>1, WholePartial DEF IInv, TypeOK, DiskInv, SyncedFirst, LocalsInv, Writing
  <2>3. Len(file["manifest"].frames) = Len(obs) /\ Describes(file["manifest"].frames)
    BY <2>1 DEF ManifestInv
  <2>4. ManifestDescribesRun'
    BY <2>1, <2>2, <2>3 DEF ManifestDescribesRun, Describes
  <2> QED
    BY <1>0, <2>1, <2>4 DEF ManifestInv
<1> QED
  BY <1>1, <1>2, <1>3, <1>4, <1>5, <1>6, <1>7 DEF Next, Advance, Lapse

(* The manifest of a successful run that was the last to write holds what  *)
(* is left of the lines of that run's objects, in their order, although no *)
(* result of fprintf is looked at.                                         *)
THEOREM ManifestFaithful == Spec => []ManifestDescribesRun
<1>1. Init => ManifestInv
  BY EmptySequence DEF Init, ManifestInv, PathsInv, ManifestDescribesRun
<1>2. ManifestInv => ManifestDescribesRun
  BY DEF ManifestInv
<1> QED
  BY <1>1, <1>2, ManifestKept, PipelineInvariant, PTL DEF Spec
-----------------------------------------------------------------------------
(* With a verifier beside it the pipeline program is still the program of  *)
(* Pipeline.tla, so that what is proved there holds here.                  *)
THEOREM LiveIsPipeline == LiveSpec => Spec
<1>1. LiveInit => Init
  BY DEF LiveInit
<1>2. [LiveNext]_live => [Next]_vars
  BY DEF LiveNext, Run, Others, Power, StartVerifier, Verify, LeaveVerifier, live, Next, Lapse
<1> QED
  BY <1>1, <1>2, PTL DEF LiveSpec, Spec
-----------------------------------------------------------------------------
BothThere == file["records"].exists /\ file["history"].exists

\* After a PASS, until a run writes again, the verifier would pass if both files
\* are there.
PassedInv ==
  lapses = 0 /\ ~Writing /\ produced # {} /\ BothThere =>
    \A g \in Garbage : Accepts(file["records"], file["history"], g)

LEMMA PassedKept == IInv /\ PassedInv /\ [Next]_vars => PassedInv'
<1> SUFFICES ASSUME IInv, PassedInv, [Next]_vars, lapses' = 0, ~Writing', produced' # {}, BothThere'
             PROVE  (\A g \in Garbage : Accepts(file["records"], file["history"], g))'
  BY DEF PassedInv
<1>0. lapses \in Nat
  BY PipelineAssumption DEF IInv, TypeOK
<1>1. CASE Pass
  <2>1. IInv'
    BY <1>1, DiskStepKeeps
  <2>2. PassMeansVerified' /\ pc' = "pass"
    <3>1. IInv' => PassMeansVerified'
      BY IInvPass, PTL
    <3> QED
      BY <1>1, <2>1, <3>1 DEF Pass
  <2> QED
    BY <2>2 DEF PassMeansVerified
<1>2. CASE ~Pass
  <2>1. /\ lapses = 0 /\ ~Writing /\ produced # {}
        /\ file'["records"] = file["records"] /\ file'["history"] = file["history"]
    <3>1. CASE PowerLoss
      <4>1. ~Writing /\ ~Unsynced /\ lapses = 0
        BY <1>0, <3>1 DEF PowerLoss
      <4>2. /\ Surviving("records") \subseteq {file["records"], Missing}
            /\ Surviving("history") \subseteq {file["history"], Missing}
        <5>1. \A f \in Output : durable[f] = file[f] => Surviving(f) \subseteq {file[f], Missing}
          BY DEF Surviving
        <5> QED
          BY <4>1, <5>1 DEF Unsynced, Output
      <4>3. file'["records"] \in Surviving("records") /\ file'["history"] \in Surviving("history")
        BY <3>1 DEF PowerLoss, Output
      <4>4. file'["records"] # Missing /\ file'["history"] # Missing
        BY DEF BothThere, Missing
      <4> QED
        BY <3>1, <4>1, <4>2, <4>3, <4>4 DEF PowerLoss
    <3>2. CASE ~PowerLoss
      BY <1>0, <1>2, <3>2
         DEF Next, Advance, Lapse, Start, Ingest, Record, EndLoop, OpenTruncate, WriteSome, WriteDone,
             Sync, PrintLine, Exit, FailEarly, FailWriting, CloseFails, Kill, Gone, Writing,
             vars, locals, disk, audit
    <3> QED
      BY <3>1, <3>2
  <2> QED
    BY <2>1 DEF PassedInv, BothThere
<1> QED
  BY <1>1, <1>2

LEMMA PassedAlways == Spec => []PassedInv
<1>1. Init => PassedInv
  BY DEF Init, PassedInv
<1> QED
  BY <1>1, PassedKept, PipelineInvariant, PTL DEF Spec
-----------------------------------------------------------------------------
\* The verifier's buffers, and how far it has got.
LInv ==
  /\ vpc \in {"idle", "read", "PASS", "FAIL"} /\ reading \in {"records", "history"}
  /\ size \in Nat
  /\ DOMAIN got = {"records", "history"}
  /\ \A f \in {"records", "history"} : IsContents(got[f]) /\ got[f].exists
  /\ vpc # "read" => got = Unread
  /\ vpc = "read" => have <= size /\ (got[reading].torn => have = size)
  /\ vpc = "read" /\ reading = "records" => got["history"] = Whole(<<>>)

LEMMA UnreadFacts ==
  /\ DOMAIN Unread = {"records", "history"}
  /\ \A f \in {"records", "history"} : Unread[f] = Whole(<<>>)
BY DEF Unread

LEMMA SizeFacts ==
  ASSUME NEW s, IsSequence(s)
  PROVE  /\ SizeNow(Whole(s)) = 2 * Len(s) /\ SizeNow(Partial(s)) = 2 * Len(s) + 1
         /\ Len(s) \in Nat
<1>1. Len(s) \in Nat
  BY SequenceFacts
<1>2. SizeNow(Whole(s)) = 2 * Len(s)
  BY <1>1 DEF SizeNow, Whole
<1>3. SizeNow(Partial(s)) = 2 * Len(s) + 1
  BY <1>1 DEF SizeNow, Partial
<1> QED
  BY <1>1, <1>2, <1>3

LEMMA ContentsSize ==
  ASSUME NEW c, IsContents(c)
  PROVE  /\ SizeNow(c) \in Nat /\ IsSequence(c.frames) /\ Len(c.frames) \in Nat
         /\ ~c.torn => SizeNow(c) = 2 * Len(c.frames)
<1>1. IsSequence(c.frames) /\ Len(c.frames) \in Nat
  BY SequenceFacts DEF IsContents
<1>2. CASE c.torn
  <2>1. SizeNow(c) = 2 * Len(c.frames) + 1
    BY <1>2 DEF SizeNow
  <2> QED
    BY <1>1, <1>2, <2>1
<1>3. CASE ~c.torn
  <2>1. SizeNow(c) = 2 * Len(c.frames) + 0
    BY <1>3 DEF SizeNow
  <2> QED
    BY <1>1, <2>1
<1> QED
  BY <1>2, <1>3

\* What one read adds to a buffer that is not full.
LEMMA ReadFacts ==
  ASSUME LInv, ReadFrame
  PROVE  /\ vpc = "read" /\ UNCHANGED <<vpc, reading, size>>
         /\ DOMAIN got' = DOMAIN got
         /\ \A f \in {"records", "history"} : f # reading => got'[f] = got[f]
         /\ ~got[reading].torn /\ have = 2 * Len(got[reading].frames)
         /\ IsContents(got'[reading]) /\ got'[reading].exists
         /\ have' = upto /\ upto <= size
         /\ got'[reading].torn => upto = size
         /\ upto = have + 2 =>
              got'[reading] = Whole(Append(got[reading].frames,
                                file[reading].frames[Len(got[reading].frames) + 1]))
<1> DEFINE c == got[reading]
           e == file[reading].frames[Len(c.frames) + 1]
           d == IF upto = have + 2 THEN Whole(Append(c.frames, e)) ELSE Partial(c.frames)
<1>1. /\ vpc = "read" /\ have < size /\ UNCHANGED <<vpc, reading, size>>
      /\ got' = [got EXCEPT ![reading] = d]
  BY DEF ReadFrame
<1>2. reading \in DOMAIN got /\ IsContents(c) /\ size \in Nat
  BY DEF LInv
<1>3. ~c.torn
  <2>1. c.torn => have = size
    BY <1>1 DEF LInv
  <2>2. have \in Nat
    BY <1>2, ContentsSize DEF have
  <2> QED
    BY <1>1, <1>2, <2>1, <2>2
<1>4. /\ have = 2 * Len(c.frames) /\ Len(c.frames) \in Nat
      /\ IsSequence(c.frames)
  BY <1>2, <1>3, ContentsSize DEF have
<1>5. IsContents(d) /\ d.exists
  BY <1>4, AppendFacts, ContentsFacts, WholePartial
<1>6. /\ upto = have + 2 => SizeNow(d) = have + 2 /\ ~d.torn /\ have + 2 <= size
      /\ upto # have + 2 => SizeNow(d) = have + 1 /\ upto = size /\ size = have + 1
  <2>1. upto = have + 2 => have + 2 <= size
    BY <1>1, <1>2, <1>4 DEF upto
  <2>2. upto # have + 2 => upto = size /\ size = have + 1
    BY <1>1, <1>2, <1>4 DEF upto
  <2>3. upto = have + 2 => SizeNow(d) = have + 2 /\ ~d.torn
    <3>1. IsSequence(Append(c.frames, e)) /\ Len(Append(c.frames, e)) = Len(c.frames) + 1
      BY <1>4, AppendFacts
    <3>2. SizeNow(Whole(Append(c.frames, e))) = 2 * (Len(c.frames) + 1)
      BY <3>1, SizeFacts
    <3> QED
      BY <1>4, <3>2, WholePartial
  <2>4. upto # have + 2 => SizeNow(d) = have + 1
    BY <1>4, SizeFacts
  <2> QED
    BY <2>1, <2>2, <2>3, <2>4
<1> HIDE DEF d
<1>7. /\ got'[reading] = d /\ DOMAIN got' = DOMAIN got
      /\ \A f \in {"records", "history"} : f # reading => got'[f] = got[f]
  BY <1>1, <1>2 DEF LInv
<1>8. have' = SizeNow(d)
  BY <1>1, <1>7 DEF have, SizeNow
<1>9. have' = upto /\ upto <= size /\ (d.torn => upto = size)
  BY <1>2, <1>4, <1>6, <1>8
<1> QED
  BY <1>1, <1>3, <1>4, <1>5, <1>7, <1>9 DEF d

LEMMA LInvInit == LiveInit => LInv
<1> SUFFICES ASSUME LiveInit PROVE LInv
  OBVIOUS
<1>1. IsContents(Whole(<<>>)) /\ Whole(<<>>).exists
  BY EmptySequence, ContentsFacts, WholePartial
<1> QED
  BY <1>1, UnreadFacts DEF LiveInit, LInv

LEMMA LInvKept == IInv /\ LInv /\ [LiveNext]_live => LInv'
<1> SUFFICES ASSUME IInv, LInv, [LiveNext]_live PROVE LInv'
  OBVIOUS
<1>1. ASSUME NEW how \in {"idle", "PASS", "FAIL"}, Ends(how)
      PROVE  LInv'
  <2>1. IsContents(Whole(<<>>)) /\ Whole(<<>>).exists
    BY EmptySequence, ContentsFacts, WholePartial
  <2>2. got' = Unread /\ vpc' = how /\ reading' = "records" /\ size' = 0
    BY <1>1 DEF Ends
  <2>3. (got = Unread)'
    BY <2>2 DEF Unread
  <2> QED
    BY <2>1, <2>2, <2>3, UnreadFacts DEF LInv, IsContents
<1>2. ASSUME NEW f \in {"records", "history"}, OpenFile(f), got[f] = Whole(<<>>),
             f = "records" => got["history"] = Whole(<<>>)
      PROVE  LInv'
  <2>1. CASE ~file[f].exists
    BY <1>1, <1>2, <2>1 DEF OpenFile
  <2>2. CASE file[f].exists
    <3>1. vpc' = "read" /\ reading' = f /\ size' = SizeNow(file[f]) /\ got' = got
      BY <1>2, <2>2 DEF OpenFile
    <3>2. size' \in Nat
      BY <3>1, ContentsSize DEF IInv, TypeOK, Output
    <3>3. have' = 0 /\ ~got'[reading'].torn
      <4>1. got'[reading'] = Whole(<<>>)
        BY <1>2, <3>1
      <4>2. SizeNow(Whole(<<>>)) = 0
        BY EmptySequence, SizeFacts
      <4>3. have' = SizeNow(Whole(<<>>))
        BY <4>1 DEF have, SizeNow
      <4> QED
        BY <4>1, <4>2, <4>3, WholePartial
    <3> QED
      BY <1>2, <3>1, <3>2, <3>3 DEF LInv, IsContents
  <2> QED
    BY <2>1, <2>2
<1>3. CASE UNCHANGED verifier
  BY <1>3 DEF verifier, LInv, have, SizeNow, IsContents, Unread
<1>4. CASE Run \/ Others \/ UNCHANGED live
  BY <1>3, <1>4 DEF Run, Others, Beside, live
<1>5. CASE Power \/ LeaveVerifier
  BY <1>1, <1>5 DEF Power, LeaveVerifier
<1>6. CASE StartVerifier
  <2>1. got = Unread /\ OpenFile("records")
    BY <1>6 DEF StartVerifier, LInv
  <2> QED
    BY <1>2, <2>1, UnreadFacts
<1>7. CASE NextFile
  BY <1>2, <1>7 DEF NextFile, LInv
<1>8. CASE Judge \/ ShortRead
  BY <1>1, <1>8 DEF Judge, ShortRead
<1>9. CASE ReadFrame
  <2>1. /\ vpc' = "read" /\ reading' = reading /\ size' = size /\ size \in Nat
        /\ reading \in {"records", "history"}
        /\ DOMAIN got' = {"records", "history"}
        /\ \A f \in {"records", "history"} : IsContents(got'[f]) /\ got'[f].exists
        /\ have' <= size /\ (got'[reading].torn => have' = size)
    BY <1>9, ReadFacts DEF LInv
  <2>2. reading = "records" => got'["history"] = Whole(<<>>)
    BY <1>9, ReadFacts DEF LInv
  <2> QED
    BY <2>1, <2>2 DEF LInv, IsContents
<1> QED
  BY <1>4, <1>5, <1>6, <1>7, <1>8, <1>9 DEF LiveNext, Verify

(* The verifier reads no more than a file held when it asked, whatever     *)
(* happens to the file meanwhile.                                          *)
THEOREM LiveTypeCorrect == LiveSpec => []LiveTypeOK
<1>1. LInv => LiveTypeOK
  BY DEF LInv, LiveTypeOK
<1> QED
  BY <1>1, LInvInit, LInvKept, LiveIsPipeline, PipelineInvariant, PTL DEF LiveSpec
-----------------------------------------------------------------------------
\* A quiet verifier has the beginning of the file it reads, and all of the one
\* it has read.
QInv ==
  /\ quiet \in BOOLEAN
  /\ quiet => lapses = 0 /\ ~Writing /\ produced # {} /\ BothThere
  /\ quiet /\ vpc = "read" =>
       /\ size = SizeNow(file[reading])
       /\ Begins(got[reading].frames, file[reading].frames)
       /\ ~got[reading].torn
       /\ reading = "history" => got["records"] = file["records"]

\* What a quiet verifier finds.
LEMMA QuietFiles ==
  ASSUME IInv, PassedInv, QInv, quiet
  PROVE  /\ \A g \in Garbage : Accepts(file["records"], file["history"], g)
         /\ \A f \in {"records", "history"} :
              /\ file[f].exists /\ ~file[f].torn /\ IsContents(file[f])
              /\ IsSequence(file[f].frames) /\ Len(file[f].frames) \in Nat
              /\ SizeNow(file[f]) = 2 * Len(file[f].frames)
<1>1. \A g \in Garbage : Accepts(file["records"], file["history"], g)
  BY DEF PassedInv, QInv
<1>2. \A f \in {"records", "history"} : file[f].exists /\ ~file[f].torn
  BY <1>1, PipelineAssumption DEF Accepts
<1>3. \A f \in {"records", "history"} : IsContents(file[f])
  BY DEF IInv, TypeOK, Output
<1> QED
  BY <1>1, <1>2, <1>3, ContentsSize

\* All that a quiet verifier has read is all of the file.
LEMMA QuietRead ==
  ASSUME IInv, LInv, PassedInv, QInv, quiet, vpc = "read", have = size
  PROVE  got[reading] = file[reading]
<1> DEFINE c == got[reading]
           d == file[reading]
<1>1. reading \in {"records", "history"} /\ IsContents(c) /\ c.exists /\ ~c.torn
  BY DEF LInv, QInv
<1>2. d.exists /\ ~d.torn /\ IsContents(d) /\ SizeNow(d) = 2 * Len(d.frames) /\ IsSequence(d.frames)
  BY <1>1, QuietFiles
<1>3. SizeNow(c) = 2 * Len(c.frames) /\ IsSequence(c.frames) /\ Len(c.frames) \in Nat
      /\ Len(d.frames) \in Nat
  BY <1>1, <1>2, ContentsSize
<1>4. SizeNow(c) = SizeNow(d) /\ Begins(c.frames, d.frames)
  BY DEF QInv, have
<1>5. c.frames = d.frames
  BY <1>2, <1>3, <1>4, BeginsAll
<1>6. c = Whole(c.frames) /\ d = Whole(d.frames)
  BY <1>1, <1>2, UntornIsWhole
<1> QED
  BY <1>5, <1>6

\* No run that leaves the verifier quiet touches the files.
LEMMA QuietRun ==
  ASSUME IInv, QInv, quiet, Run \/ Others, ~Writing'
  PROVE  lapses' = 0 /\ produced' # {} /\ file' = file
<1>1. lapses = 0 /\ ~Writing /\ produced # {} /\ lapses \in Nat
  BY PipelineAssumption DEF QInv, IInv, TypeOK
<1> QED
  BY <1>1 DEF Run, Others, Advance, Start, Ingest, Record, EndLoop, OpenTruncate, WriteSome, WriteDone,
              Sync, PrintLine, Pass, Exit, FailEarly, FailWriting, CloseFails, Kill, Gone, Writing,
              locals, disk, audit

LEMMA QInvInit == LiveInit => QInv
BY DEF LiveInit, QInv

LEMMA QInvKept == IInv /\ LInv /\ PassedInv /\ QInv /\ [LiveNext]_live => QInv'
<1> SUFFICES ASSUME IInv, LInv, PassedInv, QInv, [LiveNext]_live PROVE QInv'
  OBVIOUS
<1>1. ASSUME quiet' = FALSE PROVE QInv'
  BY <1>1 DEF QInv
<1>2. CASE Run \/ Others
  <2>1. quiet' = (quiet /\ ~Writing') /\ UNCHANGED verifier
    BY <1>2 DEF Run, Others, Beside
  <2>2. CASE ~quiet'
    BY <1>1, <2>1, <2>2
  <2>3. CASE quiet'
    <3>1. quiet /\ ~Writing'
      BY <2>1, <2>3
    <3>2. lapses' = 0 /\ produced' # {} /\ file' = file
      BY <1>2, <3>1, QuietRun
    <3> QED
      BY <2>1, <3>1, <3>2 DEF QInv, BothThere, verifier, Begins, SizeNow
  <2> QED
    BY <2>2, <2>3
<1>3. CASE Power \/ LeaveVerifier
  BY <1>1, <1>3 DEF Power, LeaveVerifier
<1>4. CASE StartVerifier
  <2>1. CASE ~quiet'
    BY <1>1, <2>1, <1>4 DEF StartVerifier
  <2>2. CASE quiet'
    <3>1. /\ OpenFile("records") /\ UNCHANGED vars /\ got["records"] = Whole(<<>>)
          /\ lapses = 0 /\ produced # {} /\ ~Writing /\ BothThere
      BY <1>4, <2>2, UnreadFacts DEF StartVerifier, BothThere, LInv
    <3>2. \A g \in Garbage : Accepts(file["records"], file["history"], g)
      BY <3>1 DEF PassedInv
    <3>3. file["records"].exists /\ IsContents(file["records"])
      BY <3>2, PipelineAssumption DEF Accepts, IInv, TypeOK, Output
    <3>4. reading' = "records" /\ size' = SizeNow(file["records"]) /\ got' = got
      BY <3>1, <3>3 DEF OpenFile
    <3>5. Begins(<<>>, file["records"].frames)
      BY <3>3, ContentsSize, EmptySequence DEF Begins
    <3>6. got'[reading'].frames = <<>> /\ ~got'[reading'].torn
      BY <3>1, <3>4, WholePartial
    <3>7. /\ lapses' = 0 /\ ~Writing' /\ produced' # {} /\ BothThere' /\ file' = file
      BY <3>1 DEF vars, disk, audit, Writing, BothThere
    <3>8. quiet' \in BOOLEAN
      BY <1>4 DEF StartVerifier
    <3> QED
      BY <3>4, <3>5, <3>6, <3>7, <3>8 DEF QInv, Begins, SizeNow
  <2> QED
    BY <2>1, <2>2
<1>5. CASE UNCHANGED live
  BY <1>5 DEF live, vars, verifier, disk, audit, QInv, BothThere, Begins, SizeNow, Writing
<1>6. CASE Verify
  <2>1. /\ UNCHANGED <<file, lapses, produced, pc>> /\ quiet' = quiet
        /\ vpc = "read"
    BY <1>6 DEF Verify, vars, disk, audit, ReadFrame, NextFile, Judge, ShortRead
  <2>2. CASE ~quiet
    BY <1>1, <2>1, <2>2 DEF QInv
  <2>3. CASE quiet /\ (Judge \/ ShortRead)
    <3>1. vpc' # "read"
      BY <2>3 DEF Judge, ShortRead, Ends
    <3> QED
      BY <2>1, <3>1 DEF QInv, BothThere, Writing
  <2>4. CASE quiet /\ NextFile
    <3>1. /\ have = size /\ reading = "records" /\ OpenFile("history") /\ file["history"].exists
      BY <2>4, QuietFiles DEF NextFile
    <3>2. got["records"] = file["records"]
      BY <2>1, <2>4, <3>1, QuietRead
    <3>3. got["history"] = Whole(<<>>)
      BY <2>1, <3>1 DEF LInv
    <3>4. vpc' = "read" /\ reading' = "history" /\ size' = SizeNow(file["history"]) /\ got' = got
      BY <3>1 DEF OpenFile
    <3>5. Begins(<<>>, file["history"].frames)
      BY <2>4, QuietFiles, EmptySequence DEF Begins
    <3>6. got'[reading'].frames = <<>> /\ ~got'[reading'].torn
      BY <3>3, <3>4, WholePartial
    <3> QED
      BY <2>1, <2>4, <3>2, <3>4, <3>5, <3>6 DEF QInv, BothThere, Begins, SizeNow, Writing
  <2>5. CASE quiet /\ ReadFrame
    <3> DEFINE c == got[reading]
               d == file[reading]
    <3>1. /\ vpc' = "read" /\ reading' = reading /\ size' = size
          /\ ~c.torn /\ have = 2 * Len(c.frames) /\ upto <= size /\ have < size
          /\ upto = have + 2 => got'[reading] = Whole(Append(c.frames, d.frames[Len(c.frames) + 1]))
          /\ \A f \in {"records", "history"} : f # reading => got'[f] = got[f]
      BY <2>5, ReadFacts DEF ReadFrame
    <3>2. /\ reading \in {"records", "history"} /\ IsContents(c)
          /\ size = SizeNow(d) /\ Begins(c.frames, d.frames)
          /\ reading = "history" => got["records"] = file["records"]
      BY <2>1, <2>5 DEF LInv, QInv
    <3>3. SizeNow(d) = 2 * Len(d.frames) /\ Len(d.frames) \in Nat /\ IsSequence(d.frames)
      BY <2>5, <3>2, QuietFiles
    <3>4. Len(c.frames) \in Nat /\ IsSequence(c.frames)
      BY <3>2, ContentsSize
    <3>5. upto = have + 2 /\ Len(c.frames) < Len(d.frames)
      BY <3>1, <3>2, <3>3, <3>4 DEF upto
    <3>6. Begins(Append(c.frames, d.frames[Len(c.frames) + 1]), d.frames)
      BY <3>2, <3>3, <3>4, <3>5, BeginsFacts
    <3>7. got'[reading].frames = Append(c.frames, d.frames[Len(c.frames) + 1]) /\ ~got'[reading].torn
      BY <3>1, <3>5, WholePartial
    <3>8. reading = "history" => got'["records"] = file["records"]
      BY <3>1, <3>2
    <3> HIDE DEF c
    <3>9. /\ Begins(got'[reading'].frames, file'[reading'].frames) /\ ~got'[reading'].torn
          /\ size' = SizeNow(file'[reading'])
          /\ reading' = "history" => got'["records"] = file'["records"]
      BY <2>1, <3>1, <3>2, <3>6, <3>7, <3>8
    <3> QED
      BY <2>1, <2>5, <3>9 DEF QInv, BothThere, Begins, SizeNow, Writing
  <2> QED
    BY <1>6, <2>2, <2>3, <2>4, <2>5 DEF Verify, QInv
<1> QED
  BY <1>2, <1>3, <1>4, <1>5, <1>6 DEF LiveNext

LEMMA QuietStep ==
  IInv /\ LInv /\ PassedInv /\ QInv /\ [LiveNext]_live => (vpc = "read" /\ vpc' = "FAIL" => ~quiet)
<1> SUFFICES ASSUME IInv, LInv, PassedInv, QInv, [LiveNext]_live, vpc = "read", vpc' = "FAIL", quiet
             PROVE  FALSE
  BY DEF QInv
<1>1. Verify
  BY DEF LiveNext, live, Run, Others, Power, Beside, verifier, StartVerifier, LeaveVerifier, Ends
<1>2. ~ReadFrame
  BY DEF ReadFrame
<1>3. ~NextFile
  BY QuietFiles DEF NextFile, OpenFile
<1>4. ~Judge
  <2> SUFFICES ASSUME Judge PROVE FALSE
    OBVIOUS
  <2>1. PICK g \in Garbage : Ends(IF Accepts(got.records, got.history, g) THEN "PASS" ELSE "FAIL")
    BY DEF Judge
  <2>2. got["history"] = file["history"] /\ got["records"] = file["records"]
    BY QuietRead DEF Judge, QInv
  <2>3. Accepts(got.records, got.history, g)
    BY <2>2, QuietFiles
  <2> QED
    BY <2>1, <2>3 DEF Ends
<1>5. ~ShortRead
  <2> SUFFICES ASSUME ShortRead PROVE FALSE
    OBVIOUS
  <2>1. have < size /\ size < upto
    BY DEF ShortRead, QInv
  <2>2. size \in Nat /\ have \in Nat
    BY ContentsSize DEF LInv, have
  <2> QED
    BY <2>1, <2>2 DEF upto
<1> QED
  BY <1>1, <1>2, <1>3, <1>4, <1>5 DEF Verify

(* After a reported PASS the verifier passes, whatever fails or is killed  *)
(* before a run begins to write again.                                     *)
THEOREM LiveQuietPasses == LiveSpec => QuietVerifierPasses
BY LInvInit, LInvKept, QInvInit, QInvKept, QuietStep, LiveIsPipeline, PipelineInvariant, PassedAlways, PTL
   DEF LiveSpec, QuietVerifierPasses
-----------------------------------------------------------------------------
\* The history a verifier has read is, entry by entry, of runs that wrote,
\* though not yet all of the same run.
GInv ==
  /\ \A k \in 1 .. Len(got["history"].frames) :
       \E q \in produced : k <= Len(q.history) /\ got["history"].frames[k] = q.history[k]
  /\ vpc = "read" /\ reading = "history" => produced # {}

LEMMA GInvInit == LiveInit => GInv
BY UnreadFacts, WholePartial, EmptySequence DEF LiveInit, GInv

LEMMA ProducedGrows == [Next]_vars => produced \subseteq produced'
BY DEF Next, Advance, Lapse, Start, Ingest, Record, EndLoop, OpenTruncate, WriteSome, WriteDone, Sync,
       PrintLine, Pass, Exit, FailEarly, FailWriting, CloseFails, Kill, PowerLoss, vars, audit

LEMMA GInvKept == IInv /\ RunsInv /\ LInv /\ GInv /\ [LiveNext]_live => GInv'
<1> SUFFICES ASSUME IInv, RunsInv, LInv, GInv, [LiveNext]_live PROVE GInv'
  OBVIOUS
<1>1. produced \subseteq produced'
  <2>1. [Next]_vars
    BY DEF LiveNext, Run, Others, Power, StartVerifier, Verify, LeaveVerifier, live, Next, Lapse
  <2> QED
    BY <2>1, ProducedGrows
<1>2. CASE UNCHANGED verifier
  BY <1>1, <1>2 DEF verifier, GInv
<1>3. ASSUME NEW how \in {"idle", "PASS", "FAIL"}, Ends(how)
      PROVE  GInv'
  <2>1. got'["history"] = Whole(<<>>) /\ vpc' # "read"
    BY <1>3, UnreadFacts DEF Ends
  <2>2. Len(got'["history"].frames) = 0
    BY <2>1, WholePartial, EmptySequence
  <2> QED
    BY <2>1, <2>2 DEF GInv
<1>4. CASE Run \/ Others \/ UNCHANGED live
  BY <1>2, <1>4 DEF Run, Others, Beside, live
<1>5. CASE Power \/ LeaveVerifier \/ (Verify /\ (Judge \/ ShortRead))
  BY <1>3, <1>5 DEF Power, LeaveVerifier, Judge, ShortRead
<1>6. CASE StartVerifier \/ (Verify /\ NextFile)
  <2>1. CASE Ends("FAIL")
    BY <1>3, <2>1
  <2>2. PICK f \in {"records", "history"} : OpenFile(f)
    BY <1>6 DEF StartVerifier, NextFile
  <2>3. CASE got' = got /\ reading' = f /\ file[f].exists
    <3>1. file["history"].exists => produced # {}
      BY DEF RunsInv, OfARun
    <3> QED
      BY <1>1, <2>3, <3>1 DEF GInv
  <2> QED
    BY <2>1, <2>2, <2>3 DEF OpenFile
<1>7. CASE Verify /\ ReadFrame
  <2> DEFINE c == got[reading]
             n == Len(c.frames)
             e == file[reading].frames[n + 1]
  <2>1. /\ vpc = "read" /\ vpc' = vpc /\ reading' = reading /\ reading \in {"records", "history"}
        /\ DOMAIN got = {"records", "history"} /\ IsContents(c)
        /\ \A f \in {"records", "history"} : f # reading => got'[f] = got[f]
        /\ have = 2 * n /\ SizeNow(file[reading]) >= upto
    BY <1>7, ReadFacts DEF LInv, ReadFrame
  <2>2. IsSequence(c.frames) /\ n \in Nat
    BY <2>1, ContentsSize
  <2>3. CASE reading = "records"
    BY <1>1, <2>1, <2>3 DEF GInv
  <2>4. CASE reading = "history" /\ upto = have + 2
    <3>1. got'["history"] = Whole(Append(c.frames, e))
      BY <1>7, <2>4, ReadFacts
    <3>2. IsContents(file["history"])
      BY DEF IInv, TypeOK, Output
    <3>3. n + 1 <= Len(file["history"].frames)
      <4>1. SizeNow(file["history"]) >= 2 * n + 2 /\ Len(file["history"].frames) \in Nat
        BY <2>1, <2>2, <2>4, <3>2, ContentsSize
      <4>2. SizeNow(file["history"]) <= 2 * Len(file["history"].frames) + 1
        BY <4>1 DEF SizeNow
      <4> QED
        <5> DEFINE L == Len(file["history"].frames)
                   z == SizeNow(file["history"])
        <5>1. L \in Nat /\ n \in Nat /\ z \in Nat /\ z >= 2 * n + 2 /\ z <= 2 * L + 1
          BY <2>2, <3>2, <4>1, <4>2, ContentsSize
        <5> HIDE DEF L, z, n
        <5>2. n + 1 <= L
          BY <5>1
        <5> QED
          BY <5>2 DEF L
    <3>4. file["history"].exists
      <4>1. file["history"] # Missing
        BY <2>2, <3>3, EmptySequence DEF Missing
      <4> QED
        BY <3>2, <4>1, WholePartial DEF IsContents
    <3>5. PICK q \in produced : Begins(file["history"].frames, q.history)
      BY <3>4 DEF RunsInv, OfARun
    <3>6. Len(q.history) \in Nat /\ Len(file["history"].frames) \in Nat
      BY <3>2, <3>5, ContentsSize, SequenceFacts DEF RunsInv, RunOK
    <3>7. n + 1 <= Len(q.history) /\ e = q.history[n + 1]
      BY <2>2, <2>4, <3>3, <3>5, <3>6, SMTT(20) DEF Begins
    <3> DEFINE a == Append(c.frames, e)
    <3>8. /\ Len(a) = n + 1 /\ a[n + 1] = e
          /\ \A k \in 1 .. n : a[k] = c.frames[k]
      BY <2>2, AppendFacts
    <3>9. got'["history"].frames = a
      BY <3>1, WholePartial
    <3> HIDE DEF a, e
    <3>10. ASSUME NEW k \in 1 .. n + 1
           PROVE  \E r \in produced : k <= Len(r.history) /\ a[k] = r.history[k]
      <4>1. CASE k = n + 1
        BY <3>7, <3>8, <4>1
      <4>2. CASE k # n + 1
        <5>1. n \in Nat /\ c = got["history"] /\ n = Len(got["history"].frames)
          BY <2>2, <2>4
        <5>2. k \in 1 .. n
          <6> HIDE DEF n
          <6> QED
            BY <4>2, <5>1
        <5>3. a[k] = got["history"].frames[k]
          BY <3>8, <5>1, <5>2, Zenon
        <5> QED
          BY <5>1, <5>2, <5>3 DEF GInv
      <4> QED
        BY <4>1, <4>2
    <3> QED
      BY <1>1, <2>1, <2>4, <3>5, <3>8, <3>9, <3>10 DEF GInv
  <2>5. CASE reading = "history" /\ upto # have + 2
    <3>1. got'["history"] = Partial(c.frames)
      BY <1>7, <2>1, <2>5 DEF ReadFrame
    <3> QED
      BY <1>1, <2>1, <2>5, <3>1, WholePartial DEF GInv
  <2> QED
    BY <2>1, <2>3, <2>4, <2>5
<1> QED
  BY <1>4, <1>5, <1>6, <1>7 DEF LiveNext, Verify
-----------------------------------------------------------------------------
\* Two entries built in the same place with the same chain hash are the same.
LEMMA SameChainSameEntry ==
  ASSUME NEW q, RunOK(q), NEW r, RunOK(r), NEW k, k \in 1 .. Len(q.history), k \in 1 .. Len(r.history),
         q.history[k].chain_hash = r.history[k].chain_hash, NEW g \in Garbage
  PROVE  q.history[k] = r.history[k] /\ q.records[k] = r.records[k]
<1> DEFINE chain(p) == IF k = 1 THEN ZeroHash ELSE p.history[k - 1].chain_hash
<1>1. ASSUME NEW p, RunOK(p), k \in 1 .. Len(p.history)
      PROVE  /\ p.history[k] = HistoryEntry(p.records[k], k - 1, chain(p), g)
             /\ p.history[k].chain_hash = ChainHash(chain(p), p.records[k])
  <2>1. p.history[k] = HistoryEntry(p.records[k], k - 1, chain(p), g)
    BY <1>1 DEF RunOK, Built
  <2> QED
    BY <2>1 DEF HistoryEntry, HistoryBuild
<1>2. ChainHash(chain(q), q.records[k]) = ChainHash(chain(r), r.records[k])
  BY <1>1
<1>3. chain(q) = chain(r) /\ q.records[k] = r.records[k]
  BY <1>2 DEF ChainHash, Sha256
<1> QED
  BY <1>1, <1>3

\* An accepted chain whose entries are of runs is all of one run's: the chain
\* hash of the last entry stands for all entries and records before it.
LEMMA ChainIsOneRun ==
  ASSUME NEW P, \A q \in P : RunOK(q), P # {}, NEW rf, NEW hf,
         NEW g \in Garbage, Accepts(rf, hf, g),
         IsSequence(rf.frames), IsSequence(hf.frames),
         \A k \in 1 .. Len(hf.frames) :
           \E q \in P : k <= Len(q.history) /\ hf.frames[k] = q.history[k]
  PROVE  \E q \in P : Begins(rf.frames, q.records) /\ Begins(hf.frames, q.history)
<1> DEFINE n == Len(hf.frames)
           R == rf.frames
           H == hf.frames
<1>1. Len(R) = n /\ n \in Nat
  BY SequenceFacts DEF Accepts
<1>2. ASSUME NEW k \in 1 .. n
      PROVE  /\ H[k].previous_chain_hash = IF k = 1 THEN ZeroHash ELSE H[k - 1].chain_hash
             /\ H[k].chain_hash = ChainHash(H[k].previous_chain_hash, R[k])
  BY <1>1, <1>2 DEF Accepts, EntryAccepted, HistoryVerify
<1>3. CASE n = 0
  <2>1. PICK q \in P : TRUE
    OBVIOUS
  <2>2. Len(q.records) \in Nat /\ Len(q.history) \in Nat
    BY SequenceFacts DEF RunOK
  <2> QED
    BY <1>1, <1>3, <2>2 DEF Begins
<1>4. CASE n # 0
  <2>1. PICK q \in P : n <= Len(q.history) /\ H[n] = q.history[n]
    BY <1>1, <1>4
  <2>2. /\ RunOK(q) /\ Len(q.history) \in Nat /\ Len(q.records) = Len(q.history)
    BY SequenceFacts DEF RunOK
  <2>3. ASSUME NEW k \in 1 .. n, H[k] = q.history[k]
        PROVE  R[k] = q.records[k]
    <3>1. k \in 1 .. Len(q.history)
      BY <1>1, <2>1, <2>2
    <3>2. q.history[k].chain_hash = ChainHash(q.history[k].previous_chain_hash, q.records[k])
      BY <2>2, <3>1 DEF RunOK
    <3> QED
      BY <1>2, <2>3, <3>2, ChainHashInjective
  <2>4. ASSUME NEW k \in 2 .. n, H[k] = q.history[k]
        PROVE  H[k - 1] = q.history[k - 1]
    <3>1. k \in 1 .. n /\ k - 1 \in 1 .. n /\ k # 1 /\ k \in 1 .. Len(q.history)
          /\ k - 1 \in 1 .. Len(q.history)
      BY <1>1, <2>1, <2>2
    <3>2. q.history[k].previous_chain_hash = q.history[k - 1].chain_hash
      <4>1. q.history[k] = HistoryEntry(q.records[k], k - 1, q.history[k - 1].chain_hash, g)
        BY <2>2, <3>1 DEF RunOK, Built
      <4> QED
        BY <4>1 DEF HistoryEntry, HistoryBuild
    <3>3. H[k - 1].chain_hash = q.history[k - 1].chain_hash
      BY <1>2, <2>4, <3>1, <3>2
    <3>4. PICK r \in P : k - 1 <= Len(r.history) /\ H[k - 1] = r.history[k - 1]
      BY <3>1
    <3>5. RunOK(r) /\ k - 1 \in 1 .. Len(r.history)
      BY <3>1, <3>4, SequenceFacts DEF RunOK
    <3> QED
      BY <2>2, <3>1, <3>3, <3>4, <3>5, SameChainSameEntry
  <2> DEFINE Agree == {j \in 1 .. n : \A k \in j .. n : H[k] = q.history[k]}
  <2>5. n \in Agree
    BY <1>1, <1>4, <2>1
  <2>6. PICK j \in Agree : \A k \in Agree : j <= k
    <3>1. Agree \subseteq Nat /\ Agree # {}
      BY <1>1, <2>5
    <3> HIDE DEF Agree
    <3> QED
      BY <3>1, LeastNatural
  <2>7. j = 1
    <3> SUFFICES ASSUME j # 1 PROVE FALSE
      OBVIOUS
    <3>1. j \in 2 .. n /\ H[j] = q.history[j]
      BY <1>1, <2>6
    <3>2. H[j - 1] = q.history[j - 1]
      BY <2>4, <3>1
    <3>3. \A k \in j - 1 .. n : k = j - 1 \/ k \in j .. n
      BY <1>1, <3>1
    <3>4. j - 1 \in Agree
      BY <1>1, <2>6, <3>1, <3>2, <3>3
    <3>5. j <= j - 1 /\ j \in Int
      <4>1. j \in Int
        BY <1>1, <3>1
      <4> HIDE DEF Agree
      <4> QED
        BY <2>6, <3>4, <4>1
    <3> QED
      BY <3>5
  <2>8. \A k \in 1 .. n : H[k] = q.history[k] /\ R[k] = q.records[k]
    BY <2>3, <2>6, <2>7
  <2> QED
    BY <1>1, <2>1, <2>2, <2>8 DEF Begins
<1> QED
  BY <1>3, <1>4

(* What a verifier at work beside the runs accepts is the beginning of one *)
(* run's records and of its history, whatever was replaced between its     *)
(* reads.                                                                  *)
THEOREM LiveOneRun == LiveSpec => LiveAcceptedIsOneRun
<1>1. IInv /\ RunsInv /\ LInv /\ GInv /\ [LiveNext]_live =>
        (vpc = "read" /\ vpc' = "PASS" =>
           \E p \in produced :
             LET n == Len(got.records.frames)
             IN  /\ n <= Len(p.records)
                 /\ got.records.frames = SubSeq(p.records, 1, n)
                 /\ got.history.frames = SubSeq(p.history, 1, n))
  <2> SUFFICES ASSUME IInv, RunsInv, LInv, GInv, [LiveNext]_live, vpc = "read", vpc' = "PASS"
               PROVE  \E p \in produced :
                        LET n == Len(got.records.frames)
                        IN  /\ n <= Len(p.records)
                            /\ got.records.frames = SubSeq(p.records, 1, n)
                            /\ got.history.frames = SubSeq(p.history, 1, n)
    OBVIOUS
  <2>1. Judge
    BY DEF LiveNext, live, Run, Others, Power, Beside, verifier, StartVerifier, LeaveVerifier, Ends,
           Verify, ReadFrame, NextFile, ShortRead, OpenFile
  <2>2. PICK g \in Garbage : Accepts(got.records, got.history, g)
    BY <2>1 DEF Judge, Ends
  <2>3. IsSequence(got.records.frames) /\ IsSequence(got.history.frames) /\ produced # {}
    BY <2>1 DEF LInv, IsContents, GInv, Judge
  <2>4. \A q \in produced : RunOK(q)
    BY DEF RunsInv
  <2>5. PICK q \in produced : /\ Begins(got.records.frames, q.records)
                              /\ Begins(got.history.frames, q.history)
    BY <2>2, <2>3, <2>4, ChainIsOneRun DEF GInv
  <2>6. IsSequence(q.records) /\ IsSequence(q.history)
    BY <2>4 DEF RunOK
  <2>7. Len(got.records.frames) = Len(got.history.frames)
    BY <2>2 DEF Accepts
  <2>8. /\ got.records.frames = SubSeq(q.records, 1, Len(got.records.frames))
        /\ got.history.frames = SubSeq(q.history, 1, Len(got.history.frames))
    BY <2>3, <2>5, <2>6, BeginsFacts
  <2> QED
    BY <2>5, <2>7, <2>8 DEF Begins
<1> QED
  BY <1>1, LInvInit, LInvKept, GInvInit, GInvKept, LiveIsPipeline, PipelineInvariant, RunsAlways, PTL
     DEF LiveSpec, LiveAcceptedIsOneRun
=============================================================================
