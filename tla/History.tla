------------------------------ MODULE History ------------------------------
(***************************************************************************)
(* What one run of the pipeline writes and what the verifier accepts: the  *)
(* structural mapping of a record to a QH256 vector (mapping.c), the hash- *)
(* chained history entry (history.c), one turn of the object loop of       *)
(* main.c, and the verdict of verify.c over two whole files.               *)
(***************************************************************************)
EXTENDS ObjectRecord, QH256

ASSUME HistoryAssumption == Words * WordBits >= 16

\* Cells 0..15 of the mapping; the other cells stay unknown.
Propositions(r) ==
  << TRUE, r.readable, r.object_type = 1, r.object_type = 2, r.object_type = 3,
     r.object_type = 4, r.size_present, r.content_present, TRUE, TRUE,
     r.path # <<>>, r.root_id # <<>>, TRUE, TRUE, r.content_present, TRUE >>

\* qh256_unknown, then one qh256_set_cell per proposition.
PlaneOf(cells) ==
  [w \in 0 .. Words - 1 |-> {Bit(c) : c \in {x \in cells : WordIndex(x) = w}}]
MapRecord(r) ==
  LET having(v) == {k - 1 : k \in {n \in DOMAIN Propositions(r) : Propositions(r)[n] = v}}
  IN  [t |-> PlaneOf(having(TRUE)), f |-> PlaneOf(having(FALSE))]

K501_HISTORY_MAGIC == "K501HST2A"
ZeroHash == <<>>
ChainHash(prev, record_bytes) == Sha256(<<"K501-CHAIN-2A", prev, record_bytes>>)

HistoryBuild(seq, r, state, prev, record_bytes) ==
  [magic |-> K501_HISTORY_MAGIC, sequence |-> seq, object_id |-> r.object_id,
   record_hash |-> r.record_hash, qh_state |-> Serialize(state),
   previous_chain_hash |-> prev, chain_hash |-> ChainHash(prev, record_bytes)]

HistoryDecodes(h) == h.magic = K501_HISTORY_MAGIC
\* Bugged: the stored chain hash is believed.
BugHistoryVerify(h, record_bytes) == TRUE
HistoryVerify(h, record_bytes) ==
  ChainHash(h.previous_chain_hash, record_bytes) = h.chain_hash
-----------------------------------------------------------------------------
IsSequence(s) == s \in Seq({s[k] : k \in DOMAIN s})

\* What ingest fills in, as far as the record format looks at it.
IsObservation(o) ==
  /\ o.object_type \in ObjectType
  /\ {o.size_present, o.content_present, o.readable} \subseteq BOOLEAN

\* The record of an observation, as main() fills it.
Fill(root_id, o) ==
  LET id == [schema |-> K501_BOR_SCHEMA, root_id |-> root_id, path |-> o.path,
             object_type |-> o.object_type]
  IN  [schema |-> id.schema, object_id |-> ComputeObjectId(id), root_id |-> root_id,
       path |-> o.path, object_type |-> o.object_type,
       size_present |-> o.size_present, size_bytes |-> o.size_bytes,
       content_present |-> o.content_present, content_sha256 |-> o.content_sha256,
       stamp |-> o.stamp, readable |-> o.readable]

\* The frames appended to records.bin and history.bin for an observation, the
\* seq-th of the run.  Verification decodes back into the record, which is
\* where its record_hash comes from, and where an absent size becomes garbage.
RecordBytes(root_id, o) == SerializeRecord(Fill(root_id, o))
\* Bugged: entries are numbered from one.
BugHistoryEntry(raw, seq, prev, g) ==
  LET r == Decode(raw, g) IN HistoryBuild(seq + 1, r, MapRecord(r), prev, raw)
HistoryEntry(raw, seq, prev, g) ==
  LET r == Decode(raw, g) IN HistoryBuild(seq, r, MapRecord(r), prev, raw)
-----------------------------------------------------------------------------
\* A file is a sequence of whole frames, possibly followed by part of one: a
\* write that stopped inside a length or a payload leaves a torn frame.
Missing      == [exists |-> FALSE, frames |-> <<>>, torn |-> FALSE]
Whole(s)     == [exists |-> TRUE, frames |-> s, torn |-> FALSE]
Partial(s)   == [exists |-> TRUE, frames |-> s, torn |-> TRUE]

\* Bugged: the chain of the entry before is not compared.
BugEntryAccepted(rec, h, count, prev, g) ==
  /\ RecordVerify(rec, g)
  /\ HistoryDecodes(h)
  /\ h.sequence = count
  /\ h.record_hash = Decode(rec, g).record_hash
  /\ h.object_id = Decode(rec, g).object_id
  /\ HistoryVerify(h, rec)
\* The k-th turn of the verifier's loop passes.
EntryAccepted(rec, h, count, prev, g) ==
  /\ RecordVerify(rec, g)
  /\ HistoryDecodes(h)
  /\ h.sequence = count
  /\ h.record_hash = Decode(rec, g).record_hash
  /\ h.object_id = Decode(rec, g).object_id
  /\ h.previous_chain_hash = prev
  /\ HistoryVerify(h, rec)

\* Bugged: history left over after the last record is not noticed.
BugAccepts(rf, hf, g) ==
  /\ rf.exists /\ hf.exists
  /\ ~rf.torn
  /\ Len(rf.frames) <= Len(hf.frames)
  /\ \A k \in 1 .. Len(rf.frames) :
       EntryAccepted(rf.frames[k], hf.frames[k], k - 1,
                     IF k = 1 THEN ZeroHash ELSE hf.frames[k - 1].chain_hash, g)

\* The verifier prints PASS for the two files.
Accepts(rf, hf, g) ==
  /\ rf.exists /\ hf.exists
  /\ ~rf.torn /\ ~hf.torn
  /\ Len(rf.frames) = Len(hf.frames)
  /\ \A k \in 1 .. Len(rf.frames) :
       EntryAccepted(rf.frames[k], hf.frames[k], k - 1,
                     IF k = 1 THEN ZeroHash ELSE hf.frames[k - 1].chain_hash, g)
=============================================================================
