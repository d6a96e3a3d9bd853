------------------------------ MODULE Pipeline ------------------------------
(***************************************************************************)
(* The pipeline program (main.c) run again and again into one output       *)
(* directory, with failing system calls, process crashes and power losses  *)
(* between any two of its steps.  The verifier may look at the two files   *)
(* at any moment: its verdict is Accepts of History.tla.                   *)
(***************************************************************************)
EXTENDS History

CONSTANTS RootIds,     \* the --root-id arguments
          Trees,       \* what ingest may observe: sorted observation lists
          Losable,     \* pieces of a manifest line that may get lost
          MaxRuns,     \* bound on the invocations
          MaxLapses    \* bound on the lapses between two successful runs

ASSUME PipelineAssumption ==
  /\ Garbage # {}
  /\ Losable \subseteq {"path", "rest"}
  /\ MaxRuns \in Nat
  /\ MaxLapses \in Nat
  /\ \A tree \in Trees : IsSequence(tree) /\ \A k \in DOMAIN tree : IsObservation(tree[k])

\* The three files in the order main() writes them.
Output == {"records", "history", "manifest"}

VARIABLES
  pc,                            \* where main() is
  root_id, obs, i, rb, hb, prev, \* its locals: the two framed buffers, the chain
  cur,                           \* the file write_file is writing
  file,                          \* per output file, its contents as read back
  durable,                       \* per output file, its contents last synced
  entries,                       \* output files whose names are on stable storage, too
  runs,                          \* invocations so far
  produced,                      \* history: the buffers of every run that wrote
  lapses                         \* history: lapses since the last PASS

locals == <<root_id, obs, i, rb, hb, prev>>
disk   == <<file, durable, entries>>
audit  == <<runs, produced, lapses>>
vars   == <<pc, locals, cur, disk, audit>>

Writing == pc \in {"open", "write", "sync", "print"}

\* Some contents of the two verified files are not yet on stable storage.
Unsynced == \E f \in {"records", "history"} : file[f] # durable[f]

Buffer(f) == IF f = "records" THEN rb ELSE hb

\* What write_manifest prints for the n-th object: byte by byte its path, then
\* the rest in one fprintf.
Line(path, h) == [path |-> path,
                  rest |-> [object_id |-> h.object_id, record_hash |-> h.record_hash,
                            qh_state |-> h.qh_state, chain_hash |-> h.chain_hash]]
ManifestLine(n) == Line(obs[n].path, hb[n])

\* main() starts with empty buffers and an all-zero previous chain hash, and
\* takes its memory with it when it ends.
Init == /\ pc = "idle" /\ cur = "records"
        /\ root_id = <<>> /\ obs = <<>> /\ i = 0
        /\ rb = <<>> /\ hb = <<>> /\ prev = ZeroHash
        /\ file = [f \in Output |-> Missing] /\ durable = file /\ entries = {}
        /\ runs = 0 /\ produced = {} /\ lapses = 0

Gone == /\ pc' = "idle" /\ cur' = "records"
        /\ root_id' = <<>> /\ obs' = <<>> /\ i' = 0
        /\ rb' = <<>> /\ hb' = <<>> /\ prev' = ZeroHash
-----------------------------------------------------------------------------
Start == /\ pc = "idle" /\ runs < MaxRuns
         /\ root_id' \in RootIds
         /\ pc' = "ingest" /\ runs' = runs + 1
         /\ UNCHANGED <<obs, i, rb, hb, prev, cur, disk, produced, lapses>>

Ingest == /\ pc = "ingest"
          /\ obs' \in Trees
          /\ pc' = "loop"
          /\ UNCHANGED <<root_id, i, rb, hb, prev, cur, disk, audit>>

\* One turn of the object loop; a record that fails its own verification ends
\* the run (Fail).
Record == /\ pc = "loop" /\ i < Len(obs)
          /\ \E raw \in {RecordBytes(root_id, obs[i + 1])}, g \in Garbage :
             \E h \in {HistoryEntry(raw, i, prev, g)} :
               /\ RecordVerify(raw, g)
               /\ rb' = Append(rb, raw)
               /\ hb' = Append(hb, h)
               /\ prev' = h.chain_hash
          /\ i' = i + 1
          /\ UNCHANGED <<pc, root_id, obs, cur, disk, audit>>

\* Bugged: the history is written first.
BugEndLoop == /\ pc = "loop" /\ i = Len(obs)
              /\ pc' = "open" /\ cur' = "history"
              /\ produced' = produced \cup {[records |-> rb, history |-> hb]}
              /\ UNCHANGED <<locals, disk, runs, lapses>>

EndLoop == /\ pc = "loop" /\ i = Len(obs)
           /\ pc' = "open" /\ cur' = "records"
           /\ produced' = produced \cup {[records |-> rb, history |-> hb]}
           /\ UNCHANGED <<locals, disk, runs, lapses>>

\* Bugged: the manifest is opened for appending.
BugOpenTruncate == /\ pc = "open"
                   /\ file' = [file EXCEPT ![cur] = Whole(IF cur = "manifest" THEN @.frames ELSE <<>>)]
                   /\ IF cur = "manifest" THEN pc' = "print" /\ i' = 0
                                          ELSE pc' = "write" /\ i' = i
                   /\ UNCHANGED <<root_id, obs, rb, hb, prev, cur, durable, entries, audit>>

\* open(O_TRUNC) or fopen("wb"): the previous contents are gone.
OpenTruncate == /\ pc = "open"
                /\ file' = [file EXCEPT ![cur] = Whole(<<>>)]
                /\ IF cur = "manifest" THEN pc' = "print" /\ i' = 0
                                       ELSE pc' = "write" /\ i' = i
                /\ UNCHANGED <<root_id, obs, rb, hb, prev, cur, durable, entries, audit>>

\* Bugged: a write of zero bytes is tried again.
BugWriteSome == /\ pc = "write" /\ Len(file[cur].frames) < Len(Buffer(cur))
                /\ UNCHANGED vars

\* One write() of write_all: it stops inside the next frame or finishes it.
WriteSome == /\ pc = "write" /\ Len(file[cur].frames) < Len(Buffer(cur))
             /\ file' = [file EXCEPT ![cur] =
                           IF @.torn THEN Whole(Append(@.frames, Buffer(cur)[Len(@.frames) + 1]))
                                     ELSE Partial(@.frames)]
             /\ UNCHANGED <<pc, locals, cur, durable, entries, audit>>

\* Bugged: one short write counts as the whole.
BugWriteDone == /\ pc = "write"
                /\ pc' = "sync"
                /\ UNCHANGED <<locals, cur, disk, audit>>

WriteDone == /\ pc = "write" /\ file[cur].frames = Buffer(cur)
             /\ pc' = "sync"
             /\ UNCHANGED <<locals, cur, disk, audit>>

\* Bugged: the file is not synced.
BugSync == /\ pc = "sync"
           /\ pc' = "open" /\ cur' = IF cur = "records" THEN "history" ELSE "manifest"
           /\ UNCHANGED <<locals, disk, audit>>

\* fsync, and close, which may still report an error.  The directory, in which
\* open may just have made the name of the file, is not synced.
Sync == /\ pc = "sync"
        /\ durable' = [durable EXCEPT ![cur] = file[cur]]
        /\ pc' = "open" /\ cur' = IF cur = "records" THEN "history" ELSE "manifest"
        /\ UNCHANGED <<locals, file, entries, audit>>
CloseFails == /\ pc = "sync"
              /\ durable' = [durable EXCEPT ![cur] = file[cur]]
              /\ pc' = "fail" /\ lapses' = lapses + 1 /\ lapses < MaxLapses
              /\ UNCHANGED <<locals, cur, file, entries, runs, produced>>

\* No result of fprintf is looked at: a buffer that cannot be written is lost,
\* with the end of one piece, whole pieces and the beginning of another.  A line
\* is left with the pieces of it that are whole.
PrintLine == /\ pc = "print" /\ i < Len(obs)
             /\ \E lost \in SUBSET Losable :
                  file' = [file EXCEPT !["manifest"] =
                             Whole(Append(@.frames, [x \in {"path", "rest"} \ lost |->
                                                       ManifestLine(i + 1)[x]]))]
             /\ i' = i + 1
             /\ UNCHANGED <<pc, root_id, obs, rb, hb, prev, cur, durable, entries, audit>>

\* fclose succeeds, whatever was lost before: RESULT: PASS.  The manifest is not
\* synced.
Pass == /\ pc = "print" /\ i = Len(obs)
        /\ pc' = "pass" /\ lapses' = 0
        /\ UNCHANGED <<locals, cur, disk, runs, produced>>

Exit == /\ pc \in {"pass", "fail"} /\ Gone
        /\ UNCHANGED <<disk, audit>>
-----------------------------------------------------------------------------
\* An allocation, an ingest or a verification failed before any file was
\* touched; or a system call of the write phase failed and left what it wrote.
FailEarly == /\ pc \in {"ingest", "loop"} /\ pc' = "fail"
             /\ UNCHANGED <<locals, cur, disk, audit>>
FailWriting == /\ Writing /\ lapses < MaxLapses
               /\ pc' = "fail" /\ lapses' = lapses + 1
               /\ UNCHANGED <<locals, cur, disk, runs, produced>>

\* The process is killed: the files keep what was written.
Kill == /\ pc # "idle" /\ Gone
        /\ lapses' = (IF Writing THEN lapses + 1 ELSE lapses) /\ lapses' <= MaxLapses
        /\ UNCHANGED <<disk, runs, produced>>

\* What reading file f, one of the verified two, may give after power returned: all
\* of it if it was synced, else the last synced contents or any part of what was
\* written since; and nothing of a file whose name was not on stable storage.
Surviving(f) ==
  LET c == file[f]
  IN  {durable[f], c} \cup
      (IF c = durable[f] THEN {}
       ELSE {Whole(SubSeq(c.frames, 1, n)) : n \in 0 .. Len(c.frames)} \cup
            {Partial(SubSeq(c.frames, 1, n)) : n \in 0 .. Len(c.frames) - 1}) \cup
      (IF f \in entries THEN {} ELSE {Missing})

\* The manifest is never synced: of what it was nothing is known any more.
Uncertain == Partial(<<>>)

PowerLoss == /\ \E r \in Surviving("records"), h \in Surviving("history") :
                  file' = [f \in Output |-> CASE f = "records"  -> r
                                              [] f = "history"  -> h
                                              [] f = "manifest" -> Uncertain]
             /\ durable' = file' /\ entries' = {f \in Output : file'[f].exists}
             /\ Gone
             /\ lapses' = (IF Writing \/ Unsynced THEN lapses + 1 ELSE lapses)
             /\ lapses' <= MaxLapses
             /\ UNCHANGED <<runs, produced>>

Advance == \/ Ingest \/ Record \/ EndLoop \/ OpenTruncate \/ WriteSome
           \/ WriteDone \/ Sync \/ PrintLine \/ Pass
Lapse   == FailEarly \/ FailWriting \/ CloseFails \/ Kill \/ PowerLoss

Next == Start \/ Advance \/ Exit \/ Lapse

Spec == Init /\ [][Next]_vars
-----------------------------------------------------------------------------
(* The verifier run now, alone, on the two files.                          *)
Accepted == \E g \in Garbage : Accepts(file["records"], file["history"], g)

IsContents(c) == c \in {Missing, Whole(c.frames), Partial(c.frames)} /\ IsSequence(c.frames)

(* Locals and files keep their shape; the two buffers grow together and    *)
(* never ahead of the observations.                                        *)
TypeOK == /\ pc \in {"idle", "ingest", "loop", "open", "write", "sync", "print", "pass", "fail"}
          /\ cur \in Output
          /\ i \in 0 .. Len(obs)
          /\ \A s \in {obs, rb, hb} : IsSequence(s)
          /\ Len(rb) = Len(hb) /\ Len(rb) <= Len(obs)
          /\ DOMAIN file = Output /\ DOMAIN durable = Output
          /\ \A f \in Output : IsContents(file[f]) /\ IsContents(durable[f])
          /\ entries \subseteq Output
          /\ runs \in 0 .. MaxRuns /\ lapses \in 0 .. MaxLapses

\* Of file f a power loss leaves all of contents c, or nothing at all as long as
\* the name of f is not on stable storage.
Leaves(f, c) == Surviving(f) \subseteq {c} \cup (IF f \in entries THEN {} ELSE {Missing})

(* RESULT: PASS is printed only when both verified files hold the whole    *)
(* run, a power loss could take no part of them but only, of a file that   *)
(* was new, all, and the verifier accepts them, whatever earlier runs,     *)
(* failures and crashes left in the directory and whatever the verifier's  *)
(* uninitialized size field holds.                                         *)
PassMeansVerified ==
  pc = "pass" =>
    /\ file["records"] = Whole(rb) /\ file["history"] = Whole(hb)
    /\ Len(rb) = Len(obs)
    /\ Leaves("records", Whole(rb)) /\ Leaves("history", Whole(hb))
    /\ \A g \in Garbage : Accepts(file["records"], file["history"], g)

(* The verifier never accepts a pair made of parts of different runs: what *)
(* it accepts is the beginning, of the same length, of both files of one   *)
(* run, also in the middle of a write and after a power loss that kept     *)
(* different amounts of the two files.                                     *)
AcceptedIsOneRun ==
  Accepted => \E p \in produced :
    LET n == Len(file["records"].frames)
    IN  /\ n <= Len(p.records)
        /\ file["records"].frames = SubSeq(p.records, 1, n)
        /\ file["history"].frames = SubSeq(p.history, 1, n)

(* With at most one lapse since the last successful run, and no run at     *)
(* work, an accepted pair is complete: all of the records and all of the   *)
(* history of one run.                                                     *)
AcceptedIsWholeRun ==
  Accepted /\ lapses <= 1 /\ ~Writing =>
    [records |-> file["records"].frames, history |-> file["history"].frames] \in produced

(* The history of a run reaches its file only when no power loss can leave *)
(* a part of the run's records, and the manifest only when the same holds  *)
(* of both.  A records.bin that was new may still be lost as a whole,      *)
(* beside a history that is not: its directory is never synced.            *)
WriteOrder ==
  Writing =>
    /\ cur # "records" => file["records"] = Whole(rb) /\ Leaves("records", Whole(rb))
    /\ cur = "manifest" => file["history"] = Whole(hb) /\ Leaves("history", Whole(hb))

(* A reported PASS is not undone: while no run has started to write since  *)
(* then, no crash, failing run or power loss changes what the verifier     *)
(* reads, except that a power loss may take away a file that had not been  *)
(* there at the last one, as a whole.                                      *)
PassIsDurable ==
  [][lapses = 0 /\ ~Writing =>
       \A f \in {"records", "history"} :
         \/ file'[f] = file[f]
         \/ f \notin entries /\ file'[f] = Missing]_vars

(* Although nobody looks at what fprintf returns, the manifest of the last *)
(* run, a successful one, has for every object of its two files, in their  *)
(* order, what is left of that object's line: a path and hashes that       *)
(* follow each other with nothing lost between them are of one object.     *)
(* Where something was lost, a path may stand before the hashes of a later *)
(* object.  Only a manifest of before the last power loss may be about     *)
(* another run.                                                            *)
ManifestDescribesRun ==
  lapses = 0 /\ ~Writing /\ (pc = "pass" \/ file["manifest"] # durable["manifest"]) =>
    LET lines == file["manifest"].frames
    IN  /\ Len(lines) = Len(file["history"].frames)
        /\ \A n \in DOMAIN lines : \A x \in DOMAIN lines[n] :
             lines[n][x] = Line(file["records"].frames[n].prefix.path,
                                file["history"].frames[n])[x]

(* A run comes to an end: it reports PASS or FAIL or is interrupted.       *)
RunEnds == pc = "ingest" ~> pc \in {"pass", "fail", "idle"}

(* README.md:8 of the pipeline calls the history append-only: the entries  *)
(* on disk would only ever be extended.                                    *)
HistoryAppendOnly ==
  [][/\ Len(file["history"].frames) <= Len(file'["history"].frames)
     /\ file["history"].frames
          = SubSeq(file'["history"].frames, 1, Len(file["history"].frames))]_vars
=============================================================================
