# A TLA+ model of QH256 and the K501-AIONARC pipeline

QH256 is a vector of 128 cells, each UNKNOWN, FALSE, TRUE or GUARD (conflicting evidence), packed
into 32 bytes. The pipeline reads a directory tree, turns every entry into a hashed binary record,
maps each record to a QH256 vector and writes records, a hash-chained history and a manifest. A
second program verifies records against history. This directory models all of that in TLA+, checks
the models with TLC and proves all their safety properties with TLAPS, for every size.

## 1. Inventory

| Component | State | Operations | Correct when |
|---|---|---|---|
| QH256 v2.0 core, `tests/validation/v2.0/qh256.c` | two planes of two 64-bit words | set/get cell, merge, not, and, or, two orders, serialize, replay | a packed vector behaves as 128 independent cells; replay depends only on which deltas there were |
| QH256 v0.1 core, `tests/validation/v0.1/qh256.c` | 32 bytes, four cells each | set/get, merge, count, bit strings | it agrees with v2.0; a refused restore invents nothing |
| Alpha engine, `obsolete/alpha/QH256Engine.hpp` | 128 two-bit lanes | pair transforms, routing, rounds | Invalid lanes are fixed up to routing; no lane is lost; the loops end |
| Ingest, `src/ingest/ingest.c` | the observation list, a recursion of open directories | lstat, open, read, two opendirs and the readdirs per entry; sort | undisturbed entries are observed once, exactly, in byte order; disturbed ones as something they were |
| Object record, `src/object_record/` | a record | identity, serialize, decode, verify | a record survives a round trip and verifies whatever the uninitialized size field holds |
| Mapping and history, `src/qh256_mapping/`, `src/state/` | an entry | map, build, decode, verify | entries chain |
| Pipeline program, `src/pipeline/main.c` | two framed buffers, chain value, three files | ingest, object loop, three file writes | PASS means verified and synced; an interrupted run is never taken for a whole one |
| Verifier, `src/pipeline/verify.c` | two buffers, two positions, chain value | size and read of each file, then one frame pair per turn | PASS means the records of one run, after damage and beside a running pipeline; after a reported PASS it passes |
| SHA-256, `src/common/sha256.c` | chaining value, partial block, counters | init, update, final | the blocks compressed are the padded message |
| Byte buffers, `src/common/bytes.c` | length and capacity | grow, append, frame, cursor reads | nothing is written past the capacity or read past the end at any size; what is framed reads back |
| Scripts under `scripts/` | staged copies, hashes, archives | copy, compare, audit | staging mirrors the public files; not modelled, see section 7 |

The rest (test programs, fixtures, JSON and Markdown navigation documents) has no behaviour of its
own; `PROJECT.json` lists every component with what is and is not modelled.

**How they interact.** `main()` calls ingest, then for each observation fills a record, serializes
it, verifies it (which decodes it back into the record: that is where `record_hash` comes from), maps
it to a QH256 vector, builds the history entry from the previous chain hash, and appends both to
buffers. Only then are the files written: truncate, write loop, fsync, close, for `records.bin`, then
`history.bin`; the manifest goes through stdio and is never synced. The verifier shares only the two
files with it. All programs are single-threaded; concurrency comes from other programs using the
directory being ingested, from a reader looking at the output at any moment, and from crashes.

**What is hard here.** Crashes, power loss and failing calls between and inside three in-place file
replacements; repeated runs into one directory; files that come from different runs; partial writes;
fields no hash covers; a directory that is never synced; an uninitialized local that reaches a record; a tree that changes while it is
read; a verifier that reads two files one after the other while runs replace them; sums and products
of sizes near the largest; block boundaries of the hash; word, byte and bit addressing; overlapping
in-place pairs in the alpha engine. `PROJECT.json` ("hazards") gives each its line and the properties that watch it.

## 2. Modules

| Module | Models | How state and actions correspond |
|---|---|---|
| `QH256` | v2.0 core, operators only | a word is the set of its 1 bits, so `\|`, `&`, `&~` are union, intersection, difference; bytes likewise |
| `CellArray` | what the core promises | an array of cells; `Set`, `Combine`; no packing |
| `QH256Vector` | one vector under every call | one action per function; `ImplementsCellArray` is the refinement, with the vector read through `GetCell` |
| `QH256Replay` | `qh256_replay` | two replays side by side of the same deltas ordered and repeated differently; one step per delta |
| `QH256v01` | v0.1 core | the object beside a v2.0 vector under the same calls; `Save`, `Restore`, `RestoreDamaged` for bit strings |
| `Engine` | `qh_rounds` | one step per pair transform (`Adjacent`, `Wrapped`) and per routing; `pc` is the loop it is in |
| `Ingest` | `k501_ingest_run` | one step per system call that looks at the tree; `stack` is the recursion's open directories; `Create` ... `Chmod` are other programs |
| `Sha256Stream` | `k501_sha256_*` | one step per turn of update's loop; `Final` is final; `Padded` is the padding of FIPS 180-4, the reference |
| `ObjectRecord` | records, operators only | a byte string is the structure its fields are read from; `Garbage` is the uninitialized size |
| `History` | mapping, history entries, one turn of `main()`'s loop, the verdict over whole files | `Accepts` is what the verifier answers |
| `Pipeline` | `main()` run again and again | one action per loop turn and system call; `file` is what a reader sees, `durable` the contents last synced, `entries` the files whose names are on stable storage |
| `ByteBuf` | `bytes.c` and the framing of `main.c` and `verify.c`, operators only | a buffer is its bytes and its capacity; a cursor is a position; lengths are digits in base `ByteValues` |
| `Verify` | from the buffers of a run to the verdict, byte for byte | `FrameRecord`, `FrameHistory`, `WriteFiles`, then storage faults, then `Read`, one `Turn` per frame pair, `End` |
| `LiveVerify` | the verifier beside running pipelines | every action of `Pipeline`, and the verifier's fopen and ftell (`StartVerifier`, `NextFile`), its reads (`ReadFrame`, `ShortRead`) and its loop (`Judge`) |
| `QH256Lemmas` | | lemmas on the operators of `QH256`, cell by cell, and induction on the naturals |
| `QH256Proofs`, `QH256v01Proofs`, `PipelineProofs`, `VerifyProofs`, `EngineProofs`, `IngestProofs`, `Sha256StreamProofs` | | theorems about the module they are named for; `QH256Proofs` has those about `QH256Vector` and `QH256Replay`, `PipelineProofs` those about `LiveVerify`, too, which extends `Pipeline` |

`Pipeline` and `Verify` compose `ObjectRecord`, `QH256` and `History`; `Verify` adds `ByteBuf`, and
`LiveVerify` adds the verifier to `Pipeline`. `Ingest` and `Sha256Stream` discharge two assumptions
of `Pipeline`: that observations come as one sorted list, and that the hash depends on its whole
input, except for its compression function (`PaddingInjective`). `Verify` discharges two of `LiveVerify` and `Pipeline`: that frames written read back as
frames (`WrittenReadsBack`), and that the verifier's loop over bytes answers as `Accepts` does over
frames (`VerdictIsAccepts`).

**Abstractions.** SHA-256 is an injective constructor (in `Sha256Stream`, its block compression is).
In `Pipeline` and `LiveVerify` length-prefixed framing appears as whole frames plus at most one torn
frame: a write stops inside a frame or after it; `Verify` has every byte of a length and the position
of every byte of a payload. In `LiveVerify` a read returns whole frames of one version of a file (a
frame whose bytes straddle a rewrite fails its own hash), the verifier's own allocations do not fail
(they would end in the answer of a missing file), and the manifest, which no verifier reads, is
printed in full. A manifest line has two pieces: the path, which the code prints
byte by byte, and the rest, which is one `fprintf`. A buffer that cannot be written is lost without
notice, and it may begin and end inside a line, so `PrintLine` leaves any of the pieces in `Losable`;
a piece cut in two counts as lost. `Losable` is both pieces in the run `Pipeline`, any set of them in the
proofs, and empty in the runs that do not look at the manifest. A manifest is never synced, so what a power
loss leaves of it is one value, `Uncertain`. `fsync` makes the contents of a file durable and
nothing else: neither the output directory nor, after `mkdir`, its parent is ever synced, so a power loss may take a
file that was not there at the last one, alone or with the others (`entries`, `Surviving`). In `QH256v01`
a string is saved only while the object has a v2.0 vector to be compared with, that is, not after a
refused restore (`intact`). In `Ingest` the order in which `qsort` leaves two
observations of the same path is not specified, as in C. Null pointers, usage errors (exit code 2, no effect), wording and times
are left out. Definitions that begin with `Bug` are not part of any specification: each is a
plausible mistake in one definition, kept so that every property can be shown to notice one.
In `Engine` the branch of transform 5 for two guards (`QH256Engine.hpp:103`) does not appear: it
stands inside a test that excludes it. Its 32-bit round product is taken not to wrap (fewer than
2^31 rounds).

## 3. Runs

Each module has a type invariant. Those of `QH256Vector`, `QH256Replay`, `QH256v01`, `Pipeline` and
`Ingest` are proved (section 5) and not run again; the others are checked by the run, too. All theorems
of section 5 about properties of a run are of the definitions that run checks.

| Run | Question | Bounds, and why they suffice |
|---|---|---|
| `QH256Vector` | Is the packed vector an array of cells, are the packed orders the cell orders, do the lattice laws hold? | two words of two bits, one bit per byte: two words and two bytes per word exist. Operands with at most two bits: operations are bitwise. Indices to the first illegal one, values to the first illegal one. All 256 vectors are reached (8,593 states) |
| `QH256Replay` | Does replay keep exactly the evidence, only gain knowledge, and end in the same vector for reordered and repeated deltas? | four deltas with agreeing, conflicting and guarded evidence on both words, arrays to length 4 |
| `QH256v01` | Does the byte-packed core agree with v2.0, also across saving, damage and restoring? | two bytes of two cells; each single position of the string damaged in turn (131,072 states) |
| `Engine` | Are Invalid lanes only carried by routing, is no lane lost, do the loops end? | eight lanes, eight rounds; from the all-FALSE state and the single-Invalid state every start with up to three more lanes set to any value, and the uniform states. Eight lanes give four wrapped pairs that overlap in a chain around the ring, and three lanes are more than one pair can hold (199,801 states) |
| `Sha256Stream` | Is exactly the padded message compressed, from which it can be read back? | blocks of five bytes with two length bytes: all messages of up to twelve bytes made of the two padding bytes, so two full blocks, every boundary and both length bytes are used; every mixture of two bytes in the buffer at the start (16,511 states). The count of bits does not wrap here; the theorems include its wrapping |
| `Ingest` | Is what is left alone observed once, exactly and in order, what is changed observed as something it was, and what does a failing call leave? | four trees of up to three entries over `a`, `a-`, `a/a` (byte order differs from tree order), two changes (a replacement takes two), one failing call of any kind: open, read, opendir, readdir, an allocation (308,658 states) |
| `Pipeline` | What do PASS and an accepted pair of files mean when runs fail, are killed or lose power? | three runs over four trees of up to two entries, two lapses since the last PASS: a good run, a broken one over it, and one more; either or both pieces of any manifest line lost, so that a path stands before the hashes of the next object (669,519 states) |
| `LiveVerify` | What does the verifier answer while runs replace its files, and do run and verifier end? | two runs over three trees, of which two differ in one entry and one is empty, so that files change in place and become shorter; a run may fail before it writes and be killed then, and the power may fail while nothing is unsynced; a verifier may start at any moment and again after it answered (50,200 states). Failures and kills in the middle of a write phase, which `MaxLapses = 0` excludes here, are left to the theorems, which hold for any number of lapses |
| `Verify` | Do the buffers hold at their limits, is the loop's answer the verdict, and PASS the records of one run? | ten runs, some of which are refused for a frame too long or a buffer too large, at a largest size of 14 with two-byte lengths in base 2; any two storage faults: every field of a record or entry and every byte of a length damaged, frames lost, repeated or exchanged, ends cut off or zeroed at every byte, the history of another run (121,974 states) |
| `PipelineAppendOnly` | Is the history append-only? Violated, see section 6 | as `Pipeline` |
| `VerifyTampered` | Is every changed history rejected? Violated, see section 6 | as `Verify` |
| `EngineGuards` | Do guards never decrease? Violated, see section 6 | as `Engine` |

`Pipeline.cfg`, `PipelineAppendOnly.cfg` and `LiveVerify.cfg` turn deadlock checking off, because the
model stops after `MaxRuns` runs, and so does a directory nobody writes to any more.

**What the main properties say.**
- `ImplementsCellArray`: no operation mixes two cells, and a refused write changes nothing.
- `Lattices`: merge is the join of the knowledge order, or and and are join and meet of the truth order:
  bounds of both operands, and nearest among all bounds.
- `OrderAndRepetitionFree`, `EvidenceExact`, `KnowledgeGrows`: replay is a join; a conflict once seen stays.
- `PassMeansVerified`: at PASS both files hold the whole run and are accepted, and a power loss could take
  no part of them, only the whole of a file that was new, whatever earlier runs and crashes left and whatever the uninitialized size holds.
- `AcceptedIsOneRun`: at any moment, mid-write and after power loss included, an accepted pair is an
  equally long beginning of the records and history of one run. `AcceptedIsWholeRun`: with at most
  one lapse since the last PASS it is all of it. Two lapses are enough for less: a kill after history
  was truncated, then a failure after records were, leaves two empty files, which verify.
- `WriteOrder`: when history is written no power loss can leave a part of the run's records any more,
  and likewise both before the manifest. It is about contents: a `records.bin` that was new can be
  lost as a whole beside a `history.bin` that is not, and the verifier then refuses.
  `PassIsDurable`: a reported PASS is not undone, with the same exception.
- `ManifestDescribesRun`: although no result of `fprintf` is looked at, what is left of the n-th line of
  the manifest of a successful last run is the path or the hashes of the n-th object of its files. So a
  path and hashes with nothing lost between them are of one object; where something was lost, a
  path may stand before the hashes of a later object, and PASS is printed all the same. A manifest
  of before the last power loss may be about another run.
- `LiveAcceptedIsOneRun`: the verifier reads two files one after the other while runs replace them,
  and still accepts only an equally long beginning of the records and history of one run.
  `QuietVerifierPasses`: after a reported PASS it passes, whatever fails or is killed before a run
  writes again, unless a power loss took away a file that was new. `VerifierAnswers`: it ends, however often the files change under it.
- `WithinCapacity`, `WrittenReadsBack`, `RefusalHasCause`: growth by doubling and the length checks
  neither write past the memory, nor frame what cannot be read back, nor refuse what would fit.
- `VerdictIsAccepts`, `PassMeansOneRun`: stopping at the first disagreement loses nothing; after any
  two faults PASS still means the records of one run, and its history but for the QH256 state.
- `InvalidCarried`, `RoutingLosesNothing`: overlapping in-place pairs never touch an Invalid lane.
- `AgreesWithV2`, `RefusedRestoreInventsNothing`: the two cores agree; a restore that fails has
  overwritten its target, but only with evidence from the string.
- `DigestIsOfMessage`, `DigestDeterminesMessage`: padding is right at every length, also when the count
  of bits wraps, and injective as long as the count holds the length (2^61 bytes; of longer messages the
  standard says nothing).
- `StableSeenOnce` is stated for runs in which no call failed, since `readdir` errors are taken for
  the end of a directory (`ingest.c:23`); `FailuresOnlyOmit` is what holds when open, read, opendir or readdir fail, for want of
  descriptors, say, of which one is held per level: entries or
  contents go missing or a directory is called unreadable, but nothing false or partial is reported of what was left alone.
- `ObservedWasThere`: what is reported of a path that is changed meanwhile was there: kind and size at
  one moment, the content perhaps a mixture of successive contents, but of one file that had the name.
- `SortedByPath`, `FailureHasCause`: over a tree nobody changes the list is in strict byte order, and
  ingest fails only when a call does.

## 4. Fairness

Liveness is stated only for the program's own steps: `WF_vars(Advance)` in `Pipeline`,
`WF_vars(Advance)` and `WF_verifier(Verify)` for the two processes of `LiveVerify`, `WF_vars(Program)` in
`Verify` and `Ingest`, `WF_vars(Step(r))` in `QH256Replay`, `WF_vars(Step)` in
`Engine`. Each is a single sequential program without locks or waiting: a process that is
neither killed nor failed is scheduled again. Failures, kills, power losses, storage faults and other
programs' changes are never fair. In `Pipeline`, a `write()` that accepts nothing is an error exit in
the code (`main.c:16`) and interruptions are taken to be finite, so weak fairness suffices for `RunEnds`, which is checked in `LiveVerify`.
Beside a run the verifier needs no more: each step it waits for is its own, since a file that became
shorter makes `fread` return. `Ends` of `Ingest` holds because
others make finitely many changes in the model, and because opening a file that was replaced by a
FIFO, which would block, is left out.

## 5. Proofs

The theorems hold for every value of the constants that satisfies the named assumptions of the
modules, which say what the code takes for granted: sizes are positive and divide as they do in the
headers, no payload is empty, observations are
legal, `Garbage` is not empty, file names have no `/`, what leads to a path is a path and, in the tree
ingest starts on, a directory, 45 is invertible modulo the number of lanes. The bounds of the runs
(`MaxRuns`, `MaxLapses`, `MaxFaults`, `MaxChanges`, `MaxErrors`) are constants like any other, so the
theorems hold for any of their values.

- **Vector** (`QH256Lemmas`, `QH256Proofs`). `Addressing`: cell number and (word, bit) determine
  each other, from uniqueness of quotient and remainder. On it rest `SetCellView` (a write changes one
  cell), `BinaryViews` (each operation on planes is the cell operation at every cell) and `ReloadView`
  (what is serialized is read back). `VectorIsCellArray` maps every step to one of `CellArray`.
  `VectorOrders` and `VectorLattices` follow from the views, the latter for any set of
  operands and of bounds among all vectors.
- **v0.1** (`QH256v01Proofs`). The same for cells packed in bytes, and `BitStringView`: an undamaged
  string reads back, a damaged one is refused and yields only bits that were set. The invariant keeps an
  object of which the saved string was made, with the cells of the v2.0 vector of that time; from it
  follow `V01AgreesWithV2` and `V01RefusedInventsNothing`.
- **Replay** (`QH256Proofs`). `ReplayEvidenceExact` is inductive together with `TypeOK`; since
  vectors are equal when their bits are, and both histories hold the same deltas, `ReplayOrderFree`
  follows. `ReplayKnowledgeGrows` needs only that `Merge` is above its first argument.
- **Pipeline, one run at a time** (`PipelineProofs`). `IInv == TypeOK /\ LocalsInv /\ DiskInv`. None of
  the properties is inductive alone. `LocalsInv` says that the buffers form a linked chain: entry k is
  accepted by the verifier after entry k-1, for every garbage value, with `prev` the last chain hash,
  and that all observations are consumed once writing starts. `DiskInv` says how much of each buffer
  is in its file and synced (`SyncedFirst`) at each point of the write phase; `Leaves` says what a
  power loss makes of a file whose contents are synced: the same, or nothing when its name is new. Lemma `RecordRoundTrip` shows
  that what is serialized decodes to a record that verifies; `BuiltEntryAccepted` that a built entry is
  accepted. From `IInv` follow `PassVerified`, `RecordsFirst`, `PassStays` and `PipelineTypeCorrect`.
- **Pipeline, across runs.** `PipelineOneRun`: `RunsInv` says that `history.bin`, as seen and as
  durable, begins the history of one run, whatever `records.bin` holds. Entry k of an accepted pair
  names record k by its chain hash, and hashes are injective, so records that are accepted against
  one run's history are that run's. `PipelineWholeRun` needs `LapseInv` as well: the first
  lapse after a PASS leaves one of the two files complete, so an accepted pair is complete too.
  `ManifestFaithful`: while the n-th line is printed, what is left of the lines before is of the objects of
  the same numbers (`Describes`), whatever was lost, and the path in record n is that of observation n (`PathsInv`).
- **Verifier beside runs** (`PipelineProofs`). `LiveIsPipeline`: the composition implements `Pipeline`
  (`LiveSpec => Spec`), so every theorem about it carries over. `LInv`: no buffer is longer than what was
  asked for. `QInv`: as long as nobody writes after a PASS, what has been read is a prefix of the files
  of that run, both files are there (`BothThere`), no read is short, and the verdict is that of `PassMeansVerified`; `LiveQuietPasses`.
  `LiveOneRun`: `GInv` says only that each frame read stood, at its place, in the history of some run;
  the frames may come from different versions of the file. Lemma `ChainIsOneRun` goes back along an
  accepted chain: two runs with the same chain hash at entry k have the same entry and record k, and so
  the same chain hash before it; the run of the last entry is the run of all.
- **Verifier, byte for byte** (`VerifyProofs`). A byte string is a sequence of length digits and
  payload bytes; the lemmas say what the recursive functions of `ByteBuf` and `Verify` compute for every
  length: lengths read back (`LengthAt`), frames follow one another, and reading what was framed gives the
  frames. `VInv`: while a run is framed the buffers are what framing the first `count` values gives,
  before the first fault the files are those buffers, and in the loop the positions are those of frame
  `count`, all before it accepted with the chain of the last (`InStep`). From it follow
  `VerifyTypeCorrect` and `LoopDecidesAccepts`: the loop stops at the first frame that is missing, torn or
  refused exactly when the files as wholes are not accepted. `PassIsOneRun` adds `EntriesInv`: whatever
  is damaged, an entry's chain hash is that of an entry some run wrote or of none, since nobody finds
  another input for it. `BuffersStayWithin`: `RoomInv`, no buffer holds more than its capacity, with the
  doubling as a recursive function up to the largest size. `FramesReadBack` and `RefusedForCause`:
  `FitInv`, what was framed fits its length fields.
- **Engine** (`EngineProofs`). `IInv` adds to `TypeOK` and `InvalidCarried` that the index is back at
  zero when routing begins and that rounds are left while a loop runs. `TransformKeeps` is the heart:
  Invalid before exactly where Invalid after. `EngineInvalidFixity` is Theorem 1 of the engine's documents
  in the form the code keeps. `EngineLosesNothing`: each routing is onto the lanes, by the inverse of 45.
- **Ingest** (`IngestProofs`). `IngestInv`: the open directories lie one below the other and every name
  they may still give is that of a path, although others change the tree between any two calls.
  `CauseInv`: in a tree nobody changed every name still to come exists, so `lstat` cannot miss it
  (`IngestFailureHasCause`). `WasInv`: what lstat, open and each read found is remembered, and an
  observation only puts that together (`IngestObservedWasThere`).
- **Ingest, what is left alone** (`IngestProofs`). `StableInv` says of every entry p that nobody touched
  where ingest stands with it. What leads to p is given by each open directory once (`StreamInv`, and
  `NestInv`: an open directory has given the way to those open below it). While p or a directory above
  it is at work, what lstat, open and the reads found is still so (`WorkInv`). p was observed at most
  once, as it is or unread, and then nothing that leads to it is still to come (`SoFar`); and unless a
  call failed, p has been observed or something that leads to it is to come (`ToCome`). `OthersQuiet`
  is the heart: no step of the other programs changes the files and directories on the way to an entry
  it does not touch, nor what the open directories will give of that way, which needs the tree to stay
  one (`Rooted`). When all streams are read, nothing is to come: `IngestStableSeenOnce` and
  `IngestFailuresOnlyOmit`. For `IngestSortedByPath`, joining the names of a path with `/` is shown to be
  injective, the byte order to be total, and no path of an untouched tree to be observed twice.

- **SHA-256** (`Sha256StreamProofs`). `IInv == TypeOK /\ Fed /\ DigestIsOfMessage`. `Fed` says that the
  blocks compressed, followed by the `datalen` bytes that wait, are the message, and that `Bits` is its
  length modulo the width of the count; `DigestIsOfMessage` is not inductive without it. `UpdateKept`: a
  byte either waits or completes a block, at the place quotient and remainder give (`CompressedIs`).
  `FinalBlocks` says what stands at each byte of the last one or two blocks in both cases of `Overflows`;
  nothing of the buffer's earlier content is among it. The number of zeros is found by arithmetic:
  `ZerosUnique` and `ZerosExist` give the one value that fills the block, so `PaddedBytes` can be compared
  with the blocks byte by byte. `CountedBytes`: what the count drops when it wraps is not in the bytes
  stored of it. `LengthReadsBack`: the length bytes give the length, the two recursive functions by
  induction; from it follow `Sha256DigestDeterminesMessage` and `PaddingInjective`, that no two messages
  of such lengths are padded alike.

Induction over the naturals is to hand as a lemma about sets (`SetInduction`, from the least element
`LeastNatural`), so what a recursive function computes can be proved where it is a function on an
interval; its existence is then a lemma, too (`SumExists`, `JoiningExists`, `WeightExists`).

Checked by TLC only: liveness (`RunEnds`, `VerifierAnswers`, `Answers`, `Ends`, `Returns`, `Converges`),
which the prover does not cover under fairness. Every invariant and every action property of the runs
is also a theorem.

## 6. Disagreements with the documentation

1. **The history is not append-only.** The pipeline's `README.md:8` and `:12` say it is. `main.c:17`
   opens it with `O_TRUNC` in every run (`PipelineAppendOnly`).
2. **A history changed on storage can be accepted.** `scripts/run_history_negative.sh:7-8` demands
   rejection, but only tries one byte of `object_id`. The 32 bytes of `qh_state` are covered by no
   hash and are not recomputed by the verifier (`VerifyTampered`). `PassMeansOneRun` states what is
   protected.
3. **Guards can decrease.** `QH256_EXECUTIVE_SUMMARY.md:77` states the opposite; transforms 2 and 3
   turn guards into other values (`EngineGuards`).

No document of the repository promises anything of power losses. That a PASS into a new directory can
be followed by the loss of a whole file, since no directory is synced, and that a manifest with
mismatched pieces can stand under a PASS, contradict no text and are stated in the properties only.

## 7. What is not modelled, and why

- The arithmetic of SHA-256's compression function: out of reach of exhaustive checking; it has no
  control flow that depends on data.
- The other integer widths of `bytes.c`: they repeat the code of `u32le` and appear as fields.
- Manifest syntax: nothing reads the manifest back. The model keeps which pieces of lines are lost (`PrintLine`).
- Names of output files: a directory name a few bytes short of `PATH_MAX` gets truncated file names
  (`main.c:28`, `snprintf`); the model identifies the files by their role.
- Failing allocations of the verifier beside a run, and frames that straddle a change of their file.
- Two pipelines that write into one output directory at the same time: nothing locks it, and their writes
  would mix. Runs follow one another in the model.
- Directories that are renamed during ingest; files are (`Rename`), and directories come and go.
- File modes, times, search permission on directories, FIFOs and symlinked directories
  swapped in during ingest.
- Build, test, publication and repository scripts: they run one program after another, or copy files
  and compare the copies, and keep no state between commands.
- Test programs, the stub core and the navigation documents: no behaviour of their own; what they claim
  of the program is used in section 6 and in the properties.

## 8. Plan

Built, in the order of importance: `QH256`, `ObjectRecord`, `History`, `Pipeline`, `Verify`, the
refinement and replay of the core, `Engine`, `QH256v01`, `Sha256Stream`, `Ingest`, `ByteBuf` with the
byte-level `Verify`, `LiveVerify`, and the proofs of section 5.

What would be worth adding: `scripts/stage_public_v2a05.sh`, which enumerates its source three times
while others may change it.
