----------------------------- MODULE LiveVerify -----------------------------
(***************************************************************************)
(* The verifier at work while the pipeline program runs: it reads          *)
(* records.bin, then history.bin, each by asking for its size and then     *)
(* reading that much, and a run may truncate, rewrite and replace either   *)
(* file between any two of these steps.  A frame whose bytes straddle a    *)
(* change fails its own verification and is left out.                      *)
(***************************************************************************)
EXTENDS Pipeline

VARIABLES
  vpc,      \* where the verifier is, or its verdict
  reading,  \* the file it is reading
  size,     \* what ftell said, in half frames
  got,      \* the two buffers, as files
  quiet     \* history: no run has written since the verifier started after a PASS,
            \* of which no power loss has taken a file away

verifier == <<vpc, reading, size, got>>
live     == <<vars, verifier, quiet>>

\* A torn frame counts for half of one.
SizeNow(c) == 2 * Len(c.frames) + (IF c.torn THEN 1 ELSE 0)
\* How much of the file has been read, and how far the next read goes.
have == SizeNow(got[reading])
upto == IF have + 2 <= size THEN have + 2 ELSE size

Unread == [records |-> Whole(<<>>), history |-> Whole(<<>>)]

LiveInit == /\ Init
            /\ vpc = "idle" /\ reading = "records" /\ size = 0 /\ got = Unread
            /\ quiet = FALSE

\* The verifier has answered or is gone, and its memory with it.
Ends(how) == reading' = "records" /\ size' = 0 /\ got' = Unread /\ vpc' = how

\* fopen, fseek and ftell.
OpenFile(f) == IF file[f].exists
               THEN vpc' = "read" /\ reading' = f /\ size' = SizeNow(file[f]) /\ got' = got
               ELSE Ends("FAIL")
-----------------------------------------------------------------------------
StartVerifier == /\ vpc = "idle" /\ OpenFile("records")
                 /\ quiet' = (/\ lapses = 0 /\ produced # {} /\ ~Writing
                              /\ file["records"].exists /\ file["history"].exists)
                 /\ UNCHANGED vars

\* Bugged: the read goes to the end of the file, whatever was allocated.
BugReadFrame == /\ vpc = "read" /\ have < SizeNow(file[reading])
                /\ got' = [got EXCEPT ![reading] = file[reading]]
                /\ UNCHANGED <<vpc, reading, size>>
\* fread, frame by frame, of what the file holds there by now and no more than
\* was asked for.
ReadFrame == /\ vpc = "read" /\ have < size /\ SizeNow(file[reading]) >= upto
             /\ got' = [got EXCEPT ![reading] =
                          IF upto = have + 2
                          THEN Whole(Append(@.frames, file[reading].frames[Len(@.frames) + 1]))
                          ELSE Partial(@.frames)]
             /\ UNCHANGED <<vpc, reading, size>>

NextFile == vpc = "read" /\ have = size /\ reading = "records" /\ OpenFile("history")

\* The loop over the two buffers, whose verdict is Accepts.
Judge == /\ vpc = "read" /\ have = size /\ reading = "history"
         /\ \E g \in Garbage :
              Ends(IF Accepts(got.records, got.history, g) THEN "PASS" ELSE "FAIL")

\* Bugged: when the file has become shorter, fread is tried again.
BugShortRead == /\ vpc = "read" /\ have < size /\ SizeNow(file[reading]) < upto
                /\ UNCHANGED verifier
\* The file has become shorter than it was said to be.
ShortRead == /\ vpc = "read" /\ have < size /\ SizeNow(file[reading]) < upto
             /\ Ends("FAIL")

Verify == /\ ReadFrame \/ NextFile \/ Judge \/ ShortRead
          /\ UNCHANGED <<vars, quiet>>

LeaveVerifier == /\ vpc \in {"PASS", "FAIL"}
                 /\ Ends("idle") /\ quiet' = FALSE
                 /\ UNCHANGED vars
-----------------------------------------------------------------------------
\* The pipeline program goes on; a power loss takes the verifier with it.
Beside == quiet' = (quiet /\ ~Writing') /\ UNCHANGED verifier
Run    == Advance /\ Beside
Others == (Start \/ Exit \/ FailEarly \/ FailWriting \/ CloseFails \/ Kill) /\ Beside
Power  == PowerLoss /\ Ends("idle") /\ quiet' = FALSE

LiveNext == Run \/ Others \/ Power \/ StartVerifier \/ Verify \/ LeaveVerifier

LiveSpec == LiveInit /\ [][LiveNext]_live
\* Either process keeps running unless it fails or is killed.
FairLiveSpec == LiveSpec /\ WF_vars(Advance) /\ WF_verifier(Verify)
-----------------------------------------------------------------------------
(* The verifier reads no more than a file held when it asked.              *)
LiveTypeOK == /\ vpc \in {"idle", "read", "PASS", "FAIL"}
              /\ reading \in {"records", "history"}
              /\ vpc = "read" => have <= size
              /\ \A f \in {"records", "history"} : IsContents(got[f])

(* What a verifier accepts is the beginning, of the same length, of the    *)
(* records and of the history of one run, although it reads them one after *)
(* the other while runs replace them: bytes of the file before and of the  *)
(* file after, or the records of one run and the history of the next,      *)
(* never pass together unless they agree.                                  *)
LiveAcceptedIsOneRun ==
  [][vpc = "read" /\ vpc' = "PASS" =>
       \E p \in produced :
         LET n == Len(got.records.frames)
         IN  /\ n <= Len(p.records)
             /\ got.records.frames = SubSeq(p.records, 1, n)
             /\ got.history.frames = SubSeq(p.history, 1, n)]_live

(* After a reported PASS the verifier passes, whatever fails or is killed  *)
(* before a run begins to write again, unless a power loss took away a     *)
(* file that had been new.                                                 *)
QuietVerifierPasses == [][vpc = "read" /\ vpc' = "FAIL" => ~quiet]_live

(* A verifier answers, however often the files change under it, unless the *)
(* power fails.                                                            *)
VerifierAnswers == vpc = "read" ~> vpc \in {"PASS", "FAIL", "idle"}
=============================================================================
