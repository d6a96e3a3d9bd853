------------------------------- MODULE Ingest -------------------------------
(***************************************************************************)
(* Directory ingest (ingest.c) of a tree that other programs change while  *)
(* it is read: lstat, open, the reads, the two opendirs and each readdir   *)
(* of an entry are separate steps.  Modification times and modes are left  *)
(* out; nothing depends on them.                                           *)
(***************************************************************************)
EXTENDS Integers, FiniteSets, SequencesExt

CONSTANTS Names,        \* file names: sequences of bytes without '/'
          Paths,        \* paths below the root: sequences of names
          Inodes,       \* identities of files
          Chunks,       \* what one read returns
          Contents,     \* file contents: sequences of chunks
          Trees,        \* the trees ingest may start on
          MaxChanges,   \* bound on the changes others make meanwhile
          MaxErrors     \* bound on failing calls

Nowhere == 0
Root    == <<>>
Kind    == {"file", "dir", "symlink", "other"}
Node    == [kind : Kind, data : Contents, access : BOOLEAN]
Tree    == [at : [Paths -> Inodes \cup {Nowhere}], node : [Inodes -> Node]]

Slash   == 47

\* What a path leads through are directories.
Rooted(t) ==
  \A p \in Paths : t.at[p] # Nowhere =>
    \A k \in 1 .. Len(p) - 1 :
      LET x == t.at[SubSeq(p, 1, k)] IN x # Nowhere /\ t.node[x].kind = "dir"

ASSUME IngestAssumption ==
  /\ Names \subseteq Seq((0 .. 255) \ {Slash}) /\ Paths \subseteq Seq(Names) \ {Root}
  /\ \A p \in Paths : \A k \in 1 .. Len(p) - 1 : SubSeq(p, 1, k) \in Paths
  /\ \A t \in Trees : Rooted(t)
  /\ Inodes \subseteq Nat \ {Nowhere}
  /\ Contents \subseteq Seq(Chunks) /\ <<>> \in Contents /\ Trees \subseteq Tree
  /\ MaxChanges \in Nat /\ MaxErrors \in Nat

VARIABLES
  tree,              \* the tree as it is now
  pc,                \* where ingest is
  stack,             \* the open directory streams of the recursion
  path, kind, size,  \* add_entry: its entry and what lstat said of it
  fd, got,           \* sha_file: the file it has open, what it has read
  out,               \* the observations
  changes, errors,   \* bounds
  touched,           \* history: paths whose entry was changed, not just added to
  named, held        \* history: files each path was a name of, nodes each file was

local == <<path, kind, size, fd, got>>
past  == <<touched, named, held>>
vars  == <<tree, pc, stack, local, out, changes, errors, past>>

Exists(p)   == tree.at[p] # Nowhere
NodeAt(p)   == tree.node[tree.at[p]]
IsDir(p)    == p # Root => Exists(p) /\ NodeAt(p).kind = "dir"
Children(p) == {n \in Names : Append(p, n) \in Paths /\ Exists(Append(p, n))}

\* An open directory: the names readdir must still return, and those it may
\* because they came, or went and came, since it was opened.
Stream(p) == [dir |-> p, pending |-> Children(p), maybe |-> {}]

\* join_path, name by name.
Joined(p) == LET upto[k \in 1 .. Len(p)] == IF k = 1 THEN p[1] ELSE upto[k - 1] \o <<Slash>> \o p[k]
             IN  upto
Bytes(p)  == Joined(p)[Len(p)]
LexLess(s, t) == \/ IsStrictPrefix(s, t)
                 \/ \E k \in DOMAIN s \cap DOMAIN t :
                      s[k] < t[k] /\ \A j \in 1 .. k - 1 : s[j] = t[j]
\* Bugged: the lengths are not compared when one path begins the other.
Bug_cmp_obs(a, b) == /\ LexLess(Bytes(a.path), Bytes(b.path))
                     /\ ~IsStrictPrefix(Bytes(a.path), Bytes(b.path))
cmp_obs(a, b)     == LexLess(Bytes(a.path), Bytes(b.path))

\* push, as add_entry fills the observation.
Push(readable, hashed) ==
  out' = Append(out, [path |-> path, object_type |-> kind, size |-> size,
                      readable |-> readable, content |-> hashed])
NoContent == <<"absent">>

Init == /\ tree \in Trees /\ pc = "start" /\ stack = <<>>
        /\ path = Root /\ kind = "dir" /\ size = 0 /\ fd = Nowhere /\ got = <<>>
        /\ out = <<>> /\ changes = 0 /\ errors = 0 /\ touched = {}
        /\ named = [p \in Paths |-> {tree.at[p]}]
        /\ held = [x \in Inodes |-> {tree.node[x]}]
-----------------------------------------------------------------------------
OpenRoot == /\ pc = "start"
            /\ pc' = "readdir" /\ stack' = <<Stream(Root)>>
            /\ UNCHANGED <<local, out, errors>>

NextEntry == /\ pc = "readdir"
             /\ \E n \in Last(stack).pending \cup Last(stack).maybe :
                  /\ path' = Append(Last(stack).dir, n)
                  /\ stack' = [stack EXCEPT ![Len(stack)].pending = @ \ {n},
                                            ![Len(stack)].maybe = @ \ {n}]
             /\ pc' = "lstat"
             /\ UNCHANGED <<kind, size, fd, got, out, errors>>

\* One more call fails, for no reason to be found in the tree.
CallFails == errors < MaxErrors /\ errors' = errors + 1

\* readdir returns NULL, be it for an error, which is not looked at.
EndOfDir == /\ pc = "readdir"
            /\ \/ Last(stack).pending = {} /\ errors' = errors
               \/ Last(stack).pending # {} /\ CallFails
            /\ stack' = Front(stack)
            /\ pc' = IF stack' = <<>> THEN "sort" ELSE "readdir"
            /\ UNCHANGED <<local, out>>

\* An entry that is gone by now ends the whole ingest.
Lstat == /\ pc = "lstat"
         /\ IF Exists(path)
            THEN /\ kind' = NodeAt(path).kind
                 /\ size' = IF kind' = "file" THEN Len(NodeAt(path).data) ELSE 0
                 /\ pc' = CASE kind' = "file" -> "open"
                            [] kind' = "dir" -> "probe"
                            [] kind' \in {"symlink", "other"} -> "unread"
                 /\ out' = out
            ELSE pc' = "fail" /\ out' = <<>> /\ UNCHANGED <<kind, size>>
         /\ UNCHANGED <<stack, path, fd, got, errors>>

\* A path is resolved again when it is opened, and links are followed now; a
\* directory opens but does not read.
CanRead(p) == Exists(p) /\ NodeAt(p).access /\ NodeAt(p).kind # "dir"

\* Bugged: a file that cannot be opened ends the ingest.
BugOpen == /\ pc = "open"
           /\ \/ CanRead(path) /\ pc' = "read" /\ fd' = tree.at[path] /\ errors' = errors
              \/ ~CanRead(path) /\ pc' = "fail" /\ fd' = fd /\ errors' = errors
              \/ CallFails /\ pc' = "fail" /\ fd' = fd
           /\ got' = <<>>
           /\ UNCHANGED <<stack, path, kind, size, out>>

\* Bugged: the hash of the file before is gone on with.
BugOpenGoesOn ==
  /\ pc = "open"
  /\ \/ CanRead(path) /\ pc' = "read" /\ fd' = tree.at[path] /\ errors' = errors
     \/ ~CanRead(path) /\ pc' = "unread" /\ fd' = fd /\ errors' = errors
     \/ CallFails /\ pc' = "unread" /\ fd' = fd
  /\ UNCHANGED <<stack, path, kind, size, got, out>>

Open == /\ pc = "open"
        /\ \/ CanRead(path) /\ pc' = "read" /\ fd' = tree.at[path] /\ errors' = errors
           \/ ~CanRead(path) /\ pc' = "unread" /\ fd' = fd /\ errors' = errors
           \/ CallFails /\ pc' = "unread" /\ fd' = fd
        /\ got' = <<>>
        /\ UNCHANGED <<stack, path, kind, size, out>>

\* Bugged: the end of the file is not noticed.
BugRead == /\ pc = "read" /\ Len(got) >= Len(tree.node[fd].data) /\ UNCHANGED vars

\* Bugged: a failing read is taken for the end of the file.
BugReadPartial ==
  /\ pc = "read"
  /\ \/ /\ Len(got) < Len(tree.node[fd].data)
        /\ got' = Append(got, tree.node[fd].data[Len(got) + 1])
        /\ pc' = pc /\ UNCHANGED <<fd, out, errors>>
     \/ /\ \/ Len(got) >= Len(tree.node[fd].data) /\ errors' = errors
           \/ CallFails
        /\ Push(TRUE, got)
        /\ pc' = "readdir" /\ fd' = Nowhere /\ got' = got
  /\ UNCHANGED <<stack, path, kind, size>>

\* One read of sha_file, of what the file holds there now.
Read == /\ pc = "read"
        /\ \/ /\ Len(got) < Len(tree.node[fd].data)
              /\ got' = Append(got, tree.node[fd].data[Len(got) + 1])
              /\ pc' = pc /\ UNCHANGED <<fd, out, errors>>
           \/ /\ Len(got) >= Len(tree.node[fd].data)
              /\ Push(TRUE, got)
              /\ pc' = "readdir" /\ fd' = Nowhere /\ UNCHANGED <<got, errors>>
           \/ /\ CallFails
              /\ pc' = "unread" /\ fd' = Nowhere /\ UNCHANGED <<got, out>>
        /\ UNCHANGED <<stack, path, kind, size>>

\* Symlinks and special files, and files whose content could not be read.
Unread == /\ pc = "unread"
          /\ Push(FALSE, NoContent)
          /\ pc' = "readdir"
          /\ UNCHANGED <<stack, local, errors>>

CanList(p) == IsDir(p) /\ NodeAt(p).access

\* A directory is opened once to see whether it can be, and again to list it.
\* opendir may also fail for want of descriptors, of which one is held per level,
\* or of memory.
Probe == /\ pc = "probe"
         /\ \/ Push(CanList(path), NoContent) /\ errors' = errors
            \/ Push(FALSE, NoContent) /\ CallFails
         /\ pc' = "descend"
         /\ UNCHANGED <<stack, local>>

\* Bugged: the subdirectory's listing replaces the one in progress.
BugDescendReplaces ==
  /\ pc = "descend"
  /\ \/ /\ stack' = IF CanList(path) THEN Append(Front(stack), Stream(path)) ELSE stack
        /\ errors' = errors
     \/ CallFails /\ stack' = stack
  /\ pc' = "readdir"
  /\ UNCHANGED <<local, out>>
Descend == /\ pc = "descend"
           /\ \/ CanList(path) /\ stack' = Append(stack, Stream(path)) /\ errors' = errors
              \/ ~CanList(path) /\ stack' = stack /\ errors' = errors
              \/ CallFails /\ stack' = stack
           /\ pc' = "readdir"
           /\ UNCHANGED <<local, out>>

\* qsort: no observation stands behind a larger one.  Which of two of the same
\* path comes first is not said.
Sort == /\ pc = "sort"
        /\ \E order \in Bijection(DOMAIN out, DOMAIN out) :
             out' = [k \in DOMAIN out |-> out[order[k]]]
        /\ \A k \in DOMAIN out : \A j \in 1 .. k - 1 : ~cmp_obs(out'[k], out'[j])
        /\ pc' = "done"
        /\ UNCHANGED <<stack, local, errors>>

\* An allocation or an lstat fails, a path grows too long or the root does not
\* open: all observations are freed.
Fail == /\ pc \notin {"done", "fail"} /\ CallFails
        /\ pc' = "fail" /\ out' = <<>>
        /\ UNCHANGED <<stack, local>>

Program == /\ \/ OpenRoot \/ NextEntry \/ EndOfDir \/ Lstat \/ Open \/ Read
              \/ Unread \/ Probe \/ Descend \/ Sort \/ Fail
           /\ UNCHANGED <<tree, changes, past>>
-----------------------------------------------------------------------------
\* What other programs do to the tree.
Change(paths) == /\ pc \notin {"start", "done", "fail"}
                 /\ changes < MaxChanges /\ changes' = changes + 1
                 /\ touched' = touched \cup paths
                 /\ named' = [p \in Paths |-> named[p] \cup {tree'.at[p]}]
                 /\ held' = [x \in Inodes |-> held[x] \cup {tree'.node[x]}]
                 /\ UNCHANGED <<pc, local, out, errors>>

\* What becomes of the open streams when entries leave and come.
Notice(gone, new) ==
  stack' = [k \in DOMAIN stack |->
     LET names(ps) == {Last(p) : p \in {x \in ps : Front(x) = stack[k].dir}}
     IN  [stack[k] EXCEPT !.pending = @ \ names(gone),
                          !.maybe = @ \cup names(new) \cup (stack[k].pending \cap names(gone))]]

\* Names of the file at p, which share what happens to it.
Links(p) == {q \in Paths : tree.at[q] = tree.at[p]}

\* A link's data is what it leads to.
Creatable == {n \in Node : n.kind # "other" /\ (n.kind = "dir" => n.data = <<>>)}

Create == \E p \in Paths, x \in Inodes \ ({tree.at[q] : q \in Paths} \cup {fd}), n \in Creatable :
            /\ ~Exists(p) /\ IsDir(Front(p))
            /\ tree' = [at |-> [tree.at EXCEPT ![p] = x], node |-> [tree.node EXCEPT ![x] = n]]
            /\ Notice({}, {p}) /\ Change({p})
Unlink == \E p \in Paths :
            /\ Exists(p) /\ Children(p) = {}
            /\ tree' = [tree EXCEPT !.at[p] = Nowhere]
            /\ Notice({p}, {}) /\ Change({p})
Rename == \E p, q \in Paths :
            /\ p # q /\ Exists(p) /\ ~IsDir(p) /\ ~IsDir(q) /\ IsDir(Front(q))
            /\ tree' = [tree EXCEPT !.at[q] = tree.at[p], !.at[p] = Nowhere]
            /\ Notice({p, q}, {q}) /\ Change({p, q})
Rewrite == \E p \in Paths, c \in Contents :
             /\ Exists(p) /\ NodeAt(p).kind = "file" /\ NodeAt(p).data # c
             /\ tree' = [tree EXCEPT !.node[tree.at[p]].data = c]
             /\ UNCHANGED stack /\ Change(Links(p))
Chmod == \E p \in Paths :
           /\ Exists(p)
           /\ tree' = [tree EXCEPT !.node[tree.at[p]].access = ~@]
           /\ UNCHANGED stack
           /\ Change({q \in Paths : \E x \in Links(p) : IsPrefix(x, q)})

Others == Create \/ Unlink \/ Rename \/ Rewrite \/ Chmod
Done == pc \in {"done", "fail"} /\ UNCHANGED vars

Next == Program \/ Others \/ Done

Spec == Init /\ [][Next]_vars
\* k501_ingest_run keeps running.
FairSpec == Spec /\ WF_vars(Program)
-----------------------------------------------------------------------------
(* The stack holds the directories on the way to the entry at work, each   *)
(* below the one before, so that the recursion is as deep as the tree.     *)
TypeOK == /\ tree \in Tree
          /\ pc \in {"start", "readdir", "lstat", "open", "read", "unread", "probe",
                     "descend", "sort", "done", "fail"}
          /\ pc \in {"readdir", "lstat", "open", "read", "unread", "probe", "descend"} => stack # <<>>
          /\ \A k \in DOMAIN stack : Len(stack[k].dir) = k - 1
          /\ \A o \in ToSet(out) : o.path \in Paths /\ o.object_type \in Kind

\* What an undisturbed entry is observed as.
Expected(p) ==
  LET n == NodeAt(p)
  IN  [path |-> p, object_type |-> n.kind,
       size |-> IF n.kind = "file" THEN Len(n.data) ELSE 0,
       readable |-> n.kind \in {"file", "dir"} /\ n.access,
       content |-> IF n.kind = "file" /\ n.access THEN n.data ELSE NoContent]

\* Ingest can reach p through directories it may list.
Reachable(p) == Exists(p) /\ \A k \in 1 .. Len(p) - 1 : CanList(SubSeq(p, 1, k))

\* The observations of p.
Seen(p) == {k \in DOMAIN out : out[k].path = p}

(* Whatever others change around it while ingest runs, an entry that is    *)
(* left alone is observed exactly once and exactly as it is, unless some   *)
(* call failed; and an entry that is not there is not observed.            *)
StableSeenOnce ==
  pc = "done" /\ errors = 0 =>
    \A p \in Paths \ touched :
      IF Reachable(p) THEN \E k \in DOMAIN out : Seen(p) = {k} /\ out[k] = Expected(p)
      ELSE Seen(p) = {}

(* A failing open, read, opendir or readdir, of which the caller learns    *)
(* nothing, can only leave out: an entry that is left alone is then        *)
(* missing, or is a file or directory reported unreadable and without      *)
(* content, but never a partial content or a second observation.           *)
FailuresOnlyOmit ==
  pc = "done" =>
    \A p \in Paths \ touched : \A k \in Seen(p) :
      /\ Seen(p) = {k} /\ Reachable(p)
      /\ out[k] \in {Expected(p), [Expected(p) EXCEPT !.readable = FALSE, !.content = NoContent]}

(* However the tree is changed meanwhile, what is observed of a path was   *)
(* there: a file it was a name of had the kind and the size, and what was  *)
(* hashed is, read by read, of contents of one file it was a name of,      *)
(* though perhaps a mixture of contents the file had one after the other.  *)
ObservedWasThere ==
  \A o \in ToSet(out) :
    LET files == named[o.path] \ {Nowhere}
    IN  /\ \E x \in files : \E n \in held[x] :
             o.object_type = n.kind /\ (n.kind = "file" => o.size = Len(n.data))
        /\ o.content # NoContent =>
             \E x \in files : \A k \in DOMAIN o.content :
               \E n \in held[x] : k \in DOMAIN n.data /\ o.content[k] = n.data[k]

(* A tree nobody changes is listed in strict byte order of the paths,      *)
(* whatever order readdir returns the names in: runs over it agree.        *)
SortedByPath ==
  pc = "done" /\ touched = {} =>
    \A k \in 1 .. Len(out) - 1 : LexLess(Bytes(out[k].path), Bytes(out[k + 1].path))

(* Ingest fails only when a call failed or an entry was changed under it.  *)
FailureHasCause == pc = "fail" => errors > 0 \/ touched # {}

(* Ingest ends.                                                            *)
Ends == pc = "readdir" ~> pc \in {"done", "fail"}
=============================================================================
