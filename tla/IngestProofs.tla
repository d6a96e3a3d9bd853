---------------------------- MODULE IngestProofs ----------------------------
(***************************************************************************)
(* What ingest may rely on and what may be relied on of it, for every      *)
(* tree, any number of changes made to it meanwhile and any number of      *)
(* failing calls.                                                          *)
(***************************************************************************)
EXTENDS Ingest, TLAPS, WellFoundedInduction, SequenceTheorems

\* A path is its directory and its name in it.
LEMMA PathFacts ==
  ASSUME NEW p \in Paths
  PROVE  /\ p \in Seq(Names) /\ Len(p) \in Nat \ {0}
         /\ Front(p) \in Seq(Names) /\ Last(p) \in Names
         /\ p = Append(Front(p), Last(p))
         /\ Len(Front(p)) = Len(p) - 1
<1>1. p \in Seq(Names) /\ p # <<>> /\ Len(p) \in Nat
  BY IngestAssumption DEF Root
<1>2. Len(p) # 0
  BY <1>1
<1>3. Front(p) \in Seq(Names) /\ Len(Front(p)) = Len(p) - 1
  BY <1>1, <1>2 DEF Front
<1>4. Last(p) \in Names
  BY <1>1, <1>2 DEF Last
<1>5. p = Append(Front(p), Last(p))
  BY <1>1, <1>2 DEF Front, Last
<1> QED
  BY <1>1, <1>2, <1>3, <1>4, <1>5
-----------------------------------------------------------------------------
Streams == [dir : Seq(Names), pending : SUBSET Names, maybe : SUBSET Names]
Observed == [path : Paths, object_type : Kind, size : Nat, readable : BOOLEAN,
             content : Seq(Chunks) \cup {NoContent}]

\* The names an open directory may still give are those of paths.
StackOK ==
  /\ stack \in Seq(Streams)
  /\ \A k \in 1 .. Len(stack) :
       /\ Len(stack[k].dir) = k - 1
       /\ \A n \in stack[k].pending \cup stack[k].maybe : Append(stack[k].dir, n) \in Paths

AtEntry == {"lstat", "open", "read", "unread", "probe", "descend"}

LocalsOK ==
  /\ pc \in {"start", "readdir", "sort", "done", "fail"} \cup AtEntry
  /\ pc \in {"readdir"} \cup AtEntry => stack # <<>>
  /\ pc \in AtEntry => path \in Paths /\ Len(path) = Len(stack)
  /\ kind \in Kind /\ size \in Nat
  /\ fd \in Inodes \cup {Nowhere} /\ (pc = "read" => fd \in Inodes)
  /\ got \in Seq(Chunks) /\ out \in Seq(Observed)
  /\ errors \in Nat /\ touched \subseteq Paths

IngestInv == tree \in Tree /\ StackOK /\ LocalsOK

LEMMA StreamFacts ==
  ASSUME IngestInv, NEW p, p = Root \/ p \in Paths
  PROVE  /\ Stream(p) \in Streams /\ Stream(p).dir = p
         /\ \A n \in Stream(p).pending \cup Stream(p).maybe : Append(p, n) \in Paths
<1>1. p \in Seq(Names)
  <2>1. p \in Paths => p \in Seq(Names)
    BY PathFacts
  <2>2. <<>> \in Seq(Names)
    OBVIOUS
  <2> QED
    BY <2>1, <2>2 DEF Root
<1>2. Children(p) \subseteq Names /\ \A n \in Children(p) : Append(p, n) \in Paths
  BY DEF Children
<1>3. Stream(p) = [dir |-> p, pending |-> Children(p), maybe |-> {}]
  BY DEF Stream
<1> HIDE DEF Children
<1>4. Stream(p) \in Streams
  BY <1>1, <1>2, <1>3 DEF Streams
<1>5. Stream(p).dir = p /\ Stream(p).pending = Children(p) /\ Stream(p).maybe = {}
  BY <1>3
<1> QED
  BY <1>2, <1>4, <1>5

LEMMA SubSeqFacts ==
  ASSUME NEW S, NEW s \in Seq(S), NEW n \in 0 .. Len(s)
  PROVE  /\ SubSeq(s, 1, n) \in Seq(S) /\ Len(SubSeq(s, 1, n)) = n
         /\ \A k \in 1 .. n : SubSeq(s, 1, n)[k] = s[k]
<1>1. SubSeq(s, 1, n) \in Seq(S)
  OBVIOUS
<1>2. Len(SubSeq(s, 1, n)) = n
  OBVIOUS
<1>3. \A k \in 1 .. n : SubSeq(s, 1, n)[k] = s[k]
  OBVIOUS
<1> QED
  BY <1>1, <1>2, <1>3

\* The last stream, and a stack with one stream more or one less.
LEMMA StackFacts ==
  ASSUME StackOK, stack # <<>>
  PROVE  /\ Len(stack) \in Nat \ {0} /\ Last(stack) = stack[Len(stack)] /\ Last(stack) \in Streams
         /\ Front(stack) \in Seq(Streams) /\ Len(Front(stack)) = Len(stack) - 1
         /\ \A k \in 1 .. Len(stack) - 1 : Front(stack)[k] = stack[k]
<1>1. stack \in Seq(Streams) /\ Len(stack) \in Nat
  BY DEF StackOK
<1>2. Len(stack) # 0
  BY <1>1
<1> DEFINE f == SubSeq(stack, 1, Len(stack) - 1)
<1>3. /\ f \in Seq(Streams) /\ Len(f) = Len(stack) - 1
      /\ \A k \in 1 .. Len(stack) - 1 : f[k] = stack[k]
  <2>1. Len(stack) - 1 \in 0 .. Len(stack)
    BY <1>1, <1>2
  <2> QED
    BY <1>1, <2>1, SubSeqFacts
<1>4. Last(stack) = stack[Len(stack)] /\ stack[Len(stack)] \in Streams
  BY <1>1, <1>2 DEF Last
<1>5. Front(stack) = f
  BY DEF Front
<1> HIDE DEF f
<1> QED
  BY <1>1, <1>2, <1>3, <1>4, <1>5

LEMMA NextEntryKeeps == IngestInv /\ NextEntry => StackOK' /\ path' \in Paths /\ Len(path') = Len(stack)
                                                  /\ Len(stack') = Len(stack)
<1> SUFFICES ASSUME IngestInv, NextEntry
             PROVE  StackOK' /\ path' \in Paths /\ Len(path') = Len(stack) /\ Len(stack') = Len(stack)
  OBVIOUS
<1>1. StackOK /\ stack # <<>>
  BY DEF IngestInv, LocalsOK, NextEntry
<1> DEFINE m == Len(stack)
           s == stack[m]
<1>2. m \in Nat \ {0} /\ Last(stack) = s /\ s \in Streams /\ stack \in Seq(Streams)
  BY <1>1, StackFacts DEF StackOK
<1>3. PICK n \in s.pending \cup s.maybe :
        /\ path' = Append(s.dir, n)
        /\ stack' = [stack EXCEPT ![m].pending = @ \ {n}, ![m].maybe = @ \ {n}]
  BY <1>2 DEF NextEntry
<1>4. Len(s.dir) = m - 1 /\ s.dir \in Seq(Names) /\ n \in Names /\ path' \in Paths
  <2>1. Len(s.dir) = m - 1 /\ path' \in Paths
    BY <1>1, <1>2, <1>3 DEF StackOK
  <2>2. s.dir \in Seq(Names) /\ n \in Names
    BY <1>2, <1>3 DEF Streams
  <2> QED
    BY <2>1, <2>2
<1>5. Len(path') = m
  BY <1>2, <1>3, <1>4
<1> DEFINE t == [s EXCEPT !.pending = @ \ {n}, !.maybe = @ \ {n}]
<1>6. t \in Streams /\ t.dir = s.dir /\ t.pending \subseteq s.pending /\ t.maybe \subseteq s.maybe
  BY <1>2 DEF Streams
<1>7. stack' = [stack EXCEPT ![m] = t]
  BY <1>2, <1>3 DEF Streams
<1> HIDE DEF t
<1>8. stack' \in Seq(Streams) /\ Len(stack') = m /\ stack'[m] = t
      /\ \A k \in 1 .. m : k # m => stack'[k] = stack[k]
  BY <1>2, <1>6, <1>7
<1>9. ASSUME NEW k \in 1 .. m
      PROVE  /\ Len(stack'[k].dir) = k - 1
             /\ \A x \in stack'[k].pending \cup stack'[k].maybe : Append(stack'[k].dir, x) \in Paths
  BY <1>1, <1>2, <1>6, <1>8 DEF StackOK
<1> QED
  BY <1>4, <1>5, <1>8, <1>9 DEF StackOK

LEMMA EndOfDirKeeps == IngestInv /\ EndOfDir => StackOK'
<1> SUFFICES ASSUME IngestInv, EndOfDir PROVE StackOK'
  OBVIOUS
<1>1. StackOK /\ stack # <<>> /\ stack' = Front(stack)
  BY DEF IngestInv, LocalsOK, EndOfDir
<1>2. /\ stack' \in Seq(Streams) /\ Len(stack') = Len(stack) - 1 /\ Len(stack) \in Nat
      /\ \A k \in 1 .. Len(stack) - 1 : stack'[k] = stack[k]
  BY <1>1, StackFacts
<1>3. \A k \in 1 .. Len(stack') : k \in 1 .. Len(stack) /\ stack'[k] = stack[k]
  BY <1>2
<1> QED
  BY <1>1, <1>2, <1>3 DEF StackOK

LEMMA DescendKeeps == IngestInv /\ (OpenRoot \/ Descend) => StackOK' /\ stack' # <<>>
<1> SUFFICES ASSUME IngestInv, OpenRoot \/ Descend PROVE StackOK' /\ stack' # <<>>
  OBVIOUS
<1>1. CASE OpenRoot
  <2>1. stack' = <<Stream(Root)>> /\ Stream(Root) \in Streams /\ Stream(Root).dir = Root
        /\ \A n \in Stream(Root).pending \cup Stream(Root).maybe : Append(Root, n) \in Paths
    BY <1>1, StreamFacts DEF OpenRoot
  <2> HIDE DEF Stream
  <2>2. stack' \in Seq(Streams) /\ Len(stack') = 1 /\ stack'[1] = Stream(Root) /\ Len(Root) = 0
    BY <2>1 DEF Root
  <2>3. ASSUME NEW k \in 1 .. Len(stack')
        PROVE  /\ Len(stack'[k].dir) = k - 1
               /\ \A n \in stack'[k].pending \cup stack'[k].maybe : Append(stack'[k].dir, n) \in Paths
    <3>1. k = 1
      BY <2>2
    <3>2. stack'[k] = Stream(Root) /\ stack'[k].dir = Root
      BY <2>1, <2>2, <3>1
    <3>3. Len(stack'[k].dir) = k - 1
      BY <2>2, <3>1, <3>2
    <3>4. \A n \in stack'[k].pending \cup stack'[k].maybe : Append(stack'[k].dir, n) \in Paths
      BY <2>1, <3>2
    <3> QED
      BY <3>3, <3>4
  <2>4. stack' # <<>>
    BY <2>1
  <2> QED
    BY <2>2, <2>3, <2>4 DEF StackOK
<1>2. CASE Descend
  <2> DEFINE s == Stream(path)
  <2>1. StackOK /\ stack # <<>> /\ path \in Paths /\ Len(path) = Len(stack)
        /\ stack' \in {Append(stack, s), stack}
    BY <1>2 DEF IngestInv, LocalsOK, AtEntry, Descend
  <2>2. s \in Streams /\ s.dir = path
        /\ \A n \in s.pending \cup s.maybe : Append(path, n) \in Paths
    BY <2>1, StreamFacts
  <2> HIDE DEF s
  <2>3. CASE stack' = Append(stack, s)
    <3>1. stack \in Seq(Streams) /\ Len(stack) \in Nat
      BY <2>1 DEF StackOK
    <3>2. /\ stack' \in Seq(Streams) /\ Len(stack') = Len(stack) + 1
          /\ stack'[Len(stack) + 1] = s /\ \A k \in 1 .. Len(stack) : stack'[k] = stack[k]
      BY <2>2, <2>3, <3>1
    <3> QED
      BY <2>1, <2>2, <3>1, <3>2, SMTT(20) DEF StackOK
  <2>4. CASE stack' = stack
    BY <2>1, <2>4 DEF StackOK
  <2> QED
    BY <2>1, <2>3, <2>4
<1> QED
  BY <1>1, <1>2
-----------------------------------------------------------------------------
LEMMA NodeFacts ==
  ASSUME tree \in Tree, NEW p \in Paths
  PROVE  /\ tree.at[p] \in Inodes \cup {Nowhere}
         /\ Exists(p) => /\ tree.at[p] \in Inodes
                         /\ NodeAt(p) = tree.node[tree.at[p]] /\ NodeAt(p) \in Node
BY DEF Tree, Exists, NodeAt

LEMMA ContentFacts ==
  ASSUME NEW n \in Node
  PROVE  /\ n.kind \in Kind /\ n.access \in BOOLEAN
         /\ n.data \in Seq(Chunks) /\ Len(n.data) \in Nat
<1>1. n.data \in Contents /\ n.kind \in Kind /\ n.access \in BOOLEAN
  BY DEF Node
<1>2. n.data \in Seq(Chunks)
  BY <1>1, IngestAssumption
<1> QED
  BY <1>1, <1>2

LEMMA PushFacts ==
  ASSUME IngestInv, pc \in AtEntry,
         NEW readable \in BOOLEAN, NEW hashed \in Seq(Chunks) \cup {NoContent}, Push(readable, hashed)
  PROVE  /\ out' \in Seq(Observed)
         /\ \A k \in 1 .. Len(out') :
              \/ k \in 1 .. Len(out) /\ out'[k] = out[k]
              \/ out'[k] = [path |-> path, object_type |-> kind, size |-> size,
                            readable |-> readable, content |-> hashed]
<1> DEFINE o == [path |-> path, object_type |-> kind, size |-> size,
                 readable |-> readable, content |-> hashed]
<1>1. o \in Observed
  BY DEF Observed, IngestInv, LocalsOK
<1>2. out' = Append(out, o)
  BY DEF Push
<1>3. out \in Seq(Observed) /\ Len(out) \in Nat
  BY DEF IngestInv, LocalsOK
<1> HIDE DEF o
<1>4. /\ out' \in Seq(Observed) /\ Len(out') = Len(out) + 1
      /\ out'[Len(out) + 1] = o /\ \A k \in 1 .. Len(out) : out'[k] = out[k]
  BY <1>1, <1>2, <1>3
<1>5. \A k \in 1 .. Len(out') : k \in 1 .. Len(out) \/ k = Len(out) + 1
  BY <1>3, <1>4
<1> QED
  BY <1>4, <1>5 DEF o

\* Sorting gives the same observations.
LEMMA SortFacts ==
  ASSUME IngestInv, Sort
  PROVE  /\ out' \in Seq(Observed) /\ Len(out') = Len(out)
         /\ \A k \in 1 .. Len(out') : \E j \in 1 .. Len(out) : out'[k] = out[j]
<1>1. out \in Seq(Observed) /\ Len(out) \in Nat /\ DOMAIN out = 1 .. Len(out)
  BY DEF IngestInv, LocalsOK
<1>2. PICK order \in [1 .. Len(out) -> 1 .. Len(out)] : out' = [k \in 1 .. Len(out) |-> out[order[k]]]
  BY <1>1 DEF Sort, Bijection, Injection
<1>3. out' \in [1 .. Len(out) -> Observed]
  BY <1>1, <1>2
<1>4. out' \in Seq(Observed) /\ Len(out') = Len(out)
  BY <1>1, <1>3
<1> QED
  BY <1>2, <1>4

LEMMA ProgramKeeps == IngestInv /\ Program => IngestInv'
<1> SUFFICES ASSUME IngestInv, Program PROVE IngestInv'
  OBVIOUS
<1>0. tree' = tree /\ touched' = touched /\ errors \in Nat /\ tree \in Tree /\ StackOK /\ LocalsOK
  BY DEF Program, past, IngestInv, LocalsOK
<1>s. stack' = stack => StackOK'
  BY <1>0 DEF StackOK
<1>1. CASE OpenRoot
  <2>1. StackOK' /\ stack' # <<>>
    BY <1>1, DescendKeeps
  <2> QED
    BY <1>0, <1>1, <2>1 DEF OpenRoot, IngestInv, LocalsOK, AtEntry, local
<1>2. CASE NextEntry
  <2>1. StackOK' /\ path' \in Paths /\ Len(path') = Len(stack') /\ stack # <<>> /\ stack' # <<>>
    <3>1. StackOK' /\ path' \in Paths /\ Len(path') = Len(stack) /\ Len(stack') = Len(stack)
      BY <1>2, NextEntryKeeps
    <3>2. stack # <<>> /\ stack \in Seq(Streams)
      BY <1>0, <1>2 DEF LocalsOK, NextEntry, StackOK
    <3>3. Len(stack) # 0
      BY <3>2
    <3>4. stack' # <<>>
      BY <3>1, <3>3
    <3> QED
      BY <3>1, <3>2, <3>4
  <2> QED
    BY <1>0, <1>2, <2>1 DEF NextEntry, IngestInv, LocalsOK, AtEntry
<1>3. CASE EndOfDir
  <2>1. StackOK'
    BY <1>3, EndOfDirKeeps
  <2>2. errors' \in Nat /\ pc' \in {"sort", "readdir"} /\ (pc' = "readdir" => stack' # <<>>)
    BY <1>0, <1>3 DEF EndOfDir, CallFails
  <2> QED
    BY <1>0, <1>3, <2>1, <2>2 DEF EndOfDir, IngestInv, LocalsOK, AtEntry, local
<1>4. CASE Lstat
  <2>1. path \in Paths /\ pc = "lstat"
    BY <1>0, <1>4 DEF Lstat, LocalsOK, AtEntry
  <2>2. CASE Exists(path)
    <3>1. NodeAt(path).kind \in Kind /\ Len(NodeAt(path).data) \in Nat
      BY <1>0, <2>1, <2>2, NodeFacts, ContentFacts
    <3>2. kind' \in Kind /\ size' \in Nat /\ pc' \in {"open", "probe", "unread"} /\ out' = out
      BY <1>4, <2>2, <3>1 DEF Lstat, Kind
    <3> QED
      BY <1>0, <1>s, <1>4, <2>1, <3>2 DEF Lstat, IngestInv, LocalsOK, AtEntry
  <2>3. CASE ~Exists(path)
    <3>1. out' = <<>> /\ pc' = "fail" /\ kind' = kind /\ size' = size
      BY <1>4, <2>3 DEF Lstat
    <3>2. <<>> \in Seq(Observed)
      OBVIOUS
    <3> QED
      BY <1>0, <1>s, <1>4, <3>1, <3>2 DEF Lstat, IngestInv, LocalsOK, AtEntry
  <2> QED
    BY <2>2, <2>3
<1>5. CASE Open
  <2>1. path \in Paths /\ pc = "open"
    BY <1>0, <1>5 DEF Open, LocalsOK, AtEntry
  <2>2. /\ fd' \in Inodes \cup {Nowhere} /\ (pc' = "read" => fd' \in Inodes) /\ pc' \in {"read", "unread"}
    BY <1>0, <1>5, <2>1, NodeFacts DEF Open, CanRead, LocalsOK
  <2>3. got' \in Seq(Chunks)
    <3>1. <<>> \in Seq(Chunks)
      OBVIOUS
    <3> QED
      BY <1>5, <3>1 DEF Open
  <2> QED
    BY <1>0, <1>s, <1>5, <2>1, <2>2, <2>3 DEF Open, CallFails, IngestInv, LocalsOK, AtEntry
<1>6. CASE Read
  <2>1. pc = "read" /\ fd \in Inodes /\ pc \in AtEntry /\ path \in Paths /\ got \in Seq(Chunks)
    BY <1>0, <1>6 DEF Read, LocalsOK, AtEntry
  <2>2. tree.node[fd].data \in Seq(Chunks) /\ Len(tree.node[fd].data) \in Nat
    BY <1>0, <2>1, ContentFacts DEF Tree
  <2>3. CASE /\ Len(got) < Len(tree.node[fd].data)
             /\ got' = Append(got, tree.node[fd].data[Len(got) + 1])
             /\ pc' = pc /\ UNCHANGED <<fd, out, errors>>
    <3>1. got' \in Seq(Chunks)
      BY <2>1, <2>2, <2>3
    <3> QED
      BY <1>0, <1>s, <1>6, <2>1, <2>3, <3>1 DEF Read, IngestInv, LocalsOK, AtEntry
  <2>4. CASE /\ Push(TRUE, got)
             /\ pc' = "readdir" /\ fd' = Nowhere /\ UNCHANGED <<got, errors>>
    <3>1. out' \in Seq(Observed)
      BY <2>1, <2>4, PushFacts
    <3> QED
      BY <1>0, <1>s, <1>6, <2>1, <2>4, <3>1 DEF Read, IngestInv, LocalsOK, AtEntry
  <2>5. CASE /\ CallFails
             /\ pc' = "unread" /\ fd' = Nowhere /\ UNCHANGED <<got, out>>
    BY <1>0, <1>s, <1>6, <2>1, <2>5 DEF Read, CallFails, IngestInv, LocalsOK, AtEntry
  <2> QED
    BY <1>6, <2>3, <2>4, <2>5 DEF Read
<1>7. CASE Unread
  <2>1. pc = "unread" /\ pc \in AtEntry
    BY <1>7 DEF Unread, AtEntry
  <2>2. out' \in Seq(Observed)
    BY <1>7, <2>1, PushFacts DEF Unread
  <2> QED
    BY <1>0, <1>s, <1>7, <2>1, <2>2 DEF Unread, IngestInv, LocalsOK, AtEntry, local
<1>8. CASE Probe
  <2>1. pc = "probe" /\ pc \in AtEntry /\ path \in Paths
    BY <1>0, <1>8 DEF Probe, AtEntry, LocalsOK
  <2>2. CanList(path) \in BOOLEAN
    <3>1. IsDir(path) => Exists(path)
      BY <2>1, IngestAssumption DEF IsDir
    <3>2. Exists(path) => NodeAt(path).access \in BOOLEAN
      BY <1>0, <2>1, NodeFacts, ContentFacts
    <3> QED
      BY <3>1, <3>2 DEF CanList, IsDir
  <2>3. out' \in Seq(Observed)
    BY <1>8, <2>1, <2>2, PushFacts DEF Probe
  <2> QED
    <3>1. /\ pc' = "descend" /\ UNCHANGED <<stack, path, kind, size, fd, got>>
          /\ errors' \in {errors, errors + 1}
      BY <1>8 DEF Probe, CallFails, local
    <3>2. errors' \in Nat
      BY <1>0, <3>1 DEF LocalsOK
    <3> QED
      BY <1>0, <1>s, <2>1, <2>3, <3>1, <3>2 DEF IngestInv, LocalsOK, AtEntry
<1>9. CASE Descend
  <2>1. StackOK' /\ stack' # <<>>
    BY <1>9, DescendKeeps
  <2> QED
    BY <1>0, <1>9, <2>1 DEF Descend, CallFails, IngestInv, LocalsOK, AtEntry, local
<1>10. CASE Sort
  <2>1. out' \in Seq(Observed)
    BY <1>10, SortFacts
  <2> QED
    BY <1>0, <1>s, <1>10, <2>1 DEF Sort, IngestInv, LocalsOK, AtEntry, local
<1>11. CASE Fail
  <2>1. <<>> \in Seq(Observed)
    OBVIOUS
  <2> QED
    BY <1>0, <1>s, <1>11, <2>1 DEF Fail, CallFails, IngestInv, LocalsOK, AtEntry, local
<1> QED
  BY <1>1, <1>2, <1>3, <1>4, <1>5, <1>6, <1>7, <1>8, <1>9, <1>10, <1>11 DEF Program
-----------------------------------------------------------------------------
\* What others do to the tree leaves the recursion where it is.
LEMMA NoticeKeeps ==
  ASSUME StackOK, NEW gone \in SUBSET Paths, NEW new \in SUBSET Paths, Notice(gone, new)
  PROVE  StackOK' /\ Len(stack') = Len(stack)
<1> DEFINE names(ps, k) == {Last(p) : p \in {x \in ps : Front(x) = stack[k].dir}}
           t(k) == [stack[k] EXCEPT !.pending = @ \ names(gone, k),
                                    !.maybe = @ \cup names(new, k) \cup (stack[k].pending \cap names(gone, k))]
<1>1. stack \in Seq(Streams) /\ Len(stack) \in Nat /\ DOMAIN stack = 1 .. Len(stack)
  BY DEF StackOK
<1>2. stack' = [k \in DOMAIN stack |-> t(k)]
  BY DEF Notice
<1>3. ASSUME NEW k \in 1 .. Len(stack)
      PROVE  /\ t(k) \in Streams /\ t(k).dir = stack[k].dir
             /\ \A n \in t(k).pending \cup t(k).maybe : Append(t(k).dir, n) \in Paths
  <2>1. stack[k] \in Streams /\ \A n \in stack[k].pending \cup stack[k].maybe : Append(stack[k].dir, n) \in Paths
    BY <1>1 DEF StackOK
  <2>2. \A n \in names(new, k) : n \in Names /\ Append(stack[k].dir, n) \in Paths
    BY PathFacts
  <2> HIDE DEF names
  <2>3. /\ t(k).dir = stack[k].dir /\ t(k).pending = stack[k].pending \ names(gone, k)
        /\ t(k).maybe = stack[k].maybe \cup names(new, k) \cup (stack[k].pending \cap names(gone, k))
    BY <2>1 DEF Streams
  <2>4. t(k) \in Streams
    BY <2>1, <2>2 DEF Streams
  <2> HIDE DEF t
  <2> QED
    BY <2>1, <2>2, <2>3, <2>4
<1> HIDE DEF t
<1>4. stack' \in [1 .. Len(stack) -> Streams]
  BY <1>1, <1>2, <1>3
<1>5. stack' \in Seq(Streams) /\ Len(stack') = Len(stack)
  BY <1>1, <1>4
<1>6. \A k \in 1 .. Len(stack) : stack'[k] = t(k)
  BY <1>1, <1>2
<1>7. ASSUME NEW k \in 1 .. Len(stack')
      PROVE  /\ Len(stack'[k].dir) = k - 1
             /\ \A n \in stack'[k].pending \cup stack'[k].maybe : Append(stack'[k].dir, n) \in Paths
  <2>1. k \in 1 .. Len(stack) /\ Len(stack[k].dir) = k - 1
    BY <1>5 DEF StackOK
  <2>2. stack'[k] = t(k)
    BY <1>6, <2>1
  <2> QED
    BY <1>3, <2>1, <2>2
<1> QED
  BY <1>5, <1>7 DEF StackOK

LEMMA OthersKeep == IngestInv /\ Others => IngestInv' /\ touched' # {} /\ Len(stack') = Len(stack)
<1> SUFFICES ASSUME IngestInv, Others
             PROVE  IngestInv' /\ touched' # {} /\ Len(stack') = Len(stack)
  OBVIOUS
<1>0. tree \in Tree /\ StackOK /\ LocalsOK /\ touched \subseteq Paths /\ stack \in Seq(Streams)
      /\ tree.at \in [Paths -> Inodes \cup {Nowhere}] /\ tree.node \in [Inodes -> Node]
      /\ tree = [at |-> tree.at, node |-> tree.node]
  BY DEF IngestInv, LocalsOK, StackOK, Tree
<1>1. ASSUME NEW paths \in SUBSET Paths, paths # {}, Change(paths), tree' \in Tree,
             StackOK', Len(stack') = Len(stack)
      PROVE  IngestInv' /\ touched' # {} /\ Len(stack') = Len(stack)
  <2>1. UNCHANGED <<pc, local, out, errors>> /\ touched' = touched \cup paths
    BY <1>1 DEF Change
  <2>2. stack # <<>> => stack' # <<>>
    <3>1. stack # <<>> => Len(stack) # 0
      BY <1>0
    <3>2. stack' = <<>> => Len(stack') = 0
      OBVIOUS
    <3> QED
      BY <1>1, <3>1, <3>2
  <2> QED
    BY <1>0, <1>1, <2>1, <2>2 DEF IngestInv, LocalsOK, local
<1>2. CASE Create
  <2>1. PICK p \in Paths, x \in Inodes, n \in Creatable :
          /\ tree' = [at |-> [tree.at EXCEPT ![p] = x], node |-> [tree.node EXCEPT ![x] = n]]
          /\ Notice({}, {p}) /\ Change({p})
    BY <1>2 DEF Create
  <2>2. tree' \in Tree
    BY <1>0, <2>1 DEF Creatable, Tree
  <2>3. StackOK' /\ Len(stack') = Len(stack)
    BY <1>0, <2>1, NoticeKeeps
  <2> QED
    BY <1>1, <2>1, <2>2, <2>3
<1>3. CASE Unlink
  <2>1. PICK p \in Paths :
          /\ tree' = [tree EXCEPT !.at[p] = Nowhere]
          /\ Notice({p}, {}) /\ Change({p})
    BY <1>3 DEF Unlink
  <2>2. tree' = [at |-> [tree.at EXCEPT ![p] = Nowhere], node |-> tree.node]
    BY <1>0, <2>1
  <2>3. tree' \in Tree
    BY <1>0, <2>2 DEF Tree
  <2>4. StackOK' /\ Len(stack') = Len(stack)
    BY <1>0, <2>1, NoticeKeeps
  <2> QED
    BY <1>1, <2>1, <2>3, <2>4
<1>4. CASE Rename
  <2>1. PICK p \in Paths, q \in Paths :
          /\ tree' = [tree EXCEPT !.at[q] = tree.at[p], !.at[p] = Nowhere]
          /\ Notice({p, q}, {q}) /\ Change({p, q})
    BY <1>4 DEF Rename
  <2>2. tree' = [at |-> [tree.at EXCEPT ![q] = tree.at[p], ![p] = Nowhere], node |-> tree.node]
    BY <1>0, <2>1
  <2>3. tree' \in Tree
    BY <1>0, <2>2 DEF Tree
  <2>4. StackOK' /\ Len(stack') = Len(stack)
    BY <1>0, <2>1, NoticeKeeps
  <2> QED
    BY <1>1, <2>1, <2>3, <2>4
<1>5. CASE Rewrite \/ Chmod
  <2>1. PICK p \in Paths, n \in Node, paths \in SUBSET Paths :
          /\ Exists(p) /\ p \in paths /\ UNCHANGED stack /\ Change(paths)
          /\ tree' = [at |-> tree.at, node |-> [tree.node EXCEPT ![tree.at[p]] = n]]
    <3>1. CASE Rewrite
      <4>1. PICK p \in Paths, c \in Contents :
              /\ Exists(p) /\ UNCHANGED stack /\ Change(Links(p))
              /\ tree' = [tree EXCEPT !.node[tree.at[p]].data = c]
        BY <3>1 DEF Rewrite
      <4> DEFINE m == tree.node[tree.at[p]]
                 n == [m EXCEPT !.data = c]
      <4>2. m \in Node /\ tree.at[p] \in Inodes
        BY <1>0, <4>1, NodeFacts
      <4>3. n \in Node
        BY <4>2 DEF Node
      <4>4. tree' = [at |-> tree.at, node |-> [tree.node EXCEPT ![tree.at[p]] = n]]
        BY <1>0, <4>1, <4>2
      <4>5. p \in Links(p) /\ Links(p) \in SUBSET Paths
        BY DEF Links
      <4> HIDE DEF n
      <4> QED
        BY <4>1, <4>3, <4>4, <4>5
    <3>2. CASE Chmod
      <4>1. PICK p \in Paths :
              /\ Exists(p) /\ UNCHANGED stack
              /\ Change({q \in Paths : \E x \in Links(p) : IsPrefix(x, q)})
              /\ tree' = [tree EXCEPT !.node[tree.at[p]].access = ~@]
        BY <3>2 DEF Chmod
      <4> DEFINE m == tree.node[tree.at[p]]
                 n == [m EXCEPT !.access = ~@]
                 paths == {q \in Paths : \E x \in Links(p) : IsPrefix(x, q)}
      <4>2. m \in Node /\ tree.at[p] \in Inodes
        BY <1>0, <4>1, NodeFacts
      <4>3. n \in Node
        BY <4>2 DEF Node
      <4>4. tree' = [at |-> tree.at, node |-> [tree.node EXCEPT ![tree.at[p]] = n]]
        BY <1>0, <4>1, <4>2
      <4>5. p \in Links(p) /\ IsPrefix(p, p)
        BY PathFacts DEF Links, IsPrefix
      <4>6. p \in paths /\ paths \in SUBSET Paths
        BY <4>5
      <4> HIDE DEF n, paths
      <4>7. Change(paths)
        BY <4>1 DEF paths
      <4> QED
        BY <4>1, <4>3, <4>4, <4>6, <4>7
    <3> QED
      BY <1>5, <3>1, <3>2
  <2>2. tree' \in Tree
    BY <1>0, <2>1 DEF Tree
  <2>3. StackOK' /\ Len(stack') = Len(stack)
    BY <1>0, <2>1 DEF StackOK
  <2> QED
    BY <1>1, <2>1, <2>2, <2>3
<1> QED
  BY <1>2, <1>3, <1>4, <1>5 DEF Others

LEMMA IngestInvariant == Spec => []IngestInv
<1>1. Init => IngestInv
  <2> SUFFICES ASSUME Init PROVE IngestInv
    OBVIOUS
  <2>1. tree \in Tree
    BY IngestAssumption DEF Init
  <2>2. /\ <<>> \in Seq(Streams) /\ <<>> \in Seq(Chunks) /\ <<>> \in Seq(Observed) /\ Len(<<>>) = 0
    OBVIOUS
  <2>3. StackOK
    BY <2>2 DEF Init, StackOK
  <2>4. LocalsOK
    BY <2>2 DEF Init, LocalsOK, AtEntry, Kind
  <2> QED
    BY <2>1, <2>3, <2>4 DEF IngestInv
<1>2. IngestInv /\ [Next]_vars => IngestInv'
  <2>1. IngestInv /\ UNCHANGED vars => IngestInv'
    BY DEF vars, local, past, IngestInv, StackOK, LocalsOK
  <2> QED
    BY <2>1, ProgramKeeps, OthersKeep DEF Next, Done
<1> QED
  BY <1>1, <1>2, PTL DEF Spec

(* The recursion is never deeper than the path at work, each open          *)
(* directory is one below the one before, and what is observed is of a     *)
(* path and of a kind, whatever the tree becomes meanwhile.                *)
THEOREM IngestTypeCorrect == Spec => []TypeOK
<1>1. IngestInv => TypeOK
  <2> SUFFICES ASSUME IngestInv PROVE TypeOK
    OBVIOUS
  <2>1. \A k \in DOMAIN stack : Len(stack[k].dir) = k - 1
    BY DEF IngestInv, StackOK
  <2>2. \A o \in ToSet(out) : o.path \in Paths /\ o.object_type \in Kind
    <3>1. out \in Seq(Observed)
      BY DEF IngestInv, LocalsOK
    <3>2. \A o \in ToSet(out) : o \in Observed
      BY <3>1 DEF ToSet
    <3> QED
      BY <3>2 DEF Observed
  <2> QED
    BY <2>1, <2>2 DEF IngestInv, LocalsOK, AtEntry, TypeOK
<1> QED
  BY <1>1, IngestInvariant, PTL
-----------------------------------------------------------------------------
\* As long as nobody changes the tree, what readdir may still give is there.
CauseInv ==
  /\ pc = "fail" => errors > 0 \/ touched # {}
  /\ touched = {} =>
       /\ \A k \in 1 .. Len(stack) :
            /\ stack[k].maybe = {}
            /\ \A n \in stack[k].pending : Exists(Append(stack[k].dir, n))
       /\ pc = "lstat" => Exists(path)

\* A stream is as it was, is a new one, or gives less.
LEMMA StreamsKept ==
  ASSUME IngestInv, CauseInv, touched = {}, tree' = tree,
         \A k \in 1 .. Len(stack') :
           \/ \E p \in Paths \cup {Root} : stack'[k] = Stream(p)
           \/ /\ k \in 1 .. Len(stack)
              /\ stack'[k].dir = stack[k].dir
              /\ stack'[k].pending \subseteq stack[k].pending
              /\ stack'[k].maybe \subseteq stack[k].maybe
  PROVE  (\A k \in 1 .. Len(stack) :
            /\ stack[k].maybe = {}
            /\ \A n \in stack[k].pending : Exists(Append(stack[k].dir, n)))'
<1>1. ASSUME NEW k \in 1 .. Len(stack')
      PROVE  /\ stack'[k].maybe = {}
             /\ \A n \in stack'[k].pending : tree.at[Append(stack'[k].dir, n)] # Nowhere
  <2>1. CASE \E p \in Paths \cup {Root} : stack'[k] = Stream(p)
    <3>1. PICK p : stack'[k] = Stream(p)
      BY <2>1
    <3>2. stack'[k] = [dir |-> p, pending |-> Children(p), maybe |-> {}]
      BY <3>1 DEF Stream
    <3>3. stack'[k].dir = p /\ stack'[k].pending = Children(p) /\ stack'[k].maybe = {}
      BY <3>2
    <3>4. \A n \in Children(p) : tree.at[Append(p, n)] # Nowhere
      BY DEF Children, Exists
    <3> QED
      BY <3>3, <3>4
  <2>2. CASE /\ k \in 1 .. Len(stack)
             /\ stack'[k].dir = stack[k].dir
             /\ stack'[k].pending \subseteq stack[k].pending
             /\ stack'[k].maybe \subseteq stack[k].maybe
    BY <2>2 DEF CauseInv, Exists
  <2> QED
    BY <2>1, <2>2
<1> QED
  BY <1>1 DEF Exists

LEMMA LstatFacts ==
  ASSUME IngestInv, Lstat
  PROVE  /\ pc = "lstat" /\ path \in Paths
         /\ \/ /\ Exists(path) /\ pc' \in {"open", "probe", "unread"} /\ out' = out
               /\ kind' = NodeAt(path).kind
               /\ size' = IF kind' = "file" THEN Len(NodeAt(path).data) ELSE 0
            \/ ~Exists(path) /\ pc' = "fail" /\ out' = <<>>
<1>1. path \in Paths /\ pc = "lstat" /\ tree \in Tree
  BY DEF Lstat, IngestInv, LocalsOK, AtEntry
<1>2. CASE Exists(path)
  <2>1. NodeAt(path).kind \in Kind
    BY <1>1, <1>2, NodeFacts, ContentFacts
  <2> QED
    BY <1>1, <1>2, <2>1 DEF Lstat, Kind
<1>3. CASE ~Exists(path)
  BY <1>1, <1>3 DEF Lstat
<1> QED
  BY <1>2, <1>3

LEMMA CauseKept == IngestInv /\ CauseInv /\ [Next]_vars => CauseInv'
<1> SUFFICES ASSUME IngestInv, CauseInv, [Next]_vars PROVE CauseInv'
  OBVIOUS
<1>0. errors \in Nat /\ LocalsOK /\ StackOK
  BY DEF IngestInv, LocalsOK
<1>1. CASE Others
  <2>1. touched' # {}
    BY <1>1, OthersKeep
  <2> QED
    BY <2>1 DEF CauseInv
<1>2. CASE UNCHANGED vars
  BY <1>2 DEF vars, local, past, CauseInv, Exists
<1>3. CASE Program
  <2>0. tree' = tree /\ touched' = touched /\ errors' \in Nat /\ errors <= errors'
    <3>1. errors' = errors \/ errors' = errors + 1
      <4>1. CASE EndOfDir \/ Open \/ Read
        BY <4>1 DEF EndOfDir, Open, Read, CallFails
      <4>2. CASE Probe \/ Descend \/ Fail
        BY <4>2 DEF Probe, Descend, Fail, CallFails
      <4>3. CASE OpenRoot \/ NextEntry \/ Lstat \/ Unread \/ Sort
        BY <4>3 DEF OpenRoot, NextEntry, Lstat, Unread, Sort
      <4> QED
        BY <1>3, <4>1, <4>2, <4>3 DEF Program
    <3>2. tree' = tree /\ touched' = touched
      BY <1>3 DEF Program, past
    <3> QED
      BY <1>0, <3>1, <3>2
  <2>1. pc' = "fail" => errors' > 0 \/ touched' # {}
    <3>1. CASE Lstat
      BY <2>0, <3>1, LstatFacts DEF CauseInv
    <3>2. CASE Fail
      BY <1>0, <2>0, <3>2 DEF Fail, CallFails
    <3>3. CASE ~Lstat /\ ~Fail
      BY <1>0, <1>3, <3>3 DEF Program, OpenRoot, NextEntry, EndOfDir, Open, Read, Unread, Probe,
                              Descend, Sort
    <3> QED
      BY <3>1, <3>2, <3>3
  <2>2. ASSUME touched = {}
        PROVE  \A k \in 1 .. Len(stack') :
           \/ \E p \in Paths \cup {Root} : stack'[k] = Stream(p)
           \/ /\ k \in 1 .. Len(stack)
              /\ stack'[k].dir = stack[k].dir
              /\ stack'[k].pending \subseteq stack[k].pending
              /\ stack'[k].maybe \subseteq stack[k].maybe
    <3>1. CASE stack' = stack
      BY <3>1
    <3>2. CASE OpenRoot
      <4>1. stack' = <<Stream(Root)>>
        BY <3>2 DEF OpenRoot
      <4> QED
        BY <4>1
    <3>3. CASE NextEntry
      <4> DEFINE m == Len(stack)
      <4>1. m \in Nat \ {0} /\ Last(stack) = stack[m] /\ stack[m] \in Streams /\ stack \in Seq(Streams)
        BY <1>0, <3>3, StackFacts DEF LocalsOK, NextEntry, StackOK
      <4>2. PICK n : stack' = [stack EXCEPT ![m].pending = @ \ {n}, ![m].maybe = @ \ {n}]
        BY <3>3 DEF NextEntry
      <4>3. stack' = [stack EXCEPT ![m] = [stack[m] EXCEPT !.pending = @ \ {n}, !.maybe = @ \ {n}]]
        BY <4>1, <4>2 DEF Streams
      <4> DEFINE t == [stack[m] EXCEPT !.pending = @ \ {n}, !.maybe = @ \ {n}]
      <4>4. t.dir = stack[m].dir /\ t.pending \subseteq stack[m].pending /\ t.maybe \subseteq stack[m].maybe
            /\ t \in Streams
        BY <4>1 DEF Streams
      <4>5. stack' = [stack EXCEPT ![m] = t]
        BY <4>3
      <4> HIDE DEF t
      <4>6. Len(stack') = m /\ stack'[m] = t /\ \A k \in 1 .. m : k # m => stack'[k] = stack[k]
        BY <4>1, <4>4, <4>5
      <4> QED
        BY <4>4, <4>6
    <3>4. CASE EndOfDir
      <4>1. stack # <<>> /\ stack' = Front(stack)
        BY <1>0, <3>4 DEF LocalsOK, EndOfDir
      <4>2. Len(stack) \in Nat \ {0} /\ Len(stack') = Len(stack) - 1
            /\ \A k \in 1 .. Len(stack) - 1 : stack'[k] = stack[k]
        BY <1>0, <4>1, StackFacts
      <4> QED
        BY <4>2
    <3>5. CASE Descend
      <4>1. stack' \in {Append(stack, Stream(path)), stack} /\ path \in Paths
        BY <1>0, <3>5 DEF Descend, LocalsOK, AtEntry
      <4>2. stack \in Seq(Streams) /\ Len(stack) \in Nat /\ Stream(path) \in Streams
        BY <1>0, <4>1, StreamFacts DEF StackOK
      <4>3. CASE stack' = Append(stack, Stream(path))
        <5>1. Len(stack') = Len(stack) + 1 /\ stack'[Len(stack) + 1] = Stream(path)
              /\ \A k \in 1 .. Len(stack) : stack'[k] = stack[k]
          BY <4>2, <4>3
        <5> QED
          BY <4>1, <4>2, <5>1
      <4> QED
        BY <3>1, <4>1, <4>3
    <3> QED
      BY <1>3, <3>1, <3>2, <3>3, <3>4, <3>5
         DEF Program, Lstat, Open, Read, Unread, Probe, Sort, Fail
  <2>3. ASSUME touched = {}, pc' = "lstat" PROVE Exists(path)'
    <3>1. NextEntry
      <4>1. ~Lstat
        BY <2>3, LstatFacts
      <4>2. ~Read
        BY <2>3 DEF Read
      <4> QED
        BY <1>3, <2>3, <4>1, <4>2 DEF Program, OpenRoot, EndOfDir, Open, Unread, Probe, Descend, Sort, Fail
    <3>2. Len(stack) \in Nat \ {0} /\ Last(stack) = stack[Len(stack)]
      BY <1>0, <3>1, StackFacts DEF LocalsOK, NextEntry
    <3>3. \E n \in stack[Len(stack)].pending \cup stack[Len(stack)].maybe :
             path' = Append(stack[Len(stack)].dir, n)
      BY <3>1, <3>2 DEF NextEntry
    <3>4. tree.at[path'] # Nowhere
      BY <2>3, <3>2, <3>3 DEF CauseInv, Exists
    <3> QED
      BY <2>0, <3>4 DEF Exists
  <2>4. ASSUME touched = {}
        PROVE  (\A k \in 1 .. Len(stack) :
                  /\ stack[k].maybe = {}
                  /\ \A n \in stack[k].pending : Exists(Append(stack[k].dir, n)))'
    BY <2>0, <2>2, <2>4, StreamsKept
  <2> QED
    BY <2>0, <2>1, <2>3, <2>4 DEF CauseInv
<1> QED
  BY <1>1, <1>2, <1>3 DEF Next, Done

(* Ingest fails only when a call failed or an entry was changed under it:  *)
(* what readdir gives in a tree nobody changes is always there for lstat.  *)
THEOREM IngestFailureHasCause == Spec => []FailureHasCause
<1>1. Init => CauseInv
  BY DEF Init, CauseInv
<1>2. CauseInv => FailureHasCause
  BY DEF CauseInv, FailureHasCause
<1> QED
  BY <1>1, <1>2, CauseKept, IngestInvariant, PTL DEF Spec
-----------------------------------------------------------------------------
\* What is remembered of the tree: a file the path was a name of had this kind
\* and size, or this content, chunk by chunk.
WasOf(p, k, s) == \E x \in named[p] \ {Nowhere} : \E n \in held[x] :
                    k = n.kind /\ (n.kind = "file" => s = Len(n.data))
HeldAt(x, c)   == \A j \in DOMAIN c : \E n \in held[x] : j \in DOMAIN n.data /\ c[j] = n.data[j]
WasRead(p, c)  == \E x \in named[p] \ {Nowhere} : HeldAt(x, c)
WasThere(o)    == /\ WasOf(o.path, o.object_type, o.size)
                  /\ o.content # NoContent => WasRead(o.path, o.content)

\* Nothing that was is forgotten, and what is now is remembered.
PastInv ==
  /\ named \in [Paths -> SUBSET (Inodes \cup {Nowhere})] /\ held \in [Inodes -> SUBSET Node]
  /\ \A p \in Paths : tree.at[p] \in named[p]
  /\ \A x \in Inodes : tree.node[x] \in held[x]

WasInv ==
  /\ pc \in AtEntry \ {"lstat"} => WasOf(path, kind, size)
  /\ pc = "read" => fd \in named[path] \ {Nowhere} /\ HeldAt(fd, got)
  /\ \A k \in 1 .. Len(out) : WasThere(out[k])

LEMMA PastKept == IngestInv /\ PastInv /\ [Next]_vars =>
                    /\ PastInv'
                    /\ \A p \in Paths : named[p] \subseteq named'[p]
                    /\ \A x \in Inodes : held[x] \subseteq held'[x]
<1> SUFFICES ASSUME IngestInv, PastInv, [Next]_vars
             PROVE  /\ PastInv'
                    /\ \A p \in Paths : named[p] \subseteq named'[p]
                    /\ \A x \in Inodes : held[x] \subseteq held'[x]
  OBVIOUS
<1>1. CASE Others
  <2>1. tree' \in Tree
    BY <1>1, OthersKeep DEF IngestInv
  <2>2. /\ named' = [p \in Paths |-> named[p] \cup {tree'.at[p]}]
        /\ held' = [x \in Inodes |-> held[x] \cup {tree'.node[x]}]
    BY <1>1 DEF Others, Create, Unlink, Rename, Rewrite, Chmod, Change
  <2>3. \A p \in Paths : tree'.at[p] \in Inodes \cup {Nowhere}
    BY <2>1 DEF Tree
  <2>4. \A x \in Inodes : tree'.node[x] \in Node
    BY <2>1 DEF Tree
  <2> QED
    BY <2>2, <2>3, <2>4 DEF PastInv
<1>2. CASE UNCHANGED <<tree, past>>
  BY <1>2 DEF past, PastInv
<1> QED
  BY <1>1, <1>2 DEF Next, Program, Done, vars

\* What was there stays what was there.
LEMMA WasKept ==
  ASSUME PastInv,
         \A p \in Paths : named[p] \subseteq named'[p],
         \A x \in Inodes : held[x] \subseteq held'[x]
  PROVE  /\ \A p \in Paths : \A k, s : WasOf(p, k, s) => WasOf(p, k, s)'
         /\ \A x \in Inodes : \A c : HeldAt(x, c) => HeldAt(x, c)'
         /\ \A o \in Observed : WasThere(o) => WasThere(o)'
<1>1. \A p \in Paths : \A x \in named[p] \ {Nowhere} : x \in Inodes /\ x \in named'[p] \ {Nowhere}
  BY DEF PastInv
<1>2. \A p \in Paths : \A k, s : WasOf(p, k, s) => WasOf(p, k, s)'
  BY <1>1 DEF WasOf
<1>3. \A x \in Inodes : \A c : HeldAt(x, c) => HeldAt(x, c)'
  BY DEF HeldAt
<1>4. \A p \in Paths : \A c : WasRead(p, c) => WasRead(p, c)'
  BY <1>1, <1>3 DEF WasRead
<1>5. \A o \in Observed : WasThere(o) => WasThere(o)'
  BY <1>2, <1>4 DEF WasThere, Observed
<1> QED
  BY <1>2, <1>3, <1>5

\* What lstat, open and a read find is remembered.
LEMMA FoundWas ==
  ASSUME IngestInv, PastInv
  PROVE  /\ \A p \in Paths : Exists(p) =>
              /\ tree.at[p] \in named[p] \ {Nowhere}
              /\ WasOf(p, NodeAt(p).kind,
                       IF NodeAt(p).kind = "file" THEN Len(NodeAt(p).data) ELSE 0)
         /\ \A x \in Inodes : tree.node[x] \in held[x]
<1>1. ASSUME NEW p \in Paths, Exists(p)
      PROVE  /\ tree.at[p] \in named[p] \ {Nowhere}
             /\ WasOf(p, NodeAt(p).kind,
                      IF NodeAt(p).kind = "file" THEN Len(NodeAt(p).data) ELSE 0)
  <2>1. tree.at[p] \in Inodes /\ tree.at[p] \in named[p] \ {Nowhere} /\ NodeAt(p) = tree.node[tree.at[p]]
    BY <1>1, NodeFacts DEF IngestInv, PastInv, Exists
  <2>2. NodeAt(p) \in held[tree.at[p]]
    BY <2>1 DEF PastInv
  <2> QED
    BY <2>1, <2>2 DEF WasOf
<1> QED
  BY <1>1 DEF PastInv

LEMMA WasStep == IngestInv /\ PastInv /\ WasInv /\ [Next]_vars => WasInv'
<1> SUFFICES ASSUME IngestInv, PastInv, WasInv, [Next]_vars PROVE WasInv'
  OBVIOUS
<1>0. /\ StackOK /\ LocalsOK /\ IngestInv' /\ PastInv'
      /\ \A p \in Paths : named[p] \subseteq named'[p]
      /\ \A x \in Inodes : held[x] \subseteq held'[x]
      /\ \A k \in 1 .. Len(out) : out[k] \in Observed
  <2>1. IngestInv /\ UNCHANGED vars => IngestInv'
    BY DEF vars, local, past, IngestInv, StackOK, LocalsOK
  <2>2. IngestInv'
    BY <2>1, ProgramKeeps, OthersKeep DEF Next, Done
  <2>3. \A k \in 1 .. Len(out) : out[k] \in Observed
    BY DEF IngestInv, LocalsOK
  <2> QED
    BY <2>2, <2>3, PastKept DEF IngestInv
<1>1. CASE Others \/ UNCHANGED vars
  <2>1. UNCHANGED <<pc, local, out>>
    BY <1>1 DEF Others, Create, Unlink, Rename, Rewrite, Chmod, Change, vars
  <2>2. UNCHANGED <<pc, path, kind, size, fd, got, out>>
    BY <2>1 DEF local
  <2>3. pc \in AtEntry \ {"lstat"} => WasOf(path, kind, size)'
    <3>1. ASSUME pc \in AtEntry \ {"lstat"} PROVE WasOf(path, kind, size)'
      <4>1. path \in Paths /\ WasOf(path, kind, size)
        BY <1>0, <3>1 DEF LocalsOK, WasInv
      <4>2. PICK x \in named[path] \ {Nowhere} : \E n \in held[x] :
               kind = n.kind /\ (n.kind = "file" => size = Len(n.data))
        BY <4>1 DEF WasOf
      <4>3. x \in Inodes /\ x \in named'[path] \ {Nowhere} /\ held[x] \subseteq held'[x]
        BY <1>0, <4>1, <4>2 DEF PastInv
      <4>4. \E x_1 \in named'[path'] \ {Nowhere} : \E n \in held'[x_1] :
               kind' = n.kind /\ (n.kind = "file" => size' = Len(n.data))
        BY <2>2, <4>2, <4>3
      <4> QED
        BY <4>4 DEF WasOf
    <3> QED
      BY <3>1
  <2>4. pc = "read" => (fd \in named[path] \ {Nowhere} /\ HeldAt(fd, got))'
    <3>1. ASSUME pc = "read" PROVE (fd \in named[path] \ {Nowhere} /\ HeldAt(fd, got))'
      <4>1. path \in Paths /\ fd \in Inodes /\ fd \in named[path] \ {Nowhere} /\ HeldAt(fd, got)
        BY <1>0, <3>1 DEF LocalsOK, AtEntry, WasInv
      <4> QED
        BY <1>0, <2>2, <4>1, WasKept DEF HeldAt
    <3> QED
      BY <3>1
  <2>5. \A k \in 1 .. Len(out) : WasThere(out[k])'
    <3> TAKE k \in 1 .. Len(out)
    <3>1. WasThere(out[k]) /\ out[k] \in Observed
      BY <1>0 DEF WasInv
    <3> QED
      BY <1>0, <2>2, <3>1, WasKept DEF WasThere, WasOf, WasRead, HeldAt
  <2> QED
    BY <2>2, <2>3, <2>4, <2>5 DEF WasInv
<1>2. CASE Program
  <2>0. UNCHANGED <<tree, named, held>>
    BY <1>2 DEF Program, past
  <2>1. \A k \in 1 .. Len(out') : WasThere(out'[k])
    <3>1. ASSUME NEW readable \in BOOLEAN, NEW hashed \in Seq(Chunks) \cup {NoContent},
                 Push(readable, hashed), pc \in AtEntry \ {"lstat"},
                 hashed # NoContent => WasRead(path, hashed)
          PROVE  \A k \in 1 .. Len(out') : WasThere(out'[k])
      <4> DEFINE o == [path |-> path, object_type |-> kind, size |-> size,
                       readable |-> readable, content |-> hashed]
      <4>1. WasThere(o)
        BY <3>1 DEF WasInv, WasThere
      <4>2. \A k \in 1 .. Len(out') :
             \/ k \in 1 .. Len(out) /\ out'[k] = out[k]
             \/ out'[k] = o
        BY <3>1, PushFacts
      <4> HIDE DEF o
      <4>3. \A k \in 1 .. Len(out) : WasThere(out[k])
        BY DEF WasInv
      <4> QED
        BY <4>1, <4>2, <4>3
    <3>2. CASE out' = out \/ out' = <<>>
      BY <3>2 DEF WasInv
    <3>3. CASE Read /\ Push(TRUE, got)
      <4>1. pc = "read" /\ got \in Seq(Chunks) /\ fd \in named[path] \ {Nowhere} /\ HeldAt(fd, got)
        BY <1>0, <3>3 DEF Read, LocalsOK, WasInv
      <4>2. WasRead(path, got)
        BY <4>1 DEF WasRead
      <4> QED
        BY <3>1, <3>3, <4>1, <4>2 DEF AtEntry
    <3>4. CASE Unread
      <4>1. Push(FALSE, NoContent) /\ pc \in AtEntry \ {"lstat"}
        BY <3>4 DEF Unread, AtEntry
      <4> QED
        BY <3>1, <4>1
    <3>5. CASE Probe
      <4>1. /\ Push(CanList(path), NoContent) \/ Push(FALSE, NoContent)
            /\ pc \in AtEntry \ {"lstat"} /\ path \in Paths
        BY <1>0, <3>5 DEF Probe, AtEntry, LocalsOK
      <4>2. CanList(path) \in BOOLEAN
        <5>1. tree \in Tree
          BY DEF IngestInv
        <5>2. Exists(path) => NodeAt(path).access \in BOOLEAN
          BY <4>1, <5>1, NodeFacts, ContentFacts
        <5>3. path # Root
          BY <4>1, IngestAssumption
        <5> QED
          BY <5>2, <5>3 DEF CanList, IsDir
      <4> QED
        BY <3>1, <4>1, <4>2
    <3>6. CASE Sort
      BY <3>6, SortFacts DEF WasInv
    <3>7. CASE Lstat
      BY <3>2, <3>7, LstatFacts
    <3> QED
      BY <1>2, <3>2, <3>3, <3>4, <3>5, <3>6, <3>7
         DEF Program, OpenRoot, NextEntry, EndOfDir, Open, Read, Descend, Fail, local
  <2>2. ASSUME pc' \in AtEntry \ {"lstat"} PROVE WasOf(path', kind', size')
    <3>1. CASE Lstat
      <4>1. /\ path \in Paths /\ Exists(path) /\ kind' = NodeAt(path).kind
            /\ size' = IF kind' = "file" THEN Len(NodeAt(path).data) ELSE 0
        BY <2>2, <3>1, LstatFacts DEF AtEntry
      <4>2. path' = path
        BY <3>1 DEF Lstat
      <4> QED
        BY <4>1, <4>2, FoundWas
    <3>2. CASE ~Lstat
      <4>1. pc \in AtEntry \ {"lstat"} /\ UNCHANGED <<path, kind, size>>
        BY <1>2, <2>2, <3>2
           DEF Program, OpenRoot, NextEntry, EndOfDir, Open, Read, Unread, Probe, Descend, Sort,
               Fail, local, AtEntry
      <4>2. WasOf(path, kind, size)
        BY <4>1 DEF WasInv
      <4> QED
        BY <4>1, <4>2
    <3> QED
      BY <3>1, <3>2
  <2>3. ASSUME pc' = "read" PROVE fd' \in named[path'] \ {Nowhere} /\ HeldAt(fd', got')
    <3>1. CASE Open
      <4>1. path \in Paths /\ path' = path /\ Exists(path) /\ fd' = tree.at[path] /\ got' = <<>>
        BY <1>0, <2>3, <3>1 DEF Open, CanRead, LocalsOK, AtEntry
      <4> QED
        BY <4>1, FoundWas DEF HeldAt
    <3>2. CASE Read
      <4>1. /\ pc = "read" /\ Len(got) < Len(tree.node[fd].data)
            /\ got' = Append(got, tree.node[fd].data[Len(got) + 1])
            /\ path' = path /\ fd' = fd
        BY <2>3, <3>2 DEF Read
      <4>2. fd \in Inodes /\ got \in Seq(Chunks) /\ fd \in named[path] \ {Nowhere} /\ HeldAt(fd, got)
        BY <1>0, <4>1 DEF LocalsOK, WasInv
      <4> DEFINE n == tree.node[fd]
      <4>3. n \in held[fd] /\ n.data \in Seq(Chunks)
        BY <4>2, FoundWas, ContentFacts DEF IngestInv, Tree
      <4> HIDE DEF n
      <4>4. Len(got) + 1 \in DOMAIN n.data /\ got' = Append(got, n.data[Len(got) + 1])
        BY <4>1, <4>2, <4>3 DEF n
      <4>5. /\ DOMAIN got' = DOMAIN got \cup {Len(got) + 1}
            /\ got'[Len(got) + 1] = n.data[Len(got) + 1]
            /\ \A j \in DOMAIN got : got'[j] = got[j]
        <5>1. n.data[Len(got) + 1] \in Chunks
          BY <4>3, <4>4
        <5> QED
          BY <4>2, <4>4, <5>1
      <4>6. HeldAt(fd, got')
        BY <4>2, <4>3, <4>4, <4>5 DEF HeldAt
      <4> QED
        BY <4>1, <4>2, <4>6
    <3>3. CASE ~Open /\ ~Read
      BY <1>2, <2>3, <3>3, LstatFacts
         DEF Program, OpenRoot, NextEntry, EndOfDir, Unread, Probe, Descend, Sort, Fail
    <3> QED
      BY <3>1, <3>2, <3>3
  <2> QED
    BY <2>0, <2>1, <2>2, <2>3 DEF WasInv, WasThere, WasOf, WasRead, HeldAt
<1> QED
  BY <1>1, <1>2 DEF Next, Done

(* However the tree is changed meanwhile, what is observed of a path was   *)
(* there: named and held only grow, lstat, open and each read look at what *)
(* is now and so is remembered, and an observation only puts that together.*)
THEOREM IngestObservedWasThere == Spec => []ObservedWasThere
<1>1. Init => PastInv /\ WasInv
  <2> SUFFICES ASSUME Init PROVE PastInv /\ WasInv
    OBVIOUS
  <2>1. tree \in Tree
    BY IngestAssumption DEF Init
  <2>2. PastInv
    BY <2>1 DEF Init, PastInv, Tree
  <2> QED
    BY <2>2 DEF Init, WasInv, AtEntry
<1>2. IngestInv /\ WasInv => ObservedWasThere
  <2> SUFFICES ASSUME IngestInv, WasInv, NEW o \in ToSet(out)
               PROVE  LET files == named[o.path] \ {Nowhere}
                      IN  /\ \E x \in files : \E n \in held[x] :
                               o.object_type = n.kind /\ (n.kind = "file" => o.size = Len(n.data))
                          /\ o.content # NoContent =>
                               \E x \in files : \A k \in DOMAIN o.content :
                                 \E n \in held[x] : k \in DOMAIN n.data /\ o.content[k] = n.data[k]
    BY DEF ObservedWasThere
  <2>1. PICK k \in 1 .. Len(out) : o = out[k]
    BY DEF ToSet, IngestInv, LocalsOK
  <2>2. WasThere(o)
    BY <2>1 DEF WasInv
  <2> QED
    BY <2>2 DEF WasThere, WasOf, WasRead, HeldAt
<1>3. IngestInv /\ PastInv /\ WasInv /\ [Next]_vars => PastInv' /\ WasInv'
  BY PastKept, WasStep
<1> QED
  BY <1>1, <1>2, <1>3, IngestInvariant, PTL DEF Spec
-----------------------------------------------------------------------------
\* The first k names of a path.
Upto(p, k)  == SubSeq(p, 1, k)

LEMMA UptoFacts ==
  ASSUME NEW s \in Seq(Names), NEW k \in 0 .. Len(s)
  PROVE  /\ Upto(s, k) \in Seq(Names) /\ Len(Upto(s, k)) = k
         /\ \A j \in 1 .. k : Upto(s, k)[j] = s[j]
         /\ \A j \in 0 .. k : Upto(Upto(s, k), j) = Upto(s, j)
<1>1. /\ Upto(s, k) \in Seq(Names) /\ Len(Upto(s, k)) = k
      /\ \A j \in 1 .. k : Upto(s, k)[j] = s[j]
  BY SubSeqFacts DEF Upto
<1>2. ASSUME NEW j \in 0 .. k PROVE Upto(Upto(s, k), j) = Upto(s, j)
  <2>1. j \in 0 .. Len(s) /\ j \in 0 .. Len(Upto(s, k))
    BY <1>1
  <2> DEFINE u == Upto(Upto(s, k), j)
             v == Upto(s, j)
  <2>2. /\ v \in Seq(Names) /\ Len(v) = j
        /\ \A i \in 1 .. j : v[i] = s[i]
    BY <2>1, SubSeqFacts DEF Upto
  <2>3. /\ u \in Seq(Names) /\ Len(u) = j
        /\ \A i \in 1 .. j : u[i] = Upto(s, k)[i]
    <3> DEFINE t == Upto(s, k)
    <3>1. t \in Seq(Names)
      BY <1>1
    <3> HIDE DEF t
    <3>2. SubSeq(t, 1, j) \in Seq(Names) /\ Len(SubSeq(t, 1, j)) = j
          /\ \A i \in 1 .. j : SubSeq(t, 1, j)[i] = t[i]
      BY <2>1, <3>1, SubSeqFacts DEF t
    <3> QED
      BY <3>2 DEF t, Upto
  <2> HIDE DEF u, v
  <2>4. \A i \in 1 .. j : u[i] = v[i]
    BY <1>1, <2>2, <2>3
  <2>5. u = v
    BY <2>2, <2>3, <2>4
  <2> QED
    BY <2>5 DEF u, v
<1> QED
  BY <1>1, <1>2

LEMMA UptoAppend ==
  ASSUME NEW s \in Seq(Names), NEW n \in Names
  PROVE  /\ Append(s, n) \in Seq(Names) /\ Len(Append(s, n)) = Len(s) + 1
         /\ Append(s, n)[Len(s) + 1] = n /\ \A j \in 1 .. Len(s) : Append(s, n)[j] = s[j]
         /\ \A j \in 0 .. Len(s) : Upto(Append(s, n), j) = Upto(s, j)
         /\ Upto(s, Len(s)) = s
<1> DEFINE a == Append(s, n)
<1>1. /\ a \in Seq(Names) /\ Len(a) = Len(s) + 1 /\ a[Len(s) + 1] = n
      /\ \A j \in 1 .. Len(s) : a[j] = s[j]
  OBVIOUS
<1> HIDE DEF a
<1>2. ASSUME NEW j \in 0 .. Len(s) PROVE Upto(a, j) = Upto(s, j)
  <2>1. /\ Upto(a, j) \in Seq(Names) /\ Len(Upto(a, j)) = j /\ \A i \in 1 .. j : Upto(a, j)[i] = a[i]
        /\ Upto(s, j) \in Seq(Names) /\ Len(Upto(s, j)) = j /\ \A i \in 1 .. j : Upto(s, j)[i] = s[i]
    BY <1>1, UptoFacts
  <2>2. \A i \in 1 .. j : i \in 1 .. Len(s)
    OBVIOUS
  <2>3. \A i \in 1 .. j : Upto(a, j)[i] = Upto(s, j)[i]
    BY <1>1, <2>1, <2>2
  <2> QED
    BY <2>1, <2>3
<1>3. Upto(s, Len(s)) = s
  <2>1. Len(s) \in 0 .. Len(s)
    OBVIOUS
  <2>2. Upto(s, Len(s)) \in Seq(Names) /\ Len(Upto(s, Len(s))) = Len(s)
        /\ \A i \in 1 .. Len(s) : Upto(s, Len(s))[i] = s[i]
    BY <2>1, UptoFacts
  <2> QED
    BY <2>2
<1> QED
  BY <1>1, <1>2, <1>3 DEF a

\* The paths on the way to p, each the directory before and a name in it.
LEMMA WayFacts ==
  ASSUME NEW p \in Paths, NEW k \in 1 .. Len(p)
  PROVE  /\ Upto(p, k) \in Paths /\ Len(Upto(p, k)) = k /\ Upto(p, k)[k] = p[k]
         /\ Upto(p, k - 1) \in Seq(Names) /\ Len(Upto(p, k - 1)) = k - 1
         /\ Upto(p, k) = Append(Upto(p, k - 1), p[k])
         /\ Front(Upto(p, k)) = Upto(p, k - 1) /\ Last(Upto(p, k)) = p[k]
         /\ Upto(p, Len(p)) = p /\ Upto(p, 0) = Root /\ p[k] \in Names
<1>1. p \in Seq(Names) /\ Len(p) \in Nat
  BY PathFacts
<1>2. k \in 0 .. Len(p) /\ k - 1 \in 0 .. Len(p) /\ k - 1 \in 0 .. k /\ 0 \in 0 .. Len(p) /\ p[k] \in Names
  BY <1>1
<1> DEFINE u == Upto(p, k)
           v == Upto(p, k - 1)
<1>3. /\ u \in Seq(Names) /\ Len(u) = k /\ \A j \in 1 .. k : u[j] = p[j]
      /\ Upto(u, k - 1) = v
  BY <1>1, <1>2, UptoFacts
<1>4. /\ v \in Seq(Names) /\ Len(v) = k - 1 /\ \A j \in 1 .. k - 1 : v[j] = p[j]
  <2> DEFINE i == k - 1
  <2>1. /\ Upto(p, i) \in Seq(Names) /\ Len(Upto(p, i)) = i /\ \A j \in 1 .. i : Upto(p, i)[j] = p[j]
    BY <1>1, <1>2, UptoFacts
  <2> QED
    BY <2>1
<1>5. Upto(p, Len(p)) = p
  BY <1>1, <1>2, UptoAppend
<1>6. Upto(p, 0) = Root
  <2>1. Upto(p, 0) \in Seq(Names) /\ Len(Upto(p, 0)) = 0
    BY <1>1, <1>2, UptoFacts
  <2> QED
    BY <2>1 DEF Root
<1> HIDE DEF u, v
<1>7. u = Append(v, p[k])
  <2> DEFINE a == Append(v, p[k])
  <2>1. a \in Seq(Names) /\ Len(a) = k /\ a[k] = p[k] /\ \A j \in 1 .. k - 1 : a[j] = v[j]
    BY <1>2, <1>4
  <2>2. \A j \in 1 .. k : j \in 1 .. k - 1 \/ j = k
    OBVIOUS
  <2>3. \A j \in 1 .. k : u[j] = a[j]
    BY <1>3, <1>4, <2>1, <2>2
  <2> HIDE DEF a
  <2>4. u = a
    BY <1>3, <2>1, <2>3
  <2> QED
    BY <2>4 DEF a
<1>8. Front(u) = v /\ Last(u) = p[k]
  <2>1. Front(u) = Upto(u, k - 1)
    BY <1>3 DEF Front, Upto
  <2> QED
    BY <1>3, <2>1 DEF Last
<1>9. u \in Paths
  <2>1. CASE k = Len(p)
    BY <1>5, <2>1 DEF u
  <2>2. CASE k # Len(p)
    <3>1. k \in 1 .. Len(p) - 1
      BY <1>1, <2>2
    <3> QED
      BY <3>1, IngestAssumption DEF u, Upto
  <2> QED
    BY <2>1, <2>2
<1> QED
  BY <1>2, <1>3, <1>4, <1>5, <1>6, <1>7, <1>8, <1>9 DEF u, v
-----------------------------------------------------------------------------
\* What others do leaves the files and the directories on the way to an entry
\* they do not touch.
Same(p) == \A k \in 1 .. Len(p) :
  LET x == tree.at[Upto(p, k)]
  IN  tree'.at[Upto(p, k)] = x /\ tree'.node[x] = tree.node[x]

LEMMA RootedFacts ==
  ASSUME tree \in Tree, Rooted(tree), NEW p \in Paths, Exists(p), NEW k \in 1 .. Len(p)
  PROVE  /\ Upto(p, k) \in Paths /\ Exists(Upto(p, k))
         /\ k < Len(p) => NodeAt(Upto(p, k)).kind = "dir" /\ IsDir(Upto(p, k))
<1>1. Upto(p, k) \in Paths /\ Upto(p, Len(p)) = p /\ Len(p) \in Nat
  BY WayFacts, PathFacts
<1>2. CASE k = Len(p)
  BY <1>1, <1>2
<1>3. CASE k # Len(p)
  <2>1. k \in 1 .. Len(p) - 1
    BY <1>1, <1>3
  <2>2. tree.at[Upto(p, k)] # Nowhere /\ tree.node[tree.at[Upto(p, k)]].kind = "dir"
    BY <2>1 DEF Rooted, Exists, Upto
  <2> QED
    BY <1>1, <2>2 DEF Exists, NodeAt, IsDir
<1> QED
  BY <1>2, <1>3

\* A tree in which nothing new stands on something that is no directory.
LEMMA RootedKept ==
  ASSUME tree \in Tree, Rooted(tree),
         \A p \in Paths : tree'.at[p] # Nowhere =>
           \/ tree.at[p] # Nowhere
           \/ \A k \in 1 .. Len(p) - 1 : Exists(Upto(p, k)) /\ NodeAt(Upto(p, k)).kind = "dir",
         \A p \in Paths : \A k \in 1 .. Len(p) - 1 :
           tree'.at[p] # Nowhere /\ Exists(Upto(p, k)) /\ NodeAt(Upto(p, k)).kind = "dir" =>
             tree'.at[Upto(p, k)] # Nowhere /\ tree'.node[tree'.at[Upto(p, k)]].kind = "dir"
  PROVE  Rooted(tree)'
<1> SUFFICES ASSUME NEW p \in Paths, tree'.at[p] # Nowhere, NEW k \in 1 .. Len(p) - 1
             PROVE  tree'.at[Upto(p, k)] # Nowhere /\ tree'.node[tree'.at[Upto(p, k)]].kind = "dir"
  BY DEF Rooted, Upto
<1>1. Exists(Upto(p, k)) /\ NodeAt(Upto(p, k)).kind = "dir"
  <2>1. CASE tree.at[p] # Nowhere
    <3>1. k \in 1 .. Len(p) /\ k < Len(p)
      BY PathFacts
    <3> QED
      BY <2>1, <3>1, RootedFacts DEF Exists
  <2>2. CASE tree.at[p] = Nowhere
    BY <2>2
  <2> QED
    BY <2>1, <2>2
<1> QED
  BY <1>1

LEMMA CreateTree ==
  ASSUME tree \in Tree, Rooted(tree), Create
  PROVE  /\ Rooted(tree)'
         /\ \A p \in Paths \ touched' : tree'.at[p] = tree.at[p] /\ (Exists(p) => Same(p))
<1>1. PICK r \in Paths, x \in Inodes \ ({tree.at[q] : q \in Paths} \cup {fd}), n \in Creatable :
        /\ ~Exists(r) /\ IsDir(Front(r))
        /\ tree' = [at |-> [tree.at EXCEPT ![r] = x], node |-> [tree.node EXCEPT ![x] = n]]
        /\ touched' = touched \cup {r}
  BY DEF Create, Change
<1>2. /\ tree.at \in [Paths -> Inodes \cup {Nowhere}] /\ tree.node \in [Inodes -> Node]
      /\ x # Nowhere
  BY IngestAssumption DEF Tree
<1>3. /\ tree'.at[r] = x /\ \A q \in Paths \ {r} : tree'.at[q] = tree.at[q]
      /\ \A y \in Inodes \ {x} : tree'.node[y] = tree.node[y]
  BY <1>1, <1>2
<1>4. \A q \in Paths : Exists(q) => /\ q # r /\ tree'.at[q] = tree.at[q]
                                    /\ tree'.node[tree.at[q]] = tree.node[tree.at[q]]
  BY <1>1, <1>2, <1>3 DEF Exists
<1>5. Rooted(tree)'
  <2>1. ASSUME NEW p \in Paths, tree'.at[p] # Nowhere, tree.at[p] = Nowhere, NEW k \in 1 .. Len(p) - 1
        PROVE  Exists(Upto(p, k)) /\ NodeAt(Upto(p, k)).kind = "dir"
    <3>1. p = r
      BY <1>3, <2>1
    <3>2. Len(p) \in Nat /\ Len(p) \in 1 .. Len(p) /\ Len(p) - 1 \in 1 .. Len(p) /\ k \in 1 .. Len(p)
      BY PathFacts
    <3>3. Front(p) = Upto(p, Len(p) - 1)
      BY DEF Front, Upto
    <3> DEFINE d == Upto(p, Len(p) - 1)
    <3>4. d \in Paths /\ Len(d) = Len(p) - 1 /\ d # Root
      BY <3>2, WayFacts, PathFacts, IngestAssumption
    <3>5. Exists(d) /\ NodeAt(d).kind = "dir"
      BY <1>1, <3>1, <3>3, <3>4 DEF IsDir
    <3>6. CASE k = Len(p) - 1
      BY <3>5, <3>6
    <3>7. CASE k < Len(p) - 1
      <4>1. k \in 1 .. Len(d) /\ k < Len(d) /\ k \in 0 .. Len(p) - 1 /\ Len(p) - 1 \in 0 .. Len(p) /\ p \in Seq(Names)
        BY <3>2, <3>4, <3>7, PathFacts
      <4>2. Upto(d, k) = Upto(p, k)
        BY <4>1, UptoFacts
      <4> HIDE DEF d
      <4>3. Exists(Upto(d, k)) /\ NodeAt(Upto(d, k)).kind = "dir"
        BY <3>4, <3>5, <4>1, RootedFacts
      <4> QED
        BY <4>2, <4>3
    <3> QED
      BY <3>2, <3>6, <3>7
  <2>2. ASSUME NEW p \in Paths, NEW k \in 1 .. Len(p) - 1,
               Exists(Upto(p, k)), NodeAt(Upto(p, k)).kind = "dir"
        PROVE  tree'.at[Upto(p, k)] # Nowhere /\ tree'.node[tree'.at[Upto(p, k)]].kind = "dir"
    <3>1. Upto(p, k) \in Paths
      BY IngestAssumption DEF Upto
    <3> QED
      BY <1>4, <2>2, <3>1 DEF Exists, NodeAt
  <2> QED
    BY <2>1, <2>2, RootedKept
<1>6. ASSUME NEW p \in Paths \ touched' PROVE tree'.at[p] = tree.at[p] /\ (Exists(p) => Same(p))
  <2>1. p # r
    BY <1>1
  <2>2. ASSUME Exists(p), NEW k \in 1 .. Len(p) PROVE Exists(Upto(p, k)) /\ Upto(p, k) \in Paths
    BY <2>2, RootedFacts
  <2> QED
    BY <1>3, <1>4, <2>1, <2>2 DEF Same
<1> QED
  BY <1>5, <1>6

\* A path that is left by nothing, or is no directory, leads nowhere.
LEMMA LeafFacts ==
  ASSUME tree \in Tree, Rooted(tree), NEW q \in Paths, NEW p \in Paths, Exists(p),
         NEW k \in 1 .. Len(p) - 1, Upto(p, k) = q
  PROVE  Exists(q) /\ IsDir(q) /\ Children(q) # {}
<1>1. Len(p) \in Nat /\ k \in 1 .. Len(p) /\ k < Len(p) /\ k + 1 \in 1 .. Len(p)
  BY PathFacts
<1>2. Exists(q) /\ IsDir(q)
  BY <1>1, RootedFacts
<1>3. Upto(p, k + 1) \in Paths /\ Exists(Upto(p, k + 1))
  BY <1>1, RootedFacts
<1>4. Upto(p, k + 1) = Append(Upto(p, k), p[k + 1]) /\ p[k + 1] \in Names
  <2> DEFINE j == k + 1
  <2>1. Upto(p, j) = Append(Upto(p, j - 1), p[j]) /\ p[j] \in Names
    BY <1>1, WayFacts
  <2> QED
    BY <1>1, <2>1
<1>5. p[k + 1] \in Children(q)
  BY <1>3, <1>4 DEF Children
<1> QED
  BY <1>2, <1>5

LEMMA UnlinkTree ==
  ASSUME tree \in Tree, Rooted(tree), Unlink
  PROVE  /\ Rooted(tree)'
         /\ \A p \in Paths \ touched' : tree'.at[p] = tree.at[p] /\ (Exists(p) => Same(p))
<1>1. PICK r \in Paths :
        /\ Exists(r) /\ Children(r) = {}
        /\ tree' = [tree EXCEPT !.at[r] = Nowhere]
        /\ touched' = touched \cup {r}
  BY DEF Unlink, Change
<1>2. /\ tree.at \in [Paths -> Inodes \cup {Nowhere}] /\ tree.node \in [Inodes -> Node]
      /\ tree = [at |-> tree.at, node |-> tree.node]
  BY DEF Tree
<1>3. /\ tree'.at[r] = Nowhere /\ \A q \in Paths \ {r} : tree'.at[q] = tree.at[q]
      /\ tree'.node = tree.node
  BY <1>1, <1>2
<1>4. ASSUME NEW p \in Paths, Exists(p), NEW k \in 1 .. Len(p) - 1 PROVE Upto(p, k) # r
  BY <1>1, <1>4, LeafFacts
<1>5. Rooted(tree)'
  <2>1. \A p \in Paths : tree'.at[p] # Nowhere => tree.at[p] # Nowhere
    BY <1>3
  <2>2. ASSUME NEW p \in Paths, NEW k \in 1 .. Len(p) - 1, tree'.at[p] # Nowhere,
               Exists(Upto(p, k)), NodeAt(Upto(p, k)).kind = "dir"
        PROVE  tree'.at[Upto(p, k)] # Nowhere /\ tree'.node[tree'.at[Upto(p, k)]].kind = "dir"
    <3>1. Upto(p, k) \in Paths
      BY IngestAssumption DEF Upto
    <3>2. Upto(p, k) # r
      BY <1>4, <2>1, <2>2 DEF Exists
    <3> QED
      BY <1>3, <2>2, <3>1, <3>2 DEF Exists, NodeAt
  <2> QED
    BY <2>1, <2>2, RootedKept
<1>6. ASSUME NEW p \in Paths \ touched' PROVE tree'.at[p] = tree.at[p] /\ (Exists(p) => Same(p))
  <2>1. p # r
    BY <1>1
  <2>2. ASSUME Exists(p), NEW k \in 1 .. Len(p) PROVE Upto(p, k) \in Paths \ {r}
    <3>1. Upto(p, k) \in Paths /\ Upto(p, Len(p)) = p /\ Len(p) \in Nat
      BY WayFacts, PathFacts
    <3>2. k = Len(p) \/ k \in 1 .. Len(p) - 1
      BY <3>1
    <3> QED
      BY <1>4, <2>1, <2>2, <3>1, <3>2
  <2> QED
    BY <1>3, <2>1, <2>2 DEF Same
<1> QED
  BY <1>5, <1>6

LEMMA RenameTree ==
  ASSUME tree \in Tree, Rooted(tree), Rename
  PROVE  /\ Rooted(tree)'
         /\ \A p \in Paths \ touched' : tree'.at[p] = tree.at[p] /\ (Exists(p) => Same(p))
<1>1. PICK r \in Paths, q \in Paths :
        /\ r # q /\ Exists(r) /\ ~IsDir(r) /\ ~IsDir(q) /\ IsDir(Front(q))
        /\ tree' = [tree EXCEPT !.at[q] = tree.at[r], !.at[r] = Nowhere]
        /\ touched' = touched \cup {r, q}
  BY DEF Rename, Change
<1>2. /\ tree.at \in [Paths -> Inodes \cup {Nowhere}] /\ tree.node \in [Inodes -> Node]
      /\ tree = [at |-> tree.at, node |-> tree.node]
  BY DEF Tree
<1>3. /\ tree'.at[r] = Nowhere /\ tree'.node = tree.node
      /\ \A p \in Paths \ {r, q} : tree'.at[p] = tree.at[p]
  BY <1>1, <1>2
<1>4. ASSUME NEW p \in Paths, Exists(p), NEW k \in 1 .. Len(p) - 1 PROVE Upto(p, k) \notin {r, q}
  BY <1>1, <1>4, LeafFacts
<1>5. Rooted(tree)'
  <2>1. ASSUME NEW p \in Paths, tree'.at[p] # Nowhere, tree.at[p] = Nowhere, NEW k \in 1 .. Len(p) - 1
        PROVE  Exists(Upto(p, k)) /\ NodeAt(Upto(p, k)).kind = "dir"
    <3>1. p = q
      BY <1>3, <2>1
    <3>2. Len(p) \in Nat /\ Len(p) \in 1 .. Len(p) /\ Len(p) - 1 \in 1 .. Len(p) /\ k \in 1 .. Len(p)
      BY PathFacts
    <3>3. Front(p) = Upto(p, Len(p) - 1)
      BY DEF Front, Upto
    <3> DEFINE d == Upto(p, Len(p) - 1)
    <3>4. d \in Paths /\ Len(d) = Len(p) - 1 /\ d # Root
      BY <3>2, WayFacts, PathFacts, IngestAssumption
    <3>5. Exists(d) /\ NodeAt(d).kind = "dir"
      BY <1>1, <3>1, <3>3, <3>4 DEF IsDir
    <3>6. CASE k = Len(p) - 1
      BY <3>5, <3>6
    <3>7. CASE k < Len(p) - 1
      <4>1. k \in 1 .. Len(d) /\ k < Len(d) /\ k \in 0 .. Len(p) - 1 /\ Len(p) - 1 \in 0 .. Len(p) /\ p \in Seq(Names)
        BY <3>2, <3>4, <3>7, PathFacts
      <4>2. Upto(d, k) = Upto(p, k)
        BY <4>1, UptoFacts
      <4> HIDE DEF d
      <4>3. Exists(Upto(d, k)) /\ NodeAt(Upto(d, k)).kind = "dir"
        BY <3>4, <3>5, <4>1, RootedFacts
      <4> QED
        BY <4>2, <4>3
    <3> QED
      BY <3>2, <3>6, <3>7
  <2>2. ASSUME NEW p \in Paths, NEW k \in 1 .. Len(p) - 1, tree'.at[p] # Nowhere,
               Exists(Upto(p, k)), NodeAt(Upto(p, k)).kind = "dir"
        PROVE  tree'.at[Upto(p, k)] # Nowhere /\ tree'.node[tree'.at[Upto(p, k)]].kind = "dir"
    <3>1. Upto(p, k) \in Paths /\ IsDir(Upto(p, k))
      BY <2>2, IngestAssumption DEF Upto, IsDir
    <3>2. Upto(p, k) \notin {r, q}
      BY <1>1, <3>1
    <3> QED
      BY <1>3, <2>2, <3>1, <3>2 DEF Exists, NodeAt
  <2> QED
    BY <2>1, <2>2, RootedKept
<1>6. ASSUME NEW p \in Paths \ touched' PROVE tree'.at[p] = tree.at[p] /\ (Exists(p) => Same(p))
  <2>1. p \notin {r, q}
    BY <1>1
  <2>2. ASSUME Exists(p), NEW k \in 1 .. Len(p) PROVE Upto(p, k) \in Paths \ {r, q}
    <3>1. Upto(p, k) \in Paths /\ Upto(p, Len(p)) = p /\ Len(p) \in Nat
      BY WayFacts, PathFacts
    <3>2. k = Len(p) \/ k \in 1 .. Len(p) - 1
      BY <3>1
    <3> QED
      BY <1>4, <2>1, <2>2, <3>1, <3>2
  <2> QED
    BY <1>3, <2>1, <2>2 DEF Same
<1> QED
  BY <1>5, <1>6

\* A file rewritten, or an entry's permissions changed: the names stay.
LEMMA NodeTree ==
  ASSUME tree \in Tree, Rooted(tree), Rewrite \/ Chmod
  PROVE  /\ Rooted(tree)' /\ tree'.at = tree.at /\ stack' = stack
         /\ \A p \in Paths \ touched' : tree'.at[p] = tree.at[p] /\ (Exists(p) => Same(p))
<1>0. /\ tree.at \in [Paths -> Inodes \cup {Nowhere}] /\ tree.node \in [Inodes -> Node]
      /\ tree = [at |-> tree.at, node |-> tree.node]
  BY DEF Tree
<1>1. ASSUME NEW r \in Paths, Exists(r), NEW n, NEW paths,
             tree' = [at |-> tree.at, node |-> [tree.node EXCEPT ![tree.at[r]] = n]],
             n.kind = tree.node[tree.at[r]].kind, touched' = touched \cup paths,
             \A p \in Paths \ paths : Exists(p) =>
               \A k \in 1 .. Len(p) : tree.at[Upto(p, k)] # tree.at[r]
      PROVE  /\ Rooted(tree)' /\ tree'.at = tree.at
             /\ \A p \in Paths \ touched' : tree'.at[p] = tree.at[p] /\ (Exists(p) => Same(p))
  <2>1. tree.at[r] \in Inodes
    BY <1>0, <1>1 DEF Exists
  <2>2. /\ tree'.at = tree.at
        /\ \A x \in Inodes : tree'.node[x].kind = tree.node[x].kind
        /\ \A x : x # tree.at[r] => tree'.node[x] = tree.node[x]
    <3>1. tree'.at = tree.at /\ tree'.node = [tree.node EXCEPT ![tree.at[r]] = n]
      BY <1>1
    <3>2. \A x \in Inodes : x # tree.at[r] => tree'.node[x] = tree.node[x]
      BY <1>0, <3>1
    <3>3. tree'.node[tree.at[r]] = n
      BY <1>0, <2>1, <3>1
    <3> QED
      BY <1>0, <1>1, <3>1, <3>2, <3>3
  <2>3. Rooted(tree)'
    <3>1. \A p \in Paths : tree'.at[p] # Nowhere => tree.at[p] # Nowhere
      BY <2>2
    <3>2. ASSUME NEW p \in Paths, NEW k \in 1 .. Len(p) - 1,
                 Exists(Upto(p, k)), NodeAt(Upto(p, k)).kind = "dir"
          PROVE  tree'.at[Upto(p, k)] # Nowhere /\ tree'.node[tree'.at[Upto(p, k)]].kind = "dir"
      <4>1. Upto(p, k) \in Paths
        BY IngestAssumption DEF Upto
      <4>2. tree.at[Upto(p, k)] \in Inodes
        BY <1>0, <3>2, <4>1 DEF Exists
      <4> QED
        BY <2>2, <3>2, <4>2 DEF Exists, NodeAt
    <3> QED
      BY <3>1, <3>2, RootedKept
  <2>4. ASSUME NEW p \in Paths \ touched', Exists(p) PROVE Same(p)
    BY <1>1, <2>2, <2>4 DEF Same
  <2> QED
    BY <2>2, <2>3, <2>4
<1>2. CASE Rewrite
  <2>1. PICK r \in Paths, c \in Contents :
          /\ Exists(r) /\ NodeAt(r).kind = "file" /\ UNCHANGED stack
          /\ tree' = [tree EXCEPT !.node[tree.at[r]].data = c]
          /\ touched' = touched \cup Links(r)
    BY <1>2 DEF Rewrite, Change
  <2> DEFINE m == tree.node[tree.at[r]]
             n == [m EXCEPT !.data = c]
  <2>2. m \in Node /\ tree.at[r] \in Inodes
    BY <1>0, <2>1, NodeFacts
  <2>3. n.kind = m.kind
    BY <2>2 DEF Node
  <2>4. tree' = [at |-> tree.at, node |-> [tree.node EXCEPT ![tree.at[r]] = n]]
    BY <1>0, <2>1, <2>2
  <2>5. ASSUME NEW p \in Paths \ Links(r), Exists(p), NEW k \in 1 .. Len(p)
        PROVE  tree.at[Upto(p, k)] # tree.at[r]
    <3>1. Upto(p, k) \in Paths /\ Upto(p, Len(p)) = p /\ Len(p) \in Nat
          /\ (k < Len(p) => NodeAt(Upto(p, k)).kind = "dir")
      BY <2>5, WayFacts, PathFacts, RootedFacts
    <3>2. CASE k = Len(p)
      BY <2>5, <3>1, <3>2 DEF Links
    <3>3. CASE k < Len(p)
      BY <2>1, <3>1, <3>3 DEF NodeAt
    <3> QED
      BY <3>1, <3>2, <3>3
  <2> HIDE DEF n
  <2>6. touched' = touched \cup Links(r) /\ stack' = stack /\ n.kind = tree.node[tree.at[r]].kind
    BY <2>1, <2>3
  <2>7. /\ Rooted(tree)' /\ tree'.at = tree.at
        /\ \A p \in Paths \ touched' : tree'.at[p] = tree.at[p] /\ (Exists(p) => Same(p))
    BY <1>1, <2>1, <2>4, <2>5, <2>6
  <2> QED
    BY <2>6, <2>7
<1>3. CASE Chmod
  <2>1. PICK r \in Paths :
          /\ Exists(r) /\ UNCHANGED stack
          /\ touched' = touched \cup {q \in Paths : \E x \in Links(r) : IsPrefix(x, q)}
          /\ tree' = [tree EXCEPT !.node[tree.at[r]].access = ~@]
    BY <1>3 DEF Chmod, Change
  <2> DEFINE m == tree.node[tree.at[r]]
             n == [m EXCEPT !.access = ~@]
             paths == {q \in Paths : \E x \in Links(r) : IsPrefix(x, q)}
  <2>2. m \in Node /\ tree.at[r] \in Inodes
    BY <1>0, <2>1, NodeFacts
  <2>3. n.kind = m.kind
    BY <2>2 DEF Node
  <2>4. tree' = [at |-> tree.at, node |-> [tree.node EXCEPT ![tree.at[r]] = n]]
    BY <1>0, <2>1, <2>2
  <2>5. ASSUME NEW p \in Paths \ paths, Exists(p), NEW k \in 1 .. Len(p)
        PROVE  tree.at[Upto(p, k)] # tree.at[r]
    <3> DEFINE q == Upto(p, k)
    <3>1. q \in Paths /\ Len(q) = k /\ Len(p) \in Nat /\ k \in 0 .. Len(p) /\ p \in Seq(Names) /\ k \in 0 .. k
      BY WayFacts, PathFacts
    <3>2. Upto(q, k) = Upto(p, k)
      BY <3>1, UptoFacts
    <3> HIDE DEF q
    <3>3. IsPrefix(q, p)
      BY <3>1, <3>2 DEF IsPrefix, Upto, q
    <3> QED
      BY <3>1, <3>3 DEF Links, q
  <2> HIDE DEF n, paths
  <2>6. touched' = touched \cup paths
    BY <2>1 DEF paths
  <2> QED
    BY <1>1, <2>1, <2>3, <2>4, <2>5, <2>6
<1> QED
  BY <1>2, <1>3

\* The k-th open directory is on the way to p, and waits to give it.
Leads(k, p) == k \in 1 .. Len(stack) /\ k <= Len(p) /\ stack[k].dir = Upto(p, k - 1)
Waits(k, p) == Leads(k, p) /\ p[k] \in stack[k].pending

\* Open directories only lose names.
Shrinks ==
  /\ Len(stack') \in 0 .. Len(stack)
  /\ \A k \in 1 .. Len(stack') :
       stack'[k].dir = stack[k].dir /\ stack'[k].pending \subseteq stack[k].pending

LEMMA NoticeStreams ==
  ASSUME StackOK, NEW gone \in SUBSET Paths, NEW new \in SUBSET Paths, Notice(gone, new)
  PROVE  /\ Shrinks /\ Len(stack') = Len(stack)
         /\ \A p \in Paths : (\A k \in 1 .. Len(p) : Upto(p, k) \notin gone \cup new) =>
              \A k \in 1 .. Len(stack) : Leads(k, p) =>
                /\ p[k] \in stack'[k].pending <=> p[k] \in stack[k].pending
                /\ p[k] \in stack'[k].maybe => p[k] \in stack[k].maybe
<1> DEFINE names(ps, k) == {Last(p) : p \in {x \in ps : Front(x) = stack[k].dir}}
           t(k) == [stack[k] EXCEPT !.pending = @ \ names(gone, k),
                                    !.maybe = @ \cup names(new, k) \cup (stack[k].pending \cap names(gone, k))]
<1>1. stack \in Seq(Streams) /\ Len(stack) \in Nat /\ DOMAIN stack = 1 .. Len(stack)
  BY DEF StackOK
<1>2. stack' = [k \in 1 .. Len(stack) |-> t(k)]
  BY <1>1 DEF Notice
<1>3. Len(stack') = Len(stack) /\ \A k \in 1 .. Len(stack) : stack'[k] = t(k)
  <2> HIDE DEF t
  <2> QED
    BY <1>1, <1>2
<1>4. ASSUME NEW k \in 1 .. Len(stack)
      PROVE  /\ stack'[k].dir = stack[k].dir
             /\ stack'[k].pending = stack[k].pending \ names(gone, k)
             /\ stack'[k].maybe = stack[k].maybe \cup names(new, k) \cup (stack[k].pending \cap names(gone, k))
  <2>1. stack[k] \in Streams
    BY <1>1
  <2> HIDE DEF names
  <2>2. /\ t(k).dir = stack[k].dir /\ t(k).pending = stack[k].pending \ names(gone, k)
        /\ t(k).maybe = stack[k].maybe \cup names(new, k) \cup (stack[k].pending \cap names(gone, k))
    BY <2>1 DEF Streams
  <2> QED
    BY <1>3, <2>2
<1>5. Shrinks
  <2>1. \A k \in 1 .. Len(stack) :
          stack'[k].dir = stack[k].dir /\ stack'[k].pending \subseteq stack[k].pending
    BY <1>4
  <2> HIDE DEF t, names
  <2>2. Len(stack') \in 0 .. Len(stack)
    BY <1>1, <1>3
  <2> QED
    BY <1>3, <2>1, <2>2 DEF Shrinks
<1>6. ASSUME NEW p \in Paths, \A k \in 1 .. Len(p) : Upto(p, k) \notin gone \cup new,
             NEW k \in 1 .. Len(stack), Leads(k, p)
      PROVE  p[k] \notin names(gone, k) \cup names(new, k)
  <2>1. k \in 1 .. Len(p) /\ stack[k].dir = Upto(p, k - 1)
    BY <1>1, <1>6, PathFacts DEF Leads
  <2>2. Upto(p, k) = Append(Upto(p, k - 1), p[k])
    BY <2>1, WayFacts
  <2>3. ASSUME NEW r \in gone \cup new, Front(r) = stack[k].dir, Last(r) = p[k] PROVE FALSE
    <3>1. r = Append(Front(r), Last(r))
      BY <1>6, <2>3, PathFacts
    <3>2. r = Upto(p, k)
      BY <2>1, <2>2, <2>3, <3>1
    <3> QED
      BY <1>6, <2>1, <3>2
  <2> QED
    BY <2>3
<1> HIDE DEF names, t
<1>7. ASSUME NEW p \in Paths, \A k \in 1 .. Len(p) : Upto(p, k) \notin gone \cup new,
             NEW k \in 1 .. Len(stack), Leads(k, p)
      PROVE  /\ p[k] \in stack'[k].pending <=> p[k] \in stack[k].pending
             /\ p[k] \in stack'[k].maybe => p[k] \in stack[k].maybe
  BY <1>4, <1>6, <1>7
<1> QED
  BY <1>3, <1>5, <1>7


\* Whatever others do in a step, the tree stays one, open directories lose
\* names at most, and what leads to an untouched entry stays as it is.
LEMMA OthersQuiet ==
  ASSUME IngestInv, Rooted(tree), Others
  PROVE  /\ Rooted(tree)' /\ Shrinks /\ Len(stack') = Len(stack)
         /\ \A p \in Paths \ touched' : tree'.at[p] = tree.at[p] /\ (Exists(p) => Same(p))
         /\ \A p \in Paths \ touched' : Exists(p) =>
              \A k \in 1 .. Len(stack) : Leads(k, p) =>
                /\ p[k] \in stack'[k].pending <=> p[k] \in stack[k].pending
                /\ p[k] \in stack'[k].maybe => p[k] \in stack[k].maybe
<1>0. tree \in Tree /\ StackOK /\ stack \in Seq(Streams) /\ Len(stack) \in Nat
  BY DEF IngestInv, StackOK
<1>1. ASSUME NEW gone \in SUBSET Paths, NEW new \in SUBSET Paths, Notice(gone, new),
             gone \cup new \subseteq touched',
             \A r \in gone \cup new : ~Exists(r) \/ ~IsDir(r) \/ Children(r) = {}
      PROVE  /\ Shrinks /\ Len(stack') = Len(stack)
             /\ \A p \in Paths \ touched' : Exists(p) =>
                  \A k \in 1 .. Len(stack) : Leads(k, p) =>
                    /\ p[k] \in stack'[k].pending <=> p[k] \in stack[k].pending
                    /\ p[k] \in stack'[k].maybe => p[k] \in stack[k].maybe
  <2>1. ASSUME NEW p \in Paths \ touched', Exists(p), NEW k \in 1 .. Len(p)
        PROVE  Upto(p, k) \notin gone \cup new
    <3>1. Upto(p, Len(p)) = p /\ Len(p) \in Nat /\ Upto(p, k) \in Paths
      BY WayFacts, PathFacts
    <3>2. CASE k = Len(p)
      BY <1>1, <3>1, <3>2
    <3>3. CASE k \in 1 .. Len(p) - 1
      <4>1. Exists(Upto(p, k)) /\ IsDir(Upto(p, k)) /\ Children(Upto(p, k)) # {}
        BY <1>0, <2>1, <3>1, <3>3, LeafFacts
      <4> QED
        BY <1>1, <4>1
    <3> QED
      BY <3>1, <3>2, <3>3
  <2> QED
    BY <1>0, <1>1, <2>1, NoticeStreams
<1>2. CASE Create
  <2>1. PICK p \in Paths : ~Exists(p) /\ Notice({}, {p}) /\ touched' = touched \cup {p}
    BY <1>2 DEF Create, Change
  <2>2. /\ Shrinks /\ Len(stack') = Len(stack)
        /\ \A r \in Paths \ touched' : Exists(r) =>
             \A k \in 1 .. Len(stack) : Leads(k, r) =>
               /\ r[k] \in stack'[k].pending <=> r[k] \in stack[k].pending
               /\ r[k] \in stack'[k].maybe => r[k] \in stack[k].maybe
    BY <1>1, <2>1
  <2> QED
    BY <1>0, <1>2, <2>2, CreateTree
<1>3. CASE Unlink
  <2>1. PICK p \in Paths : Children(p) = {} /\ Notice({p}, {}) /\ touched' = touched \cup {p}
    BY <1>3 DEF Unlink, Change
  <2>2. /\ Shrinks /\ Len(stack') = Len(stack)
        /\ \A r \in Paths \ touched' : Exists(r) =>
             \A k \in 1 .. Len(stack) : Leads(k, r) =>
               /\ r[k] \in stack'[k].pending <=> r[k] \in stack[k].pending
               /\ r[k] \in stack'[k].maybe => r[k] \in stack[k].maybe
    BY <1>1, <2>1
  <2> QED
    BY <1>0, <1>3, <2>2, UnlinkTree
<1>4. CASE Rename
  <2>1. PICK p \in Paths, q \in Paths :
          ~IsDir(p) /\ ~IsDir(q) /\ Notice({p, q}, {q}) /\ touched' = touched \cup {p, q}
    BY <1>4 DEF Rename, Change
  <2>2. /\ Shrinks /\ Len(stack') = Len(stack)
        /\ \A r \in Paths \ touched' : Exists(r) =>
             \A k \in 1 .. Len(stack) : Leads(k, r) =>
               /\ r[k] \in stack'[k].pending <=> r[k] \in stack[k].pending
               /\ r[k] \in stack'[k].maybe => r[k] \in stack[k].maybe
    BY <1>1, <2>1
  <2> QED
    BY <1>0, <1>4, <2>2, RenameTree
<1>5. CASE Rewrite \/ Chmod
  <2>1. stack' = stack
    BY <1>0, <1>5, NodeTree
  <2>2. Shrinks
    BY <1>0, <2>1 DEF Shrinks
  <2> QED
    BY <1>0, <1>5, <2>1, <2>2, NodeTree
<1> QED
  BY <1>2, <1>3, <1>4, <1>5 DEF Others
-----------------------------------------------------------------------------
\* Where an entry p stands: ingest is at it or above it, an open directory
\* will give what leads to it, or neither.
OnWay(p)   == Len(path) <= Len(p) /\ path = Upto(p, Len(path))
AtWork(p)  == pc \in AtEntry /\ OnWay(p) /\ ~(pc = "descend" /\ path = p)
Handled(p) == ~AtWork(p) /\ \A j \in 1 .. Len(stack) : ~Waits(j, p)

\* The open directories lie one in another, and what leads to the entry at
\* work has been given by each of them.
Inside(j, q) == stack[j].dir = Upto(q, j - 1) /\ q[j] \notin stack[j].pending
NestInv ==
  /\ \A k \in 1 .. Len(stack) : \A j \in 1 .. k - 1 : Inside(j, stack[k].dir)
  /\ pc \in AtEntry => \A j \in 1 .. Len(stack) : Inside(j, path)

PhaseInv ==
  /\ pc \in {"open", "read"} => kind = "file"
  /\ pc = "unread" => kind # "dir"
  /\ pc \in {"probe", "descend"} => kind = "dir"
  /\ pc \in {"start", "sort", "done"} => stack = <<>>
  /\ pc = "start" => out = <<>>

\* Of an untouched entry: what leads to it is given once and was listed; what
\* lstat, open and the reads found is still so; it was observed as it is or not
\* read; and unless a call failed it has been observed or will be.
StreamInv(p) ==
  \A k \in 1 .. Len(stack) : Leads(k, p) =>
    p[k] \notin stack[k].maybe /\ \A j \in 1 .. k - 1 : CanList(Upto(p, j))
Looked == AtEntry \ {"lstat"}
WorkInv(p) ==
  /\ pc \in Looked /\ OnWay(p) => kind = NodeAt(path).kind
  /\ pc \in Looked /\ path = p => size = IF kind = "file" THEN Len(NodeAt(p).data) ELSE 0
  /\ pc = "read" /\ path = p => /\ fd = tree.at[p] /\ NodeAt(p).access
                                /\ Len(got) <= Len(NodeAt(p).data)
                                /\ \A k \in 1 .. Len(got) : got[k] = NodeAt(p).data[k]
  /\ pc = "unread" /\ path = p /\ kind = "file" => errors > 0 \/ ~NodeAt(p).access
NotRead(p) == [Expected(p) EXCEPT !.readable = FALSE, !.content = NoContent]
SeenAs(p, k) ==
  /\ Exists(p) /\ Reachable(p) /\ Seen(p) = {k}
  /\ out[k] \in {Expected(p), NotRead(p)} /\ (errors = 0 => out[k] = Expected(p))
SoFar(p) == \A k \in Seen(p) : SeenAs(p, k) /\ Handled(p)
ToCome(p) ==
  pc \notin {"start", "fail"} /\ errors = 0 /\ Reachable(p) => Seen(p) # {} \/ ~Handled(p)

StableOK(p) ==
  /\ SoFar(p) /\ (pc \in Looked /\ path = p => Exists(p))
  /\ Exists(p) => StreamInv(p) /\ WorkInv(p) /\ ToCome(p)
StableInv ==
  /\ Rooted(tree) /\ NestInv /\ PhaseInv
  /\ \A p \in Paths \ touched : StableOK(p)

LEMMA PhaseKept == IngestInv /\ PhaseInv /\ [Next]_vars => PhaseInv'
<1> SUFFICES ASSUME IngestInv, PhaseInv, [Next]_vars PROVE PhaseInv'
  OBVIOUS
<1>0. stack \in Seq(Streams) /\ (pc \in {"readdir"} \cup AtEntry => stack # <<>>) /\ kind \in Kind
  BY DEF IngestInv, StackOK, LocalsOK
<1>1. CASE UNCHANGED vars
  BY <1>1 DEF vars, local, past, PhaseInv
<1>2. CASE OpenRoot
  BY <1>2 DEF OpenRoot, local, PhaseInv
<1>3. CASE NextEntry
  BY <1>3 DEF NextEntry, PhaseInv
<1>4. CASE EndOfDir
  BY <1>4 DEF EndOfDir, local, PhaseInv
<1>5. CASE Lstat
  <2>1. CASE Exists(path)
    <3>1. kind' \in Kind
      <4>1. path \in Paths /\ tree \in Tree
        BY <1>5 DEF IngestInv, LocalsOK, AtEntry, Lstat
      <4>2. NodeAt(path).kind \in Kind
        BY <2>1, <4>1, NodeFacts, ContentFacts
      <4> QED
        BY <1>5, <2>1, <4>2 DEF Lstat
    <3> QED
      BY <1>5, <2>1, <3>1 DEF Lstat, PhaseInv, Kind
  <2>2. CASE ~Exists(path)
    BY <1>5, <2>2 DEF Lstat, PhaseInv
  <2> QED
    BY <2>1, <2>2
<1>6. CASE Open
  BY <1>6 DEF Open, PhaseInv
<1>7. CASE Read
  BY <1>7 DEF Read, PhaseInv
<1>8. CASE Unread
  BY <1>8 DEF Unread, local, PhaseInv
<1>9. CASE Probe
  BY <1>9 DEF Probe, local, PhaseInv
<1>10. CASE Descend
  BY <1>10 DEF Descend, local, PhaseInv
<1>11. CASE Sort
  BY <1>11 DEF Sort, local, PhaseInv
<1>12. CASE Fail
  BY <1>12 DEF Fail, local, PhaseInv
<1>13. CASE Others
  <2>1. Len(stack') = Len(stack) /\ UNCHANGED <<pc, kind, out>> /\ pc # "start"
    BY <1>13, OthersKeep DEF Others, Create, Unlink, Rename, Rewrite, Chmod, Change, local
  <2>2. stack = <<>> => stack' = <<>>
    <3>1. IngestInv'
      BY <1>13, OthersKeep
    <3>2. stack' \in Seq(Streams)
      BY <3>1 DEF IngestInv, StackOK
    <3> QED
      BY <1>0, <2>1, <3>2
  <2> QED
    BY <2>1, <2>2 DEF PhaseInv
<1> QED
  BY <1>1, <1>2, <1>3, <1>4, <1>5, <1>6, <1>7, <1>8, <1>9, <1>10, <1>11, <1>12, <1>13
     DEF Next, Program, Done

LEMMA ShrinksNest ==
  ASSUME IngestInv, NestInv, Shrinks,
         pc' \in AtEntry => pc \in AtEntry /\ path' = path /\ Len(stack') = Len(stack)
  PROVE  NestInv'
<1>1. Len(stack) \in Nat /\ Len(stack') \in 0 .. Len(stack)
  BY DEF IngestInv, StackOK, Shrinks
<1>2. ASSUME NEW k \in 1 .. Len(stack'), NEW j \in 1 .. k - 1 PROVE Inside(j, stack[k].dir)'
  <2>1. k \in 1 .. Len(stack) /\ j \in 1 .. Len(stack')
    BY <1>1
  <2>2. Inside(j, stack[k].dir)
    BY <2>1 DEF NestInv
  <2> QED
    BY <2>1, <2>2 DEF Inside, Shrinks
<1>3. ASSUME pc' \in AtEntry, NEW j \in 1 .. Len(stack') PROVE Inside(j, path)'
  <2>1. Inside(j, path)
    BY <1>3 DEF NestInv
  <2> QED
    BY <1>3, <2>1 DEF Inside, Shrinks
<1> QED
  BY <1>2, <1>3 DEF NestInv

\* readdir gives a name that is not given again.
LEMMA NextEntryForm ==
  ASSUME IngestInv, NextEntry
  PROVE  LET m == Len(stack) IN
         /\ m \in Nat \ {0} /\ Len(stack') = m /\ Shrinks
         /\ stack[m].dir \in Seq(Names) /\ Len(stack[m].dir) = m - 1
         /\ \A k \in 1 .. m : stack'[k].dir = stack[k].dir /\ stack'[k].maybe \subseteq stack[k].maybe
         /\ \A k \in 1 .. m - 1 : stack'[k] = stack[k]
         /\ \E n \in (stack[m].pending \cup stack[m].maybe) \cap Names :
              /\ path' = Append(stack[m].dir, n) /\ stack'[m].pending = stack[m].pending \ {n}
<1> DEFINE m == Len(stack)
           s == stack[m]
<1>1. StackOK /\ stack # <<>>
  BY DEF IngestInv, LocalsOK, NextEntry
<1>2. m \in Nat \ {0} /\ Last(stack) = s /\ s \in Streams /\ stack \in Seq(Streams)
  BY <1>1, StackFacts DEF StackOK
<1>3. PICK n \in s.pending \cup s.maybe :
        /\ path' = Append(s.dir, n)
        /\ stack' = [stack EXCEPT ![m].pending = @ \ {n}, ![m].maybe = @ \ {n}]
  BY <1>2 DEF NextEntry
<1>4. Len(s.dir) = m - 1 /\ s.dir \in Seq(Names) /\ n \in Names
  <2>1. Len(s.dir) = m - 1
    BY <1>1, <1>2 DEF StackOK
  <2>2. s.dir \in Seq(Names) /\ n \in Names
    BY <1>2, <1>3 DEF Streams
  <2> QED
    BY <2>1, <2>2
<1> DEFINE t == [s EXCEPT !.pending = @ \ {n}, !.maybe = @ \ {n}]
<1>5. t.dir = s.dir /\ t.pending = s.pending \ {n} /\ t.maybe \subseteq s.maybe
  BY <1>2 DEF Streams
<1>6. stack' = [stack EXCEPT ![m] = t]
  BY <1>2, <1>3
<1> HIDE DEF t
<1>7. Len(stack') = m /\ stack'[m] = t /\ \A k \in 1 .. m - 1 : stack'[k] = stack[k]
  BY <1>2, <1>6
<1>8. \A k \in 1 .. m : k = m \/ k \in 1 .. m - 1
  BY <1>2
<1>9. \A k \in 1 .. m : /\ stack'[k].dir = stack[k].dir /\ stack'[k].maybe \subseteq stack[k].maybe
                        /\ stack'[k].pending \subseteq stack[k].pending
  BY <1>5, <1>7, <1>8
<1>10. Shrinks
  BY <1>2, <1>7, <1>9 DEF Shrinks
<1>11. /\ path' = Append(s.dir, n) /\ stack'[m].pending = s.pending \ {n}
       /\ n \in (s.pending \cup s.maybe) \cap Names
  BY <1>3, <1>4, <1>5, <1>7
<1> HIDE DEF m, s
<1>12. /\ m \in Nat \ {0} /\ Len(stack') = m /\ Shrinks
       /\ s.dir \in Seq(Names) /\ Len(s.dir) = m - 1
       /\ \A k \in 1 .. m : stack'[k].dir = stack[k].dir /\ stack'[k].maybe \subseteq stack[k].maybe
       /\ \A k \in 1 .. m - 1 : stack'[k] = stack[k]
       /\ \E i \in (s.pending \cup s.maybe) \cap Names :
            /\ path' = Append(s.dir, i) /\ stack'[m].pending = s.pending \ {i}
  BY <1>2, <1>4, <1>7, <1>9, <1>10, <1>11
<1> QED
  BY <1>12 DEF m, s

\* A listed directory is opened on top of the others.
LEMMA DescendForm ==
  ASSUME IngestInv, Descend
  PROVE  LET m == Len(stack) IN
         /\ m \in Nat /\ path \in Paths /\ Len(path) = m
         /\ \/ Len(stack') = m /\ stack' = stack
            \/ /\ CanList(path)
               /\ Len(stack') = m + 1 /\ \A k \in 1 .. m : stack'[k] = stack[k]
               /\ stack'[m + 1].dir = path /\ stack'[m + 1].pending = Children(path)
               /\ stack'[m + 1].maybe = {}
         /\ errors' = 0 => errors = 0 /\ (CanList(path) => Len(stack') = m + 1)
<1> DEFINE s == Stream(path)
<1>1. path \in Paths /\ Len(path) = Len(stack) /\ stack \in Seq(Streams) /\ Len(stack) \in Nat
      /\ errors \in Nat
  BY DEF IngestInv, StackOK, LocalsOK, AtEntry, Descend
<1>2. s \in Streams /\ s.dir = path
  BY <1>1, StreamFacts
<1>3. s.pending = Children(path) /\ s.maybe = {}
  <2> HIDE DEF Children
  <2> QED
    BY DEF Stream
<1> HIDE DEF s
<1>4. /\ \/ CanList(path) /\ stack' = Append(stack, s)
         \/ stack' = stack
      /\ errors' = 0 => errors = 0 /\ (CanList(path) => stack' = Append(stack, s))
  <2>1. CASE CallFails /\ stack' = stack
    BY <1>1, <2>1 DEF CallFails
  <2>2. CASE ~(CallFails /\ stack' = stack)
    BY <2>2 DEF Descend, s
  <2> QED
    BY <2>1, <2>2
<1>5. stack' = Append(stack, s) => /\ Len(stack') = Len(stack) + 1 /\ stack'[Len(stack) + 1] = s
                                   /\ \A k \in 1 .. Len(stack) : stack'[k] = stack[k]
  BY <1>1, <1>2
<1> QED
  BY <1>1, <1>2, <1>3, <1>4, <1>5

LEMMA EndOfDirForm ==
  ASSUME IngestInv, EndOfDir
  PROVE  /\ Len(stack) \in Nat \ {0} /\ Len(stack') = Len(stack) - 1
         /\ \A k \in 1 .. Len(stack) - 1 : stack'[k] = stack[k]
         /\ Shrinks
         /\ errors' = 0 => stack[Len(stack)].pending = {}
<1>1. StackOK /\ stack # <<>> /\ errors \in Nat
  BY DEF IngestInv, LocalsOK, EndOfDir
<1>2. /\ Len(stack) \in Nat \ {0} /\ Last(stack) = stack[Len(stack)]
      /\ Len(stack') = Len(stack) - 1 /\ \A k \in 1 .. Len(stack) - 1 : stack'[k] = stack[k]
  BY <1>1, StackFacts DEF EndOfDir
<1>3. Shrinks
  BY <1>2 DEF Shrinks
<1>4. errors' = 0 => stack[Len(stack)].pending = {}
  BY <1>1, <1>2 DEF EndOfDir, CallFails
<1> QED
  BY <1>2, <1>3, <1>4

LEMMA NestKept == IngestInv /\ Rooted(tree) /\ NestInv /\ [Next]_vars => NestInv'
<1> SUFFICES ASSUME IngestInv, Rooted(tree), NestInv, [Next]_vars PROVE NestInv'
  OBVIOUS
<1>0. stack \in Seq(Streams) /\ Len(stack) \in Nat
  BY DEF IngestInv, StackOK
<1>1. CASE UNCHANGED vars
  BY <1>1 DEF vars, local, past, NestInv, Inside
<1>2. CASE OpenRoot
  <2>1. Len(stack') = 1 /\ pc' = "readdir"
    BY <1>2 DEF OpenRoot
  <2> QED
    BY <2>1 DEF NestInv, AtEntry
<1>3. CASE NextEntry
  <2> DEFINE m == Len(stack)
             d == stack[m].dir
  <2>1. /\ m \in Nat \ {0} /\ Len(stack') = m /\ Shrinks
        /\ d \in Seq(Names) /\ Len(d) = m - 1
        /\ \A k \in 1 .. m : stack'[k].dir = stack[k].dir
        /\ \A k \in 1 .. m - 1 : stack'[k] = stack[k]
    BY <1>3, NextEntryForm
  <2>2. PICK n \in Names : path' = Append(d, n) /\ stack'[m].pending = stack[m].pending \ {n}
    BY <1>3, NextEntryForm
  <2>3. ASSUME NEW k \in 1 .. Len(stack'), NEW j \in 1 .. k - 1 PROVE Inside(j, stack[k].dir)'
    <3>1. k \in 1 .. Len(stack) /\ j \in 1 .. Len(stack')
      BY <2>1
    <3>2. Inside(j, stack[k].dir)
      BY <3>1 DEF NestInv
    <3> QED
      BY <2>1, <3>1, <3>2 DEF Inside, Shrinks
  <2>4. ASSUME NEW j \in 1 .. Len(stack') PROVE Inside(j, path)'
    <3>1. /\ Append(d, n)[m] = n /\ \A i \in 1 .. m - 1 : Append(d, n)[i] = d[i]
          /\ \A i \in 0 .. m - 1 : Upto(Append(d, n), i) = Upto(d, i)
          /\ Upto(d, m - 1) = d
      <4>1. /\ Append(d, n)[Len(d) + 1] = n /\ \A i \in 1 .. Len(d) : Append(d, n)[i] = d[i]
            /\ \A i \in 0 .. Len(d) : Upto(Append(d, n), i) = Upto(d, i)
            /\ Upto(d, Len(d)) = d
        BY <2>1, UptoAppend
      <4>2. Len(d) + 1 = m
        BY <2>1
      <4> QED
        BY <2>1, <4>1, <4>2
    <3>2. CASE j = m
      <4>1. Upto(path', m - 1) = d /\ path'[m] = n
        BY <2>1, <2>2, <3>1
      <4>2. stack'[m].dir = d
        BY <2>1
      <4> QED
        BY <2>2, <3>2, <4>1, <4>2 DEF Inside
    <3>3. CASE j # m
      <4>1. j \in 1 .. m - 1 /\ j - 1 \in 0 .. m - 1 /\ m \in 1 .. Len(stack)
        BY <2>1, <3>3
      <4>2. Inside(j, d)
        BY <4>1 DEF NestInv
      <4>3. stack[j].dir = Upto(d, j - 1) /\ d[j] \notin stack[j].pending
        BY <4>2 DEF Inside
      <4>4. Upto(path', j - 1) = Upto(d, j - 1) /\ path'[j] = d[j] /\ stack'[j] = stack[j]
        BY <2>1, <2>2, <3>1, <4>1
      <4> QED
        BY <4>3, <4>4 DEF Inside
    <3> QED
      BY <3>2, <3>3
  <2> QED
    BY <2>3, <2>4 DEF NestInv
<1>4. CASE EndOfDir
  <2>1. pc' \notin AtEntry
    BY <1>4 DEF EndOfDir, AtEntry
  <2>2. Shrinks
    BY <1>4, EndOfDirForm
  <2> QED
    BY <2>1, <2>2, ShrinksNest
<1>5. CASE Lstat \/ Open \/ Read \/ Unread \/ Probe \/ Sort \/ Fail
  <2>1. stack' = stack /\ path' = path
    BY <1>5 DEF Lstat, Open, Read, Unread, Probe, Sort, Fail, local
  <2>2. Shrinks
    BY <1>0, <2>1 DEF Shrinks
  <2>3. pc' \in AtEntry => pc \in AtEntry
    BY <1>5 DEF Lstat, Open, Read, Unread, Probe, Sort, Fail, AtEntry
  <2> QED
    BY <2>1, <2>2, <2>3, ShrinksNest
<1>6. CASE Descend
  <2> DEFINE m == Len(stack)
  <2>1. /\ pc' = "readdir" /\ pc \in AtEntry
    BY <1>6 DEF Descend, AtEntry
  <2>2. CASE stack' # stack
    <3>1. /\ m \in Nat /\ Len(stack') = m + 1 /\ \A k \in 1 .. m : stack'[k] = stack[k]
          /\ stack'[m + 1].dir = path
      BY <1>6, <2>2, DescendForm
    <3>2. ASSUME NEW k \in 1 .. Len(stack'), NEW j \in 1 .. k - 1 PROVE Inside(j, stack[k].dir)'
      <4>1. j \in 1 .. m /\ (k \in 1 .. m \/ k = m + 1)
        BY <3>1
      <4>2. CASE k \in 1 .. m
        <5>1. Inside(j, stack[k].dir)
          BY <4>2 DEF NestInv
        <5> QED
          BY <3>1, <4>1, <4>2, <5>1 DEF Inside
      <4>3. CASE k = m + 1
        <5>1. Inside(j, path)
          BY <2>1, <4>1 DEF NestInv
        <5> QED
          BY <3>1, <4>1, <4>3, <5>1 DEF Inside
      <4> QED
        BY <4>1, <4>2, <4>3
    <3> QED
      BY <2>1, <3>2 DEF NestInv, AtEntry
  <2>3. CASE stack' = stack
    <3>2. Shrinks
      BY <1>0, <2>3 DEF Shrinks
    <3> QED
      BY <2>1, <3>2, ShrinksNest DEF AtEntry
  <2> QED
    BY <2>2, <2>3
<1>7. CASE Others
  <2>1. Shrinks /\ Len(stack') = Len(stack)
    BY <1>7, OthersQuiet
  <2>2. pc' = pc /\ path' = path
    BY <1>7 DEF Others, Create, Unlink, Rename, Rewrite, Chmod, Change, local
  <2> QED
    BY <2>1, <2>2, ShrinksNest
<1> QED
  BY <1>1, <1>2, <1>3, <1>4, <1>5, <1>6, <1>7 DEF Next, Program, Done
-----------------------------------------------------------------------------
\* What is known of an entry does not change when what leads to it does not.
LEMMA SameKeeps ==
  ASSUME tree \in Tree, Rooted(tree), NEW p \in Paths, tree'.at[p] = tree.at[p], Exists(p) => Same(p)
  PROVE  /\ Exists(p)' <=> Exists(p)
         /\ Reachable(p)' <=> Reachable(p)
         /\ Exists(p) => /\ NodeAt(p)' = NodeAt(p) /\ Expected(p)' = Expected(p) /\ NotRead(p)' = NotRead(p)
                         /\ \A k \in 1 .. Len(p) : /\ NodeAt(Upto(p, k))' = NodeAt(Upto(p, k))
                                                   /\ CanList(Upto(p, k))' = CanList(Upto(p, k))
<1>1. Exists(p)' <=> Exists(p)
  BY DEF Exists
<1>2. ASSUME Exists(p), NEW k \in 1 .. Len(p)
      PROVE  /\ NodeAt(Upto(p, k))' = NodeAt(Upto(p, k)) /\ CanList(Upto(p, k))' = CanList(Upto(p, k))
  <2>1. /\ tree'.at[Upto(p, k)] = tree.at[Upto(p, k)]
        /\ tree'.node[tree.at[Upto(p, k)]] = tree.node[tree.at[Upto(p, k)]]
    BY <1>2 DEF Same
  <2>2. NodeAt(Upto(p, k))' = NodeAt(Upto(p, k)) /\ (Exists(Upto(p, k))' <=> Exists(Upto(p, k)))
    BY <2>1 DEF NodeAt, Exists
  <2> QED
    BY <2>2 DEF CanList, IsDir
<1>3. Upto(p, Len(p)) = p /\ Len(p) \in 1 .. Len(p) /\ Len(p) \in Nat
  <2>1. Len(p) \in Nat \ {0}
    BY PathFacts
  <2> QED
    BY <2>1, WayFacts
<1>4. Exists(p) => NodeAt(p)' = NodeAt(p)
  BY <1>2, <1>3
<1>5. Exists(p) => Expected(p)' = Expected(p) /\ NotRead(p)' = NotRead(p)
  <2>1. Exists(p) => Expected(p)' = Expected(p)
    BY <1>4 DEF Expected
  <2> QED
    BY <2>1 DEF NotRead
<1>6. Reachable(p)' <=> Reachable(p)
  <2>1. \A k \in 1 .. Len(p) - 1 : k \in 1 .. Len(p)
    BY <1>3
  <2>2. CASE Exists(p)
    <3>1. \A k \in 1 .. Len(p) - 1 : CanList(Upto(p, k))' = CanList(Upto(p, k))
      BY <1>2, <2>1, <2>2
    <3> QED
      BY <1>1, <3>1 DEF Reachable, Upto
  <2>3. CASE ~Exists(p)
    BY <1>1, <2>3 DEF Reachable
  <2> QED
    BY <2>2, <2>3
<1> QED
  BY <1>1, <1>2, <1>4, <1>5, <1>6

LEMMA AtWorkFacts ==
  ASSUME IngestInv, NestInv, pc \in AtEntry, NEW p \in Paths, OnWay(p)
  PROVE  /\ Len(path) = Len(stack) /\ Len(stack) \in 1 .. Len(p) /\ Len(p) \in Nat
         /\ path = Upto(p, Len(stack))
         /\ \A j \in 1 .. Len(stack) : Leads(j, p) /\ ~Waits(j, p)
<1> DEFINE m == Len(stack)
<1>1. path \in Paths /\ Len(path) = m /\ m \in Nat \ {0} /\ Len(p) \in Nat /\ p \in Seq(Names)
  BY PathFacts DEF IngestInv, LocalsOK
<1>2. m \in 1 .. Len(p) /\ path = Upto(p, m)
  BY <1>1 DEF OnWay
<1>3. ASSUME NEW j \in 1 .. m PROVE Leads(j, p) /\ ~Waits(j, p)
  <2>1. Inside(j, path)
    BY <1>3 DEF NestInv
  <2>2. Upto(path, j - 1) = Upto(p, j - 1) /\ path[j] = p[j]
    <3>1. m \in 0 .. Len(p) /\ j - 1 \in 0 .. m
      BY <1>2
    <3>2. \A i \in 0 .. m : Upto(Upto(p, m), i) = Upto(p, i)
      BY <1>1, <3>1, UptoFacts
    <3>3. \A i \in 1 .. m : Upto(p, m)[i] = p[i]
      BY <1>1, <3>1, UptoFacts
    <3> QED
      BY <1>2, <1>3, <3>1, <3>2, <3>3
  <2> QED
    BY <1>1, <1>2, <2>1, <2>2 DEF Inside, Leads, Waits
<1> QED
  BY <1>1, <1>2, <1>3

\* An entry at work, or observed just now, is handled by no open directory.
LEMMA AtItself ==
  ASSUME IngestInv, NestInv, pc \in AtEntry
  PROVE  /\ path \in Paths /\ OnWay(path) /\ \A j \in 1 .. Len(stack) : ~Waits(j, path)
         /\ pc # "descend" => AtWork(path)
<1>1. path \in Paths /\ Upto(path, Len(path)) = path /\ Len(path) \in Nat
  <2>1. path \in Paths
    BY DEF IngestInv, LocalsOK
  <2>2. Len(path) \in Nat \ {0}
    BY <2>1, PathFacts
  <2> QED
    BY <2>1, <2>2, WayFacts
<1>2. OnWay(path)
  BY <1>1 DEF OnWay
<1> QED
  BY <1>1, <1>2, AtWorkFacts DEF AtWork

\* A step that observes nothing.
LEMMA QuietStep ==
  ASSUME IngestInv, Rooted(tree), NEW p \in Paths,
         tree'.at[p] = tree.at[p], Exists(p) => Same(p), out' = out,
         errors' = 0 => errors = 0, pc \notin {"start", "fail"},
         Exists(p) /\ Handled(p) => Handled(p)',
         Exists(p) /\ Reachable(p) /\ errors' = 0 /\ Handled(p)' => Handled(p),
         SoFar(p), Exists(p) => ToCome(p)
  PROVE  SoFar(p)' /\ (Exists(p) => ToCome(p)')
<1>1. tree \in Tree
  BY DEF IngestInv
<1>2. /\ Exists(p)' <=> Exists(p)
      /\ Reachable(p)' <=> Reachable(p)
      /\ Exists(p) => Expected(p)' = Expected(p) /\ NotRead(p)' = NotRead(p)
  BY <1>1, SameKeeps
<1>3. Seen(p)' = Seen(p)
  BY DEF Seen
<1>4. ASSUME NEW k \in Seen(p) PROVE SeenAs(p, k)' /\ Handled(p)'
  <2>1. SeenAs(p, k) /\ Handled(p)
    BY <1>4 DEF SoFar
  <2>2. Exists(p) /\ Handled(p)'
    BY <2>1 DEF SeenAs
  <2>3. SeenAs(p, k)'
    BY <1>2, <1>3, <2>1, <2>2 DEF SeenAs
  <2> QED
    BY <2>2, <2>3
<1>5. SoFar(p)'
  BY <1>3, <1>4 DEF SoFar
<1>6. Exists(p) => ToCome(p)'
  BY <1>2, <1>3 DEF ToCome
<1> QED
  BY <1>5, <1>6

LEMMA StreamKept ==
  ASSUME IngestInv, Rooted(tree), NEW p \in Paths, Exists(p), tree'.at[p] = tree.at[p], Same(p),
         Shrinks, StreamInv(p),
         \A k \in 1 .. Len(stack') : Leads(k, p) => (p[k] \in stack'[k].maybe => p[k] \in stack[k].maybe)
  PROVE  StreamInv(p)'
<1> SUFFICES ASSUME NEW k \in 1 .. Len(stack'), Leads(k, p)'
             PROVE  p[k] \notin stack'[k].maybe /\ \A j \in 1 .. k - 1 : CanList(Upto(p, j))'
  BY DEF StreamInv
<1>1. Len(stack) \in Nat /\ tree \in Tree /\ Len(p) \in Nat
  BY PathFacts DEF IngestInv, StackOK
<1>2. k \in 1 .. Len(stack) /\ Leads(k, p) /\ k <= Len(p)
  BY <1>1 DEF Leads, Shrinks
<1>3. p[k] \notin stack[k].maybe /\ \A j \in 1 .. k - 1 : CanList(Upto(p, j))
  BY <1>2 DEF StreamInv
<1>4. \A j \in 1 .. k - 1 : j \in 1 .. Len(p)
  BY <1>1, <1>2
<1>5. \A j \in 1 .. Len(p) : CanList(Upto(p, j))' = CanList(Upto(p, j))
  BY <1>1, SameKeeps
<1> QED
  BY <1>2, <1>3, <1>4, <1>5
-----------------------------------------------------------------------------
\* A step of ingest itself leaves the tree as it is.
Alone == tree' = tree /\ touched' = touched

LEMMA AloneKeeps ==
  ASSUME Alone, NEW p \in Paths
  PROVE  /\ tree'.at[p] = tree.at[p] /\ Same(p)
         /\ Exists(p)' <=> Exists(p)
         /\ Reachable(p)' <=> Reachable(p)
         /\ NodeAt(p)' = NodeAt(p) /\ Expected(p)' = Expected(p) /\ NotRead(p)' = NotRead(p)
<1>1. tree' = tree
  BY DEF Alone
<1>2. tree'.at[p] = tree.at[p] /\ Same(p)
  BY <1>1 DEF Same
<1>3. /\ Exists(p)' <=> Exists(p)
      /\ NodeAt(p)' = NodeAt(p)
  BY <1>1 DEF Exists, NodeAt
<1>4. Expected(p)' = Expected(p)
  BY <1>3 DEF Expected
<1>5. NotRead(p)' = NotRead(p)
  BY <1>4 DEF NotRead
<1>6. Reachable(p)' <=> Reachable(p)
  BY <1>1 DEF Reachable, CanList, IsDir, Exists, NodeAt
<1> QED
  BY <1>2, <1>3, <1>4, <1>5, <1>6

LEMMA OpenRootStable ==
  ASSUME IngestInv, StableInv, OpenRoot, Alone, NEW p \in Paths \ touched
  PROVE  StableOK(p)'
<1>1. /\ Len(stack') = 1 /\ stack'[1] = Stream(Root) /\ pc' = "readdir" /\ out' = out /\ out = <<>>
  BY DEF OpenRoot, StableInv, PhaseInv
<1>2. /\ stack'[1].dir = Root /\ stack'[1].pending = Children(Root) /\ stack'[1].maybe = {}
  <2> HIDE DEF Children
  <2> QED
    BY <1>1 DEF Stream
<1>3. SoFar(p)'
  BY <1>1 DEF SoFar, Seen
<1>4. Exists(p)' <=> Exists(p)
  BY AloneKeeps
<1>5. StreamInv(p)'
  <2> SUFFICES ASSUME NEW k \in 1 .. Len(stack'), Leads(k, p)'
               PROVE  p[k] \notin stack'[k].maybe /\ \A j \in 1 .. k - 1 : CanList(Upto(p, j))'
    BY DEF StreamInv
  <2>1. k = 1
    BY <1>1
  <2> QED
    BY <1>2, <2>1
<1>6. WorkInv(p)'
  BY <1>1 DEF WorkInv, Looked, AtEntry
<1>7. ASSUME Exists(p) PROVE ~Handled(p)'
  <2>1. Len(p) \in Nat \ {0} /\ 1 \in 1 .. Len(p)
    BY PathFacts
  <2>2. Upto(p, 1) \in Paths /\ Exists(Upto(p, 1))
    BY <1>7, <2>1, RootedFacts DEF StableInv, IngestInv
  <2>3. Upto(p, 1) = Append(Upto(p, 0), p[1]) /\ Upto(p, 0) = Root /\ p[1] \in Names
    <3> DEFINE i == 1
    <3>1. Upto(p, i) = Append(Upto(p, i - 1), p[i]) /\ p[i] \in Names /\ Upto(p, 0) = Root
      BY <2>1, WayFacts
    <3> QED
      BY <3>1
  <2>4. p[1] \in Children(Root)
    BY <2>2, <2>3 DEF Children
  <2>5. Waits(1, p)'
    BY <1>1, <1>2, <2>1, <2>3, <2>4 DEF Waits, Leads
  <2> QED
    BY <1>1, <2>5 DEF Handled
<1>8. Exists(p) => ToCome(p)'
  BY <1>7 DEF ToCome
<1> QED
  BY <1>1, <1>3, <1>4, <1>5, <1>6, <1>8 DEF StableOK, Looked, AtEntry

LEMMA NextEntryStable ==
  ASSUME IngestInv, StableInv, NextEntry, Alone, NEW p \in Paths \ touched
  PROVE  StableOK(p)'
<1> DEFINE m == Len(stack)
           d == stack[m].dir
<1>0. StableOK(p) /\ Rooted(tree) /\ NestInv
  BY DEF StableInv
<1>1. /\ m \in Nat \ {0} /\ Len(stack') = m /\ Shrinks
      /\ d \in Seq(Names) /\ Len(d) = m - 1
      /\ \A k \in 1 .. m : stack'[k].dir = stack[k].dir /\ stack'[k].maybe \subseteq stack[k].maybe
      /\ \A k \in 1 .. m - 1 : stack'[k] = stack[k]
  BY NextEntryForm
<1>2. PICK n \in (stack[m].pending \cup stack[m].maybe) \cap Names :
        path' = Append(d, n) /\ stack'[m].pending = stack[m].pending \ {n}
  BY NextEntryForm
<1>3. /\ pc = "readdir" /\ pc' = "lstat" /\ out' = out /\ errors' = errors
  BY DEF NextEntry
<1>4. /\ tree'.at[p] = tree.at[p] /\ Same(p) /\ (Exists(p)' <=> Exists(p))
  BY AloneKeeps
<1>5. Exists(p) => StreamInv(p)'
  <2> SUFFICES ASSUME Exists(p) PROVE StreamInv(p)'
    OBVIOUS
  <2>1. StreamInv(p)
    BY <1>0 DEF StableOK
  <2> QED
    BY <1>0, <1>1, <1>4, <2>1, StreamKept
<1>6. WorkInv(p)'
  BY <1>3 DEF WorkInv, Looked
<1>7. Len(p) \in Nat
  BY PathFacts
<1> HIDE DEF d
\* The path comes to lead to p just when the name it goes on with is given.
<1>8. AtWork(p)' <=> m <= Len(p) /\ d = Upto(p, m - 1) /\ p[m] = n
  <2>1. Len(path') = m
    BY <1>1, <1>2, UptoAppend
  <2>2. AtWork(p)' <=> m <= Len(p) /\ path' = Upto(p, m)
    BY <1>3, <2>1 DEF AtWork, OnWay, AtEntry
  <2>3. m <= Len(p) => Upto(p, m) = Append(Upto(p, m - 1), p[m])
                       /\ Len(Upto(p, m - 1)) = m - 1 /\ Upto(p, m - 1) \in Seq(Names) /\ p[m] \in Names
    <3>1. m <= Len(p) => m \in 1 .. Len(p)
      BY <1>1, <1>7
    <3> QED
      BY <3>1, WayFacts
  <2>4. ASSUME NEW s \in Seq(Names), NEW t \in Seq(Names), NEW x \in Names, NEW y \in Names,
               Append(s, x) = Append(t, y)
        PROVE  s = t /\ x = y
    <3>1. Front(Append(s, x)) = s /\ Last(Append(s, x)) = x
      BY DEF Front, Last
    <3>2. Front(Append(t, y)) = t /\ Last(Append(t, y)) = y
      BY DEF Front, Last
    <3> QED
      BY <2>4, <3>1, <3>2
  <2>5. ASSUME m <= Len(p) PROVE path' = Upto(p, m) <=> d = Upto(p, m - 1) /\ p[m] = n
    BY <1>1, <1>2, <2>3, <2>4, <2>5
  <2> QED
    BY <2>2, <2>5
<1>9. \A j \in 1 .. m : Waits(j, p)' <=> Waits(j, p) /\ ~(j = m /\ p[m] = n)
  <2> SUFFICES ASSUME NEW j \in 1 .. m PROVE Waits(j, p)' <=> Waits(j, p) /\ ~(j = m /\ p[m] = n)
    OBVIOUS
  <2>1. CASE j = m
    BY <1>1, <1>2, <2>1 DEF Waits, Leads
  <2>2. CASE j # m
    <3>1. j \in 1 .. m - 1
      BY <1>1, <2>2
    <3> QED
      BY <1>1, <2>2, <3>1 DEF Waits, Leads
  <2> QED
    BY <2>1, <2>2
<1>10. ASSUME Exists(p), m <= Len(p), d = Upto(p, m - 1), p[m] = n PROVE Waits(m, p)
  <2>1. Leads(m, p)
    BY <1>1, <1>10 DEF Leads, d
  <2>2. p[m] \notin stack[m].maybe
    BY <1>0, <1>1, <1>10, <2>1 DEF StableOK, StreamInv
  <2> QED
    BY <1>2, <1>10, <2>1, <2>2 DEF Waits
<1>11. ~AtWork(p)
  BY <1>3 DEF AtWork, AtEntry
<1>12. Exists(p) /\ Handled(p) => Handled(p)'
  <2>1. m \in 1 .. m
    BY <1>1
  <2> QED
    BY <1>1, <1>8, <1>9, <1>10, <2>1 DEF Handled
<1>13. Handled(p)' => Handled(p)
  <2> SUFFICES ASSUME Handled(p)', NEW j \in 1 .. m, Waits(j, p) PROVE FALSE
    BY <1>11 DEF Handled
  <2>1. j = m /\ p[m] = n
    BY <1>1, <1>9 DEF Handled
  <2>2. m <= Len(p) /\ d = Upto(p, m - 1)
    BY <2>1 DEF Waits, Leads, d
  <2> QED
    BY <1>8, <2>1, <2>2 DEF Handled
<1>14. SoFar(p)' /\ (Exists(p) => ToCome(p)')
  BY <1>0, <1>3, <1>4, <1>12, <1>13, QuietStep DEF StableOK
<1> QED
  BY <1>3, <1>4, <1>5, <1>6, <1>14 DEF StableOK, Looked

LEMMA EndOfDirStable ==
  ASSUME IngestInv, StableInv, EndOfDir, Alone, NEW p \in Paths \ touched
  PROVE  StableOK(p)'
<1> DEFINE m == Len(stack)
<1>0. StableOK(p) /\ Rooted(tree) /\ Len(p) \in Nat /\ errors \in Nat
  BY PathFacts DEF StableInv, IngestInv, LocalsOK
<1>1. /\ m \in Nat \ {0} /\ Len(stack') = m - 1 /\ Shrinks
      /\ \A k \in 1 .. m - 1 : stack'[k] = stack[k]
      /\ errors' = 0 => stack[m].pending = {}
  BY EndOfDirForm
<1>2. /\ pc = "readdir" /\ pc' \in {"sort", "readdir"} /\ out' = out
      /\ errors' = 0 => errors = 0
  BY <1>0 DEF EndOfDir, CallFails
<1>3. /\ tree'.at[p] = tree.at[p] /\ Same(p) /\ (Exists(p)' <=> Exists(p))
  BY AloneKeeps
<1>4. Exists(p) => StreamInv(p)'
  <2> SUFFICES ASSUME Exists(p) PROVE StreamInv(p)'
    OBVIOUS
  <2>1. StreamInv(p)
    BY <1>0 DEF StableOK
  <2>2. \A k \in 1 .. Len(stack') : stack'[k].maybe = stack[k].maybe
    BY <1>1
  <2> QED
    BY <1>0, <1>1, <1>3, <2>1, <2>2, StreamKept
<1>5. WorkInv(p)'
  BY <1>2 DEF WorkInv, Looked, AtEntry
<1>6. ~AtWork(p) /\ ~AtWork(p)'
  BY <1>2 DEF AtWork, AtEntry
<1>7. \A j \in 1 .. m - 1 : Waits(j, p)' <=> Waits(j, p)
  BY <1>1 DEF Waits, Leads
<1>8. Handled(p) => Handled(p)'
  BY <1>1, <1>6, <1>7 DEF Handled
<1>9. errors' = 0 /\ Handled(p)' => Handled(p)
  <2> SUFFICES ASSUME errors' = 0, Handled(p)', NEW j \in 1 .. m, Waits(j, p) PROVE FALSE
    BY <1>6 DEF Handled
  <2>1. j # m
    BY <1>1 DEF Waits
  <2>2. j \in 1 .. m - 1
    BY <1>1, <2>1
  <2> QED
    BY <1>1, <1>7, <2>2 DEF Handled
<1>10. SoFar(p)' /\ (Exists(p) => ToCome(p)')
  BY <1>0, <1>2, <1>3, <1>8, <1>9, QuietStep DEF StableOK
<1> QED
  BY <1>2, <1>3, <1>4, <1>5, <1>10 DEF StableOK, Looked, AtEntry

\* A step at one entry that moves neither the open directories nor the path.
LEMMA StayStable ==
  ASSUME IngestInv, StableInv, Alone, NEW p \in Paths \ touched,
         stack' = stack, path' = path, out' = out, pc \in AtEntry, pc' \in Looked,
         pc # "descend", pc' # "descend", errors' = 0 => errors = 0,
         path = p => Exists(p), Exists(p) => WorkInv(p)'
  PROVE  StableOK(p)'
<1>0. StableOK(p) /\ Rooted(tree) /\ Len(stack) \in Nat
  BY DEF StableInv, IngestInv, StackOK
<1>1. /\ tree'.at[p] = tree.at[p] /\ Same(p) /\ (Exists(p)' <=> Exists(p))
  BY AloneKeeps
<1>2. Handled(p)' <=> Handled(p)
  BY DEF Handled, AtWork, OnWay, Waits, Leads, Looked
<1>3. pc \notin {"start", "fail"}
  BY DEF AtEntry
<1>4. SoFar(p)' /\ (Exists(p) => ToCome(p)')
  BY <1>0, <1>1, <1>2, <1>3, QuietStep DEF StableOK
<1>5. Exists(p) => StreamInv(p)'
  <2> SUFFICES ASSUME Exists(p) PROVE StreamInv(p)'
    OBVIOUS
  <2>1. StreamInv(p) /\ Shrinks
    BY <1>0 DEF StableOK, Shrinks
  <2> QED
    BY <1>0, <1>1, <2>1, StreamKept
<1> QED
  BY <1>1, <1>4, <1>5 DEF StableOK

LEMMA LstatStable ==
  ASSUME IngestInv, StableInv, Lstat, Alone, Exists(path), NEW p \in Paths \ touched
  PROVE  StableOK(p)'
<1>1. /\ pc = "lstat" /\ kind' = NodeAt(path).kind
      /\ size' = IF kind' = "file" THEN Len(NodeAt(path).data) ELSE 0
      /\ out' = out /\ UNCHANGED <<stack, path, fd, got, errors>>
  BY DEF Lstat
<1>2. pc' \in {"open", "probe", "unread"} /\ (kind' = "file" => pc' = "open")
  <2>1. path \in Paths /\ tree \in Tree
    BY <1>1 DEF IngestInv, LocalsOK, AtEntry
  <2>2. kind' \in Kind
    BY <1>1, <2>1, NodeFacts, ContentFacts
  <2> QED
    BY <2>2 DEF Lstat, Kind
<1>3. \A q : NodeAt(q)' = NodeAt(q)
  BY DEF Alone, NodeAt
<1>4. WorkInv(p)'
  BY <1>1, <1>2, <1>3 DEF WorkInv
<1> QED
  BY <1>1, <1>2, <1>4, StayStable DEF AtEntry, Looked

LEMMA OpenStable ==
  ASSUME IngestInv, StableInv, Open, Alone, NEW p \in Paths \ touched
  PROVE  StableOK(p)'
<1>1. /\ pc = "open" /\ pc' \in {"read", "unread"} /\ got' = <<>>
      /\ out' = out /\ UNCHANGED <<stack, path, kind, size>>
      /\ errors \in Nat /\ (errors' = errors \/ errors' = errors + 1)
  BY DEF Open, CallFails, IngestInv, LocalsOK
<1>2. \A q : NodeAt(q)' = NodeAt(q)
  BY DEF Alone, NodeAt
<1>3. StableOK(p) /\ kind = "file"
  BY <1>1 DEF StableInv, PhaseInv
<1>4. ASSUME Exists(p) PROVE WorkInv(p)'
  <2>1. WorkInv(p) /\ pc \in Looked
    BY <1>1, <1>3, <1>4 DEF StableOK, Looked, AtEntry
  <2>2. (pc \in Looked /\ OnWay(p) => kind = NodeAt(path).kind)'
    BY <1>1, <1>2, <2>1 DEF WorkInv, OnWay
  <2>3. (pc \in Looked /\ path = p => size = IF kind = "file" THEN Len(NodeAt(p).data) ELSE 0)'
    BY <1>1, <1>2, <2>1 DEF WorkInv
  <2>4. path = p => NodeAt(p).kind = "file"
    <3>1. path = p => OnWay(p)
      <4>1. Upto(p, Len(p)) = p /\ Len(p) \in Nat
        <5>1. Len(p) \in Nat \ {0}
          BY PathFacts
        <5> QED
          BY <5>1, WayFacts
      <4> QED
        BY <4>1 DEF OnWay
    <3> QED
      BY <1>3, <2>1, <3>1 DEF WorkInv
  <2>5. (pc = "read" /\ path = p => /\ fd = tree.at[p] /\ NodeAt(p).access
                                    /\ Len(got) <= Len(NodeAt(p).data)
                                    /\ \A k \in 1 .. Len(got) : got[k] = NodeAt(p).data[k])'
    <3>1. NodeAt(p).data \in Seq(Chunks) /\ Len(NodeAt(p).data) \in Nat
      BY <1>4, NodeFacts, ContentFacts DEF IngestInv
    <3>2. Len(got') = 0
      BY <1>1
    <3>3. pc' = "read" /\ path = p => fd' = tree.at[p] /\ NodeAt(p).access
      BY DEF Open, CanRead
    <3> QED
      BY <1>1, <1>2, <3>1, <3>2, <3>3 DEF Alone
  <2>6. (pc = "unread" /\ path = p /\ kind = "file" => errors > 0 \/ ~NodeAt(p).access)'
    <3>1. pc' = "unread" /\ path = p => errors' > 0 \/ ~NodeAt(p).access
      BY <1>1, <1>4, <2>4 DEF Open, CanRead, CallFails
    <3> QED
      BY <1>1, <1>2, <3>1
  <2> QED
    BY <2>2, <2>3, <2>5, <2>6 DEF WorkInv
<1>5. path = p => Exists(p)
  BY <1>1, <1>3 DEF StableOK, Looked, AtEntry
<1> QED
  BY <1>1, <1>4, <1>5, StayStable DEF AtEntry, Looked

\* The entry at work is reached through directories that were listed.
LEMMA AtWorkReachable ==
  ASSUME IngestInv, StableInv, pc \in AtEntry, path \notin touched, Exists(path)
  PROVE  Reachable(path)
<1>1. path \in Paths /\ OnWay(path)
  BY AtItself DEF StableInv
<1>2. /\ Len(stack) = Len(path) /\ Len(path) \in Nat /\ Len(stack) \in 1 .. Len(path)
      /\ \A j \in 1 .. Len(stack) : Leads(j, path)
  BY <1>1, AtWorkFacts DEF StableInv
<1>3. StreamInv(path)
  BY <1>1 DEF StableInv, StableOK
<1>4. \A j \in 1 .. Len(path) - 1 : CanList(Upto(path, j))
  BY <1>2, <1>3 DEF StreamInv
<1> QED
  BY <1>4 DEF Reachable, Upto

LEMMA PushStable ==
  ASSUME IngestInv, StableInv, Alone, NEW p \in Paths \ touched,
         pc \in Looked, pc # "descend", pc' \in {"readdir", "descend"},
         UNCHANGED <<stack, path, kind, size>>, pc' = "readdir" => kind # "dir",
         NEW o, o.path = path, out' = Append(out, o), errors' = 0 => errors = 0,
         path = p => o \in {Expected(p), NotRead(p)} /\ (errors' = 0 => o = Expected(p))
  PROVE  StableOK(p)'
<1>0. StableOK(p) /\ Rooted(tree) /\ NestInv /\ Len(stack) \in Nat /\ tree \in Tree
  BY DEF StableInv, IngestInv, StackOK
<1>1. /\ tree'.at[p] = tree.at[p] /\ Same(p) /\ (Exists(p)' <=> Exists(p))
      /\ (Reachable(p)' <=> Reachable(p))
      /\ NodeAt(p)' = NodeAt(p) /\ Expected(p)' = Expected(p) /\ NotRead(p)' = NotRead(p)
  BY AloneKeeps
<1>2. /\ Len(out) \in Nat /\ DOMAIN out = 1 .. Len(out) /\ DOMAIN out' = 1 .. Len(out) + 1
      /\ out'[Len(out) + 1] = o /\ \A k \in 1 .. Len(out) : out'[k] = out[k]
  <2>1. out \in Seq(Observed)
    BY DEF IngestInv, LocalsOK
  <2> QED
    BY <2>1
<1>3. pc \in AtEntry /\ pc \notin {"start", "fail"}
  BY DEF Looked, AtEntry
<1>4. Exists(p) => StreamInv(p)'
  <2> SUFFICES ASSUME Exists(p) PROVE StreamInv(p)'
    OBVIOUS
  <2>1. StreamInv(p) /\ Shrinks
    BY <1>0 DEF StableOK, Shrinks
  <2> QED
    BY <1>0, <1>1, <2>1, StreamKept
<1>5. Exists(p) => WorkInv(p)'
  <2>1. Exists(p) => WorkInv(p)
    BY <1>0 DEF StableOK
  <2>2. \A q : NodeAt(q)' = NodeAt(q)
    BY DEF Alone, NodeAt
  <2> QED
    BY <2>1, <2>2 DEF WorkInv, OnWay, Looked, AtEntry
<1>6. \A j : Waits(j, p)' <=> Waits(j, p)
  BY DEF Waits, Leads
<1>7. CASE path = p
  <2>1. /\ AtWork(p) /\ \A j \in 1 .. Len(stack) : ~Waits(j, p)
    BY <1>0, <1>3, <1>7, AtItself
  <2>2. Exists(p) /\ Reachable(p)
    BY <1>0, <1>3, <1>7, AtWorkReachable DEF StableOK
  <2>3. Seen(p) = {}
    BY <1>0, <2>1 DEF StableOK, SoFar, Handled
  <2>4. Seen(p)' = {Len(out) + 1}
    <3>1. \A k \in 1 .. Len(out) : out[k].path # p
      BY <1>2, <2>3 DEF Seen
    <3>2. \A k \in 1 .. Len(out) + 1 : k \in 1 .. Len(out) \/ k = Len(out) + 1
      BY <1>2
    <3>3. Len(out) + 1 \in 1 .. Len(out) + 1
      BY <1>2
    <3>4. Seen(p)' = {k \in 1 .. Len(out) + 1 : out'[k].path = p}
      BY <1>2 DEF Seen
    <3> QED
      BY <1>2, <1>7, <3>1, <3>2, <3>3, <3>4
  <2>n. PICK i : i = Len(out) + 1
    OBVIOUS
  <2>5. SeenAs(p, i)'
    BY <1>1, <1>2, <1>7, <2>2, <2>4, <2>n DEF SeenAs
  <2>6. Handled(p)'
    <3>1. ~AtWork(p)'
      BY <1>7 DEF AtWork, AtEntry
    <3> QED
      BY <1>6, <2>1, <3>1 DEF Handled
  <2>7. SoFar(p)' /\ ToCome(p)'
    BY <2>4, <2>5, <2>6, <2>n DEF SoFar, ToCome
  <2> QED
    BY <1>1, <1>4, <1>5, <2>2, <2>7 DEF StableOK
<1>8. CASE path # p
  <2>1. Seen(p)' = Seen(p) /\ \A k \in Seen(p) : out'[k] = out[k]
    <3>1. \A k \in 1 .. Len(out) + 1 : k \in 1 .. Len(out) \/ k = Len(out) + 1
      BY <1>2
    <3>2. \A k \in 1 .. Len(out) : k \in 1 .. Len(out) + 1
      BY <1>2
    <3>3. Seen(p)' = {k \in 1 .. Len(out) + 1 : out'[k].path = p}
          /\ Seen(p) = {k \in 1 .. Len(out) : out[k].path = p}
      BY <1>2 DEF Seen
    <3> QED
      BY <1>2, <1>8, <3>1, <3>2, <3>3
  <2>2. Exists(p) => (AtWork(p)' <=> AtWork(p))
    <3>1. CASE pc' = "descend"
      BY <1>3, <1>8, <3>1 DEF AtWork, OnWay, AtEntry
    <3>2. CASE pc' = "readdir"
      <4>1. ~AtWork(p)'
        BY <3>2 DEF AtWork, AtEntry
      <4>2. ASSUME Exists(p), OnWay(p) PROVE FALSE
        <5> DEFINE m == Len(stack)
        <5>1. m \in 1 .. Len(p) /\ Len(p) \in Nat /\ path = Upto(p, m)
          BY <1>0, <1>3, <4>2, AtWorkFacts
        <5>2. Upto(p, Len(p)) = p
          BY <5>1, WayFacts
        <5>3. m < Len(p)
          BY <1>8, <5>1, <5>2
        <5>4. NodeAt(path).kind = "dir"
          BY <1>0, <4>2, <5>1, <5>3, RootedFacts
        <5> QED
          BY <1>0, <3>2, <4>2, <5>4 DEF StableOK, WorkInv
      <4> QED
        BY <4>1, <4>2 DEF AtWork
    <3> QED
      BY <3>1, <3>2
  <2>3. Exists(p) => (Handled(p)' <=> Handled(p))
    BY <1>6, <2>2 DEF Handled
  <2>4. SoFar(p)'
    <3> SUFFICES ASSUME NEW k \in Seen(p) PROVE SeenAs(p, k)' /\ Handled(p)'
      BY <2>1 DEF SoFar
    <3>1. SeenAs(p, k) /\ Handled(p)
      BY <1>0 DEF StableOK, SoFar
    <3> QED
      BY <1>1, <2>1, <2>3, <3>1 DEF SeenAs
  <2>5. Exists(p) => ToCome(p)'
    BY <1>0, <1>1, <1>3, <2>1, <2>3 DEF StableOK, ToCome
  <2> QED
    BY <1>1, <1>4, <1>5, <1>8, <2>4, <2>5 DEF StableOK
<1> QED
  BY <1>7, <1>8

\* What was found out about an untouched entry at work.
LEMMA FoundFacts ==
  ASSUME IngestInv, StableInv, pc \in Looked, path \notin touched
  PROVE  /\ path \in Paths /\ Exists(path) /\ NodeAt(path) \in Node /\ tree \in Tree
         /\ kind = NodeAt(path).kind /\ kind \in Kind
         /\ size = IF kind = "file" THEN Len(NodeAt(path).data) ELSE 0
         /\ WorkInv(path)
<1>1. pc \in AtEntry
  BY DEF Looked
<1>2. path \in Paths /\ OnWay(path) /\ tree \in Tree
  BY <1>1, AtItself DEF StableInv, IngestInv
<1>3. Exists(path) /\ WorkInv(path)
  BY <1>2 DEF StableInv, StableOK
<1>4. NodeAt(path) \in Node /\ kind \in Kind
  BY <1>2, <1>3, NodeFacts DEF IngestInv, LocalsOK
<1> QED
  BY <1>2, <1>3, <1>4 DEF WorkInv

LEMMA ReadStable ==
  ASSUME IngestInv, StableInv, Read, Alone, NEW p \in Paths \ touched
  PROVE  StableOK(p)'
<1>1. /\ pc = "read" /\ pc \in Looked /\ pc \in AtEntry /\ kind = "file"
      /\ UNCHANGED <<stack, path, kind, size>> /\ errors \in Nat
      /\ got \in Seq(Chunks) /\ Len(got) \in Nat
  BY DEF Read, StableInv, PhaseInv, Looked, AtEntry, IngestInv, LocalsOK
<1>2. /\ \A q : NodeAt(q)' = NodeAt(q)
      /\ tree' = tree
  BY DEF Alone, NodeAt
<1>3. path = p => /\ Exists(p) /\ kind = NodeAt(p).kind /\ size = Len(NodeAt(p).data)
                  /\ fd = tree.at[p] /\ tree.node[fd] = NodeAt(p) /\ NodeAt(p).access
                  /\ NodeAt(p).data \in Seq(Chunks) /\ Len(NodeAt(p).data) \in Nat
                  /\ Len(got) <= Len(NodeAt(p).data)
                  /\ \A k \in 1 .. Len(got) : got[k] = NodeAt(p).data[k]
  <2> SUFFICES ASSUME path = p
               PROVE  /\ Exists(p) /\ kind = NodeAt(p).kind /\ size = Len(NodeAt(p).data)
                      /\ fd = tree.at[p] /\ tree.node[fd] = NodeAt(p) /\ NodeAt(p).access
                      /\ NodeAt(p).data \in Seq(Chunks) /\ Len(NodeAt(p).data) \in Nat
                      /\ Len(got) <= Len(NodeAt(p).data)
                      /\ \A k \in 1 .. Len(got) : got[k] = NodeAt(p).data[k]
    OBVIOUS
  <2>1. /\ Exists(p) /\ NodeAt(p) \in Node /\ kind = NodeAt(p).kind
        /\ size = Len(NodeAt(p).data) /\ WorkInv(p)
    BY <1>1, FoundFacts
  <2>2. NodeAt(p).data \in Seq(Chunks) /\ Len(NodeAt(p).data) \in Nat
    BY <2>1, ContentFacts
  <2> QED
    BY <1>1, <2>1, <2>2 DEF WorkInv, NodeAt
<1>4. StableOK(p)
  BY DEF StableInv
<1>5. path = p => Exists(p)
  BY <1>3
<1>6. CASE /\ Len(got) < Len(tree.node[fd].data)
           /\ got' = Append(got, tree.node[fd].data[Len(got) + 1])
           /\ pc' = pc /\ UNCHANGED <<fd, out, errors>>
  <2>1. path = p => /\ Len(got') <= Len(NodeAt(p).data)
                    /\ \A k \in 1 .. Len(got') : got'[k] = NodeAt(p).data[k]
    <3> SUFFICES ASSUME path = p
                 PROVE  /\ Len(got') <= Len(NodeAt(p).data)
                        /\ \A k \in 1 .. Len(got') : got'[k] = NodeAt(p).data[k]
      OBVIOUS
    <3> DEFINE c == NodeAt(p).data
    <3>1. /\ c \in Seq(Chunks) /\ Len(c) \in Nat /\ Len(got) < Len(c)
          /\ got' = Append(got, c[Len(got) + 1])
          /\ \A k \in 1 .. Len(got) : got[k] = c[k]
      BY <1>3, <1>6
    <3> HIDE DEF c
    <3>2. c[Len(got) + 1] \in Chunks
      BY <1>1, <3>1
    <3>3. Len(got') = Len(got) + 1 /\ got'[Len(got) + 1] = c[Len(got) + 1]
          /\ \A k \in 1 .. Len(got) : got'[k] = got[k]
      BY <1>1, <3>1, <3>2
    <3>4. \A k \in 1 .. Len(got) + 1 : k \in 1 .. Len(got) \/ k = Len(got) + 1
      BY <1>1
    <3> QED
      BY <1>1, <3>1, <3>3, <3>4 DEF c
  <2>2. Exists(p) => WorkInv(p)'
    <3>1. Exists(p) => WorkInv(p)
      BY <1>4 DEF StableOK
    <3>2. UNCHANGED <<pc, kind, path, size, fd, errors>>
      BY <1>1, <1>6
    <3> QED
      BY <1>1, <1>2, <1>3, <2>1, <3>1, <3>2 DEF WorkInv, OnWay
  <2>3. UNCHANGED <<pc, out, errors>>
    BY <1>6
  <2> QED
    BY <1>1, <1>5, <2>2, <2>3, StayStable
<1>7. CASE /\ Len(got) >= Len(tree.node[fd].data)
           /\ Push(TRUE, got)
           /\ pc' = "readdir" /\ fd' = Nowhere /\ UNCHANGED <<got, errors>>
  <2> DEFINE o == [path |-> path, object_type |-> kind, size |-> size,
                   readable |-> TRUE, content |-> got]
  <2>1. out' = Append(out, o) /\ o.path = path
    BY <1>7 DEF Push
  <2>2. path = p => o = Expected(p)
    <3> SUFFICES ASSUME path = p PROVE o = Expected(p)
      OBVIOUS
    <3>1. got = NodeAt(p).data
      BY <1>1, <1>3, <1>7
    <3> QED
      BY <1>1, <1>3, <3>1 DEF Expected
  <2>3. pc' = "readdir" /\ errors' = errors
    BY <1>7
  <2> HIDE DEF o
  <2>4. UNCHANGED <<stack, path, kind, size, errors>>
    BY <1>1, <2>3
  <2> QED
    BY <1>1, <2>1, <2>2, <2>3, <2>4, PushStable
<1>8. CASE /\ CallFails
           /\ pc' = "unread" /\ fd' = Nowhere /\ UNCHANGED <<got, out>>
  <2>1. Exists(p) => WorkInv(p)'
    <3>1. Exists(p) => WorkInv(p)
      BY <1>4 DEF StableOK
    <3>2. errors' > 0 /\ pc' = "unread"
      BY <1>1, <1>8 DEF CallFails
    <3> QED
      BY <1>1, <1>2, <3>1, <3>2 DEF WorkInv, OnWay
  <2>2. out' = out /\ (errors' = 0 => errors = 0) /\ pc' = "unread"
    BY <1>1, <1>8 DEF CallFails
  <2> QED
    BY <1>1, <1>5, <2>1, <2>2, StayStable DEF Looked, AtEntry
<1> QED
  BY <1>6, <1>7, <1>8 DEF Read

\* An entry that was not read, field by field.
LEMMA NotReadForm ==
  ASSUME NEW p, NEW b, NEW c, NEW d, NEW e,
         Expected(p) = [path |-> p, object_type |-> b, size |-> c, readable |-> d, content |-> e]
  PROVE  NotRead(p) = [path |-> p, object_type |-> b, size |-> c, readable |-> FALSE, content |-> NoContent]
<1>1. PICK x : x = Expected(p)
  OBVIOUS
<1> DEFINE fields == {"path", "object_type", "size", "readable", "content"}
<1>2. DOMAIN x = fields /\ x = [f \in fields |-> x[f]]
  BY <1>1
<1>3. ASSUME NEW n, NEW m
      PROVE  [x EXCEPT !.readable = n, !.content = m]
               = [path |-> p, object_type |-> b, size |-> c, readable |-> n, content |-> m]
  <2> DEFINE y == [x EXCEPT !.readable = n, !.content = m]
  <2>1. DOMAIN y = fields /\ y = [f \in fields |-> y[f]]
    BY <1>2
  <2>2. y.path = p /\ y.object_type = b /\ y.size = c /\ y.readable = n /\ y.content = m
    BY <1>1, <1>2
  <2> HIDE DEF y
  <2>3. y = [path |-> p, object_type |-> b, size |-> c, readable |-> n, content |-> m]
    BY <2>1, <2>2
  <2> QED
    BY <2>3 DEF y
<1>4. [x EXCEPT !.readable = FALSE, !.content = NoContent]
        = [path |-> p, object_type |-> b, size |-> c, readable |-> FALSE, content |-> NoContent]
  BY <1>3, Zenon
<1>5. NotRead(p) = [x EXCEPT !.readable = FALSE, !.content = NoContent]
  BY <1>1, Zenon DEF NotRead
<1> QED
  BY <1>4, <1>5, Zenon

LEMMA UnreadStable ==
  ASSUME IngestInv, StableInv, Unread, Alone, NEW p \in Paths \ touched
  PROVE  StableOK(p)'
<1>1. /\ pc = "unread" /\ pc \in Looked /\ kind # "dir" /\ pc' = "readdir"
      /\ UNCHANGED <<stack, path, kind, size, errors>> /\ errors \in Nat
  BY DEF Unread, StableInv, PhaseInv, Looked, AtEntry, local, IngestInv, LocalsOK
<1> DEFINE o == [path |-> path, object_type |-> kind, size |-> size,
                 readable |-> FALSE, content |-> NoContent]
<1>2. out' = Append(out, o) /\ o.path = path
  BY DEF Unread, Push
<1>3. ASSUME path = p PROVE o = NotRead(p) /\ (errors = 0 => o = Expected(p))
  <2>1. /\ NodeAt(p) \in Node /\ kind = NodeAt(p).kind /\ NodeAt(p).access \in BOOLEAN
        /\ size = IF kind = "file" THEN Len(NodeAt(p).data) ELSE 0
        /\ WorkInv(p)
    BY <1>1, <1>3, FoundFacts, ContentFacts
  <2>2. Expected(p) = [path |-> p, object_type |-> kind, size |-> size,
                       readable |-> kind \in {"file", "dir"} /\ NodeAt(p).access,
                       content |-> IF kind = "file" /\ NodeAt(p).access THEN NodeAt(p).data ELSE NoContent]
    BY <2>1 DEF Expected
  <2>3. o = NotRead(p)
    <3> DEFINE x == kind \in {"file", "dir"} /\ NodeAt(p).access
               y == IF kind = "file" /\ NodeAt(p).access THEN NodeAt(p).data ELSE NoContent
    <3>1. Expected(p) = [path |-> p, object_type |-> kind, size |-> size, readable |-> x, content |-> y]
      BY <2>2
    <3> HIDE DEF x, y
    <3>2. NotRead(p) = [path |-> p, object_type |-> kind, size |-> size,
                        readable |-> FALSE, content |-> NoContent]
      BY <3>1, NotReadForm
    <3> QED
      BY <1>3, <3>2
  <2>4. ASSUME errors = 0 PROVE o = Expected(p)
    <3>1. ~(kind = "file" /\ NodeAt(p).access)
      BY <1>1, <1>3, <2>1, <2>4 DEF WorkInv
    <3>2. (kind \in {"file", "dir"} /\ NodeAt(p).access) = FALSE
      BY <1>1, <3>1
    <3> QED
      BY <1>3, <2>2, <3>1, <3>2
  <2> QED
    BY <2>3, <2>4
<1> HIDE DEF o
<1>4. path = p => o \in {Expected(p), NotRead(p)} /\ (errors = 0 => o = Expected(p))
  BY <1>3
<1> QED
  BY <1>1, <1>2, <1>4, PushStable

LEMMA ProbeStable ==
  ASSUME IngestInv, StableInv, Probe, Alone, NEW p \in Paths \ touched
  PROVE  StableOK(p)'
<1>1. /\ pc = "probe" /\ pc \in Looked /\ kind = "dir" /\ pc' = "descend"
      /\ UNCHANGED <<stack, path, kind, size>> /\ errors \in Nat
  BY DEF Probe, StableInv, PhaseInv, Looked, AtEntry, local, IngestInv, LocalsOK
<1> DEFINE o(can) == [path |-> path, object_type |-> kind, size |-> size,
                      readable |-> can, content |-> NoContent]
<1>2. \/ out' = Append(out, o(CanList(path))) /\ errors' = errors
      \/ out' = Append(out, o(FALSE)) /\ errors' # 0
  <2>1. CASE Push(CanList(path), NoContent) /\ errors' = errors
    BY <2>1 DEF Push
  <2>2. CASE Push(FALSE, NoContent) /\ CallFails
    BY <1>1, <2>2 DEF Push, CallFails
  <2> QED
    BY <2>1, <2>2 DEF Probe
<1>3. ASSUME path = p PROVE o(CanList(p)) = Expected(p) /\ o(FALSE) = NotRead(p)
  <2>1. /\ NodeAt(p) \in Node /\ kind = NodeAt(p).kind /\ NodeAt(p).access \in BOOLEAN
        /\ size = IF kind = "file" THEN Len(NodeAt(p).data) ELSE 0
        /\ Exists(p)
    BY <1>1, <1>3, FoundFacts, ContentFacts
  <2>2. Expected(p) = [path |-> p, object_type |-> kind, size |-> size,
                       readable |-> kind \in {"file", "dir"} /\ NodeAt(p).access,
                       content |-> IF kind = "file" /\ NodeAt(p).access THEN NodeAt(p).data ELSE NoContent]
    BY <2>1 DEF Expected
  <2>3. CanList(p) <=> NodeAt(p).access
    BY <1>1, <2>1 DEF CanList, IsDir
  <2>4. CanList(p) \in BOOLEAN
    BY <2>1, <2>3 DEF CanList
  <2>5. CanList(p) = (kind \in {"file", "dir"} /\ NodeAt(p).access)
    BY <1>1, <2>3, <2>4
  <2>6. NotRead(p) = [path |-> p, object_type |-> kind, size |-> size,
                      readable |-> FALSE, content |-> NoContent]
    <3> DEFINE x == kind \in {"file", "dir"} /\ NodeAt(p).access
               y == IF kind = "file" /\ NodeAt(p).access THEN NodeAt(p).data ELSE NoContent
    <3>1. Expected(p) = [path |-> p, object_type |-> kind, size |-> size, readable |-> x, content |-> y]
      BY <2>2
    <3> HIDE DEF x, y
    <3> QED
      BY <3>1, NotReadForm
  <2>7. o(CanList(p)) = Expected(p)
    BY <1>1, <1>3, <2>2, <2>5
  <2>8. o(FALSE) = NotRead(p)
    BY <1>3, <2>6
  <2> QED
    BY <2>7, <2>8
<1>4. \A can : o(can).path = path
  OBVIOUS
<1> HIDE DEF o
<1>5. CASE out' = Append(out, o(CanList(path))) /\ errors' = errors
  <2>1. path = p => o(CanList(path)) = Expected(p)
    BY <1>3
  <2> QED
    BY <1>1, <1>4, <1>5, <2>1, PushStable
<1>6. CASE out' = Append(out, o(FALSE)) /\ errors' # 0
  <2>1. path = p => o(FALSE) = NotRead(p)
    BY <1>3
  <2> QED
    BY <1>1, <1>4, <1>6, <2>1, PushStable
<1> QED
  BY <1>2, <1>5, <1>6

LEMMA DescendStable ==
  ASSUME IngestInv, StableInv, Descend, Alone, NEW p \in Paths \ touched
  PROVE  StableOK(p)'
<1> DEFINE m == Len(stack)
<1>0. StableOK(p) /\ Rooted(tree) /\ NestInv /\ tree \in Tree /\ Len(p) \in Nat
  BY PathFacts DEF StableInv, IngestInv
<1>1. /\ pc = "descend" /\ pc \in AtEntry /\ pc' = "readdir" /\ out' = out
  BY DEF Descend, AtEntry
<1>2. /\ m \in Nat /\ path \in Paths /\ Len(path) = m
      /\ \/ Len(stack') = m /\ stack' = stack
         \/ /\ CanList(path)
            /\ Len(stack') = m + 1 /\ \A k \in 1 .. m : stack'[k] = stack[k]
            /\ stack'[m + 1].dir = path /\ stack'[m + 1].pending = Children(path)
            /\ stack'[m + 1].maybe = {}
      /\ errors' = 0 => errors = 0 /\ (CanList(path) => Len(stack') = m + 1)
  BY DescendForm
<1>3. /\ tree'.at[p] = tree.at[p] /\ Same(p) /\ (Exists(p)' <=> Exists(p))
      /\ \A q : CanList(q)' <=> CanList(q)
  BY AloneKeeps DEF Alone, CanList, IsDir, Exists, NodeAt
<1>n. PICK i : i = m + 1
  OBVIOUS
<1>4. /\ \A j \in 1 .. m : /\ Leads(j, p)' <=> Leads(j, p)
                           /\ Waits(j, p)' <=> Waits(j, p)
      /\ Len(stack') \in {m, m + 1}
  <2>1. CASE Len(stack') = m + 1
    <3>1. \A j \in 1 .. m : j \in 1 .. m + 1
      BY <1>2
    <3> QED
      BY <1>2, <2>1, <3>1 DEF Waits, Leads
  <2>2. CASE stack' = stack
    BY <1>2, <2>2 DEF Waits, Leads
  <2> QED
    BY <1>2, <2>1, <2>2
\* The new directory leads to p when ingest is at a directory above p.
<1>5. Leads(i, p)' <=> Len(stack') = m + 1 /\ AtWork(p)
  <2>1. AtWork(p) <=> m < Len(p) /\ path = Upto(p, m)
    <3>1. AtWork(p) <=> m <= Len(p) /\ path = Upto(p, m) /\ path # p
      BY <1>1, <1>2 DEF AtWork, OnWay
    <3>2. Upto(p, Len(p)) = p
      <4>1. Len(p) \in Nat \ {0}
        BY PathFacts
      <4> QED
        BY <4>1, WayFacts
    <3>3. path = p => m = Len(p)
      BY <1>2
    <3> QED
      BY <1>0, <1>2, <3>1, <3>2, <3>3
  <2>2. i \in 1 .. m + 1 /\ (i <= Len(p) <=> m < Len(p)) /\ i - 1 = m /\ i \notin 1 .. m
    BY <1>0, <1>2, <1>n
  <2>3. CASE Len(stack') = m + 1
    <3>1. stack'[i].dir = path
      BY <1>2, <1>n, <2>3
    <3> QED
      BY <2>1, <2>2, <2>3, <3>1 DEF Leads
  <2>4. CASE Len(stack') = m
    BY <1>2, <2>2, <2>4 DEF Leads
  <2> QED
    BY <1>2, <2>3, <2>4
<1>6. Waits(i, p)' => AtWork(p)
  BY <1>5 DEF Waits
<1>7. errors' = 0 /\ Exists(p) /\ Reachable(p) /\ AtWork(p) => Waits(i, p)' /\ Len(stack') = m + 1
  <2> SUFFICES ASSUME errors' = 0, Exists(p), Reachable(p), AtWork(p)
               PROVE  Waits(i, p)' /\ Len(stack') = m + 1
    OBVIOUS
  <2>1. m \in 1 .. Len(p) /\ path = Upto(p, m) /\ path # p
    BY <1>0, <1>1, AtWorkFacts DEF AtWork
  <2>2. m \in 1 .. Len(p) - 1 /\ m + 1 \in 1 .. Len(p)
    <3>1. Upto(p, Len(p)) = p
      BY <2>1, WayFacts
    <3> QED
      BY <1>0, <2>1, <3>1
  <2>3. CanList(path)
    BY <2>1, <2>2 DEF Reachable, Upto
  <2>4. Upto(p, m + 1) \in Paths /\ Exists(Upto(p, m + 1))
    BY <1>0, <2>2, RootedFacts
  <2>5. Upto(p, m + 1) = Append(path, p[m + 1]) /\ p[m + 1] \in Names
    <3>1. Upto(p, i) = Append(Upto(p, i - 1), p[i]) /\ p[i] \in Names
      BY <1>n, <2>2, WayFacts
    <3> QED
      BY <1>2, <1>n, <2>1, <3>1
  <2>6. p[m + 1] \in Children(path)
    BY <2>4, <2>5 DEF Children
  <2>7. Leads(i, p)'
    BY <1>2, <1>5, <2>3
  <2>8. Len(stack') = m + 1 /\ stack'[i].pending = Children(path)
    BY <1>2, <1>n, <2>3
  <2>9. p[i] \in Children(path)
    BY <1>n, <2>6
  <2> QED
    BY <2>7, <2>8, <2>9 DEF Waits
<1>8. ~AtWork(p)'
  BY <1>1 DEF AtWork, AtEntry
<1>9. Handled(p) => Handled(p)'
  <2> SUFFICES ASSUME Handled(p), NEW j \in 1 .. Len(stack'), Waits(j, p)' PROVE FALSE
    BY <1>8 DEF Handled
  <2>1. j \in 1 .. m \/ j = m + 1
    BY <1>2, <1>4
  <2> QED
    BY <1>4, <1>6, <1>n, <2>1 DEF Handled
<1>10. errors' = 0 /\ Exists(p) /\ Reachable(p) /\ Handled(p)' => Handled(p)
  <2> SUFFICES ASSUME errors' = 0, Exists(p), Reachable(p), Handled(p)' PROVE Handled(p)
    OBVIOUS
  <2>1. ~AtWork(p)
    <3>1. AtWork(p) => i \in 1 .. Len(stack')
      BY <1>2, <1>7, <1>n
    <3> QED
      BY <1>7, <3>1 DEF Handled
  <2>2. \A j \in 1 .. m : j \in 1 .. Len(stack')
    BY <1>2, <1>4
  <2> QED
    BY <1>4, <2>1, <2>2 DEF Handled
<1>11. SoFar(p)' /\ (Exists(p) => ToCome(p)')
  BY <1>0, <1>1, <1>2, <1>3, <1>9, <1>10, QuietStep DEF StableOK
<1>12. Exists(p) => StreamInv(p)'
  <2> SUFFICES ASSUME Exists(p), NEW k \in 1 .. Len(stack'), Leads(k, p)'
               PROVE  p[k] \notin stack'[k].maybe /\ \A j \in 1 .. k - 1 : CanList(Upto(p, j))'
    BY DEF StreamInv
  <2>1. StreamInv(p)
    BY <1>0 DEF StableOK
  <2>2. CASE k \in 1 .. m
    <3>1. Leads(k, p) /\ stack'[k] = stack[k]
      BY <1>2, <1>4, <2>2
    <3> QED
      BY <1>3, <2>1, <2>2, <3>1 DEF StreamInv
  <2>3. CASE k = m + 1
    <3>1. CanList(path) /\ AtWork(p) /\ Len(stack') = m + 1
      BY <1>2, <1>5, <1>n, <2>3
    <3>2. m \in 1 .. Len(p) /\ path = Upto(p, m) /\ Leads(m, p)
      <4>1. m \in 1 .. Len(p) /\ path = Upto(p, m) /\ \A j \in 1 .. m : Leads(j, p)
        BY <1>0, <1>1, <3>1, AtWorkFacts DEF AtWork
      <4>2. m \in 1 .. m
        BY <4>1
      <4> QED
        BY <4>1, <4>2
    <3>3. \A j \in 1 .. m - 1 : CanList(Upto(p, j))
      BY <2>1, <3>2 DEF StreamInv
    <3>4. \A j \in 1 .. k - 1 : j \in 1 .. m - 1 \/ j = m
      BY <1>2, <2>3
    <3>5. \A j \in 1 .. k - 1 : CanList(Upto(p, j))
      BY <3>1, <3>2, <3>3, <3>4
    <3>6. stack'[k].maybe = {}
      BY <1>2, <2>3, <3>1
    <3> QED
      BY <1>3, <3>5, <3>6
  <2> QED
    BY <1>2, <1>4, <2>2, <2>3
<1>13. WorkInv(p)'
  BY <1>1 DEF WorkInv, Looked, AtEntry
<1> QED
  BY <1>1, <1>3, <1>11, <1>12, <1>13 DEF StableOK, Looked, AtEntry

\* What is not given any more is handled.
LEMMA NoneLeft ==
  ASSUME stack = <<>>, pc \notin AtEntry, NEW p
  PROVE  Handled(p)
<1>1. Len(stack) = 0
  OBVIOUS
<1>2. \A j \in 1 .. Len(stack) : FALSE
  BY <1>1
<1> QED
  BY <1>2 DEF Handled, AtWork

LEMMA SortStable ==
  ASSUME IngestInv, StableInv, Sort, Alone, NEW p \in Paths \ touched
  PROVE  StableOK(p)'
<1>1. /\ pc = "sort" /\ pc' = "done" /\ stack = <<>> /\ stack' = <<>> /\ errors' = errors
      /\ pc \notin AtEntry /\ pc' \notin AtEntry
  BY DEF Sort, StableInv, PhaseInv, AtEntry
<1>2. DOMAIN out = 1 .. Len(out) /\ Len(out) \in Nat
  BY DEF IngestInv, LocalsOK
<1>3. PICK order \in Bijection(DOMAIN out, DOMAIN out) : out' = [k \in DOMAIN out |-> out[order[k]]]
  BY DEF Sort
<1>4. /\ order \in [DOMAIN out -> DOMAIN out]
      /\ \A j, k \in DOMAIN out : order[j] = order[k] => j = k
      /\ \A j \in DOMAIN out : \E k \in DOMAIN out : order[k] = j
  BY <1>3 DEF Bijection, Injection, Surjection, IsInjective
<1>5. Seen(p)' = {k \in DOMAIN out : order[k] \in Seen(p)}
  BY <1>3, <1>4 DEF Seen
<1>6. Handled(p) /\ Handled(p)'
  <2>1. Handled(p)
    BY <1>1, NoneLeft
  <2>2. Handled(p)'
    <3>1. Len(stack') = 0
      BY <1>1
    <3>2. \A j \in 1 .. Len(stack') : FALSE
      BY <3>1
    <3> QED
      BY <1>1, <3>2 DEF Handled, AtWork
  <2> QED
    BY <2>1, <2>2
<1>7. StableOK(p)
  BY DEF StableInv
<1>8. /\ Exists(p)' <=> Exists(p)
      /\ Reachable(p)' <=> Reachable(p)
      /\ Expected(p)' = Expected(p) /\ NotRead(p)' = NotRead(p)
  BY AloneKeeps
<1>9. ASSUME NEW k \in Seen(p)' PROVE SeenAs(p, k)'
  <2>1. k \in DOMAIN out /\ order[k] \in Seen(p) /\ out'[k] = out[order[k]]
    BY <1>3, <1>5, <1>9
  <2>2. SeenAs(p, order[k])
    BY <1>7, <2>1 DEF StableOK, SoFar
  <2>3. Seen(p)' = {k}
    <3>1. Seen(p) = {order[k]}
      BY <2>2 DEF SeenAs
    <3>2. \A j \in Seen(p)' : j = k
      BY <1>4, <1>5, <2>1, <3>1
    <3> QED
      BY <1>9, <3>2
  <2> QED
    BY <1>1, <1>8, <2>1, <2>2, <2>3 DEF SeenAs
<1>10. SoFar(p)'
  BY <1>6, <1>9 DEF SoFar
<1>11. Exists(p) => ToCome(p)'
  <2> SUFFICES ASSUME Exists(p), errors = 0, Reachable(p) PROVE Seen(p)' # {}
    BY <1>1, <1>8 DEF ToCome
  <2>1. Seen(p) # {}
    BY <1>1, <1>6, <1>7 DEF StableOK, ToCome
  <2>2. PICK j : j \in Seen(p)
    BY <2>1
  <2>3. j \in DOMAIN out
    BY <2>2 DEF Seen
  <2> QED
    BY <1>4, <1>5, <2>2, <2>3
<1>12. Exists(p) => StreamInv(p)' /\ WorkInv(p)'
  <2>1. WorkInv(p)'
    BY <1>1 DEF WorkInv, Looked
  <2>2. Len(stack') = 0
    BY <1>1
  <2>3. \A k \in 1 .. Len(stack') : FALSE
    BY <2>2
  <2>4. StreamInv(p)'
    BY <2>3 DEF StreamInv
  <2> QED
    BY <2>1, <2>4
<1> QED
  BY <1>1, <1>8, <1>10, <1>11, <1>12 DEF StableOK, Looked

\* A failed ingest has no observations.
LEMMA FailStable ==
  ASSUME IngestInv, StableInv, pc' = "fail", out' = <<>>, stack' = stack, Alone, NEW p \in Paths \ touched
  PROVE  StableOK(p)'
<1>1. StableOK(p) /\ Rooted(tree) /\ Len(stack) \in Nat
  BY DEF StableInv, IngestInv, StackOK
<1>2. tree'.at[p] = tree.at[p] /\ Same(p) /\ (Exists(p)' <=> Exists(p))
  BY AloneKeeps
<1>3. SoFar(p)'
  <2>1. DOMAIN out' = {}
    OBVIOUS
  <2>2. Seen(p)' = {}
    BY <2>1 DEF Seen
  <2> QED
    BY <2>2 DEF SoFar
<1>4. ToCome(p)' /\ WorkInv(p)' /\ pc' \notin Looked
  BY DEF ToCome, WorkInv, Looked, AtEntry
<1>5. Exists(p) => StreamInv(p)'
  <2> SUFFICES ASSUME Exists(p) PROVE StreamInv(p)'
    OBVIOUS
  <2>1. StreamInv(p) /\ Shrinks
    BY <1>1 DEF StableOK, Shrinks
  <2> QED
    BY <1>1, <1>2, <2>1, StreamKept
<1> QED
  BY <1>2, <1>3, <1>4, <1>5 DEF StableOK

\* What others change leaves what is known of an untouched entry true.
LEMMA OthersStable ==
  ASSUME IngestInv, StableInv, Others, NEW p \in Paths \ touched'
  PROVE  StableOK(p)'
<1>1. /\ UNCHANGED <<pc, path, kind, size, fd, got, out, errors>> /\ pc \notin {"start", "done", "fail"}
      /\ touched \subseteq touched'
  BY DEF Others, Create, Unlink, Rename, Rewrite, Chmod, Change, local
<1>2. /\ p \in Paths /\ p \notin touched /\ tree \in Tree /\ Rooted(tree) /\ StableOK(p)
      /\ Len(stack) \in Nat /\ Len(p) \in Nat
  BY <1>1, PathFacts DEF StableInv, IngestInv, StackOK
<1>3. /\ Shrinks /\ Len(stack') = Len(stack)
      /\ tree'.at[p] = tree.at[p] /\ (Exists(p) => Same(p))
      /\ Exists(p) => \A k \in 1 .. Len(stack) : Leads(k, p) =>
                        /\ p[k] \in stack'[k].pending <=> p[k] \in stack[k].pending
                        /\ p[k] \in stack'[k].maybe => p[k] \in stack[k].maybe
  BY <1>2, OthersQuiet
<1>4. /\ Exists(p)' <=> Exists(p)
      /\ Exists(p) => /\ NodeAt(p)' = NodeAt(p)
                      /\ \A k \in 1 .. Len(p) : NodeAt(Upto(p, k))' = NodeAt(Upto(p, k))
  BY <1>2, <1>3, SameKeeps
<1>5. \A k \in 1 .. Len(stack) : Leads(k, p)' <=> Leads(k, p)
  BY <1>3 DEF Leads, Shrinks
<1>6. AtWork(p)' <=> AtWork(p)
  BY <1>1 DEF AtWork, OnWay
<1>7. Exists(p) => (Handled(p)' <=> Handled(p))
  <2>1. Exists(p) => \A k \in 1 .. Len(stack) : Waits(k, p)' <=> Waits(k, p)
    BY <1>3, <1>5 DEF Waits
  <2> QED
    BY <1>3, <1>6, <2>1 DEF Handled
<1>8. SoFar(p)' /\ (Exists(p) => ToCome(p)')
  BY <1>1, <1>2, <1>3, <1>7, QuietStep DEF StableOK
<1>9. Exists(p) => StreamInv(p)'
  <2> SUFFICES ASSUME Exists(p) PROVE StreamInv(p)'
    OBVIOUS
  <2>1. StreamInv(p) /\ Same(p)
    BY <1>2, <1>3 DEF StableOK
  <2>2. \A k \in 1 .. Len(stack') : Leads(k, p) => (p[k] \in stack'[k].maybe => p[k] \in stack[k].maybe)
    BY <1>3
  <2> QED
    BY <1>2, <1>3, <2>1, <2>2, StreamKept
<1>10. Exists(p) => WorkInv(p)'
  <2> SUFFICES ASSUME Exists(p) PROVE WorkInv(p)'
    OBVIOUS
  <2>1. WorkInv(p)
    BY <1>2 DEF StableOK
  <2>2. pc \in Looked /\ OnWay(p) => NodeAt(path)' = NodeAt(path)
    <3> SUFFICES ASSUME pc \in Looked, OnWay(p) PROVE NodeAt(path)' = NodeAt(path)
      OBVIOUS
    <3>1. NestInv /\ pc \in AtEntry
      BY DEF StableInv, Looked
    <3>2. Len(stack) \in 1 .. Len(p) /\ path = Upto(p, Len(stack))
      BY <1>2, <3>1, AtWorkFacts
    <3>3. PICK i : i = Len(stack)
      OBVIOUS
    <3>4. i \in 1 .. Len(p) /\ path = Upto(p, i) /\ path' = Upto(p, i)
      BY <1>1, <3>2, <3>3
    <3>5. NodeAt(Upto(p, i))' = NodeAt(Upto(p, i))
      BY <1>4, <3>4
    <3> QED
      BY <3>4, <3>5
  <2> QED
    BY <1>1, <1>3, <1>4, <2>1, <2>2 DEF WorkInv, OnWay
<1> QED
  BY <1>1, <1>2, <1>4, <1>8, <1>9, <1>10 DEF StableOK

LEMMA ProgramStable ==
  ASSUME IngestInv, StableInv, Program, NEW p \in Paths \ touched
  PROVE  StableOK(p)'
<1>1. Alone
  BY DEF Program, Alone, past
<1>2. ASSUME Lstat PROVE StableOK(p)'
  <2>1. CASE Exists(path)
    BY <1>1, <1>2, <2>1, LstatStable
  <2>2. CASE ~Exists(path)
    <3>1. pc' = "fail" /\ out' = <<>> /\ stack' = stack
      BY <1>2, <2>2 DEF Lstat
    <3> QED
      BY <1>1, <3>1, FailStable
  <2> QED
    BY <2>1, <2>2
<1>3. ASSUME Fail PROVE StableOK(p)'
  <2>1. pc' = "fail" /\ out' = <<>> /\ stack' = stack
    BY <1>3 DEF Fail
  <2> QED
    BY <1>1, <2>1, FailStable
<1> QED
  BY <1>1, <1>2, <1>3, OpenRootStable, NextEntryStable, EndOfDirStable, OpenStable, ReadStable,
     UnreadStable, ProbeStable, DescendStable, SortStable DEF Program

LEMMA StableInvKept == IngestInv /\ StableInv /\ [Next]_vars => StableInv'
<1> SUFFICES ASSUME IngestInv, StableInv, [Next]_vars PROVE StableInv'
  OBVIOUS
<1>1. NestInv' /\ PhaseInv'
  BY NestKept, PhaseKept DEF StableInv
<1>2. CASE Program
  <2>1. tree' = tree /\ touched' = touched
    BY <1>2 DEF Program, past
  <2>2. Rooted(tree)'
    BY <2>1 DEF StableInv
  <2>3. \A p \in Paths \ touched : StableOK(p)'
    BY <1>2, ProgramStable
  <2> QED
    BY <1>1, <2>1, <2>2, <2>3 DEF StableInv
<1>3. CASE Others
  <2>1. Rooted(tree)'
    BY <1>3, OthersQuiet DEF StableInv
  <2>2. \A p \in Paths \ touched' : StableOK(p)'
    BY <1>3, OthersStable
  <2> QED
    BY <1>1, <2>1, <2>2 DEF StableInv
<1>4. CASE UNCHANGED vars
  <2>1. UNCHANGED <<tree, pc, stack, path, kind, size, fd, got, out, errors, touched>>
    BY <1>4 DEF vars, local, past
  <2>2. ASSUME NEW p \in Paths \ touched PROVE StableOK(p)'
    <3>1. StableOK(p) /\ (\A q : NodeAt(q)' = NodeAt(q) /\ CanList(q)' = CanList(q))
      BY <2>1 DEF StableInv, NodeAt, CanList, IsDir, Exists
    <3>2. /\ Exists(p)' <=> Exists(p)
          /\ Reachable(p)' <=> Reachable(p)
          /\ Expected(p)' = Expected(p) /\ NotRead(p)' = NotRead(p)
      BY <2>1, AloneKeeps DEF Alone
    <3>3. Seen(p)' = Seen(p) /\ (Handled(p)' <=> Handled(p))
      BY <2>1 DEF Seen, Handled, AtWork, OnWay, Waits, Leads
    <3>4. /\ StreamInv(p)' <=> StreamInv(p)
          /\ WorkInv(p)' <=> WorkInv(p)
      <4>1. StreamInv(p)' <=> StreamInv(p)
        BY <2>1, <3>1 DEF StreamInv, Leads
      <4>2. WorkInv(p)' <=> WorkInv(p)
        BY <2>1, <3>1 DEF WorkInv, OnWay
      <4> QED
        BY <4>1, <4>2
    <3>5. SoFar(p)' /\ (Exists(p) => ToCome(p)')
      <4>1. \A k : SeenAs(p, k)' <=> SeenAs(p, k)
        BY <2>1, <3>2, <3>3 DEF SeenAs
      <4>2. SoFar(p)'
        BY <3>1, <3>3, <4>1 DEF StableOK, SoFar
      <4>3. Exists(p) => ToCome(p)'
        BY <2>1, <3>1, <3>2, <3>3 DEF StableOK, ToCome
      <4> QED
        BY <4>2, <4>3
    <3> QED
      BY <2>1, <3>1, <3>2, <3>4, <3>5 DEF StableOK
  <2>3. Rooted(tree)'
    BY <2>1 DEF StableInv
  <2> QED
    BY <1>1, <2>1, <2>2, <2>3 DEF StableInv
<1> QED
  BY <1>2, <1>3, <1>4 DEF Next, Done

LEMMA StableInvAlways == Spec => []StableInv
<1>1. Init => StableInv
  <2> SUFFICES ASSUME Init PROVE StableInv
    OBVIOUS
  <2>1. Rooted(tree)
    BY IngestAssumption DEF Init
  <2>2. pc = "start" /\ stack = <<>> /\ out = <<>> /\ Len(stack) = 0 /\ DOMAIN out = {}
    BY DEF Init
  <2>3. \A k \in 1 .. Len(stack) : FALSE
    BY <2>2
  <2>4. NestInv /\ PhaseInv
    BY <2>2, <2>3 DEF NestInv, PhaseInv, AtEntry
  <2>5. ASSUME NEW p PROVE StableOK(p)
    <3>1. Seen(p) = {}
      BY <2>2 DEF Seen
    <3> QED
      BY <2>2, <2>3, <3>1 DEF StableOK, SoFar, StreamInv, WorkInv, ToCome, Looked, AtEntry
  <2> QED
    BY <2>1, <2>4, <2>5 DEF StableInv
<1> QED
  BY <1>1, StableInvKept, IngestInvariant, PTL DEF Spec

(* An entry nobody touches while ingest runs is observed exactly once and  *)
(* exactly as it is, whatever others change around it, unless some call    *)
(* failed; and an entry that is not there is not observed: opendir, the    *)
(* readdirs, lstat and the reads of the recursion leave no gap.            *)
THEOREM IngestStableSeenOnce == Spec => []StableSeenOnce
<1>1. IngestInv /\ StableInv => StableSeenOnce
  <2> SUFFICES ASSUME IngestInv, StableInv, pc = "done", errors = 0, NEW p \in Paths \ touched
               PROVE  IF Reachable(p) THEN \E k \in DOMAIN out : Seen(p) = {k} /\ out[k] = Expected(p)
                      ELSE Seen(p) = {}
    BY DEF StableSeenOnce
  <2>1. Handled(p) /\ StableOK(p)
    BY NoneLeft DEF StableInv, PhaseInv, AtEntry
  <2>2. \A k \in Seen(p) : k \in DOMAIN out /\ Reachable(p) /\ Seen(p) = {k} /\ out[k] = Expected(p)
    BY <2>1 DEF StableOK, SoFar, SeenAs, Seen
  <2>3. Reachable(p) => Seen(p) # {}
    BY <2>1 DEF StableOK, ToCome, Reachable
  <2> QED
    BY <2>2, <2>3
<1> QED
  BY <1>1, IngestInvariant, StableInvAlways, PTL

(* A read or a readdir that fails, of which the caller learns nothing, can *)
(* only leave an untouched entry out or leave its content out: what is     *)
(* observed of it is otherwise true, and observed once.                    *)
THEOREM IngestFailuresOnlyOmit == Spec => []FailuresOnlyOmit
<1>1. StableInv => FailuresOnlyOmit
  BY DEF StableInv, StableOK, SoFar, SeenAs, NotRead, FailuresOnlyOmit
<1> QED
  BY <1>1, StableInvAlways, PTL
-----------------------------------------------------------------------------
LEMMA LeastNatural ==
  ASSUME NEW T, T \subseteq Nat, T # {}
  PROVE  \E x \in T : \A y \in T : x <= y
<1> DEFINE R == {ss \in Nat \X Nat : ss[1] < ss[2]}
<1>1. IsWellFoundedOn(R, Nat)
  BY NatLessThanWellFounded DEF OpToRel
<1> HIDE DEF R
<1>2. PICK x \in T : \A y \in T : ~(<<y, x>> \in R)
  BY <1>1, WFMin
<1>3. \A y, z \in Nat : y < z => <<y, z>> \in R
  BY DEF R
<1>4. ASSUME NEW y \in T PROVE x <= y
  <2>1. x \in Nat /\ y \in Nat
    OBVIOUS
  <2>2. ~(y < x)
    BY <1>2, <1>3, <2>1
  <2> QED
    BY <2>1, <2>2
<1> QED
  BY <1>4

LEMMA SetInduction ==
  ASSUME NEW S, 0 \in S, \A n \in Nat : n \in S => n + 1 \in S
  PROVE  Nat \subseteq S
<1> SUFFICES ASSUME Nat \ S # {} PROVE FALSE
  OBVIOUS
<1>1. PICK x \in Nat \ S : \A y \in Nat \ S : x <= y
  BY LeastNatural
<1>2. x # 0 /\ x - 1 \in Nat /\ x - 1 \in S
  BY <1>1
<1> QED
  BY <1>1, <1>2

LEMMA SameSequence ==
  ASSUME NEW S, NEW s \in Seq(S), NEW t \in Seq(S), Len(s) = Len(t),
         \A k \in 1 .. Len(s) : s[k] = t[k]
  PROVE  s = t
OBVIOUS

\* Of two different sequences of numbers, one is less.
LEMMA LexTotal ==
  ASSUME NEW s \in Seq(Nat), NEW t \in Seq(Nat), s # t
  PROVE  LexLess(s, t) \/ LexLess(t, s)
<1>1. /\ Len(s) \in Nat /\ Len(t) \in Nat /\ DOMAIN s = 1 .. Len(s) /\ DOMAIN t = 1 .. Len(t)
      /\ \A k \in 1 .. Len(s) : s[k] \in Nat
      /\ \A k \in 1 .. Len(t) : t[k] \in Nat
  OBVIOUS
<1> DEFINE T == {k \in DOMAIN s \cap DOMAIN t : s[k] # t[k]}
<1>2. CASE T # {}
  <2>1. PICK k \in T : \A j \in T : k <= j
    <3>1. T \subseteq Nat
      BY <1>1
    <3> HIDE DEF T
    <3> QED
      BY <1>2, <3>1, LeastNatural
  <2>2. ASSUME NEW j \in 1 .. k - 1 PROVE s[j] = t[j]
    <3>1. j \in DOMAIN s \cap DOMAIN t /\ ~(k <= j)
      BY <1>1, <2>1
    <3> QED
      BY <2>1, <3>1
  <2>3. s[k] < t[k] \/ t[k] < s[k]
    BY <1>1, <2>1
  <2> QED
    BY <2>1, <2>2, <2>3 DEF LexLess
<1>3. ASSUME T = {}, NEW a \in Seq(Nat), NEW b \in Seq(Nat), a # b, Len(a) <= Len(b),
             \A k \in 1 .. Len(a) : a[k] = b[k]
      PROVE  IsStrictPrefix(a, b)
  <2>1. /\ SubSeq(a, 1, Len(a)) \in Seq(Nat) /\ Len(SubSeq(a, 1, Len(a))) = Len(a)
        /\ \A k \in 1 .. Len(a) : SubSeq(a, 1, Len(a))[k] = a[k]
    OBVIOUS
  <2>2. /\ SubSeq(b, 1, Len(a)) \in Seq(Nat) /\ Len(SubSeq(b, 1, Len(a))) = Len(a)
        /\ \A k \in 1 .. Len(a) : SubSeq(b, 1, Len(a))[k] = b[k]
    BY <1>3
  <2>3. SubSeq(a, 1, Len(a)) = SubSeq(b, 1, Len(a))
    BY <1>3, <2>1, <2>2
  <2> QED
    BY <1>3, <2>3 DEF IsStrictPrefix, IsPrefix
<1>4. CASE T = {}
  <2>1. ASSUME NEW k \in 1 .. Len(s), k <= Len(t) PROVE s[k] = t[k]
    <3>1. k \in DOMAIN s \cap DOMAIN t
      BY <1>1, <2>1
    <3> QED
      BY <1>4, <3>1
  <2>2. CASE Len(s) <= Len(t)
    <3>1. IsStrictPrefix(s, t)
      BY <1>1, <1>3, <1>4, <2>1, <2>2
    <3> QED
      BY <3>1 DEF LexLess
  <2>3. CASE Len(t) <= Len(s)
    <3>1. \A k \in 1 .. Len(t) : t[k] = s[k]
      BY <1>1, <2>1, <2>3
    <3>2. IsStrictPrefix(t, s)
      BY <1>3, <1>4, <2>3, <3>1
    <3> QED
      BY <3>2 DEF LexLess
  <2> QED
    BY <1>1, <2>2, <2>3
<1> QED
  BY <1>2, <1>4
-----------------------------------------------------------------------------
IsJoining(f, p, n) ==
  f = [k \in 1 .. n |-> IF k = 1 THEN p[1] ELSE f[k - 1] \o <<Slash>> \o p[k]]

LEMMA JoiningExists ==
  ASSUME NEW p, NEW n \in Nat
  PROVE  \E f : IsJoining(f, p, n)
<1> DEFINE G == {m \in Nat : \E f : IsJoining(f, p, m)}
<1>1. 0 \in G
  <2>1. IsJoining([k \in 1 .. 0 |-> p[1]], p, 0)
    BY DEF IsJoining
  <2> QED
    BY <2>1
<1>2. ASSUME NEW m \in Nat, m \in G PROVE m + 1 \in G
  <2>1. PICK f : IsJoining(f, p, m)
    BY <1>2
  <2> DEFINE next == IF m + 1 = 1 THEN p[1] ELSE f[m] \o <<Slash>> \o p[m + 1]
             e == [k \in 1 .. m + 1 |-> IF k = m + 1 THEN next ELSE f[k]]
  <2>2. ASSUME NEW k \in 1 .. m + 1 PROVE e[k] = IF k = 1 THEN p[1] ELSE e[k - 1] \o <<Slash>> \o p[k]
    <3>1. CASE k = m + 1
      <4>1. e[k] = next /\ (k # 1 => k - 1 = m /\ e[k - 1] = f[m])
        BY <3>1
      <4> QED
        BY <3>1, <4>1
    <3>2. CASE k # m + 1
      <4>1. k \in 1 .. m /\ (k # 1 => k - 1 \in 1 .. m)
        BY <3>2
      <4>2. e[k] = f[k] /\ (k # 1 => e[k - 1] = f[k - 1])
        BY <4>1
      <4>3. f[k] = IF k = 1 THEN p[1] ELSE f[k - 1] \o <<Slash>> \o p[k]
        BY <2>1, <4>1 DEF IsJoining
      <4> HIDE DEF e
      <4> QED
        BY <4>2, <4>3
    <3> QED
      BY <3>1, <3>2
  <2>3. IsJoining(e, p, m + 1)
    <3>1. e = [k \in 1 .. m + 1 |-> e[k]]
      OBVIOUS
    <3> HIDE DEF e
    <3> QED
      BY <2>2, <3>1 DEF IsJoining
  <2> HIDE DEF e
  <2> QED
    BY <2>3
<1>3. Nat \subseteq G
  <2> HIDE DEF G
  <2> QED
    BY <1>1, <1>2, SetInduction
<1> QED
  BY <1>3

LEMMA NameFacts ==
  ASSUME NEW n \in Names
  PROVE  n \in Seq(Nat) /\ Len(n) \in Nat /\ \A i \in 1 .. Len(n) : n[i] # Slash
<1>1. n \in Seq((0 .. 255) \ {Slash})
  BY IngestAssumption
<1>2. \A i \in 1 .. Len(n) : n[i] \in (0 .. 255) \ {Slash}
  BY <1>1
<1>3. n \in Seq(Nat)
  <2>1. (0 .. 255) \ {Slash} \subseteq Nat
    OBVIOUS
  <2> QED
    BY <1>1, <2>1, SeqMonotonic
<1> QED
  BY <1>2, <1>3

LEMMA JoinedSteps ==
  ASSUME NEW p \in Paths
  PROVE  /\ Joined(p)[1] = p[1]
         /\ \A k \in 1 .. Len(p) - 1 : Joined(p)[k + 1] = Joined(p)[k] \o <<Slash>> \o p[k + 1]
         /\ \A k \in 1 .. Len(p) : Joined(p)[k] \in Seq(Nat)
<1> DEFINE f == Joined(p)
           n == Len(p)
<1>0. n \in Nat \ {0} /\ p \in Seq(Names) /\ \A k \in 1 .. n : p[k] \in Names /\ p[k] \in Seq(Nat)
  BY PathFacts, NameFacts
<1>1. IsJoining(f, p, n)
  <2>1. f = CHOOSE upto : IsJoining(upto, p, n)
    BY DEF Joined, IsJoining
  <2>2. \E upto : IsJoining(upto, p, n)
    BY <1>0, JoiningExists
  <2> HIDE DEF f, n
  <2> QED
    BY <2>1, <2>2
<1>2. f = [k \in 1 .. n |-> IF k = 1 THEN p[1] ELSE f[k - 1] \o <<Slash>> \o p[k]]
  BY <1>1 DEF IsJoining
<1> HIDE DEF f
<1>3. f[1] = p[1]
  BY <1>0, <1>2
<1>4. ASSUME NEW k \in 1 .. n - 1 PROVE f[k + 1] = f[k] \o <<Slash>> \o p[k + 1]
  <2>1. k + 1 \in 1 .. n /\ k + 1 # 1 /\ (k + 1) - 1 = k
    BY <1>0
  <2>2. f[k + 1] = f[(k + 1) - 1] \o <<Slash>> \o p[k + 1]
    BY <1>2, <2>1
  <2> QED
    BY <2>1, <2>2
<1> DEFINE G == {m \in Nat : m + 1 <= n => f[m + 1] \in Seq(Nat)}
<1>5. 0 \in G
  BY <1>0, <1>3
<1>6. ASSUME NEW m \in Nat, m \in G PROVE m + 1 \in G
  <2> SUFFICES ASSUME (m + 1) + 1 <= n PROVE f[(m + 1) + 1] \in Seq(Nat)
    OBVIOUS
  <2>1. m + 1 \in 1 .. n - 1 /\ f[m + 1] \in Seq(Nat) /\ p[(m + 1) + 1] \in Seq(Nat)
    BY <1>0, <1>6
  <2>2. f[(m + 1) + 1] = f[m + 1] \o <<Slash>> \o p[(m + 1) + 1]
    BY <1>4, <2>1
  <2>3. <<Slash>> \in Seq(Nat)
    BY DEF Slash
  <2> QED
    BY <2>1, <2>2, <2>3
<1>7. Nat \subseteq G
  <2> HIDE DEF G
  <2> QED
    BY <1>5, <1>6, SetInduction
<1>8. ASSUME NEW k \in 1 .. n PROVE f[k] \in Seq(Nat)
  <2>1. k - 1 \in Nat /\ (k - 1) + 1 = k /\ k <= n
    BY <1>0
  <2> QED
    BY <1>7, <2>1
<1> QED
  BY <1>3, <1>4, <1>8 DEF f

Below(u, n) == u \o <<Slash>> \o n

LiesBelow(w, x, c) ==
  /\ Len(w) = Len(x) + 1 + Len(c)
  /\ \A i \in 1 .. Len(x) : w[i] = x[i]
  /\ w[Len(x) + 1] = Slash
  /\ \A i \in 1 .. Len(c) : w[Len(x) + 1 + i] = c[i]

LEMMA SlashBetween ==
  ASSUME NEW x \in Seq(Nat), NEW c \in Seq(Nat)
  PROVE  LiesBelow(Below(x, c), x, c)
<1> DEFINE y == x \o <<Slash>>
<1>1. /\ y \in Seq(Nat) /\ Len(y) = Len(x) + 1 /\ y[Len(x) + 1] = Slash
      /\ \A i \in 1 .. Len(x) : y[i] = x[i]
  <2>1. PICK z : z = <<Slash>>
    OBVIOUS
  <2>2. z \in Seq(Nat) /\ Len(z) = 1 /\ z[1] = Slash
    BY <2>1 DEF Slash
  <2>3. /\ x \o z \in Seq(Nat) /\ Len(x \o z) = Len(x) + 1 /\ (x \o z)[Len(x) + 1] = z[1]
        /\ \A i \in 1 .. Len(x) : (x \o z)[i] = x[i]
    <3>1. /\ x \o z \in Seq(Nat) /\ Len(x \o z) = Len(x) + Len(z)
          /\ \A i \in 1 .. Len(x) + Len(z) : (x \o z)[i] = IF i <= Len(x) THEN x[i] ELSE z[i - Len(x)]
      BY <2>2, ConcatProperties
    <3>2. Len(x) \in Nat
      OBVIOUS
    <3>3. (x \o z)[Len(x) + 1] = z[(Len(x) + 1) - Len(x)]
      BY <2>2, <3>1, <3>2
    <3>4. (Len(x) + 1) - Len(x) = 1
      BY <3>2
    <3>5. \A i \in 1 .. Len(x) : i \in 1 .. Len(x) + Len(z) /\ i <= Len(x)
      BY <2>2, <3>2
    <3> QED
      BY <2>2, <3>1, <3>3, <3>4, <3>5
  <2> QED
    BY <2>1, <2>2, <2>3
<1> HIDE DEF y
<1>2. /\ Len(y \o c) = Len(y) + Len(c)
      /\ \A i \in 1 .. Len(y) : (y \o c)[i] = y[i]
      /\ \A i \in 1 .. Len(c) : (y \o c)[Len(y) + i] = c[i]
  <2>1. /\ Len(y \o c) = Len(y) + Len(c)
        /\ \A i \in 1 .. Len(y) + Len(c) : (y \o c)[i] = IF i <= Len(y) THEN y[i] ELSE c[i - Len(y)]
    BY <1>1, ConcatProperties
  <2>2. Len(y) \in Nat /\ Len(c) \in Nat
    BY <1>1
  <2>3. \A i \in 1 .. Len(y) : i \in 1 .. Len(y) + Len(c) /\ i <= Len(y)
    BY <2>2
  <2>4. \A i \in 1 .. Len(c) : /\ Len(y) + i \in 1 .. Len(y) + Len(c) /\ ~(Len(y) + i <= Len(y))
                               /\ (Len(y) + i) - Len(y) = i
    BY <2>2
  <2> QED
    BY <2>1, <2>3, <2>4
<1>3. Len(x) \in Nat /\ Len(c) \in Nat
  OBVIOUS
<1>4. Len(x) + 1 \in 1 .. Len(y) /\ \A i \in 1 .. Len(x) : i \in 1 .. Len(y)
  BY <1>1, <1>3
<1> QED
  BY <1>1, <1>2, <1>4 DEF y, Below, LiesBelow

\* What is behind the last '/' is the last name.
LEMMA LastSlash ==
  ASSUME NEW u \in Seq(Nat), NEW v \in Seq(Nat), NEW a \in Names, NEW b \in Names,
         NEW w, w = Below(u, a), w = Below(v, b)
  PROVE  u = v /\ a = b
<1>0. a \in Seq(Nat) /\ b \in Seq(Nat) /\ <<Slash>> \in Seq(Nat)
      /\ Len(u) \in Nat /\ Len(v) \in Nat /\ Len(a) \in Nat /\ Len(b) \in Nat
      /\ (\A i \in 1 .. Len(a) : a[i] # Slash) /\ (\A i \in 1 .. Len(b) : b[i] # Slash)
  BY NameFacts DEF Slash
<1>1. a \in Seq(Nat) /\ b \in Seq(Nat)
  BY <1>0
<1>2. /\ Len(w) = Len(u) + 1 + Len(a)
      /\ \A i \in 1 .. Len(u) : w[i] = u[i]
      /\ w[Len(u) + 1] = Slash
      /\ \A i \in 1 .. Len(a) : w[Len(u) + 1 + i] = a[i]
  <2>1. LiesBelow(w, u, a)
    BY <1>1, SlashBetween
  <2> QED
    BY <2>1 DEF LiesBelow
<1>3. /\ Len(w) = Len(v) + 1 + Len(b)
      /\ \A i \in 1 .. Len(v) : w[i] = v[i]
      /\ w[Len(v) + 1] = Slash
      /\ \A i \in 1 .. Len(b) : w[Len(v) + 1 + i] = b[i]
  <2>1. LiesBelow(w, v, b)
    BY <1>1, SlashBetween
  <2> QED
    BY <2>1 DEF LiesBelow
<1>4. ~(Len(u) < Len(v))
  <2> SUFFICES ASSUME Len(u) < Len(v) PROVE FALSE
    OBVIOUS
  <2> DEFINE i == Len(v) - Len(u)
  <2>1. i \in 1 .. Len(a) /\ Len(u) + 1 + i = Len(v) + 1
    BY <1>0, <1>2, <1>3
  <2> QED
    BY <1>0, <1>2, <1>3, <2>1, ZenonT(40)
<1>5. ~(Len(v) < Len(u))
  <2> SUFFICES ASSUME Len(v) < Len(u) PROVE FALSE
    OBVIOUS
  <2> DEFINE i == Len(u) - Len(v)
  <2>1. i \in 1 .. Len(b) /\ Len(v) + 1 + i = Len(u) + 1
    BY <1>0, <1>2, <1>3
  <2> QED
    BY <1>0, <1>2, <1>3, <2>1, ZenonT(40)
<1>6. Len(u) = Len(v) /\ Len(a) = Len(b)
  BY <1>0, <1>2, <1>3, <1>4, <1>5
<1>7. u = v
  <2>1. \A i \in 1 .. Len(u) : u[i] = v[i]
    BY <1>2, <1>3, <1>6
  <2> QED
    BY <1>6, <2>1, SameSequence
<1>8. a = b
  <2>1. \A i \in 1 .. Len(a) : a[i] = b[i]
    BY <1>2, <1>3, <1>6
  <2> QED
    BY <1>0, <1>6, <2>1, SameSequence
<1> QED
  BY <1>7, <1>8

\* Joining is undone by splitting at the '/': no two paths give the same bytes.
LEMMA JoinedOnce ==
  ASSUME NEW p \in Paths, NEW q \in Paths
  PROVE  \A i \in Nat : \A j \in Nat :
           i + 1 <= Len(p) /\ j + 1 <= Len(q) /\ Joined(p)[i + 1] = Joined(q)[j + 1] =>
             i = j /\ \A l \in 1 .. i + 1 : p[l] = q[l]
<1>0. /\ Len(p) \in Nat \ {0} /\ Len(q) \in Nat \ {0}
      /\ \A k \in 1 .. Len(p) : p[k] \in Names
      /\ \A k \in 1 .. Len(q) : q[k] \in Names
  BY PathFacts
<1>1. ASSUME NEW x \in Paths, NEW k \in Nat, (k + 1) + 1 <= Len(x)
      PROVE  /\ Joined(x)[(k + 1) + 1] = Below(Joined(x)[k + 1], x[(k + 1) + 1])
             /\ Joined(x)[k + 1] \in Seq(Nat) /\ x[(k + 1) + 1] \in Names
  <2>1. Len(x) \in Nat /\ x \in Seq(Names)
    BY PathFacts
  <2>2. k + 1 \in 1 .. Len(x) - 1 /\ k + 1 \in 1 .. Len(x) /\ (k + 1) + 1 \in 1 .. Len(x)
    BY <1>1, <2>1
  <2> QED
    <3>1. x[(k + 1) + 1] \in Names
      BY <2>1, <2>2
    <3> QED
      BY <2>2, <3>1, JoinedSteps, Zenon DEF Below
\* A joined path of more than one name has a '/', a name has none.
<1>2. ASSUME NEW x \in Paths, NEW k \in Nat, (k + 1) + 1 <= Len(x), NEW n \in Names
      PROVE  n # Joined(x)[(k + 1) + 1]
  <2>1. PICK u \in Seq(Nat), a \in Names : Joined(x)[(k + 1) + 1] = Below(u, a)
    BY <1>1, <1>2
  <2>2. a \in Seq(Nat) /\ Len(a) \in Nat /\ Len(u) \in Nat
    BY NameFacts
  <2>3. Len(Below(u, a)) = Len(u) + 1 + Len(a) /\ Below(u, a)[Len(u) + 1] = Slash
    BY <2>2, SlashBetween DEF LiesBelow
  <2>4. Len(u) + 1 \in 1 .. Len(u) + 1 + Len(a)
    BY <2>2
  <2> QED
    BY <2>1, <2>3, <2>4, NameFacts
<1> DEFINE G == {i \in Nat : \A j \in Nat :
                   i + 1 <= Len(p) /\ j + 1 <= Len(q) /\ Joined(p)[i + 1] = Joined(q)[j + 1] =>
                     i = j /\ \A l \in 1 .. i + 1 : p[l] = q[l]}
<1>3. 0 \in G
  <2> SUFFICES ASSUME NEW j \in Nat, j + 1 <= Len(q), Joined(p)[1] = Joined(q)[j + 1]
               PROVE  0 = j /\ \A l \in 1 .. 1 : p[l] = q[l]
    OBVIOUS
  <2>1. Joined(p)[1] = p[1] /\ p[1] \in Names /\ Joined(q)[1] = q[1]
    <3>1. 1 \in 1 .. Len(p)
      BY <1>0
    <3> QED
      BY <1>0, <3>1, JoinedSteps, Zenon
  <2>2. j = 0
    <3> SUFFICES ASSUME j # 0 PROVE FALSE
      OBVIOUS
    <3>1. PICK k \in Nat : j = k + 1
      <4>1. j - 1 \in Nat /\ j = (j - 1) + 1
        OBVIOUS
      <4> QED
        BY <4>1
    <3> QED
      BY <1>2, <2>1, <3>1
  <2>3. p[1] = q[1]
    <3>1. j + 1 = 1
      BY <2>2
    <3> QED
      BY <2>1, <3>1, Zenon
  <2>4. \A l \in 1 .. 1 : l = 1
    OBVIOUS
  <2> QED
    BY <2>2, <2>3, <2>4, Zenon
<1>4. ASSUME NEW i \in Nat, i \in G PROVE i + 1 \in G
  <2> SUFFICES ASSUME NEW j \in Nat, (i + 1) + 1 <= Len(p), j + 1 <= Len(q),
                      Joined(p)[(i + 1) + 1] = Joined(q)[j + 1]
               PROVE  i + 1 = j /\ \A l \in 1 .. (i + 1) + 1 : p[l] = q[l]
    OBVIOUS
  <2>1. j # 0
    <3> SUFFICES ASSUME j = 0 PROVE FALSE
      OBVIOUS
    <3>1. Joined(q)[1] = q[1] /\ q[1] \in Names
      <4>1. 1 \in 1 .. Len(q)
        BY <1>0
      <4> QED
        BY <1>0, <4>1, JoinedSteps, Zenon
    <3> QED
      BY <1>2, <3>1
  <2>2. PICK k \in Nat : j = k + 1
    <3>1. j - 1 \in Nat /\ j = (j - 1) + 1
      BY <2>1
    <3> QED
      BY <3>1
  <2>3. Joined(p)[i + 1] = Joined(q)[k + 1] /\ p[(i + 1) + 1] = q[(k + 1) + 1]
    <3>1. /\ Joined(p)[(i + 1) + 1] = Below(Joined(p)[i + 1], p[(i + 1) + 1])
          /\ Joined(p)[i + 1] \in Seq(Nat) /\ p[(i + 1) + 1] \in Names
      BY <1>1
    <3>2. /\ Joined(q)[(k + 1) + 1] = Below(Joined(q)[k + 1], q[(k + 1) + 1])
          /\ Joined(q)[k + 1] \in Seq(Nat) /\ q[(k + 1) + 1] \in Names
      BY <1>1, <2>2
    <3>3. Below(Joined(p)[i + 1], p[(i + 1) + 1]) = Below(Joined(q)[k + 1], q[(k + 1) + 1])
      BY <2>2, <3>1, <3>2
    <3> QED
      <4>1. PICK u, v, a, b : /\ u = Joined(p)[i + 1] /\ a = p[(i + 1) + 1]
                              /\ v = Joined(q)[k + 1] /\ b = q[(k + 1) + 1]
        OBVIOUS
      <4>2. PICK w : w = Below(u, a)
        OBVIOUS
      <4>3. u \in Seq(Nat) /\ v \in Seq(Nat) /\ a \in Names /\ b \in Names /\ w = Below(v, b)
        BY <3>1, <3>2, <3>3, <4>1, <4>2, Zenon
      <4>4. u = v /\ a = b
        BY <4>2, <4>3, LastSlash
      <4> QED
        BY <4>1, <4>4, Zenon
  <2>4. i = k /\ \A l \in 1 .. i + 1 : p[l] = q[l]
    <3>1. i + 1 <= Len(p) /\ k + 1 <= Len(q)
      BY <1>0, <2>2
    <3> QED
      BY <1>4, <2>3, <3>1
  <2>5. \A l \in 1 .. (i + 1) + 1 : l \in 1 .. i + 1 \/ l = (i + 1) + 1
    OBVIOUS
  <2> QED
    BY <2>2, <2>3, <2>4, <2>5
<1>5. Nat \subseteq G
  <2> HIDE DEF G
  <2> QED
    BY <1>3, <1>4, SetInduction
<1> QED
  BY <1>5

LEMMA BytesFacts ==
  ASSUME NEW p \in Paths
  PROVE  /\ Bytes(p) \in Seq(Nat)
         /\ \A q \in Paths : Bytes(p) = Bytes(q) => p = q
<1>1. Len(p) \in Nat \ {0} /\ p \in Seq(Names)
  BY PathFacts
<1>2. Bytes(p) \in Seq(Nat)
  <2>1. Len(p) \in 1 .. Len(p)
    BY <1>1
  <2> QED
    BY <2>1, JoinedSteps, Zenon DEF Bytes
<1>3. ASSUME NEW q \in Paths, Bytes(p) = Bytes(q) PROVE p = q
  <2>1. Len(q) \in Nat \ {0} /\ q \in Seq(Names)
    BY PathFacts
  <2>2. PICK i \in Nat, j \in Nat : Len(p) = i + 1 /\ Len(q) = j + 1
    <3>1. Len(p) - 1 \in Nat /\ Len(p) = (Len(p) - 1) + 1 /\ Len(q) - 1 \in Nat /\ Len(q) = (Len(q) - 1) + 1
      BY <1>1, <2>1
    <3> QED
      BY <3>1
  <2>3. Joined(p)[i + 1] = Joined(q)[j + 1]
    BY <1>3, <2>2 DEF Bytes
  <2>4. i = j /\ \A l \in 1 .. i + 1 : p[l] = q[l]
    BY <2>2, <2>3, JoinedOnce
  <2> QED
    BY <1>1, <2>1, <2>2, <2>4, SameSequence
<1> QED
  BY <1>2, <1>3
-----------------------------------------------------------------------------
\* When ingest is done, no observation stands behind a larger one.
SortedInv == pc = "done" => \A k \in DOMAIN out : \A j \in 1 .. k - 1 : ~cmp_obs(out[k], out[j])

LEMMA SortedAlways == Spec => []SortedInv
<1>1. Init => SortedInv
  BY DEF Init, SortedInv
<1>2. IngestInv /\ SortedInv /\ [Next]_vars => SortedInv'
  <2> SUFFICES ASSUME IngestInv, SortedInv, [Next]_vars, pc' = "done" PROVE SortedInv'
    BY DEF SortedInv
  <2>1. CASE Sort
    <3>1. DOMAIN out' = DOMAIN out
      <4>1. DOMAIN out = 1 .. Len(out) /\ DOMAIN out' = 1 .. Len(out') /\ Len(out') = Len(out)
        BY <2>1, SortFacts DEF IngestInv, LocalsOK
      <4> QED
        BY <4>1
    <3> QED
      BY <2>1, <3>1 DEF Sort, SortedInv, cmp_obs, LexLess, Bytes, Joined
  <2>2. CASE Others \/ UNCHANGED vars
    <3>1. pc' = pc /\ out' = out
      BY <2>2 DEF Others, Create, Unlink, Rename, Rewrite, Chmod, Change, vars, local
    <3> QED
      BY <3>1 DEF SortedInv, cmp_obs
  <2>3. CASE Program /\ ~Sort
    <3>1. pc' # "done"
      <4>1. NextEntry => pc' = "lstat"
        BY DEF NextEntry
      <4>2. Lstat => pc' # "done"
        <5>1. Lstat /\ Exists(path) => kind' \in Kind
          BY NodeFacts, ContentFacts DEF Lstat, IngestInv, LocalsOK, AtEntry
        <5> QED
          BY <5>1 DEF Lstat, Kind
      <4>3. EndOfDir => pc' # "done"
        BY DEF EndOfDir
      <4>4. OpenRoot \/ Open \/ Read \/ Unread \/ Probe \/ Descend \/ Fail => pc' # "done"
        BY DEF OpenRoot, Open, Read, Unread, Probe, Descend, Fail
      <4> QED
        BY <2>3, <4>1, <4>2, <4>3, <4>4 DEF Program
    <3> QED
      BY <3>1
  <2> QED
    BY <2>1, <2>2, <2>3 DEF Next, Done
<1> QED
  BY <1>1, <1>2, IngestInvariant, PTL DEF Spec

(* A tree nobody changes is listed in strict byte order of its paths,      *)
(* whatever order readdir returns the names in and whatever calls fail: no *)
(* two paths are of the same bytes and none is observed twice.             *)
THEOREM IngestSortedByPath == Spec => []SortedByPath
<1>1. IngestInv /\ StableInv /\ SortedInv => SortedByPath
  <2> SUFFICES ASSUME IngestInv, StableInv, SortedInv, pc = "done", touched = {}, NEW k \in 1 .. Len(out) - 1
               PROVE  LexLess(Bytes(out[k].path), Bytes(out[k + 1].path))
    BY DEF SortedByPath
  <2>1. out \in Seq(Observed) /\ Len(out) \in Nat /\ DOMAIN out = 1 .. Len(out)
    BY DEF IngestInv, LocalsOK
  <2>2. PICK i : i = k + 1
    OBVIOUS
  <2>3. k \in DOMAIN out /\ i \in DOMAIN out /\ k # i /\ k \in 1 .. i - 1
    BY <2>1, <2>2
  <2>4. out[k].path \in Paths /\ out[i].path \in Paths
    <3>1. out[k] \in Observed /\ out[i] \in Observed
      BY <2>1, <2>3
    <3> QED
      BY <3>1 DEF Observed
  <2>5. out[k].path # out[i].path
    <3>1. \A j \in Seen(out[k].path) : Seen(out[k].path) = {j}
      BY <2>4 DEF StableInv, StableOK, SoFar, SeenAs
    <3>2. k \in Seen(out[k].path)
      BY <2>3 DEF Seen
    <3>3. out[i].path = out[k].path => i \in Seen(out[k].path)
      BY <2>3 DEF Seen
    <3> QED
      BY <2>3, <3>1, <3>2, <3>3
  <2>6. ~LexLess(Bytes(out[i].path), Bytes(out[k].path))
    BY <2>3 DEF SortedInv, cmp_obs
  <2>7. LexLess(Bytes(out[k].path), Bytes(out[i].path))
    BY <2>4, <2>5, <2>6, BytesFacts, LexTotal
  <2> QED
    BY <2>2, <2>7
<1> QED
  BY <1>1, IngestInvariant, StableInvAlways, SortedAlways, PTL
=============================================================================
