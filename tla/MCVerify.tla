------------------------------ MODULE MCVerify ------------------------------
EXTENDS Verify

\* A readable file in two versions, an unreadable one, a directory.
File(p, c, s) == [path |-> p, object_type |-> 1, size_present |-> TRUE,
                  size_bytes |-> 7, content_present |-> c # "none", content_sha256 |-> c,
                  stamp |-> s, readable |-> c # "none"]
Dir(n) == [path |-> <<n>>, object_type |-> 2, size_present |-> FALSE, size_bytes |-> 0,
           content_present |-> FALSE, content_sha256 |-> "zero", stamp |-> 0, readable |-> TRUE]

\* Three files of a size that fits (the buffer of records exactly), one whose
\* second frame is too long, one of too many frames.
MCTrees == {<<File(<<1>>, "c", 0), Dir(2), File(<<3>>, "none", 0)>>,
            <<File(<<1>>, "d", 1), Dir(2)>>, <<>>,
            <<Dir(1), File(<<2, 2, 2>>, "c", 0)>>,
            <<File(<<1>>, "c", 0), Dir(2), Dir(3), Dir(4)>>}
MCRootIds == {<<"r">>, <<>>}
MCGarbage == {0, 7}

\* History entries have one size; a record has room for its path and its size.
MCSizeOf(x) == IF "magic" \in DOMAIN x THEN 2
               ELSE Len(x.prefix.path) + 1 + Len(x.prefix.size_bytes)
=============================================================================
