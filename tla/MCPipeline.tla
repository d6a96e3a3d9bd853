----------------------------- MODULE MCPipeline -----------------------------
EXTENDS Pipeline

\* An unreadable file without content hash, a directory without size, and the
\* file again after its content and stamp changed.
File(c, s) == [path |-> <<1>>, object_type |-> 1, size_present |-> TRUE, size_bytes |-> 7,
               content_present |-> c # "none", content_sha256 |-> c, stamp |-> s,
               readable |-> c # "none"]
Dir(n)     == [path |-> <<n>>, object_type |-> 2, size_present |-> FALSE, size_bytes |-> 0,
               content_present |-> FALSE, content_sha256 |-> "zero", stamp |-> 0,
               readable |-> TRUE]

MCTrees   == {<<>>, <<File("none", 0), Dir(2)>>, <<File("c", 1), Dir(2)>>,
              <<File("none", 0)>>}
MCRootIds == {<<"r">>}
MCGarbage == {0, 7}
=============================================================================
