---------------------------- MODULE MCLiveVerify ----------------------------
EXTENDS LiveVerify, MCPipeline

\* The same two entries before and after the first one changed, and none: a file
\* that becomes shorter for good.
MCLiveTrees == {<<File("none", 0), Dir(2)>>, <<File("c", 1), Dir(2)>>, <<>>}
=============================================================================
