--------------------------- MODULE MCQH256Replay ---------------------------
EXTENDS QH256Replay

\* One cell set in each word, agreeing, conflicting and guarded evidence.
Delta(c, s) == SetCell(Unknown, c, s)
MCDeltas == {Delta(0, QH_TRUE), Delta(0, QH_FALSE), Delta(3, QH_TRUE),
             Merge(Delta(3, QH_GUARD), Delta(1, QH_FALSE))}
=============================================================================
