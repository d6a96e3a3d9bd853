----------------------------- MODULE MCQH256v01 -----------------------------
EXTENDS QH256v01

\* Both cells of one byte, one of the other, and the first illegal index.
MCIndex == {0, 1, 3, QH256_CELLS}
\* Every state and the first value outside the enumeration.
MCValue == 0 .. 4
\* Evidence on cells of both words.
MCOperands == {SetCell(Unknown, 2, s) : s \in State}
               \cup {SetCell(SetCell(Unknown, 1, QH_TRUE), 3, QH_FALSE)}
=============================================================================
