--------------------------- MODULE MCQH256Vector ---------------------------
EXTENDS QH256Vector, FiniteSets

\* One or two cells that are not UNKNOWN, or one with conflicting evidence: the
\* operations are bitwise, so longer operands repeat these.
MCOperands ==
  {v \in Vector : Cardinality(v.t[0]) + Cardinality(v.t[1])
                  + Cardinality(v.f[0]) + Cardinality(v.f[1]) <= 2}
\* The last legal index and the first illegal one matter.
MCIndex == 0 .. QH256_CELLS
\* Every state and the first value outside the enumeration.
MCValue == 0 .. 4
=============================================================================
