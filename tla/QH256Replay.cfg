SPECIFICATION FairSpec
CONSTANTS
  Words = 2
  WordBits = 2
  ByteBits = 1
  Deltas <- MCDeltas
  MaxLength = 4
INVARIANTS EvidenceExact OrderAndRepetitionFree
PROPERTIES KnowledgeGrows Converges
