SPECIFICATION Spec
CONSTANTS
  Words = 2
  WordBits = 8
  ByteBits = 4
  Garbage <- MCGarbage
  RootIds <- MCRootIds
  Losable = {}
  Trees <- MCTrees
  MaxRuns = 2
  MaxLapses = 0
PROPERTY HistoryAppendOnly
CHECK_DEADLOCK FALSE
