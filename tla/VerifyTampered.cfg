SPECIFICATION Spec
CONSTANTS
  Words = 2
  WordBits = 8
  ByteBits = 4
  ByteValues = 2
  LengthBytes = 2
  SIZE_MAX = 14
  FirstCap = 3
  SizeOf <- MCSizeOf
  Garbage <- MCGarbage
  RootIds <- MCRootIds
  Trees <- MCTrees
  MaxFaults = 1
INVARIANT TamperedHistoryRejected
