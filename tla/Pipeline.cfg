SPECIFICATION Spec
CONSTANTS
  Words = 2
  WordBits = 8
  ByteBits = 4
  Garbage <- MCGarbage
  RootIds <- MCRootIds
  Losable = {"path", "rest"}
  Trees <- MCTrees
  MaxRuns = 3
  MaxLapses = 2
INVARIANTS PassMeansVerified AcceptedIsOneRun AcceptedIsWholeRun WriteOrder ManifestDescribesRun
PROPERTIES PassIsDurable
CHECK_DEADLOCK FALSE
