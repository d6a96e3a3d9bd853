SPECIFICATION FairSpec
CONSTANTS
  Names <- MCNames
  Paths <- MCPaths
  Inodes = {1, 2, 3}
  Chunks <- MCChunks
  Contents <- MCContents
  Trees <- MCTrees
  MaxChanges = 2
  MaxErrors = 1
INVARIANTS StableSeenOnce FailuresOnlyOmit ObservedWasThere SortedByPath FailureHasCause
PROPERTY Ends
