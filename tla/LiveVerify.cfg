SPECIFICATION FairLiveSpec
CONSTANTS
  Words = 2
  WordBits = 8
  ByteBits = 4
  Garbage <- MCGarbage
  RootIds <- MCRootIds
  Losable = {}
  Trees <- MCLiveTrees
  MaxRuns = 2
  MaxLapses = 0
INVARIANT LiveTypeOK
PROPERTIES LiveAcceptedIsOneRun QuietVerifierPasses VerifierAnswers RunEnds
CHECK_DEADLOCK FALSE
