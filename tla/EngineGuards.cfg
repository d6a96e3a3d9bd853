SPECIFICATION Spec
CONSTANTS
  Lanes = 8
  Starts <- MCStarts
  Rounds = 8
PROPERTY GuardDominance
