SPECIFICATION FairSpec
CONSTANTS
  Lanes = 8
  Starts <- MCStarts
  Rounds = 8
INVARIANTS TypeOK InvalidCarried RoutingLosesNothing
PROPERTY Returns
