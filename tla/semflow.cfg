SPECIFICATION FairSpec
CONSTANTS
  NBlockers = 2
  Posters = {p, q}
  Blocking = {p}
  HighWater = 1
  BlockValue = 1
  PostValue = 2
  SemMax = 5
  MaxMissed = 1
  MaxExtra = 2
INVARIANTS
  Conserved
  NoStall
  BacklogBounded
  FailsOnlyIfFree
PROPERTY
  EveryoneReturns
