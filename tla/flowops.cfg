SPECIFICATION FairSpec
CONSTANTS
  Threads = {1, 2}
  Program <- Wakers
  NSlots = 14
  MaxRuns = 2
  NULL = NULL
INVARIANTS ListExact TargetsComplete SlotsExclusive FailsOnlyFull
PROPERTY Woken
CHECK_DEADLOCK FALSE
