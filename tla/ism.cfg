SPECIFICATION FairSpec
CONSTANTS
  Instances = 2
  MaxRuns = 2
  MemSize <- Sizes
  Faults = {"shmget", "shmat"}
INVARIANTS
  ChunksDisjoint
  FitsUnlessLate
PROPERTY
  RunReturns
CHECK_DEADLOCK FALSE
