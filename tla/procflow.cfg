SPECIFICATION FairSpec
CONSTANTS
  Instances = 2
  MaxRuns = 1
  RunMode = "timeout"
  Returns = {"ERROR", "DONE"}
  Faults = {"fork", "exec", "thread", "flowop", "die"}
  NULL = NULL
CHECK_DEADLOCK FALSE
INVARIANTS
  QuietAfterShutdown
  CountCoversLiving
PROPERTY
  EverythingEnds
