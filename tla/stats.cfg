SPECIFICATION FairSpec
CONSTANTS
  NThreads = 2
  Proc <- OneProc
  Iters <- TwoIters
  Composites = {2}
  Kinds <- TwoKinds
  Limit = 1
  Fails = TRUE
  MaxCmds = 3
CHECK_DEADLOCK FALSE
INVARIANTS ReportBounded FreezeHolds FinishBounded
PROPERTY Finishes
