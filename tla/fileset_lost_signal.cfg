SPECIFICATION FairSpec
CONSTANTS
  Files = {0, 1}
  Dirs = {}
  LeafDirs = {}
  Threads = {t1, t2, t3, t4}
  NULL = NULL
  Fds = {1}
  Ops = {"statfile"}
  Faults = {}
  RotateFd = FALSE
  ByIndex = FALSE
  RunMode = "timeout"
  MaxFlowops = 1
CHECK_DEADLOCK FALSE
PROPERTY IdleWaiterReleased
