SPECIFICATION Spec
CONSTANTS
  Files = {0, 1}
  Dirs = {}
  LeafDirs = {}
  Threads = {t1, t2}
  NULL = NULL
  Fds = {0}
  Ops = {"openfile", "createfile", "closefile", "deletefile", "statfile"}
  Faults = {"open"}
  RotateFd = FALSE
  ByIndex = FALSE
  RunMode = "timeout"
  MaxFlowops = 4
SYMMETRY ThreadSymmetry
INVARIANTS
  TreesMatchFlags
  BusyIsExclusive
  IdleCountCovers
  BusyWaiterWillBeWoken
  FlagsMatchDisk
  OpenCountExact
PROPERTIES
  ClaimsAreALock
  NoUnlinkWhileOpenElsewhere
