SPECIFICATION Spec
CONSTANTS
  Files = {0, 1}
  Dirs = {10}
  LeafDirs = {20}
  Threads = {t1, t2}
  NULL = NULL
  Fds = {1}
  Ops = {"openfile", "createfile", "closefile", "deletefile", "statfile", "readwrite", "fsync", "makedir", "removedir", "listdir"}
  Faults = {"open", "io", "parent_mkdir", "opendir", "getdirpath"}
  RotateFd = TRUE
  ByIndex = TRUE
  RunMode = "q1stdone"
  MaxFlowops = 3
CHECK_DEADLOCK FALSE
SYMMETRY ThreadSymmetry
INVARIANT
  DirCountsExact
