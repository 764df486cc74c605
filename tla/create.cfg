SPECIFICATION FairSpec
CONSTANTS
  Files = {0, 1}
  Dirs = {10}
  LeafDirs = {20}
  Threads = {master, worker}
  Master = master
  NULL = NULL
  Paralloc = TRUE
  Reuse = TRUE
  Trust = FALSE
  Partial = TRUE
  AllocFails = TRUE
  Limits = {1, 2}
  MaxCreates = 2
  MaxLost = 2
  MaxSurplus = 1
INVARIANT
  ReadyWhenOK
PROPERTY
  CreateReturns
