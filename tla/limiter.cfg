SPECIFICATION FairSpec
CONSTANTS
  l1 = l1
  l2 = l2
  NULL = NULL
  Limiters = {l1, l2}
  Scripts <- Pairs
  Targeted = {l1}
  MB = 3
  Sizes = {2}
  Rate = 1
  Counts = {3}
  Wrap = 64
  MaxWork = 6
CHECK_DEADLOCK FALSE
INVARIANTS
  Paid
  EventsConserved
PROPERTIES
  AllCharged
  Served
