CONSTANTS
  Peer = {p1, p2}
  MaxNumber = 4
  CacheLimit = 2
  MaxResults = 1
  Capacities = {2}
  EmptyBody = {1, 2}
  EmptyReceipts = {1}
  SnapSync = TRUE
SPECIFICATION Spec
SYMMETRY MCSymmetry
INVARIANTS TasksKept NoLostWakeup
PROPERTIES HandedOutComplete
CHECK_DEADLOCK FALSE
