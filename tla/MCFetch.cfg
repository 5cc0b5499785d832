CONSTANTS
  Peer = {p1, p2}
  MaxNumber = 2
  CacheLimit = 1
  MaxResults = 1
  Capacities = {1}
  EmptyBody = {}
  EmptyReceipts = {}
  SnapSync = FALSE
  Steady = {p1}
  EventCap = 2
  MaxJoins = 2
SPECIFICATION FetchSpec
PROPERTIES EndsWhenDone CycleEnds
CHECK_DEADLOCK FALSE
