CONSTANTS
  Proto = {q1, q2}
  Ping = Ping
  Caller = {d1}
  PingCap = 1
SPECIFICATION FairSpec
INVARIANTS OneWriter
PROPERTIES NoWriteAfterFailure ShutdownEnds DisconnectReturns
CHECK_DEADLOCK FALSE
