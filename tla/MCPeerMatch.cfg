CONSTANTS
  Name = {0, 1, 2}
  Version = {0, 1}
  Length <- MCLength
  BaseProtocolLength = 2
  NoMatch = NoMatch
SPECIFICATION MatchSpec
INVARIANTS CodesShared SidesAgree
CHECK_DEADLOCK FALSE
