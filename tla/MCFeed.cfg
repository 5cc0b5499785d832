CONSTANTS
  Chan = {c1, c2, c3}
  Sender = {s1, s2}
  Capacity = 1
SPECIFICATION FairSpec
INVARIANTS OneOrder ReachesAll
PROPERTIES FeedImplements UnsubscribeReturns SendReturns
