CONSTANTS
  Peer = {p1, p2}
  Hash = {h1, h2}
  NoPeer = NoPeer
  NoMeta = NoMeta
  Meta <- MCOneMeta
  TxMeta <- MCTxMeta
  MaxTxAnnounces = 2
  MaxTxRetrievals = 2
  MaxTxRetrievalSize = 2
SPECIFICATION FairSpec
INVARIANTS MapsAgree NoPanic
PROPERTIES WaitEnds FetchEnds QueueServed
CHECK_DEADLOCK FALSE
