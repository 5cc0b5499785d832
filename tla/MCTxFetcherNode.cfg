CONSTANTS
  Peer = {p1}
  Hash = {h1}
  NoPeer = NoPeer
  NoMeta = NoMeta
  Meta <- MCTwoMetas
  TxMeta <- MCTxMeta
  MaxTxAnnounces = 2
  MaxTxRetrievals = 1
  MaxTxRetrievalSize = 2
  MaxSenders = 2
SPECIFICATION FairNodeSpec
INVARIANTS GoneForgotten
PROPERTIES  CallsReturn LiarLeaves 
CHECK_DEADLOCK FALSE
