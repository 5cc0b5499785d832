SPECIFICATION FairSpec
CONSTANTS
    n1 = n1
    n2 = n2
    Node <- MCNode
    Inbound <- MCInbound
    Static <- MCStatic
    Found <- MCFound
    Trusted <- MCTrusted
    MaxDialPeers = 1
    MaxActiveDials = 1
    MaxPeers = 1
    MaxInbound = 1
    MaxDrops = 1
INVARIANTS
    PoolExact
    PeersAgree
    LimitsKept
PROPERTY
    StopReturns
CHECK_DEADLOCK FALSE
