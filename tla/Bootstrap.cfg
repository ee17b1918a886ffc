SPECIFICATION FairSpec
CONSTANTS
    p1 = p1  p2 = p2  p3 = p3  q = q
    a1 = a1  a2 = a2  a3 = a3  b3 = b3
    w1 = w1
    Peers = {p1, p2, p3}
    Addrs = {a1, a2, a3, b3}
    PeerOf <- MCPeerOf
    Lists <- MCLists
    Reachable = {a1, a3, b3}
    DefaultMin = 2
    Waits = {w1}
    PeerCountOf <- MCPeerCountOf
    MaxLost = 1
CHECK_DEADLOCK FALSE
INVARIANTS
    TypeOK
    NeverOvershoots
    ListSuffices
PROPERTIES
    ConnectionsRestored
    StopEnds
    BootstrapWaitReturns
