SPECIFICATION FairSpec
CONSTANTS
    s1 = s1  s2 = s2
    w1 = w1  w2 = w2
    d1 = d1  d2 = d2
    p1 = p1
    Starts = {s1, s2}
    Waits = {w2}
    NumOf <- MCNumOf
    Discoverers = {d1, d2}
    Peers = {p1}
    None = None
CHECK_DEADLOCK FALSE
INVARIANTS
    TypeOK
    NoMissedCount
    SuccessWasCounted
    StartedCanBeStopped
PROPERTIES
    WaitReturns
