SPECIFICATION FairSpec
CONSTANTS
    s1 = s1  s2 = s2  s3 = s3
    w1 = w1  w2 = w2
    a1 = a1  a2 = a2
    Senders = {s1, s3}
    Waiters = {w1}
    Abrs = {a1, a2}
    AbrOf <- MCAbrOf
    MaxHeight = 2
    NoOne = NoOne
CHECK_DEADLOCK FALSE
INVARIANTS
    TypeOK
    NoSendOnClosedChannel
    NoSecondProof
    NoProofForgotten
PROPERTIES
    WedgedForever
    CallsReturnUnlessWedged
