SPECIFICATION Spec
CONSTANTS
    s1 = s1  s2 = s2  s3 = s3  s4 = s4
    c1 = c1  c2 = c2  l1 = l1  l2 = l2
    Clients = {c1}
    Loops = {l1}
    Signers = {s1, s2, s3}
    Faulty = {}
    Rounds <- ForkedChainRounds
    HeightOf <- MCHeightOf
    Heights = {1, 2}
    Vectors <- OneSigner
    MaxCount = 2
    MaxPublished = 2
    NoRound = NoRound
    NoMsg = NoMsg
    NoLoop = NoLoop
SYMMETRY Symmetry
CHECK_DEADLOCK FALSE
PROPERTIES
    ImplementsNotaryRounds
INVARIANTS
    CurrentHasQuorum
    PublishedInOrder
    HeardRoundReached
