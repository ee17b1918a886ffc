SPECIFICATION Spec
CONSTANTS
    s1 = s1  s2 = s2  s3 = s3  s4 = s4
    c1 = c1  c2 = c2  l1 = l1  l2 = l2
    Clients = {c1, c2}
    Loops = {l1, l2}
    Signers = {s1, s2, s3, s4}
    Faulty = {s4}
    Rounds <- ForkRounds
    HeightOf <- MCHeightOf
    Heights = {1}
    Vectors <- OneSigner
    MaxCount = 1
    MaxPublished = 2
    NoRound = NoRound
    NoMsg = NoMsg
    NoLoop = NoLoop
SYMMETRY Symmetry
CHECK_DEADLOCK FALSE
INVARIANTS
    TypeOK
    Agreement
    NoUnnoticedQuorum
