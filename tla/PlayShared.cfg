SPECIFICATION Spec
CONSTANTS
    c1 = c1  c2 = c2
    u1 = u1  u2 = u2  u3 = u3
    o1 = o1  o2 = o2
    k1 = k1  k2 = k2
    data = data  give = give
    Clients = {c1, c2}
    Sessions = {u1, u2}
    ClientOf <- MCClientOf
    ObjectOf <- MCObjectOf
    Objects = {o1, o2}
    Keys = {k1, k2}
    KeysOf <- MCKeysOf
    GenesisKey <- MCGenesisKey
    Blocks = {data, give}
    NewOwners <- MCNewOwners
    MaxRounds = 3
    MaxBlocks = 2
    None = None
CHECK_DEADLOCK FALSE
INVARIANTS
    TypeOK
    TreeIsCommitted
    ReplyVerifies
    SanityCheckHolds
    SignedByOwners
    VerifiedWasCommitted
PROPERTIES
    TreeAdvances
