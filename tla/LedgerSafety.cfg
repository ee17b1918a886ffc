SPECIFICATION Spec
CONSTANTS
    t1 = t1  t2 = t2
    gold = gold  silver = silver
    id1 = id1  id2 = id2
    Trees = {t1, t2}
    Locals = {gold, silver}
    Ids = {id1, id2}
    Amounts = {1, 2}
    Maxima = {2}
    MaxUint = 3
    MaxTxs = 7
    NoToken = NoToken
    NoPolicy = NoPolicy
    Burn = Burn
SYMMETRY Symmetry
CHECK_DEADLOCK FALSE
INVARIANTS
    BalanceMatchesHistory
    NeverOverspent
    ReceivedWasSent
    NoInflation
