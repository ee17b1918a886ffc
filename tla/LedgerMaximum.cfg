SPECIFICATION Spec
CONSTANTS
    t1 = t1  t2 = t2
    gold = gold  silver = silver
    id1 = id1  id2 = id2
    Trees = {t1}
    Locals = {gold}
    Ids = {id1}
    Amounts = {1, 3}
    Maxima = {2}
    MaxUint = 3
    MaxTxs = 3
    NoToken = NoToken
    NoPolicy = NoPolicy
    Burn = Burn
SYMMETRY Symmetry
CHECK_DEADLOCK FALSE
INVARIANTS
    MaximumRespected
