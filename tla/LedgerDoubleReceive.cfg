SPECIFICATION Spec
CONSTANTS
    t1 = t1  t2 = t2
    gold = gold  silver = silver
    id1 = id1  id2 = id2
    Trees = {t1, t2}
    Locals = {gold}
    Ids = {id1, id2}
    Amounts = {1}
    Maxima = {0}
    MaxUint = 3
    MaxTxs = 5
    NoToken = NoToken
    NoPolicy = NoPolicy
    Burn = Burn
SYMMETRY Symmetry
CHECK_DEADLOCK FALSE
INVARIANTS
    NoDoubleReceive
