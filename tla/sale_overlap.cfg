\* Sales launched two at a time over two supplies.
SPECIFICATION FairSpec
CONSTANTS
    None = None
    NoLot = NoLot
    u1 = u1
    u2 = u2
    Sessions = {s1, s2}
    Orders = {d1}
    Consumptions = {c1, c2}
    Supplies = {u1, u2}
    MaxLots = 3
    Needs <- CrossedNeeds
    Units = {0, 1, 2}
    Expiries = {5, 9}
    NoDate = 9
    Stocked <- TwoSupplies
    Ops = {"create", "consume"}
    MaxRequests = 3
INVARIANTS
    NeverNegative
PROPERTIES
    KeepsThePromise
    FirstToExpireFirst
    EveryTransactionEnds
CHECK_DEADLOCK FALSE
