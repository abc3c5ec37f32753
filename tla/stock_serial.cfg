\* One transaction at a time over one supply.
SPECIFICATION Spec
CONSTANTS
    None = None
    NoLot = NoLot
    u1 = u1
    u2 = u2
    Sessions = {s1}
    Orders = {d1}
    Consumptions = {c1}
    Supplies = {u1}
    MaxLots = 4
    Needs <- OneSupplyNeeds
    Units = {0, 1, 3}
    Expiries = {5, 9}
    NoDate = 9
    Stocked <- TwoLots
    Ops = {"create", "edit", "cancel", "restore", "consume", "reconsume", "remove", "entry", "count", "reverse"}
    MaxRequests = 4
INVARIANTS
    TypeOK
    ReversedLotIsEmpty
PROPERTIES
    FirstToExpireFirst
    KeepsThePromise
CHECK_DEADLOCK FALSE
