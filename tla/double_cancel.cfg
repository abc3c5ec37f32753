\* Two cancels of one order at a time.
SPECIFICATION Spec
CONSTANTS
    None = None
    NoLot = NoLot
    u1 = u1
    u2 = u2
    Sessions = {s1, s2}
    Orders = {d1}
    Consumptions = {c1}
    Supplies = {u1}
    MaxLots = 1
    Needs <- OneOrTwo
    Units = {1}
    Expiries = {9}
    NoDate = 9
    Stocked <- OneLot
    Ops = {"create", "cancel"}
    MaxRequests = 3
INVARIANT
    ReturnsOnlyWhatWasTaken
SYMMETRY Interchangeable
CHECK_DEADLOCK FALSE
