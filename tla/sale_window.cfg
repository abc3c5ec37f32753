\* A sale whose lots grow between its lock and its read.
SPECIFICATION Spec
CONSTANTS
    None = None
    NoLot = NoLot
    u1 = u1
    u2 = u2
    Sessions = {s1, s2}
    Orders = {d1}
    Consumptions = {c1}
    Supplies = {u1}
    MaxLots = 1
    Needs <- OneOrTwo
    Units = {1}
    Expiries = {9}
    NoDate = 9
    Stocked <- NothingStocked
    Ops = {"create", "consume", "entry"}
    MaxRequests = 4
INVARIANT
    NeverNegative
SYMMETRY Interchangeable
CHECK_DEADLOCK FALSE
