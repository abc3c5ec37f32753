\* Two launches, edits, counts and one entry, two at a time, over one supply.
SPECIFICATION Spec
CONSTANTS
    None = None
    NoLot = NoLot
    u1 = u1
    u2 = u2
    Sessions = {s1, s2}
    Orders = {d1}
    Consumptions = {c1}
    Supplies = {u1}
    MaxLots = 2
    Needs <- OneOrTwo
    Units = {0, 1}
    Expiries = {9}
    NoDate = 9
    Stocked <- OneLot
    Ops = {"create", "edit", "consume", "reconsume", "entry", "count"}
    MaxRequests = 4
INVARIANTS
    LedgerBalances
    ReturnsOnlyWhatWasTaken
    TakesWhatItNeeds
SYMMETRY Interchangeable
CHECK_DEADLOCK FALSE
