\* Two requests at a time over one fiado order.
SPECIFICATION Spec
CONSTANTS
    None = None
    NoOrder = NoOrder
    NoPayment = NoPayment
    o1 = o1
    Sessions = {s1, s2}
    Orders = {o1}
    Payments = {p1, p2}
    Dates = {0, 1, 2}
    Ops = {"create", "cancel", "receive", "refund"}
    DayLength = 2
    NightEnds = 1
    FirstMoment = 3
    LastMoment = 4
    MaxRequests = 5
    FixMinutes = 1
    Amounts = {2}
    Methods = {fiado}
    FiadoMethods = {fiado}
    DueDates = {}
    ImportedNight = 0
    Imported <- NothingImported
INVARIANTS
    TrailTellsPaid
    ReferencesHold
PROPERTIES
    LeavesATrail
SYMMETRY Interchangeable
CHECK_DEADLOCK FALSE
