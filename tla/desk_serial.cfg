\* One request at a time: the promises that rest on a check made before the write.
SPECIFICATION Spec
CONSTANTS
    None = None
    NoOrder = NoOrder
    NoPayment = NoPayment
    o1 = o1
    Sessions = {s1}
    Orders = {o1, o2}
    Payments = {p1, p2}
    Dates = {0, 1}
    Ops = {"create", "replace", "step", "cancel", "restore", "close", "reopen", "receive", "refund", "reschedule"}
    DayLength = 2
    NightEnds = 1
    FirstMoment = 3
    LastMoment = 3
    MaxRequests = 4
    FixMinutes = 1
    Amounts = {1, 2}
    Methods = {fiado}
    FiadoMethods = {fiado}
    DueDates = {0}
    ImportedNight = 0
    Imported <- OneImported
INVARIANTS
    StatusFitsType
    FiadoSound
    TrailChains
    RevenueAndDebt
PROPERTIES
    NoCloseWithOpenTab
    ClosedNightIsAdmins
    MoneyEditsAuthorized
SYMMETRY Interchangeable
CHECK_DEADLOCK FALSE
