\* Two receipts of one fiado order at a time.
SPECIFICATION Spec
CONSTANTS
    None = None
    NoOrder = NoOrder
    NoPayment = NoPayment
    o1 = o1
    Sessions = {s1, s2}
    Orders = {o1}
    Payments = {p1, p2}
    Dates = {0, 1, 2}
    Ops = {"create", "receive"}
    DayLength = 2
    NightEnds = 1
    FirstMoment = 3
    LastMoment = 4
    MaxRequests = 4
    FixMinutes = 1
    Amounts = {1}
    Methods = {fiado}
    FiadoMethods = {fiado}
    DueDates = {}
    ImportedNight = 0
    Imported <- NothingImported
INVARIANT
    FiadoNeverOverpaid
SYMMETRY Interchangeable
CHECK_DEADLOCK FALSE
