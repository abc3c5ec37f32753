\* A night closes while an order is being launched into it.
SPECIFICATION Spec
CONSTANTS
    None = None
    NoOrder = NoOrder
    NoPayment = NoPayment
    o1 = o1
    Sessions = {s1, s2}
    Orders = {o1, o2}
    Payments = {}
    Dates = {0, 1, 2}
    Ops = {"create", "close"}
    DayLength = 2
    NightEnds = 1
    FirstMoment = 3
    LastMoment = 4
    MaxRequests = 4
    FixMinutes = 1
    Amounts = {1}
    Methods = {cash}
    FiadoMethods = {}
    DueDates = {}
    ImportedNight = 0
    Imported <- NothingImported
PROPERTY
    NoCloseWithOpenTab
SYMMETRY Interchangeable
CHECK_DEADLOCK FALSE
