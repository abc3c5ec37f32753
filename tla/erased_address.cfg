\* The order form alone: one customer without a phone, a name spelled two ways.
SPECIFICATION ShopSpec
CONSTANTS
    None = None
    NoOrder = NoOrder
    NoPayment = NoPayment
    NoExpense = NoExpense
    NoProduct = NoProduct
    e1 = e1
    k1 = k1
    k2 = k2
    p1 = p1
    p2 = p2
    p3 = p3
    u1 = u1
    sheet = sheet
    NoCustomer = NoCustomer
    c1 = c1
    c2 = c2
    n1 = n1
    n1b = n1b
    f1 = f1
    a1 = a1
    a2 = a2
    x1 = x1
    b1 = b1
    v1 = v1
    Sessions = {s1, s2}
    Alone = s1
    Scenes = {"form"}
    Orders = {}
    Payments = {}
    Dates = {0, 1, 2}
    Ops = {"launch", "edit", "remove", "mark", "close", "reopen", "product", "supply", "addons", "import"}
    DayLength = 2
    NightEnds = 1
    FirstMoment = 3
    LastMoment = 4
    MaxRequests = 3
    FixMinutes = 1
    Amounts = {1}
    Methods = {}
    FiadoMethods = {}
    DueDates = {}
    Expenses = {e1, e2}
    Keys = {k1, k2}
    Totals <- LinesOf
    ExpenseAmounts = {6}
    LaunchedBefore <- LaunchedOrNot
    Products = {p1, p2, p3}
    MenuProducts = {p1, p2}
    Ingredients = {u1}
    g1 = g1
    g2 = g2
    Categories = {g1, g2, g3}
    CategoryOf <- Categorized
    Position <- InOrder
    Numbered = {p1}
    Packaging = {}
    Baskets <- ThreeBaskets
    Sources = {sheet}
    Prices = {1, 2}
    Costs = {1}
    Sheets <- TwoSheets
    MenusBefore <- MenuOrNot
    Lists = {l1, l2}
    PickedDates = {None, 1}
    MaxMoments = 2
    MaxOvertakes = 1
    Customers = {c1}
    Names = {n1, n1b}
    Phones = {f1}
    Places = {a1}
    KeyOf <- Spelled
    CustomersBefore <- OneWithoutPhone
    MaxMoves = 3
    MaxSaves = 1
    SaleItems = {x1, x2}
    AddonItems = {b1}
    RemovalChoices = {{v1}, {v1, v2}}
    Notes = {t1}
    LineCap = 3
    SavedOrders <- StoredOrders
    MaxTyped = 4
PROPERTIES
    CounterKeepsAddress
CHECK_DEADLOCK FALSE
