SPECIFICATION Spec
CONSTANTS
    o1 = o1
    o2 = o2
    floor = floor
    row = row
    f1 = f1
    f2 = f2
    f3 = f3
    f4 = f4
    s1 = s1
    NoOrder = NoOrder
    Orders = {o1, o2}
    Tiers = {floor}
    Units = {f1, f2, f3, f4}
    Seats = {}
    TierOf <- FloorTierOf
    Basket <- FloorBasket
    AreaCapacity <- FloorCapacity
    Editions <- FloorEditions
    Outcomes = {"paid", "refunded"}
    NoticesMayBeLost = FALSE
    DateMayMove = FALSE
    Cached = FALSE
    MaxOpen = 1
    MaxCalls = 1
    MaxFailures = 0
SYMMETRY FloorSymmetry
INVARIANTS NoOversell StockMatchesOrders
CHECK_DEADLOCK FALSE
