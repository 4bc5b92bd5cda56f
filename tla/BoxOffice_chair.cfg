SPECIFICATION Spec
CONSTANTS
    o1 = o1
    o2 = o2
    floor = floor
    row = row
    f1 = f1
    f2 = f2
    f3 = f3
    f4 = f4
    s1 = s1
    NoOrder = NoOrder
    Orders = {o1, o2}
    Tiers = {row}
    Units = {s1}
    Seats = {s1}
    TierOf <- ChairTierOf
    Basket <- ChairBasket
    AreaCapacity <- ChairCapacity
    Editions <- ChairEditions
    Outcomes = {"paid", "refunded"}
    NoticesMayBeLost = TRUE
    DateMayMove = FALSE
    Cached = FALSE
    MaxOpen = 1
    MaxCalls = 1
    MaxFailures = 0
SYMMETRY ChairSymmetry
INVARIANTS SeatsMatchOrders
PROPERTIES KeepsTheSale
CHECK_DEADLOCK FALSE
