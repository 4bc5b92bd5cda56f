SPECIFICATION Spec
CONSTANTS
    o1 = o1
    o2 = o2
    floor = floor
    row = row
    f1 = f1
    f2 = f2
    f3 = f3
    f4 = f4
    s1 = s1
    NoOrder = NoOrder
    Orders = {o1}
    Tiers = {floor}
    Units = {f1}
    Seats = {}
    TierOf <- LoneTierOf
    Basket <- LoneBasket
    AreaCapacity <- LoneCapacity
    Editions <- LoneEditions
    Outcomes = {"paid", "rejected", "cancelled", "disputed", "refund_requested", "refunded", "charged_back"}
    NoticesMayBeLost = TRUE
    DateMayMove = FALSE
    Cached = FALSE
    MaxOpen = 2
    MaxCalls = 1
    MaxFailures = 0
INVARIANTS CodeDiesWithHold
CHECK_DEADLOCK FALSE
