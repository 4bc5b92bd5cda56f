SPECIFICATION FairSpec
CONSTANTS
    o1 = o1
    o2 = o2
    floor = floor
    row = row
    f1 = f1
    f2 = f2
    f3 = f3
    f4 = f4
    s1 = s1
    NoOrder = NoOrder
    Orders = {o1}
    Tiers = {floor}
    Units = {f1}
    Seats = {}
    TierOf <- LoneTierOf
    Basket <- LoneBasket
    AreaCapacity <- LoneCapacity
    Editions <- LoneEditions
    Outcomes = {"paid", "refund_requested", "refunded"}
    NoticesMayBeLost = FALSE
    DateMayMove = FALSE
    Cached = FALSE
    MaxOpen = 8
    MaxCalls = 1
    MaxFailures = 1
PROPERTIES HoldsEnd PaidMoneySettles RefundsComplete
CHECK_DEADLOCK FALSE
