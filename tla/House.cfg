SPECIFICATION HouseSpec
CONSTANTS
    o1 = o1
    o2 = o2
    t1 = t1
    t2 = t2
    d3 = d3
    main = main
    side = side
    Nobody = Nobody
    Orders = {o1, o2}
    Tickets = {t1, t2}
    Doors = {one, two, d3}
    Events = {main, side}
    OrderOf <- MCOrderOf
    EventOf <- MCEventOf
    DoorAt <- MCDoorAt
    idle = idle
    one = one
    two = two
    x = x
    y = y
    Callers = {one, two}
    EventIds = {x, y}
    Drafts <- MCDrafts
    Slots = 1
    MaxItems = 1
    MaxPictures = 2
    Sections = {1, 2}
    Specs <- RoomSpecs
    Letters = 24
    MaxSold = 1
    Parties = {1, 2, 3}
    Drawings <- PlanDrawings
    PriceLists <- MCPriceLists
    PlanTickets = {"t1", "t2"}
    Quantities = {1, 2}
    MaxSaves = 2
    Seats = {x, y}
    Clients = {1}
    MaxVersion = 5
    TierEvent <- MCTierEvent
    TierStatuses = {"draft", "on_sale"}
    MaxQuantity = 2
    Moments = {0, 4}
    PageOrders = {1, 2}
    First = 1
    Owner = "ana"
    Asks <- MCAsks
    Legal <- MCLegal
    BasketRefusals = {"ErrMultipleEvents"}
    CartHoldFor = 1
    HoldFor = 2
    MaxNow = 2
    MaxFaults = 1
    Root = "root"
SYMMETRY HouseSymmetry
INVARIANTS HouseTypes OneEntryPerTicket AnswersTrue CatalogueSound SeatingSound OrderPageSound
PROPERTIES NoEntryOnceRefunded AttendanceKept OldMapSellsNothingTwice
CHECK_DEADLOCK FALSE
