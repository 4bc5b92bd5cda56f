SPECIFICATION BackstageSpec
CONSTANTS
    idle = idle
    one = one
    two = two
    x = x
    y = y
    Callers = {one, two}
    Hosts = {x, y}
    Holds = {1, 100}
    Moments = {97}
    Day = 48
    DueDays = 1
    Turns <- MCTurns
    MinPixExpiry = 1
    MaxPixExpiry = 1440
    MaxAttempts = 2
    Messages = {"a"}
    Prefetch = 1
    MaxConnections = 2
    MaxDeliveries = 2
    Documents = {"cpf"}
    Versions = {1, 2}
    production = FALSE
    Stems <- MCStems
    Passports <- MCPassports
    Forms <- MCForms
    Todays <- MCTodays
    Phones <- MCPhones
    ufs = {"RN"}
    Genders = {"female"}
    EventIds = {1, 2, 3}
    Card <- MCCard
    TiersOf <- MCTiersOf
    Cities <- MCCities
    Filters <- MCFilters
    PageLimits = {0, 1}
    DefaultPageSize = 2
    MaxPageSize = 2
    MaxOffset = 2
    MaxCities = 1
    Changes = 1
    Notes = {1, 2, 3, 4}
    KeyOf <- MCKeyOf
    Template <- MCTemplate
    Channel <- MCChannel
    Senders = {"email", "whatsapp"}
    Admissions = {1}
    MaxDeliveryAttempts = 2
    MaxSends = 2
    Sold = {1, 2}
    Book <- MCBook
    OwnerOf <- MCOwnerOf
    Price = 7
    exportBatch = 2
    MaxExportRows = 4
    cityLimit = 1
    MaxDays = 2
    Tiers <- MCTiers
    Sales <- MCSales
    Rules <- MCRules
    Speed <- MCSpeed
    Replacing = "payment"
    OldOrders = {1, 2, 3, 4}
    LinesOf <- MCLinesOf
    Old = {1, 2, 3}
    RunLimits = {2, 3}
    MaxPage = 2
    MaxMoves = 1
    Journeys <- MCJourneys
    LimitOf <- MCLimitOf
    CheckoutMaxInFlight = 1
    Window = 2
    MaxFaults = 1
    MaxMisses = 2
SYMMETRY BackstageSymmetry
INVARIANTS BackstageTypes EdgesSound TellingSound ReleaseSound
CHECK_DEADLOCK FALSE
