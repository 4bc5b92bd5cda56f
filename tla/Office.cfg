SPECIFICATION OfficeSpec
CONSTANTS
    idle = idle
    one = one
    two = two
    x = x
    y = y
    member = member
    three = three
    other = other
    same = same
    different = different
    Nothing = Nothing
    Requests = {one, two, three, other}
    Bodies = {same, different}
    BodyOf <- MCBodyOf
    O = O
    I = I
    L = L
    S = S
    Separator = Separator
    Foreign = Foreign
    LookAlike <- MCLookAlike
    Drawn <- MCDrawn
    MaxTyped = 13
    Callers = {one, two}
    Orders = {1}
    People = {"buyer", "organiser", "stranger"}
    MaxRequests = 2
    Days = {0, 8}
    ShowDays = {9}
    Sales = {one, two}
    Faces = {0, 3335, 9}
    Quantities = {3}
    BookMoments = {0, 30, 100, 200, 1200}
    ShowTimes <- MCShowTimes
    Holidays = {3}
    Addresses = {"a"}
    Ids = {x, y, member}
    Members <- MCMembers
    Phones = {"p"}
    Codes = {x, y}
    MaxCodeAttempts = 1
    MaxChallengesPerDestination = 2
    AccountMoments = {0, 3700}
    MaxTokens = 3
    Moments = {0, 5, 20, 40}
    SessionSeconds = 60
    BasketOrders = {1, 2, 3}
    BuyerOf <- MCBuyerOf
    Sent <- MCSent
    Quantity <- MCQuantity
    TierOf <- MCTierOf
    MaxOrders = 2
    MaxPerTier = 1
    MaxQuantityPerOrder = 3
    Workers = {1}
    Every = 3
    Interval = 3
    Late = 1
    JobTimeout = 1
    Finalization = 1
    ConfiguredStale = 1
    MaxAttempts = 2
    BackoffBase = 1
    BackoffCeiling = 2
    MaxSpread = 1
    RetryAfters = {0, 2}
    MaxClock = 6
    MaxFaults = 1
SYMMETRY OfficeSymmetry
INVARIANTS OfficeTypes SingleWorker AnswerMatchesBody RetryIsShownTheOrder
    CodesHold TillSound AccountsSound TurnsTaken
PROPERTIES DecisionsStand
CHECK_DEADLOCK FALSE
