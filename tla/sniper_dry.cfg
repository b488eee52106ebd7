SPECIFICATION Spec
CONSTANTS
    p1 = p1
    p2 = p2
    p3 = p3
    m1 = m1
    m2 = m2
    m3 = m3
    NoPos = NoPos
    Positions = {p1, p2, p3}
    Mints = {m1}
    MintOf <- SameMint
    Dexes = {d1, d2}
    Workers = {}
    Closers = {}
    MaxPositions = 1
    MaxBuy = 1
    MaxDailySpend = 9
    MaxDailyLoss = 9
    MaxSellRetries = 2
    DryRun = TRUE
    BuyTokens = 1
    Received = {1}
    HolderCheck = FALSE
    EntityCheck = FALSE
    Losses = {0}
    BuyOutcomes = {"landed"}
    SellOutcomes = {"landed"}
    MaxDays = 1
    ShutdownAllowed = TRUE
SYMMETRY Alike
INVARIANTS OpenBound
CHECK_DEADLOCK FALSE
