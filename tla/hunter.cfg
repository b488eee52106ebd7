SPECIFICATION HSpec
CONSTANTS
    p1 = p1
    p2 = p2
    p3 = p3
    m1 = m1
    m2 = m2
    m3 = m3
    NoPos = NoPos
    KillCloser = kill
    MainCloser = main
    Positions = {p1, p2}
    Mints = {m1}
    MintOf <- SameMint
    Dexes = {d1, d2}
    Workers = {}
    Closers = {kill, main}
    MaxPositions = 1
    MaxBuy = 1
    MaxDailySpend = 2
    MaxDailyLoss = 9
    MaxSellRetries = 2
    DryRun = TRUE
    BuyTokens = 1
    Received = {1}
    HolderCheck = FALSE
    EntityCheck = FALSE
    Losses = {0}
    BuyOutcomes = {"landed"}
    SellOutcomes = {"landed"}
    MaxDays = 0
    ShutdownAllowed = TRUE
SYMMETRY Alike
INVARIANTS MintExclusive KillExposure MintOwned
CHECK_DEADLOCK FALSE
