SPECIFICATION FairSpec
CONSTANTS
    p1 = p1
    p2 = p2
    p3 = p3
    m1 = m1
    m2 = m2
    m3 = m3
    NoPos = NoPos
    Positions = {p1}
    Mints = {m1, m2, m3}
    MintOf <- OwnMint
    Dexes = {d1}
    Workers = {w1}
    Closers = {}
    MaxPositions = 1
    MaxBuy = 1
    MaxDailySpend = 9
    MaxDailyLoss = 9
    MaxSellRetries = 2
    DryRun = FALSE
    BuyTokens = 2
    Received = {2}
    HolderCheck = FALSE
    EntityCheck = FALSE
    Losses = {0}
    BuyOutcomes = {"landed"}
    SellOutcomes = {"landed", "failed"}
    MaxDays = 0
    ShutdownAllowed = FALSE
PROPERTIES FailedSellRetried
CHECK_DEADLOCK FALSE
