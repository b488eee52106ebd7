SPECIFICATION FairSpec
CONSTANTS
    p1 = p1
    p2 = p2
    p3 = p3
    m1 = m1
    m2 = m2
    m3 = m3
    NoPos = NoPos
    Positions = {p1, p2}
    Mints = {m1, m2, m3}
    MintOf <- OwnMint
    Dexes = {d1}
    Workers = {w1}
    Closers = {f1}
    MaxPositions = 2
    MaxBuy = 2
    MaxDailySpend = 3
    MaxDailyLoss = 9
    MaxSellRetries = 2
    DryRun = FALSE
    BuyTokens = 2
    Received = {1, 3}
    HolderCheck = FALSE
    EntityCheck = FALSE
    Losses = {0}
    BuyOutcomes = {"landed", "failed"}
    SellOutcomes = {"landed", "failed"}
    MaxDays = 0
    ShutdownAllowed = FALSE
INVARIANTS TypeOK ClosingIsOwned NoRetryLeft ClosedMeansSold DailySpendCap
PROPERTIES SellSettles
CHECK_DEADLOCK FALSE
