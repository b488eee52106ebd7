SPECIFICATION FairSpec
CONSTANTS
    p1 = p1
    p2 = p2
    p3 = p3
    m1 = m1
    m2 = m2
    m3 = m3
    NoPos = NoPos
    Positions = {p1, p2}
    Mints = {m1, m2, m3}
    MintOf <- OwnMint
    Dexes = {d1}
    Workers = {}
    Closers = {}
    MaxPositions = 2
    MaxBuy = 1
    MaxDailySpend = 2
    MaxDailyLoss = 9
    MaxSellRetries = 2
    DryRun = FALSE
    BuyTokens = 2
    Received = {2}
    HolderCheck = FALSE
    EntityCheck = FALSE
    Losses = {0}
    BuyOutcomes = {"landed", "failed", "unanswered", "pending"}
    SellOutcomes = {"landed", "failed", "unanswered", "pending"}
    MaxDays = 0
    ShutdownAllowed = FALSE
INVARIANTS MonitoredWhileOpen
PROPERTIES KeepsLifecycle
CHECK_DEADLOCK FALSE
