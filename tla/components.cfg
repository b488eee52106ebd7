SPECIFICATION MCSpec
CONSTANTS
    i1 = i1
    i2 = i2
    NoIntent = NoIntent
    Intents = {i1, i2}
    Strategies = {"s1", "s2"}
    Symbols = {"k1"}
    StrategyOf <- MCStrategyOf
    SymbolOf <- MCSymbolOf
    Direction <- MCDirection
    Qty <- MCQty
    Prices = {12}
    Traders = {a, b}
    Handlers = {}
    Cancellers = {}
    DryRun = FALSE
    MayRepeat = FALSE
    Switches = {"kill", "freeze", "loss"}
    RefPrices = {60, 72}
    Sizes <- MCSizes
    Slip = 0
    Fee = 1
    TimerInterval = 2
    Times = {1, 2, 5}
    MaxFills = 3
    StrategyIds = {"sa", "sb"}
    Dispatchers = {"feed", "timer"}
    Timer = "timer"
    MarketSymbols = {"X", "Y"}
    SymbolSet <- MCSymbolSet
    MaxChanges = 3
    MaxBatch = 2
    MaxSignals = 3
    Callers = {a, b}
    Threshold = 2
    MaxRetries = 1
    BucketSize = 1
    MaxRequests = 2
    Submitters = {a, b}
    OrderIntents = {"m", "n", "l"}
    Market = {"m", "n"}
    Pools = {a, b}
    MonitorDEXes = {a, b}
    MaxTrackedPools = 1
    MaxTokenAge = 1
    LastMinute = 4
    ClusterIds = {a, b}
    Mints = {a, b}
    LaunchMcaps = {1}
    Mcaps = {1, 2}
    RotationWindow = 0
    SerialThreshold = 3
    RotationDropPct = 50
    MaxClusters = 1
    Day = 1
    Discoveries <- MCDiscoveries
    Reports <- MCReports
    NoFunder = "none"
    MinLiquidityUSD = 2
    MinQuoteReserveSOL = 1
    SybilClusterThreshold = 2
    MaxDeployerTokens24h = 2
    HistoryHours = 2
    LastPass = 4
    MaxSeen = 3
    IdleHours = 1
    LastHour = 2
    MaxLaunches = 4
    Tokens <- MCTokens
    RugSigns <- MCRugSigns
    Weights <- MCWeights
    DefaultWeights <- MCDefaultWeights
    MinSafetyScore = 40
    MinTotalScore = 65
    StrongBuyScore = 85
    BuySOL = 2
    MinPoolUSD = 5000
    MinPoolSOL = 1
    MaxSigns = 2
    VwapWindow = 2
    ImbWindow = 2
    VwapCap = 3
    ImbCap = 2
    VolCap = 2
    Lookback = 2
    Interval = 2
    Trades <- MCTrades
    Quotes <- MCQuotes
    Advances = {0, 1, 3}
    MaxLate = 1
    MaxEvents = 4
    Size = 1
    Cooldown = 3
    MaxHold = 1
    Latency = 1
    Lateness = 1
    Horizon = 8
    MaxTrades = 4
    TPLevels <- DefaultTPLevels
    TimedExits <- DefaultTimedExits
    StopLossPct = 50
    TrailingPct = 20
    EntryPrice = 100
    FeedPrices = {50, 120, 600}
    Minutes = {0, 1440}
    Whole = 512
    WarnReasons = {"liquidity"}
    WarnPcts = {50}
    MaxSellRetries = 2
SYMMETRY Alike
INVARIANTS TwoBooksAgree LateSignalsBounded FeaturesExact OneEntry BrokerAgrees
    OpenIsTemporary SalesCovered OverdueBounded
    SubmittedOnce HaltBounded AcceptedOnce StaleIsCautious
    DeployerBounded
PROPERTIES RugSignsNeverHelp
CHECK_DEADLOCK FALSE
