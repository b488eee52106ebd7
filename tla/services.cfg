SPECIFICATION ServicesSpec
CONSTANTS
    e1 = e1
    e2 = e2
    e3 = e3
    s1 = s1
    s2 = s2
    Rows = {e1, e2, e3}
    Ticks = {e1}
    Writers = {s1, s2}
    Bg = bg
    Closer = closer
    BatchSize = 2
    InsertFails = FALSE
    StreamOf <- TwoStreams
    AlertCap = 1
    Handlers = {h1, sched}
    Scheduler = sched
    Waited = {"alerts"}
    Calendar = {c1}
    Providers = {"p1"}
    Preferred = "p1"
    Contents = {"x"}
    VolWindow = 2
    CascadeDepths = {0, 1}
    MaxCascadeDepth = 1
    MaxPerHour = 1
    MaxQueries = 1
    MinResults = 2
    IntelBatchSize = 2
    MaxTriggers = 3
    MaxTurns = 1
INVARIANT StopDrains RowsConserved OvershootBounded
PROPERTY StopReturns
CHECK_DEADLOCK FALSE
