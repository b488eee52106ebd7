SPECIFICATION Spec
CONSTANTS
    i1 = i1
    i2 = i2
    s1 = s1
    s2 = s2
    k1 = k1
    NoIntent = NoIntent
    Intents = {i1, i2}
    Strategies = {s1, s2}
    Symbols = {k1}
    StrategyOf <- OwnStrategy
    SymbolOf <- OneSymbol
    Direction <- Opposed
    Qty <- TwoAndOne
    Prices = {12, 24}
    Traders = {t1}
    Handlers = {h1, h2}
    Cancellers = {c1}
    DryRun = FALSE
    MayRepeat = FALSE
    Switches = {}
SYMMETRY Alike
INVARIANTS FilledNotActive
CHECK_DEADLOCK FALSE
