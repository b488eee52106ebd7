SPECIFICATION GSpec
CONSTANTS
    Wallets = {u, v, w}
    MaxNodes = 2
    MaxEdgesPerNode = 2
    LabelPropDepth = 2
    SybilClusterMin = 2
    FrequentDeploys = 1
    MaxCalls = 3
    MaxSnapshots = 1
SYMMETRY Alike
INVARIANTS LabelsTraced NeighboursAreRisky
CHECK_DEADLOCK FALSE
