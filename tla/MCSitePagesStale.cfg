SPECIFICATION MCSpec
CONSTANTS
    None = None
    Root = Root
    PRs <- MCPRs
    Bundles <- MCBundles
    Heads = {"a", "b"}
    Bases = {"m1"}
    MaxChanges = 2
    MaxFaults = 0
PROPERTIES
    ProductionCatchesUp
CHECK_DEADLOCK FALSE
