SPECIFICATION MCSpec
CONSTANTS
    None = None
    Root = Root
    PRs <- MCPRs
    Bundles <- MCBundles
    Heads = {"a", "b"}
    Bases = {"m1", "m2"}
    MaxChanges = 2
    MaxFaults = 1
INVARIANTS
    DeploysOneSnapshot
    DeploysOpenPreviews
    ProductionLoads
    PagesLoad
    QuietMeansCurrent
PROPERTIES
    NeverGoesBack
    SiteCatchesUp
CHECK_DEADLOCK FALSE
