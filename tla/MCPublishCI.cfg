SPECIFICATION FairSpec
CONSTANTS
    None = None
    Bundles <- MCBundles
    TrustedSku <- MCSku
    MaxRunning = 1
    MaxChanges = 2
    MaxFailures = 1
INVARIANTS
    PublishedWasMerged
PROPERTIES
    ImplementsPublishedHistory
    MergedGetsPublished
