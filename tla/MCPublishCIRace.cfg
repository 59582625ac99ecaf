SPECIFICATION Spec
CONSTANTS
    None = None
    Bundles <- RaceBundles
    TrustedSku <- MCSku
    MaxRunning = 2
    MaxChanges = 2
    MaxFailures = 1
INVARIANTS
    BranchConsistent
    SuccessIsRecorded
PROPERTIES
    PointerNeverGoesBack
