SPECIFICATION FairSpec
CONSTANTS
    w1 = w1
    w2 = w2
    None = None
    Torn = Torn
    Writers <- MCWriters
    Bundles <- FewBundles
    Publications <- FewPublications
    Policies <- MCPolicies
    MaxErrors = 1
    MaxKills = 1
INVARIANTS
    LockExcludes
    LockLeftOnlyByKill
    IndexServable
    IndexedRunsPublished
    NoStrandedPublication
    SuccessLasts
PROPERTIES
    RecordsImmutable
    ImplementsPublishedHistory
    CommandsEnd
