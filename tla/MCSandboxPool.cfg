SPECIFICATION FairSpec
CONSTANTS
    r1 = r1
    r2 = r2
    r3 = r3
    None = None
    Requests <- MCRequests
    PoolSize = 2
    CounterSize = 16
INVARIANTS
    Isolation
    LifecycleNeverPanics
    ServingMeansReady
    EvenDispatch
    JobsNotLost
PROPERTIES
    ImplementsRequestService
    RequestsEnd
    StartupEnds
CHECK_DEADLOCK FALSE
