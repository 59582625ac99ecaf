SPECIFICATION FairSpec
CONSTANTS
    w1 = w1
    w2 = w2
    None = None
    Workers <- MCWorkers
    Timeout = 1
PROPERTIES
    DropStopsThread
CHECK_DEADLOCK FALSE
