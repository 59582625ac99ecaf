SPECIFICATION FairSpec
CONSTANTS
    w1 = w1
    w2 = w2
    None = None
    Workers <- MCWorkers
    Timeout = 2
INVARIANTS
    NoStaleMonitor
    KillOnlyOverdue
    WakeupPending
PROPERTIES
    MonitoredGuestEnds
CHECK_DEADLOCK FALSE
