SPECIFICATION Spec
CONSTANTS
    j1 = j1
    j2 = j2
    reload = reload
    reuse = reuse
    Jobs <- MCJobs
    Strategies <- MCStrategies
    MaxAttempts = 3
INVARIANTS
    GreenAttemptHasBundle
SYMMETRY Symmetry
CHECK_DEADLOCK FALSE
