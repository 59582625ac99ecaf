SPECIFICATION FairSpec
CONSTANT
    N = 2
INVARIANTS
    ResultsAreWhole
    ExitTellsOutcome
    OneMeasurementAtATime
PROPERTIES
    DriverEnds
    ServersEnd
CHECK_DEADLOCK FALSE
