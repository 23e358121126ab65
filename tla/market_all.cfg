SPECIFICATION Spec
CONSTANTS
    MaxBar = 5
    History = 3
    Lookback = 2
    ChunkBars = 2
    StaleBars = 3
    MaxLosses = 1
    MaxStops = 1
    MaxFailures = 1
    MaxRequests = 1
    Worlds <- Deployments
CHECK_DEADLOCK FALSE
INVARIANTS TypeOK StoredIsFinal OneWriter NothingMissed BackfillIsComplete
PROPERTIES RecentIsComplete
