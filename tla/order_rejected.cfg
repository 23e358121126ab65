SPECIFICATION Spec
CONSTANTS
    Attempts = 1
    MaxRuns = 2
    FaultSets <- CrashAndConnect
CHECK_DEADLOCK FALSE
INVARIANTS RejectedIsDefinite
