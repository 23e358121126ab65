SPECIFICATION Spec
CONSTANTS
    Attempts = 2
    MaxRuns = 3
    FaultSets <- AllEnvironments
CHECK_DEADLOCK FALSE
INVARIANTS TypeOK AtMostOneOrder LedgerBeforeExchange FilledIsEvidenced RejectedMeansNothingPlaced ReachedIsCounted TradeFollowsOrder
PROPERTIES TerminalIsFinal ExecutionEnds ImplementsPromise
