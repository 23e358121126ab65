SPECIFICATION Spec
CONSTANTS
    Window = 2
    Size = 2
    Balances <- Accounts
    MaxOrders = 2
    MaxMoves = 2
    MaxSnaps = 3
    MaxRequests = 1
    Worlds <- Histories
CHECK_DEADLOCK FALSE
INVARIANTS TypeOK DriftIsNotOurs
PROPERTIES BaselineIsKept
