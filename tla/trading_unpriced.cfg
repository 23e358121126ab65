SPECIFICATION Spec
CONSTANTS
    Prices <- ThreePrices
    StartPrice = 2
    StartCash = 4
    Target = 5
    MaxDrawdown = 25
    StopLoss = 60
    MaxOrders = 2
    MaxMoves = 2
    MaxUserTicks = 1
    MaxInterrupts = 1
    MaxLate = 1
    Worlds <- UnpricedWorld
CHECK_DEADLOCK FALSE
INVARIANTS SalesJudgedNow
