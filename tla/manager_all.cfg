SPECIFICATION Spec
CONSTANTS
    MaxRounds = 3
    Tools = {"get_market", "get_recent_trades", "get_risk_limits"}
    Replies <- SomeReplies
    Worlds <- Circumstances
CHECK_DEADLOCK FALSE
INVARIANTS TypeOK AnswersAreTrue SaidAndRecorded
