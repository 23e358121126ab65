SPECIFICATION Spec
CONSTANTS
    Values <- TwoValues
    SettingsLimit = 2
    Sentences <- FewSentences
    MaxGoals = 2
    MaxRequests = 4
    Handlers = {h1, h2}
    Worlds <- NoTrouble
CHECK_DEADLOCK FALSE
PROPERTIES PlanIsKept
