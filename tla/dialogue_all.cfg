SPECIFICATION Spec
CONSTANTS
    Values <- TwoValues
    SettingsLimit = 2
    Sentences <- FewSentences
    MaxGoals = 2
    MaxRequests = 5
    Handlers = {h1, h2}
    Worlds <- AllWorlds
CHECK_DEADLOCK FALSE
INVARIANTS TypeOK FrozenAsConfirmed TickOnFrozenTerms OneGoalAtATime PlanIsUsable
PROPERTIES TermsAreKept EndedIsFinal WordsOnlyAdd GoalsEnd GoalsLive
