SPECIFICATION Spec
CONSTANTS
    Prompts = 2
    Tools = 2
    MaxHooks = 4
    MaxFlying = 3
    MaxUserActs = 1
    MaxWakes = 1
    MaxCrashes = 1
    MayOmit = FALSE
INVARIANTS TypeOK WaitIsShown FinishedIsReview RestoreAgrees
PROPERTIES CutTurnStaysCut WaitIsNotForged
CHECK_DEADLOCK FALSE
