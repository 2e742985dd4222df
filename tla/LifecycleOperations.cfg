CONSTANTS
    Operations <- TwoOperations
    MaxRebases = 1
    MaxEdits = 1
    MaxFaults = 1
    MaxCrashes = 1
SPECIFICATION FairSpec
INVARIANTS TypeOK StartsLaunchOnce OutcomeIsReal DeletionIsConfirmed
PROPERTIES DeletionIsOrderly RuntimeSettles
CHECK_DEADLOCK FALSE
