CONSTANTS
    Operations <- OneOperation
    MaxRebases = 1
    MaxEdits = 1
    MaxFaults = 1
    MaxCrashes = 1
SPECIFICATION Spec
PROPERTIES BranchReleasedInTrash
CHECK_DEADLOCK FALSE
