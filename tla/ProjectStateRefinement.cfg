SPECIFICATION FairSpec
CONSTANTS
    r1 = r1 r2 = r2 c1 = c1 c2 = c2 x = x y = y s0 = s0 s1 = s1
    Slots <- MCSlots
    CommandIds <- MCCommands
    Contents <- MCContents
    Snapshots <- MCSnapshots
    InitialSnapshot <- MCInitialSnapshot
    NoCommand = NoCommand
    Absent = Absent
    Torn = Torn
    MaxReceipts = 1
    MaxSubmissions = 2
    MaxCrashes = 0
    MaxPowerLosses = 1
CHECK_DEADLOCK FALSE
PROPERTIES ImplementsProjectStore EveryOperationEnds
