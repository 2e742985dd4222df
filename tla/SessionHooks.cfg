SPECIFICATION FairSpec
CONSTANTS
    h1 = h1 h2 = h2
    Barriers <- MCTwoHooks
    Closer = Closer
    MaxChanges = 2
    MaxFailures = 2
CHECK_DEADLOCK FALSE
INVARIANTS TypeOK NoLostWakeup AcknowledgedUnlessReplaced ShutdownLeavesNothing
PROPERTIES BarriersSettle ShutdownEnds
