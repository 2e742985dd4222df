SPECIFICATION Spec
CONSTANTS
    h1 = h1 h2 = h2
    Barriers <- MCTwoHooks
    Closer = Closer
    MaxChanges = 2
    MaxFailures = 1

CHECK_DEADLOCK FALSE
INVARIANTS AcknowledgedStaysDurable
