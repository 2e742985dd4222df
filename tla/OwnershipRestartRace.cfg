\* A crashed agent is restarted while a handoff stops it.
SPECIFICATION Spec
CONSTANTS
    h1 = h1
    h2 = h2
    Handoffs = {h1, h2}
    Survivors = "none"
    MaxInstances = 4
    MaxCrashes = 0
    MaxRestarts = 1
    MaxEvents = 1
INVARIANT SingleWriter
CHECK_DEADLOCK FALSE
