\* A handoff, automatic restarts, and two crashes that no process survives.
SPECIFICATION FairSpec
CONSTANTS
    h1 = h1
    h2 = h2
    Handoffs = {h1}
    Survivors = "none"
    MaxInstances = 4
    MaxCrashes = 2
    MaxRestarts = 1
    MaxEvents = 1
PROPERTIES HandoffsEnd
CHECK_DEADLOCK FALSE
