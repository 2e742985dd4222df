\* Two handoffs and a crash that a recorded process may survive; no agent is
\* restarted by the terminal.
SPECIFICATION Spec
CONSTANTS
    h1 = h1
    h2 = h2
    Handoffs = {h1, h2}
    Survivors = "recorded"
    MaxInstances = 4
    MaxCrashes = 1
    MaxRestarts = 0
    MaxEvents = 1
SYMMETRY HandoffSymmetry
INVARIANTS TypeOK SingleWriter AuthorityIsRecorded LiveOwnerIsRecorded HandBackBetweenTurns
CHECK_DEADLOCK FALSE
