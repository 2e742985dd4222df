SPECIFICATION FairSpec
CONSTANTS
    Retries = 1
    MaxCommits = 2
    MaxRenames = 1
    MaxMoves = 1
    MaxBroadcasts = 1
    MaxConnections = 1
    MaxFaults = 1
INVARIANTS
    TypeOK
    QuietIsCurrent
    MoveRunsAlone
PROPERTIES
    NeverGoesBack
    Settles
CHECK_DEADLOCK FALSE
