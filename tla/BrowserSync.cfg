SPECIFICATION FairSpec
CONSTANTS
    MaxEdits = 2
    MaxEvents = 3
    Events = {"commit", "action", "fetch", "loss", "outage", "leave"}
INVARIANTS
    TypeOK
    ShownIsNewest
    FlushTellsTruth
    RefusedEditsAreGone
PROPERTIES
    ActionsEnd
CHECK_DEADLOCK FALSE
