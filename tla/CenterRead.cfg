SPECIFICATION FairSpec
CONSTANTS
    Statuses <- TwoStatuses
    Batch = 1
    ItemTtl = 1
    Window = 1
    Limit = 1
    MaxEvents = 2
    MaxFaults = 1
    MaxFetches = 1
    MaxTime = 2
CHECK_DEADLOCK FALSE
INVARIANTS
    ReaderFindsAll
PROPERTY EventuallyCaughtUp
