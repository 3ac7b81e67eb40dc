SPECIFICATION Spec
CONSTANTS
    Statuses <- TwoStatuses
    Batch = 2
    ItemTtl = 2
    Window = 1
    Limit = 1
    MaxEvents = 2
    MaxFaults = 2
    MaxFetches = 1
    MaxTime = 3
CHECK_DEADLOCK FALSE
INVARIANTS
    NothingVanishes
    OneToastPerWindow
    NewestTellsStatus
