SPECIFICATION StateFairSpec
CONSTANTS
    Ttl = 4
    Floor = 2
    Intervals = 2
    MinIv = 1
    MaxIv = 3
    DefaultIv = 1
    Ivs <- MCIvs
    MaxFailures = 2
    MaxTime = 8
INVARIANTS
    LampsAreRight
PROPERTIES
    OnlyResumeEnables
    SuspendReaches
