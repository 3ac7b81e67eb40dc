SPECIFICATION FairSpec
CONSTANTS
    Daemons = {d1, d2}
    Known <- MCKnown
    Words <- MCWords
    Stop = "stop"
    Filters <- MCFilters
    NoFilter = NoFilter
    MaxLen = 1
    NamedReply = FALSE
    MaxEntries = 3
    MaxFaults = 2
INVARIANTS
    NoSilentLoss
    EachOnceInOrder
PROPERTY EventuallyReturned
