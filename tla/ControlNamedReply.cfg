SPECIFICATION FairSpec
CONSTANTS
    Daemons = {d1}
    Known <- MCKnown
    Words <- OneWord
    Stop = "stop"
    Filters <- NoFilters
    NoFilter = NoFilter
    MaxLen = 2
    NamedReply = TRUE
    MaxEntries = 3
    MaxFaults = 0
PROPERTY EventuallyReturned
