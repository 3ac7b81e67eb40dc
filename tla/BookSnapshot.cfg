SPECIFICATION Spec
CONSTANTS
    Accounts = {"u1"}
    Trades = {"t"}
    Jobs = {"j", "k"}
    Holdings = {0, 2}
    Shares = {0, 1}
    Days = 3
    Holidays = {2}
    EarlyDays = {1}
    IsOption = TRUE
    Strike = 1000
    Underlying <- Closes
    Offers <- AllOffers
    Casts <- SomeCasts
CHECK_DEADLOCK FALSE
INVARIANTS
    OneReadPerBook
    BookIsTheClose
    NoStaleMark
    VendorGradeIsTheSessions
    HeldIsThePositions
PROPERTY HistoryIsKept
