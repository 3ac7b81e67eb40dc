SPECIFICATION ResultSpec
CONSTANTS
    Trades = {"t1", "t2"}
    Shapes <- AllShapes
    Lines <- SomeLines
    PageLimit = 1
    Parts <- SomeParts
    Unit = 60
    LookBack = 1
    StatsLimit = 3
    PairLimit = 4
    SummaryLimit = 5
    Casts <- SomeCasts
    StructureOf <- Structures
CHECK_DEADLOCK FALSE
INVARIANTS
    PendingUntilFlex
    PagesAreTheBook
    FillsCountOnce
    PairsAreFifo
    RangesAgree
    TradesAddUp
    StatesAgree
    WinRateIsTheBook
    RiskIsTheWorst
