SPECIFICATION FairSpec
CONSTANTS
    Sessions = {"a", "b"}
    Plans = {"p"}
    Trades = {"t"}
    Fills = {"f"}
    Accounts = {"home", "away"}
    FillAccount = "home"
    Expiries = {0, 1}
    NoTrade = "no trade"
    Bodies <- SomeBodies
CHECK_DEADLOCK FALSE
INVARIANTS
    NamesAStandingTrade
PROPERTIES
    IntentIsFrozen
    LifecycleKept
    EveryCallReturns
