SPECIFICATION Spec
CONSTANTS
    Sessions = {"a", "b"}
    Rows = {"tws"}
    Trades = {"t1", "t2"}
    Quantity = 2
    Casts <- PatchCasts
CHECK_DEADLOCK FALSE
INVARIANTS
    OneWay
