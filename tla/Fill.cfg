SPECIFICATION Spec
CONSTANTS
    a = a
    b = b
    t1 = t1
    t2 = t2
    Sessions = {a, b}
    Rows = {"tws", "flex"}
    Trades = {t1, t2}
    Quantity = 2
    Casts <- SomeCasts
SYMMETRY EditorSymmetry
CHECK_DEADLOCK FALSE
INVARIANTS
    AttributedOnce
    NoOrphan
    NoTradeTwice
