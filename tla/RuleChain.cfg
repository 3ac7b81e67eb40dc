SPECIFICATION Spec
CONSTANTS
    a = a
    b = b
    Sessions = {a, b}
    Gates = {"g"}
    Rules = {"o"}
    Allocs = {"d"}
    Keys <- TwoKeys
    Values = {0, 1}
    Default = 0
    Calls <- AllCalls
    None = None
SYMMETRY SessionSymmetry
CHECK_DEADLOCK FALSE
INVARIANTS
    NothingElseStopsIt
    RowsStayWhole
    OnlyListsDeadlock
PROPERTY PatchKeepsOthers
