SPECIFICATION Spec
CONSTANTS
    a = a
    b = b
    Sessions = {a, b}
    Templates = {"t", "u"}
    Structures = {"x", "y"}
    Codes = {"c", "d"}
    LegLists = {"none", "one"}
    NoLegs = "none"
    Calls <- SomeCalls
    None = None
SYMMETRY SessionSymmetry
CHECK_DEADLOCK FALSE
INVARIANTS
    UsersAreNamed
PROPERTIES
    LegsAreTheTemplates
    DeactivatedIsNotStarted
