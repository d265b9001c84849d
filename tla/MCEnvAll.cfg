SPECIFICATION Spec
CONSTANTS
    Names <- MCNames
    Begins <- MCBegins
    Words = {"x"}
    Initial <- Twice
    Extra = 2
    MaxVars = 4
    NULL = NULL
INVARIANTS
    TypeOK
    GrowthInBounds
PROPERTIES
    SetenvTakesEffect
    OthersKept
CHECK_DEADLOCK FALSE
