CONSTANTS
    PageSize = 11
    Lengths <- EveryKind
    Null = Null
    Bounded <- MCBounded
    MaxStray = 1
    MaxRows = 4
    MaxShort = 11
SPECIFICATION Spec
INVARIANTS
    NoOverlap
    PagesHoldRows
    RowsSurvive
