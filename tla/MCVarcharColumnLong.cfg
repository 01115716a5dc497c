CONSTANTS
    PageSize = 11
    Lengths <- NonEmpty
    Null = Null
    Bounded <- MCBounded
    MaxStray = 0
    MaxRows = 3
    MaxShort = 3
SPECIFICATION Spec
INVARIANTS
    LongStringEnd
