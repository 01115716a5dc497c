CONSTANTS
    PageSize = 13
    Width = 4
    BoxCount = 4
    RawBits = 12
    IntBits = 6
    PageBits = 2
    PosBits = 4
    Ints <- MCInts
    Null = Null
    MaxRows = 3
SPECIFICATION Spec
INVARIANTS
    PlainIntegersSurvive
