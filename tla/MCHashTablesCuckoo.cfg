CONSTANTS
    KeySet = {1, 2, 9, 10, 17, 18}
    Sizes = {8}
    MaxInsertions = 4
    H = 3
    NoValue = NoValue
    Overgrown = Overgrown
    MaxSize = 32
SPECIFICATION Spec
CHECK_DEADLOCK FALSE
INVARIANTS
    CuckooFinds
