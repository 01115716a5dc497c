CONSTANTS
    KeySet = {1, 2, 9, 10, 17, 18}
    Sizes = {1, 2, 4, 8}
    MaxInsertions = 6
    H = 3
    NoValue = NoValue
    Overgrown = Overgrown
    MaxSize = 32
SPECIFICATION Spec
CHECK_DEADLOCK FALSE
INVARIANTS
    RobinHoodFinds
    RobinHoodWays
    HopscotchFinds
    CuckooKeeps
