CONSTANTS
    k1 = k1
    k2 = k2
    NumThreads = 2
    PageSlots = 2
    Null = Null
    Wrong = Wrong
    LeftCols = 1
    MaxPages = 2
    MaxRows = 5
    MaxOdd = 2
    Inputs <- MCInputs
    OutputAttrs <- MCOutputAttrs
SPECIFICATION FairSpec
INVARIANTS
    PageClaimedOnce
    ColumnsAligned
    JoinCorrect
    NothingLost
    LeavesOutcome
PROPERTIES
    JoinEnds
