CONSTANTS
    s1 = s1
    s2 = s2
    s3 = s3
    NumThreads = 2
    PageSlots = 2
    Null = Null
    Empty = Empty
    Ints <- MCInts
    Strings <- MCStrings
    Plans <- MCPlans
SPECIFICATION Spec
CHECK_DEADLOCK FALSE
INVARIANTS
    ColumnsAligned
    ReferencesRight
    PlanCorrect
    ResultTypes
