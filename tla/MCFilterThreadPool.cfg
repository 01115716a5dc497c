CONSTANTS
    f1 = f1
    f2 = f2
    NumThreads = 2
    MaxTasks = 3
    Functions = {f1, f2}
    NoFunction = NoFunction
    MaxSpurious = 2
SPECIFICATION FairSpec
INVARIANTS
    TypeOK
    ClosureAlive
    ExactlyOnce
    NoLostWakeup
PROPERTIES
    ImplementsParallelFor
    RunReturns
    DestructorReturns
