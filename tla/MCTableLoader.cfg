CONSTANTS
    NumThreads = 2
    BitsPerByte = 2
    IntLimit = 2
    DoubleLimit = 2
    Null = Null
    PageRows = 2
    Worlds <- MCWorlds
    NoTable = NoTable
    NoFile = NoFile
    Torn = Torn
    Beyond = Beyond
SPECIFICATION Spec
INVARIANTS
    RecordsAgree
    SqlRowsKept
    BytesApart
    TableRight
    PagesInPlace
