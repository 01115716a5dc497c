CONSTANTS
    NumThreads = 2
    NumPartitions = 3
    DirSize = 6
    ChunkEntries = 2
    Keys <- MCKeys
    Placements <- MCPlacements
    MaxCount = 5
SPECIFICATION FairSpec
INVARIANTS
    TypeOK
    OnePlace
    MergedBeforeRead
    NoSharedList
    DirectoryRanges
    ProbeCorrect
PROPERTIES
    BuildEnds
