\* The parts of the XFS library
CONSTANTS
    Devs <- MCDevs
    Volumes <- MCVolumes
    MAX_DEVS = 2
    AgflSize = 3
    Word = 16
    MaxJobs = 4
    Keys <- MCKeys
    LastSector <- MCLastSector
    MaxCount = 2
    ShakeCount = 2
    MaxPriority = 1
    MaxOpens = 2
    MaxGets = 4
    MapSize = 2
    MaxHeight = 4
    AgCounts <- MCAgCounts
    BlockSizes = {512, 1024, 4096, 65536}
    AgSizes <- MCAgSizes
    InopLogs = {1, 3}
    MAXEXTNUM = 400000
    MAXAEXTNUM = 32767
SPECIFICATION LibrarySpec
INVARIANTS
    XfsBitmapRight
    GlobalsAcrossJobs
    CacheInvariant
    PeragTree
    HeightsLeast
PROPERTIES
    LookupEnds
CHECK_DEADLOCK FALSE
