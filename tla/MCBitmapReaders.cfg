CONSTANTS
    BlocksPerGroup = 2
    Volumes <- MCVolumes
    DirEntriesPerSector = 2
    Fat12Threshold = 3
    BootSectors <- MCBootSectors
    Tables <- MCTables
SPECIFICATION Spec
INVARIANTS
    ExtExact
    ReadersInvariant
CHECK_DEADLOCK FALSE
