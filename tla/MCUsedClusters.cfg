CONSTANTS
    BlocksPerGroup = 2
    Volumes <- MCVolumes
    DirEntriesPerSector = 2
    Fat12Threshold = 3
    BootSectors <- MCWithStatus
    Tables <- MCTables
SPECIFICATION Spec
INVARIANT FatUsedClustersMarked
CHECK_DEADLOCK FALSE
