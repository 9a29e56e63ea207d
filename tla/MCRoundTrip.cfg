CONSTANTS
    TotalBlocks = 2
    BufferCapacity = 2
    MaxAttempts = 2
    UsedCounts = {1}
    MaxRestores = 1
    Contents <- MCContents
    Source <- MCSource
    Foreign <- MCForeign
    TargetSizes <- MCTargetSizes
    OldContents <- MCOldContents
SPECIFICATION RoundTripSpec
INVARIANTS
    BackupsComeBack
PROPERTIES
    FilesKept
CHECK_DEADLOCK FALSE
