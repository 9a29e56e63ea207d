CONSTANTS
    TotalBlocks = 7
    BufferCapacity = 3
    MaxRestores = 2
    UsedCounts = {2}
    Contents <- MCContents
    Source <- MCSource
    TargetSizes <- MCTargetSizes
    OldContents <- MCOldContents
    Images <- MCImages
SPECIFICATION FairSpec
INVARIANTS
    RestoreInvariant
    FinishedIsExact
PROPERTIES
    RestoreEnds
    ImplementsAbstractCopy
CHECK_DEADLOCK FALSE
