CONSTANTS
    TotalBlocks = 4
    BufferCapacity = 2
    MaxAttempts = 1
    UsedCounts = {3}
    Contents <- MCContents
    Source <- MCSource
    Foreign <- MCForeign
SPECIFICATION Spec
INVARIANTS
    BackupInvariant
    FinishedImageIsComplete
    DurableWhenFinished
CHECK_DEADLOCK FALSE
