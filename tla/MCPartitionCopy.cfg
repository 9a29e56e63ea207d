CONSTANTS
    TotalBlocks = 5
    BufferCapacity = 2
    Contents <- MCContents
    Source <- MCSource
    TargetSizes <- MCTargetSizes
    OldContents <- MCOldContents
SPECIFICATION FairSpec
INVARIANTS
    CopyLoopInvariant
    FinishedIsComplete
    WriteInsideTarget
PROPERTIES
    UnusedBlocksKept
    EveryCallEnds
    ImplementsAbstractCopy
