CONSTANTS
    TotalBlocks = 2
    BufferCapacity = 2
    MaxAttempts = 1
    UsedCounts = {2}
    Contents <- MCContents
    Source <- MCSource
    Foreign <- MCForeign
SPECIFICATION Spec
INVARIANTS
    HeaderFailureReported
CHECK_DEADLOCK FALSE
