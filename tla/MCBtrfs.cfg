\* The parts of the btrfs library
CONSTANTS
    ChunkVolumes <- MCChunkVolumes
    STRIPE_LEN = 2
    BtrfsVolumes <- MCBtrfsVolumes
    NODE = 2
    SUPER = 2
    MaxCopies = 2
    MaxGen = 3
    MaxReads = 3
    Trees <- MCTrees
    RootKeys <- MCRootKeys
    MaxLevel = 3
    MaxItems = 3
    Paths = {"p", "q", "r"}
    Disks <- MCDisks
    MaxRuns = 2
    MaxWorld = 1
    MaxOdd = 1
SPECIFICATION BtrfsSpec
INVARIANTS
    CleanupFindsNothing
    DevicesFollowJob
    ChunkMapSound
    MapBlockExact
    RightCopyWins
    BufferSound
    SearchExact
    WalkOutcome
PROPERTIES
    ReadEnds
CHECK_DEADLOCK FALSE
