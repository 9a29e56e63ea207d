SPECIFICATION Spec
CONSTANTS
    Layouts <- MCLayouts
    Mounts <- MCMounts
    DiskVg = "vg"
    OtherVg = "other"
    Starts = {3, 9}
    Length = 2
    DiskSizes = {1}
    Word = 8
    MaxOps = 3
INVARIANTS
    OneRunPerDirectory
    
    DiskJobInvariant
PROPERTIES
    RestoreInOrder
CHECK_DEADLOCK FALSE
