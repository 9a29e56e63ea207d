----------------------------- MODULE ExtBitmap -----------------------------
(***************************************************************************)
(* The ext2/3/4 reader of gdbus-extfs.c: open_file_system, the size and    *)
(* the count of used blocks that read_super_blocks takes from the          *)
(* superblock, and read_bitmap_info, which walks the block groups and      *)
(* compares what it finds with the free counts of the file system.         *)
(*                                                                         *)
(* The file system is what libext2fs shows of it: first_data_block, the    *)
(* set of blocks its bitmap has in use, the free count of each group, the  *)
(* groups whose bitmap is not initialised, the free count of the           *)
(* superblock and its state.                                               *)
(***************************************************************************)
EXTENDS Integers, FiniteSets

CONSTANTS
    BlocksPerGroup,  \* s_blocks_per_group
    Volumes          \* the file systems the reader may meet

VARIABLES
    extfs,          \* the file system on the device
    step,           \* where the reader is
    usedblocks,     \* fs_info.usedblocks
    bitmap,         \* the blocks whose bit is set
    group,          \* the group being scanned
    current_block,  \* the last block looked at, carried from group to group
    lfree,          \* free blocks found so far
    result          \* what read_bitmap_info returned

vars == <<extfs, step, usedblocks, bitmap, group, current_block, lfree, result>>

TotalBlock == extfs.totalblock
Groups == (TotalBlock - extfs.first + BlocksPerGroup - 1) \div BlocksPerGroup

Init ==
    /\ extfs \in Volumes
    /\ step = "super"
    /\ usedblocks = 0
    /\ bitmap = {}
    /\ group = 0
    /\ current_block = 0
    /\ lfree = 0
    /\ result = "none"

Return(r) ==
    /\ result' = r
    /\ step' = "done"

-----------------------------------------------------------------------------
(* open_file_system: libext2fs opens it and it is neither marked with      *)
(* errors, nor unclean, nor due for a check by its mount count.            *)
open_file_system ==
    extfs.state = "valid"

(* gdbus_get_extfs_device_info: what an application is shown of a device.  *)
gdbus_get_extfs_device_info ==
    [totalblock |-> TotalBlock, usedblocks |-> TotalBlock - extfs.freeblocks]

(* read_super_blocks: the used blocks are those the superblock does not    *)
(* count as free.                                                          *)
read_super_blocks ==
    /\ step = "super"
    /\ IF open_file_system
       THEN /\ usedblocks' = TotalBlock - extfs.freeblocks
            /\ step' = "bitmap"
            /\ UNCHANGED result
       ELSE /\ Return("FALSE")
            /\ UNCHANGED usedblocks
    /\ UNCHANGED <<extfs, bitmap, group, current_block, lfree>>

(* The beginning of read_bitmap_info: the file system is opened again, its *)
(* bitmaps are read (which may fail) and every bit is set.                 *)
ReadBitmaps ==
    /\ step = "bitmap"
    /\ \/ /\ Return("FALSE")
          /\ UNCHANGED bitmap
       \/ /\ open_file_system
          /\ bitmap' = 0 .. TotalBlock - 1
          /\ step' = "groups"
          /\ UNCHANGED result
    /\ UNCHANGED <<extfs, usedblocks, group, current_block, lfree>>

(* Mutant: the group's blocks are counted from the beginning of the device. *)
GroupBlocksFromZero(g) ==
    {b \in g * BlocksPerGroup .. (g + 1) * BlocksPerGroup - 1 : b < TotalBlock}

(* The blocks the inner loop visits: blk_itr begins with the first data    *)
(* block, and the loop ends with the group or once current_block is the    *)
(* last block of the file system.                                          *)
GroupBlocks(g) ==
    {b \in extfs.first + g * BlocksPerGroup .. extfs.first + (g + 1) * BlocksPerGroup - 1 :
        b < TotalBlock}

(* One pass of the loop over the groups.  Free blocks lose their bit; a    *)
(* group whose free blocks are not as many as its descriptor says ends the *)
(* reader, unless its bitmap is not initialised.                           *)
ScanGroup ==
    /\ step = "groups"
    /\ group < Groups
    /\ LET blocks == IF current_block < TotalBlock - 1 THEN GroupBlocks(group) ELSE {}
           free   == blocks \ extfs.inuse
       IN  /\ bitmap' = bitmap \ free
           /\ lfree' = lfree + Cardinality(free)
           /\ current_block' = IF blocks = {} THEN current_block
                               ELSE CHOOSE b \in blocks : \A c \in blocks : c =< b
           /\ IF /\ Cardinality(free) # extfs.bg_free[group]
                 /\ group \notin extfs.uninit
              THEN Return("FALSE")
              ELSE UNCHANGED <<step, result>>
    /\ group' = group + 1
    /\ UNCHANGED <<extfs, usedblocks>>

(* The last check, against the free count of the superblock.               *)
CheckFree ==
    /\ step = "groups"
    /\ group = Groups
    /\ Return(IF lfree = extfs.freeblocks THEN "TRUE" ELSE "FALSE")
    /\ UNCHANGED <<extfs, usedblocks, bitmap, group, current_block, lfree>>

Next ==
    \/ read_super_blocks
    \/ ReadBitmaps
    \/ ScanGroup
    \/ CheckFree

Spec == Init /\ [][Next]_vars /\ WF_vars(Next)

-----------------------------------------------------------------------------
TypeOK ==
    /\ step \in {"super", "bitmap", "groups", "done"}
    /\ bitmap \subseteq 0 .. TotalBlock - 1
    /\ group \in 0 .. Groups
    /\ lfree \in 0 .. TotalBlock
    /\ result \in {"none", "TRUE", "FALSE"}

(* A block is left out of the bitmap that read_bitmap_info returns exactly *)
(* when the file system has it free: no group, no short last group and no  *)
(* first data block other than 0 shifts a bit.                             *)
Exact ==
    result = "TRUE" => bitmap = (0 .. extfs.first - 1) \cup extfs.inuse

(* The number of used blocks that the header of the image and the progress *)
(* go by, taken from the superblock, is the number of set bits the copy    *)
(* loops will walk, and the number an application was shown: when they     *)
(* disagree the reader returns FALSE.                                      *)
CountAgrees ==
    result = "TRUE" =>
        /\ usedblocks = Cardinality(bitmap)
        /\ gdbus_get_extfs_device_info.usedblocks = usedblocks

(* The free blocks of the groups below g.                                  *)
FreeBelow(g) ==
    {b \in extfs.first .. TotalBlock - 1 : b < extfs.first + g * BlocksPerGroup}
        \ extfs.inuse

(* What the scan knows between two groups: which bits it has cleared, how  *)
(* many they are, and that it has not stopped at the last block too early. *)
ScanInv ==
    /\ bitmap = (0 .. TotalBlock - 1) \ FreeBelow(group)
    /\ lfree = Cardinality(FreeBelow(group))
    /\ group < Groups => current_block < TotalBlock - 1

(* Before the scan nothing has moved, and nothing is returned before it    *)
(* has ended; the count is the superblock's from read_super_blocks on.     *)
CallInv ==
    /\ step = "super" => usedblocks = 0
    /\ step \in {"bitmap", "groups"} => usedblocks = TotalBlock - extfs.freeblocks
    /\ step # "done" => result = "none"
    /\ step \in {"super", "bitmap"} =>
            group = 0 /\ current_block = 0 /\ lfree = 0 /\ bitmap = {}
    /\ step = "groups" => ScanInv
=============================================================================
