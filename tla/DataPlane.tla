----------------------------- MODULE DataPlane -----------------------------
(***************************************************************************)
(* What the four data paths of sysbak-admin share: the blocks of a         *)
(* partition, the bitmap that says which of them are in use, the way the   *)
(* copy loops cut the used blocks into chunks, and the percentage they     *)
(* report.                                                                 *)
(*                                                                         *)
(* A bitmap is the set of the block numbers whose bit is set.  One unit of *)
(* length is one block; the contents of a block are an element of          *)
(* Contents.                                                               *)
(***************************************************************************)
EXTENDS Integers

CONSTANTS
    TotalBlocks,     \* fs_info.totalblock
    BufferCapacity,  \* buffer_capacity: DEFAULT_BUFFER_SIZE in blocks, at least 1
    Contents         \* the possible contents of a block

Blocks == 0 .. TotalBlocks - 1

ASSUME TotalBlocksAssumption    == TotalBlocks \in Nat \ {0}
ASSUME BufferCapacityAssumption == BufferCapacity \in Nat \ {0}

-----------------------------------------------------------------------------
(* pc_test_bit: a block number past the end of the bitmap tests as set     *)
(* (the function returns -1 there).                                        *)
pc_test_bit(nr, bitmap) == nr >= TotalBlocks \/ nr \in bitmap

(* Mutant: a run goes on through the unused blocks behind it.              *)
UsedRunThroughGaps(block_id, bitmap, limit, start, n) ==
    /\ \A b \in block_id .. start - 1 : ~pc_test_bit(b, bitmap)
    /\ start < TotalBlocks
    /\ pc_test_bit(start, bitmap)
    /\ start + n =< TotalBlocks
    /\ n = limit \/ start + n = TotalBlocks

(* The way the loops find their next run of used blocks: from block_id     *)
(* they skip the blocks that are not in use; the run starts at `start' and *)
(* has the n used blocks that follow, as many as there are up to `limit'.  *)
UsedRun(block_id, bitmap, limit, start, n) ==
    /\ \A b \in block_id .. start - 1 : ~pc_test_bit(b, bitmap)
    /\ start < TotalBlocks
    /\ pc_test_bit(start, bitmap)
    /\ start + n =< TotalBlocks
    /\ \A b \in start .. start + n - 1 : pc_test_bit(b, bitmap)
    /\ \/ n = limit
       \/ start + n = TotalBlocks
       \/ ~pc_test_bit(start + n, bitmap)

(* get_read_blocks_size: the next chunk is a run that fits the buffer.     *)
(* When nothing is left it returns 0 and the loops end.                    *)
get_read_blocks_size(block_id, bitmap, start, blocks_read) ==
    UsedRun(block_id, bitmap, BufferCapacity, start, blocks_read)

(* Mutant: the search for used blocks stops one block early.               *)
NothingLeftOneShort(block_id, bitmap) ==
    \A b \in block_id .. TotalBlocks - 2 : ~pc_test_bit(b, bitmap)

NothingLeft(block_id, bitmap) ==
    \A b \in block_id .. TotalBlocks - 1 : ~pc_test_bit(b, bitmap)

(* progress_update and the handlers' reaction to it: 100 once `copied'     *)
(* reaches the superblock's count of used blocks, else the share of that   *)
(* count, which calculate_speed never lets fall to 0.                      *)
progress_update(copied, stop) ==
    IF copied >= stop THEN 100
    ELSE IF copied = 0 THEN 1
    ELSE (100 * copied) \div stop
=============================================================================
