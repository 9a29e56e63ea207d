-------------------------- MODULE MCPartitionCopy --------------------------
(* A partition of five blocks, all 32 bitmaps, every superblock count, a   *)
(* buffer of two blocks and targets one block too small, exact, and one    *)
(* block larger.  Each source block has contents of its own.               *)
EXTENDS PartitionCopy

MCSource == [b \in 0 .. TotalBlocks - 1 |-> b]
MCContents == 0 .. TotalBlocks - 1
MCTargetSizes == TotalBlocks - 1 .. TotalBlocks + 1
MCOldContents == {-1}
=============================================================================
