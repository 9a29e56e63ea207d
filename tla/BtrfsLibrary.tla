---------------------------- MODULE BtrfsLibrary -----------------------------
(***************************************************************************)
(* The parts of the btrfs reader and of the library bundled with it side   *)
(* by side: opening volumes, building the map of chunks, reading a tree    *)
(* block, finding items, and the walk that fills the bitmap.  A behaviour  *)
(* of one part is looked at while the others stand still; what they take   *)
(* from each other is among their inputs (a read that fails, a map).       *)
(***************************************************************************)
EXTENDS BtrfsReader, BtrfsBlock, BtrfsSearch, BtrfsOpen

VARIABLE part  \* the part that moves

Parts == {"open", "chunks", "block", "search", "walk"}

btrfsVars == <<openVars, chunkVars, blockVars, searchVars, walkVars, part>>

BtrfsInit == OpenInit /\ ChunksInit /\ BlockInit /\ SearchInit /\ WalkInit /\ part \in Parts

BtrfsNext ==
    /\ UNCHANGED part
    /\ \/ part = "open" /\ OpenNext /\ UNCHANGED <<chunkVars, blockVars, searchVars, walkVars>>
       \/ part = "chunks" /\ ChunksNext /\ UNCHANGED <<openVars, blockVars, searchVars, walkVars>>
       \/ part = "block" /\ BlockNext /\ UNCHANGED <<openVars, chunkVars, searchVars, walkVars>>
       \/ part = "search" /\ SearchNext /\ UNCHANGED <<openVars, chunkVars, blockVars, walkVars>>
       \/ part = "walk" /\ WalkNext /\ UNCHANGED <<openVars, chunkVars, blockVars, searchVars>>

(* A call of read_tree_block runs on by itself.                            *)
BlockRuns == part = "block" /\ attempt /\ UNCHANGED <<openVars, chunkVars, searchVars, walkVars, part>>

BtrfsSpec == BtrfsInit /\ [][BtrfsNext]_btrfsVars /\ WF_btrfsVars(BlockRuns)
=============================================================================
