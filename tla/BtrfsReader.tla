----------------------------- MODULE BtrfsReader -----------------------------
(***************************************************************************)
(* The btrfs reader's read_bitmap_info on a volume that is open: the       *)
(* superblock, the roots, and every tree of the root tree are walked, and  *)
(* what they refer to is marked.  Addresses and lengths count sectors; a   *)
(* bit of the bitmap stands for NODE sectors of the device.                *)
(*                                                                         *)
(* dump_start_leaf keeps the length it marks an inner node with in a       *)
(* variable that is never set.  When the value found there is no multiple  *)
(* of the sector size nothing is marked for the node or, from it, for its  *)
(* children; otherwise map_block replaces it by a proper length.           *)
(***************************************************************************)
EXTENDS BtrfsChunks

CONSTANTS
    BtrfsVolumes, \* open volumes (see MCBtrfs)
    NODE,         \* nodesize in sectors
    SUPER         \* BTRFS_SUPER_INFO_OFFSET in sectors

ASSUME WalkAssumption == NODE \in Nat \ {0} /\ SUPER \in Nat

VARIABLES
    vol,    \* the volume
    bits,   \* the blocks marked in the bitmap
    stack,  \* the calls of dump_start_leaf: block, next child, whether size is a multiple
    root,   \* the root to be walked next
    wpc

walkVars == <<vol, bits, stack, root, wpc>>

WalkInit == vol = [dev_size |-> 0] /\ bits = {} /\ stack = <<>> /\ root = 1 /\ wpc = "new"

(* fs_open has opened some volume.                                         *)
opened == wpc = "new" /\ wpc' = "start" /\ vol' \in BtrfsVolumes /\ UNCHANGED <<bits, stack, root>>

(* The roots in the order in which they are walked.                        *)
Walked == <<vol.tree_root, vol.chunk_root>> \o vol.root_items
-----------------------------------------------------------------------------
set_bitmap(pos, length) ==
    IF pos > vol.dev_size THEN {}
    ELSE {b \in pos \div NODE .. ((pos + length + NODE - 1) \div NODE) - 1 : b < vol.dev_size \div NODE}

(* check_extent_bitmap: type 0 marks as much as map_block can transfer in  *)
(* one piece, type 1 the length itself.  The result of map_block is not    *)
(* looked at: see Unfit.                                                   *)
check_extent_bitmap(bytenr, length, type) ==
    LET m == btrfs_map_block(vol.map, bytenr, 0)
    IN set_bitmap(m.physical, IF type = 0 THEN m.length ELSE length)

Unfit(bytenr) == ~btrfs_map_block(vol.map, bytenr, 0).ok

(* dump_file_extent_item marks the logical address as if it were physical. *)
dump_file_extent_item(item) == IF item.inline THEN {} ELSE set_bitmap(item.bytenr, item.len)

(* Mutant: the items of the extent tree are not looked at.                 *)
MarksNoExtents(item) == IF item.type = "extent_data" THEN dump_file_extent_item(item) ELSE {}

Marks(item) ==
    CASE item.type = "extent_data" -> dump_file_extent_item(item)
      [] item.type = "extent_item" -> check_extent_bitmap(item.bytenr, item.len, 1)
      [] OTHER -> {}

UnfitItem(item) == item.type = "extent_item" /\ Unfit(item.bytenr)

(* read_bitmap_info up to the walks.  A root that was not found has        *)
(* address 0.                                                              *)
read_bitmap_info ==
    /\ wpc = "start"
    /\ IF \E r \in vol.four : Unfit(r)
       THEN wpc' = "crash" /\ UNCHANGED bits
       ELSE /\ bits' = set_bitmap(0, SUPER) \cup set_bitmap(SUPER, NODE)
                         \cup UNION {check_extent_bitmap(r, NODE, 0) : r \in vol.four}
            /\ wpc' = "next"
    /\ UNCHANGED <<vol, stack, root>>

(* A call of dump_start_leaf begins.                                       *)
Call(b) == \E aligned \in BOOLEAN : stack' = Append(stack, [block |-> b, child |-> 1, aligned |-> aligned])

(* The next root: one that cannot be read is passed over.                  *)
nextRoot ==
    /\ wpc = "next" /\ stack = <<>>
    /\ IF root > Len(Walked)
       THEN wpc' = "done" /\ UNCHANGED <<stack, root>>
       ELSE /\ root' = root + 1 /\ UNCHANGED wpc
            /\ IF Walked[root] \in vol.unread THEN UNCHANGED stack ELSE Call(Walked[root])
    /\ UNCHANGED <<vol, bits>>

Top  == stack[Len(stack)]
Here == vol.blocks[Top.block]
Return == stack' = SubSeq(stack, 1, Len(stack) - 1)

dumpLeaf ==
    /\ wpc = "next" /\ stack # <<>> /\ Here.level = 0
    /\ IF Unfit(Top.block) \/ \E i \in DOMAIN Here.items : UnfitItem(Here.items[i])
       THEN wpc' = "crash" /\ UNCHANGED <<bits, stack>>
       ELSE /\ bits' = bits \cup check_extent_bitmap(Top.block, NODE, 0)
                            \cup UNION {Marks(Here.items[i]) : i \in DOMAIN Here.items}
            /\ Return /\ UNCHANGED wpc
    /\ UNCHANGED <<vol, root>>

(* A turn of the loop over the children: the result of read_tree_block is  *)
(* looked into before it is known to be a block.                           *)
dumpChild ==
    /\ wpc = "next" /\ stack # <<>> /\ Here.level > 0 /\ Top.child <= Len(Here.ptrs)
    /\ LET child == Here.ptrs[Top.child]
           both  == {Top.block, child}
       IN IF child \in vol.unread \/ (Top.aligned /\ \E b \in both : Unfit(b))
          THEN wpc' = "crash" /\ UNCHANGED <<bits, stack>>
          ELSE /\ bits' = IF Top.aligned
                          THEN bits \cup UNION {check_extent_bitmap(b, NODE, 0) : b \in both}
                          ELSE bits
               /\ \E aligned \in BOOLEAN :
                     stack' = Append([stack EXCEPT ![Len(stack)].child = @ + 1],
                                     [block |-> child, child |-> 1, aligned |-> aligned])
               /\ UNCHANGED wpc
    /\ UNCHANGED <<vol, root>>

dumpReturn ==
    /\ wpc = "next" /\ stack # <<>> /\ Here.level > 0 /\ Top.child > Len(Here.ptrs)
    /\ Return
    /\ UNCHANGED <<vol, bits, root, wpc>>

WalkNext == opened \/ read_bitmap_info \/ nextRoot \/ dumpLeaf \/ dumpChild \/ dumpReturn
-----------------------------------------------------------------------------
(* The blocks of the trees that are walked.                                *)
Reached ==
    LET f[n \in 0 .. 3] ==
            IF n = 0 THEN {Walked[i] : i \in DOMAIN Walked} \ vol.unread
            ELSE f[n - 1] \cup UNION {{vol.blocks[b].ptrs[i] : i \in DOMAIN vol.blocks[b].ptrs} : b \in f[n - 1]}
    IN f[3]

(* The bitmap blocks that hold the copy of a range that is read first.     *)
Holding(bytenr, length) ==
    {btrfs_map_block(vol.map, bytenr + i, 0).physical \div NODE : i \in 0 .. length - 1}

(* When the reader succeeds, the superblock, every extent of the files and *)
(* every leaf it could reach are in the bitmap, and every inner node too   *)
(* unless the volume has skinny metadata items, which the reader does not  *)
(* know: then an inner node is kept only by what the unset length happens  *)
(* to be.                                                                  *)
BtrfsLiveKept ==
    wpc = "done" =>
        /\ SUPER \div NODE \in bits
        /\ \A e \in vol.data : Holding(e.bytenr, e.len) \subseteq bits
        /\ \A b \in Reached :
              (vol.blocks[b].level = 0 \/ ~vol.skinny) => Holding(b, NODE) \subseteq bits

(* A volume whose roots are there and whose blocks can be read never ends  *)
(* the daemon, whatever the unset length is.                               *)
HealthyVolumeSurvives == wpc = "crash" => vol.unread # {} \/ 0 \in vol.four

(* What becomes of a walk: nothing live is left out, and only a damaged    *)
(* volume ends the daemon.                                                 *)
WalkOutcome == BtrfsLiveKept /\ HealthyVolumeSurvives
=============================================================================
