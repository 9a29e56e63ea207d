----------------------------- MODULE BtrfsSearch -----------------------------
(***************************************************************************)
(* Finding and iterating over the items of a btrfs tree: btrfs_search_slot *)
(* goes down from the root with a binary search in every block, and        *)
(* btrfs_next_leaf moves the path on to the next leaf.  Three callers use  *)
(* them: read_chunk_tree and read_bitmap_info go over all items,           *)
(* btrfs_find_last_root looks for the newest root item of an object.       *)
(* A key is a number; its object id is the number without its last digit.  *)
(* A block that cannot be read, or read_tree_block refuses, is in unread.  *)
(***************************************************************************)
EXTENDS Integers, Sequences

CONSTANTS
    Trees,     \* trees: their blocks, the root, and the blocks that cannot be read
    RootKeys,  \* keys that are searched for
    MaxLevel,  \* BTRFS_MAX_LEVEL
    MaxItems   \* BTRFS_NODEPTRS_PER_BLOCK

NoNode == "none"

VARIABLES
    btree,   \* the tree
    caller,  \* "chunk_tree", "bitmap" or "last_root"
    key,     \* the key searched for
    nodes,   \* path->nodes
    slots,   \* path->slots, counted from 0
    at,      \* the level at which search_slot or next_leaf is
    next,    \* the block they look at
    visited, \* the keys the caller has seen
    spc

searchVars == <<btree, caller, key, nodes, slots, at, next, visited, spc>>

Levels   == 0 .. MaxLevel
NoPath   == [l \in Levels |-> NoNode]
Block(b) == btree.blocks[b]
nritems(b) == Len(Block(b).keys)
objectid(k) == k \div 10

SearchInit ==
    /\ btree = [root |-> NoNode] /\ caller = "none" /\ key = 0
    /\ nodes = NoPath /\ slots = [l \in Levels |-> 0]
    /\ at = 0 /\ next = NoNode /\ visited = <<>> /\ spc = "new"

(* Somebody searches; the loops begin with the smallest key.               *)
someSearch ==
    /\ spc = "new" /\ spc' = "search"
    /\ btree' \in Trees /\ caller' \in {"chunk_tree", "bitmap", "last_root"}
    /\ key' \in (IF caller' = "last_root" THEN RootKeys ELSE {0})
    /\ at' = btree'.blocks[btree'.root].level /\ next' = btree'.root
    /\ UNCHANGED <<nodes, slots, visited>>
-----------------------------------------------------------------------------
Readable(b) == b \notin btree.unread

(* read_node_slot of a block's slot, counted from 0.                       *)
read_node_slot(b, slot) ==
    IF slot >= nritems(b) \/ Block(b).level = 0 THEN NoNode
    ELSE IF Readable(Block(b).ptrs[slot + 1]) THEN Block(b).ptrs[slot + 1] ELSE NoNode

(* The key by which the parent on the path refers to the block at level l. *)
ParentKeyAgrees(b, l) ==
    (l < MaxLevel /\ nodes[l + 1] # NoNode /\ nritems(b) > 0) =>
        Block(nodes[l + 1]).keys[slots[l + 1] + 1] = Block(b).keys[1]

(* btrfs_check_node compares all neighbours but the last two.              *)
btrfs_check_node(b, l) ==
    /\ nritems(b) \in 1 .. MaxItems
    /\ ParentKeyAgrees(b, l)
    /\ \A i \in 1 .. nritems(b) - 2 : Block(b).keys[i] < Block(b).keys[i + 1]

(* btrfs_check_leaf; fits stands for the checks on the items' places.      *)
btrfs_check_leaf(b, l) ==
    /\ Block(b).level = 0 /\ Block(b).fits
    /\ ParentKeyAgrees(b, l)
    /\ \A i \in 1 .. nritems(b) - 1 : Block(b).keys[i] < Block(b).keys[i + 1]

check_block(b, l) == IF l = 0 THEN btrfs_check_leaf(b, l) ELSE btrfs_check_node(b, l)

bin_search(keys, k) ==
    LET f[low \in 0 .. Len(keys), high \in 0 .. Len(keys)] ==
            LET mid == (low + high) \div 2
            IN IF low >= high THEN [found |-> FALSE, slot |-> low]
               ELSE IF keys[mid + 1] < k THEN f[mid + 1, high]
               ELSE IF keys[mid + 1] > k THEN f[low, mid]
               ELSE [found |-> TRUE, slot |-> mid]
    IN f[0, Len(keys)]

(* What the callers do when search_slot fails: read_bitmap_info does not   *)
(* look at the result and takes the leaf from the path, which may be NULL. *)
SearchFailed(path) ==
    IF caller # "bitmap" THEN "error"
    ELSE IF path[0] = NoNode THEN "crash" ELSE "iterate"

(* Mutant: the block in front of the key's is not taken.                   *)
ChildSlotAfter(found) == found.slot

ChildSlot(found) == IF ~found.found /\ found.slot > 0 THEN found.slot - 1 ELSE found.slot

(* One level of btrfs_search_slot.                                         *)
btrfs_search_slot ==
    /\ spc = "search"
    /\ LET path  == [nodes EXCEPT ![at] = next]
           found == bin_search(Block(next).keys, key)
           child == ChildSlot(found)
           below == read_node_slot(next, child)
       IN /\ nodes' = path
          /\ IF ~check_block(next, at)
             THEN spc' = SearchFailed(path) /\ UNCHANGED <<slots, at, next>>
             ELSE IF at = 0
             THEN /\ slots' = [slots EXCEPT ![0] = found.slot]
                  /\ spc' = IF caller # "last_root" THEN "iterate"
                            ELSE IF found.found THEN "error" ELSE "last"
                  /\ UNCHANGED <<at, next>>
             ELSE /\ slots' = [slots EXCEPT ![at] = child]
                  /\ IF below = NoNode
                     THEN spc' = SearchFailed(path) /\ UNCHANGED <<at, next>>
                     ELSE at' = at - 1 /\ next' = below /\ UNCHANGED spc
    /\ UNCHANGED <<btree, caller, key, visited>>

(* btrfs_find_last_root: the item in front of the place where the largest  *)
(* offset would be.                                                        *)
btrfs_find_last_root ==
    /\ spc = "last"
    /\ LET before == Block(nodes[0]).keys[slots[0]]
       IN IF slots[0] = 0 \/ objectid(before) # objectid(key)
          THEN spc' = "noent" /\ UNCHANGED visited
          ELSE spc' = "found" /\ visited' = <<before>>
    /\ UNCHANGED <<btree, caller, key, nodes, slots, at, next>>

(* A turn of the loops over the items.                                     *)
iterate ==
    /\ spc = "iterate"
    /\ IF slots[0] >= nritems(nodes[0])
       THEN spc' = "up" /\ at' = 1 /\ UNCHANGED <<slots, visited>>
       ELSE /\ visited' = Append(visited, Block(nodes[0]).keys[slots[0] + 1])
            /\ slots' = [slots EXCEPT ![0] = @ + 1]
            /\ UNCHANGED <<at, spc>>
    /\ UNCHANGED <<btree, caller, key, nodes, next>>

(* next_leaf returned a negative number: read_bitmap_info takes every      *)
(* result but 0 for the end.                                               *)
NextFailed == IF caller = "bitmap" THEN "done" ELSE "error"

(* btrfs_next_leaf, going up to a block with another slot.                 *)
next_leafUp ==
    /\ spc = "up"
    /\ IF at = MaxLevel \/ nodes[at] = NoNode
       THEN spc' = "done" /\ UNCHANGED <<slots, at, next>>
       ELSE LET slot  == slots[at] + 1
                child == read_node_slot(nodes[at], slot)
            IN IF slot >= nritems(nodes[at])
               THEN at' = at + 1 /\ UNCHANGED <<slots, next, spc>>
               ELSE IF child = NoNode
               THEN spc' = NextFailed /\ UNCHANGED <<slots, at, next>>
               ELSE slots' = [slots EXCEPT ![at] = slot] /\ at' = at - 1 /\ next' = child /\ spc' = "down"
    /\ UNCHANGED <<btree, caller, key, nodes, visited>>

(* btrfs_next_leaf, going down to the first leaf below.                    *)
next_leafDown ==
    /\ spc = "down"
    /\ nodes' = [nodes EXCEPT ![at] = next] /\ slots' = [slots EXCEPT ![at] = 0]
    /\ IF at = 0 THEN spc' = "iterate" /\ UNCHANGED <<at, next>>
       ELSE LET child == read_node_slot(next, 0)
            IN IF child = NoNode THEN spc' = NextFailed /\ UNCHANGED <<at, next>>
               ELSE at' = at - 1 /\ next' = child /\ UNCHANGED spc
    /\ UNCHANGED <<btree, caller, key, visited>>

SearchNext ==
    someSearch \/ btrfs_search_slot \/ btrfs_find_last_root \/ iterate \/ next_leafUp \/ next_leafDown
-----------------------------------------------------------------------------
(* The blocks of a level below a block, from left to right, and the keys.  *)
ChildrenOf(row) ==
    LET f[i \in 0 .. Len(row)] == IF i = 0 THEN <<>> ELSE f[i - 1] \o Block(row[i]).ptrs
    IN f[Len(row)]

LeafRow ==
    LET f[l \in 0 .. MaxLevel] ==
            IF l = 0 THEN <<btree.root>>
            ELSE IF Block(f[l - 1][1]).level = 0 THEN f[l - 1] ELSE ChildrenOf(f[l - 1])
    IN f[MaxLevel]

AllKeys ==
    LET f[i \in 0 .. Len(LeafRow)] == IF i = 0 THEN <<>> ELSE f[i - 1] \o Block(LeafRow[i]).keys
    IN f[Len(LeafRow)]

(* The items come in the order of the leaves, none twice and none left     *)
(* out, and read_chunk_tree succeeds only when it has seen them all.       *)
(* read_bitmap_info ends early, and says nothing, where a block cannot be  *)
(* read.                                                                   *)
ItemsInOrder ==
    caller \in {"chunk_tree", "bitmap"} =>
        /\ Len(visited) <= Len(AllKeys) /\ visited = SubSeq(AllKeys, 1, Len(visited))
        /\ (spc = "done" /\ (caller = "chunk_tree" \/ btree.unread = {})) => visited = AllKeys

(* While items are visited the path is a branch of the tree: every block   *)
(* on it is the one its parent's slot points to.                           *)
PathIsBranch ==
    spc = "iterate" =>
        \A l \in 1 .. MaxLevel : nodes[l] # NoNode =>
            /\ slots[l] < nritems(nodes[l])
            /\ nodes[l - 1] = Block(nodes[l]).ptrs[slots[l] + 1]

(* find_last_root finds the newest root item of an object whenever the     *)
(* tree has one, in whichever leaf it is.                                  *)
LastRootFound ==
    spc \in {"noent", "found"} =>
    LET ofObject == {i \in DOMAIN AllKeys : objectid(AllKeys[i]) = objectid(key)}
    IN /\ spc = "noent" => ofObject = {}
       /\ spc = "found" => /\ ofObject # {}
                           /\ \A i \in ofObject : visited[1] >= AllKeys[i]

(* Searches and loops see what the tree holds.                             *)
SearchExact == ItemsInOrder /\ PathIsBranch /\ LastRootFound
=============================================================================
