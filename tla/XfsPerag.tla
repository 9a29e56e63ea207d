------------------------------ MODULE XfsPerag -------------------------------
(***************************************************************************)
(* The tree of allocation groups of a mount: libxfs_initialize_perag fills *)
(* a radix tree with one item per group and takes items out again when a   *)
(* node cannot be allocated.  A node of the tree is named by its level (1  *)
(* for the lowest) and the part of the index above it; root->rnode is the  *)
(* node of level root->height.  Level 0 are the items.  The tags of the    *)
(* nodes are never set.                                                    *)
(***************************************************************************)
EXTENDS Integers, Sequences, SequencesExt, FiniteSets

CONSTANTS
    MapSize,   \* slots of a node (RADIX_TREE_MAP_SIZE)
    MaxHeight, \* height of the tallest tree
    AgCounts   \* possible numbers of allocation groups

ASSUME PeragAssumption ==
    /\ MapSize \in Nat \ {0, 1} /\ MaxHeight \in Nat \ {0}
    /\ AgCounts \subseteq 1 .. (MapSize ^ MaxHeight)

VARIABLES
    height,   \* root->height
    count,    \* count[n] for every allocated node
    items,    \* indexes whose slot holds an item
    inserted, \* the groups the mount has inserted and not deleted
    agcount,
    index,    \* the group being handled
    first_initialised,
    ppc

peragVars == <<height, count, items, inserted, agcount, index, first_initialised, ppc>>

Indexes == 0 .. (MapSize ^ MaxHeight - 1)
NoNodes == [n \in {} |-> 0]

PeragInit ==
    /\ height = 0 /\ count = NoNodes /\ items = {} /\ inserted = {}
    /\ agcount = 0 /\ index = 0 /\ first_initialised = 0 /\ ppc = "failed"
-----------------------------------------------------------------------------
radix_tree_maxindex(h) == MapSize ^ h - 1

NodeAt(l, i) == <<l, i \div MapSize ^ l>>
Nodes        == DOMAIN count
Empty        == height = 0 \/ <<height, 0>> \notin Nodes

(* __lookup_slot: down from the root until a slot is empty.                *)
radix_tree_lookup(i) ==
    /\ i <= radix_tree_maxindex(height)
    /\ \A l \in 1..height : NodeAt(l, i) \in Nodes
    /\ i \in items

(* The smallest height above the present one that holds the index.         *)
radix_tree_extend(i) ==
    CHOOSE h \in (height + 1) .. MaxHeight :
        /\ i <= radix_tree_maxindex(h)
        /\ \A k \in (height + 1) .. (h - 1) : i > radix_tree_maxindex(k)

(* Mutant: the tree grows one index too late.                              *)
GrowsLate(i) ==
    IF (i = 0 /\ Empty) \/ i > radix_tree_maxindex(height) + 1 THEN radix_tree_extend(i) ELSE height

NewHeight(i) ==
    IF (i = 0 /\ Empty) \/ i > radix_tree_maxindex(height) THEN radix_tree_extend(i) ELSE height

(* The nodes an insertion allocates, in order: new roots above the old     *)
(* one, then what is missing on the way down.                              *)
NewRoots(i) == IF Empty THEN <<>> ELSE [k \in 1 .. (NewHeight(i) - height) |-> <<height + k, 0>>]

NewPath(i) ==
    LET h == NewHeight(i)
        path == [k \in 1..h |-> NodeAt(h + 1 - k, i)]
    IN  SelectSeq(path, LAMBDA n : n \notin Nodes \cup ToSet(NewRoots(i)))

Needed(i) == Len(NewRoots(i)) + Len(NewPath(i))

(* A new root holds the old one in its first slot.                         *)
Grown(n) == 1

(* An insertion that can allocate just k nodes: it is complete when these  *)
(* are all it needs, and otherwise leaves them in the tree.  A node is     *)
(* counted by the one above it.                                            *)
radix_tree_insert(i, k) ==
    LET got   == ToSet(SubSeq(NewRoots(i) \o NewPath(i), 1, k))
        roots == got \cap ToSet(NewRoots(i))
        down  == got \cap ToSet(NewPath(i))
        all   == k = Needed(i)
        old(n) == IF n \in Nodes THEN count[n] ELSE IF n \in roots THEN Grown(n) ELSE 0
        gains(n) == n = NodeAt(n[1], i) /\ IF n[1] = 1 THEN all ELSE NodeAt(n[1] - 1, i) \in down
    IN  /\ height' = IF k < Len(NewRoots(i)) THEN height + k ELSE NewHeight(i)
        /\ count' = [n \in Nodes \cup got |-> old(n) + IF gains(n) THEN 1 ELSE 0]
        /\ items' = IF all THEN items \cup {i} ELSE items

(* The root may go when its only child is in slot 0.                       *)
CanShrink(cnt, l) ==
    /\ l > 1 /\ cnt[<<l, 0>>] = 1
    /\ <<l - 1, 0>> \in DOMAIN cnt

radix_tree_shrink(cnt) ==
    CHOOSE h \in 1..height :
        /\ \A l \in (h + 1) .. height : CanShrink(cnt, l)
        /\ ~CanShrink(cnt, h)

(* The nodes that become empty are freed upwards; the first that does not, *)
(* if it is the root, lets the tree shrink.                                *)
radix_tree_delete(i) ==
    IF ~radix_tree_lookup(i) THEN UNCHANGED <<height, count, items>>
    ELSE LET freed == {l \in 1..height : \A k \in 1..l : count[NodeAt(k, i)] = 1}
             stop  == Cardinality(freed) + 1
             cnt   == [n \in Nodes \ {NodeAt(l, i) : l \in freed} |->
                          IF stop <= height /\ n = NodeAt(stop, i) THEN count[n] - 1 ELSE count[n]]
             h     == IF stop > height THEN 0
                      ELSE IF stop = height THEN radix_tree_shrink(cnt) ELSE height
         IN  /\ height' = h
             /\ count' = [n \in {m \in DOMAIN cnt : m[1] <= h} |-> cnt[n]]
             /\ items' = items \ {i}
-----------------------------------------------------------------------------
(* Every mount starts with an empty tree and forgets the one before.       *)
INIT_RADIX_TREE ==
    /\ ppc \in {"failed", "mounted"}
    /\ height' = 0 /\ count' = NoNodes /\ items' = {} /\ inserted' = {}
    /\ agcount' \in AgCounts /\ index' = 0 /\ first_initialised' = 0 /\ ppc' = "walk"

(* libxfs_initialize_perag.  first_initialised is set again while it is 0. *)
(* (A group in the tree already would be skipped: here there is none.)     *)
InsertPerag ==
    /\ ppc = "walk" /\ index < agcount
    /\ first_initialised' = IF first_initialised = 0 THEN index ELSE first_initialised
    /\ \E k \in 0..Needed(index) :
          /\ radix_tree_insert(index, k)
          /\ IF k = Needed(index)
             THEN inserted' = inserted \cup {index} /\ index' = index + 1 /\ ppc' = ppc
             ELSE ppc' = "unwind" /\ UNCHANGED <<inserted, index>>
    /\ UNCHANGED agcount

(* The walk back stops before first_initialised.                           *)
Unwind ==
    /\ ppc = "unwind"
    /\ IF index > first_initialised
       THEN /\ radix_tree_delete(index)
            /\ inserted' = inserted \ {index}
            /\ index' = index - 1 /\ ppc' = ppc
       ELSE ppc' = "failed" /\ UNCHANGED <<height, count, items, inserted, index>>
    /\ UNCHANGED <<agcount, first_initialised>>

Mounted ==
    /\ ppc = "walk" /\ index = agcount
    /\ ppc' = "mounted"
    /\ UNCHANGED <<height, count, items, inserted, agcount, index, first_initialised>>

PeragNext == INIT_RADIX_TREE \/ InsertPerag \/ Unwind \/ Mounted
-----------------------------------------------------------------------------
(* The tree is a map: xfs_perag_get finds exactly the groups that were     *)
(* inserted and not deleted, while the tree grows, shrinks, and keeps the  *)
(* nodes of an insertion that failed half way.                             *)
TreeIsMap == \A i \in Indexes : radix_tree_lookup(i) <=> i \in inserted

(* Every node counts its used slots, so that none is freed while it is     *)
(* used; an empty node is left only by an insertion that failed.           *)
SlotsCounted ==
    \A n \in Nodes :
        /\ count[n] = 0 => ppc \in {"unwind", "failed"}
        /\ count[n] = IF n[1] = 1 THEN Cardinality({i \in items : NodeAt(1, i) = n})
                      ELSE Cardinality({m \in Nodes : m[1] = n[1] - 1 /\ m[2] \div MapSize = n[2]})

(* A failed mount leaves at most the items of the first two groups behind. *)
UnwoundToFirst == ppc = "failed" => inserted \subseteq {0, 1}

(* The tree at every step of mounts, failed allocations and unwinding.     *)
PeragTree == TreeIsMap /\ SlotsCounted /\ UnwoundToFirst
=============================================================================
