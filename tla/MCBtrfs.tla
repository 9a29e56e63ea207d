------------------------------- MODULE MCBtrfs -------------------------------
(***************************************************************************)
(* Small instances of the parts of the btrfs library.                      *)
(***************************************************************************)
EXTENDS BtrfsLibrary, TLC

(* Chunk items.  A stripe is 2 sectors long.                               *)
Stripe(dev, physical) == [dev |-> dev, physical |-> physical]

Chunk(start, size, type, sub, stripes) ==
    [key |-> "chunk", cut |-> FALSE, sector |-> TRUE, system |-> FALSE, start |-> start, size |-> size,
     stripe_len |-> 2, type |-> type, num_stripes |-> Len(stripes), sub_stripes |-> sub, stripes |-> stripes]

Sys(c)  == [c EXCEPT !.system = TRUE]
DevItem == [key |-> "dev"]

SysOne == Sys(Chunk(0, 4, "single", 0, <<Stripe(1, 4)>>))
Meta   == Chunk(6, 5, "dup", 0, <<Stripe(1, 8), Stripe(1, 14)>>)
Data   == Chunk(12, 3, "single", 0, <<Stripe(1, 20)>>)
SysTwo == Sys(Chunk(0, 6, "raid1", 0, <<Stripe(1, 0), Stripe(2, 0)>>))
Wide   == Chunk(8, 8, "raid0", 0, <<Stripe(1, 6), Stripe(2, 6)>>)
Ten    == Chunk(0, 8, "raid10", 2, <<Stripe(1, 0), Stripe(2, 0), Stripe(3, 0), Stripe(4, 0)>>)
Five   == Chunk(8, 8, "raid5", 0, <<Stripe(1, 4), Stripe(2, 4), Stripe(3, 4)>>)
Six    == Chunk(16, 8, "raid6", 0, <<Stripe(1, 8), Stripe(2, 8), Stripe(3, 8), Stripe(4, 8)>>)

Items(sys, tree) == [sys |-> sys, tree |-> tree]

MCChunkVolumes ==
    {Items(<<SysOne>>, <<DevItem, SysOne, Meta, Data>>),
     Items(<<SysTwo>>, <<DevItem, DevItem, SysTwo, Wide>>),
     Items(<<Sys(Ten)>>, <<Sys(Ten), Five, Six>>),
     Items(<<SysOne>>, <<Data, [Meta EXCEPT !.size = 7]>>),
     Items(<<SysOne>>, <<SysOne, [Meta EXCEPT !.start = 3]>>),
     Items(<<SysOne>>, <<[Meta EXCEPT !.num_stripes = 3]>>),
     Items(<<SysOne>>, <<[Data EXCEPT !.stripe_len = 1]>>),
     Items(<<[SysOne EXCEPT !.cut = TRUE]>>, <<>>),
     Items(<<[SysOne EXCEPT !.num_stripes = 0]>>, <<>>),
     Items(<<Meta>>, <<>>),
     Items(<<SysOne, [SysOne EXCEPT !.start = 2]>>, <<SysOne>>),
     Items(<<[SysOne EXCEPT !.start = 2], SysOne>>, <<SysOne>>)}

(* Open volumes: a device of 40 sectors and a node of 2.  The tree blocks  *)
(* are in a chunk of metadata, the files in two chunks of data.            *)
MetaAt(type) ==
    Chunk(100, 20, type, 0, IF type = "dup" THEN <<Stripe(1, 6), Stripe(1, 26)>> ELSE <<Stripe(1, 6)>>)
DataAt == Chunk(120, 8, "single", 0, <<Stripe(1, 30)>>)

LeafOf(items)     == [level |-> 0, ptrs |-> <<>>, items |-> items]
NodeOf(l, ptrs)   == [level |-> l, ptrs |-> ptrs, items |-> <<>>]
FileExtent(b, n)  == [type |-> "extent_data", inline |-> FALSE, bytenr |-> b, len |-> n]
InlineExtent      == [type |-> "extent_data", inline |-> TRUE, bytenr |-> 0, len |-> 0]
ExtentItem(b, n)  == [type |-> "extent_item", bytenr |-> b, len |-> n]
OtherItem         == [type |-> "metadata_item"]

Files  == {[bytenr |-> 121, len |-> 2], [bytenr |-> 125, len |-> 1]}
Blocks == {100, 102, 104, 106, 108, 110, 112}

(* 100 root tree, 102 chunk tree, 104 extent tree, 106 the files' tree     *)
(* with 108 and 110 below, 112 the tree of another subvolume.              *)
VolumeOf(type, skinny, unread, four) ==
    [map        |-> {MetaAt(type), DataAt},
     blocks     |-> 100 :> LeafOf(<<OtherItem>>) @@ 102 :> LeafOf(<<>>) @@
                    104 :> LeafOf(<<ExtentItem(121, 2), ExtentItem(125, 1), OtherItem>> \o
                                  (IF skinny THEN <<>>
                                   ELSE <<ExtentItem(100, 2), ExtentItem(102, 2), ExtentItem(104, 2),
                                          ExtentItem(106, 2), ExtentItem(108, 2), ExtentItem(110, 2),
                                          ExtentItem(112, 2)>>)) @@
                    106 :> NodeOf(1, <<108, 110>>) @@
                    108 :> LeafOf(<<FileExtent(121, 2), InlineExtent>>) @@ 110 :> LeafOf(<<FileExtent(125, 1)>>) @@
                    112 :> LeafOf(<<FileExtent(121, 2)>>),
     tree_root  |-> 100, chunk_root |-> 102, root_items |-> <<104, 106, 112>>,
     four       |-> four, unread |-> unread, dev_size |-> 40, skinny |-> skinny, data |-> Files]

MCBtrfsVolumes ==
    {VolumeOf(t, s, u, {104, 106}) : t \in {"dup", "single"}, s \in BOOLEAN, u \in {{}, {110}, {112}}} \cup
    {VolumeOf("dup", TRUE, {}, {104, 0})}

(* Trees: three levels, two, a single leaf.                                *)
Leaf(keys)          == [level |-> 0, keys |-> keys, ptrs |-> <<>>, fits |-> TRUE]
Node(l, keys, ptrs) == [level |-> l, keys |-> keys, ptrs |-> ptrs, fits |-> TRUE]

Tall ==
    ("r" :> Node(2, <<11, 31>>, <<"m", "n">>) @@ "m" :> Node(1, <<11, 21>>, <<"a", "b">>) @@
     "n" :> Node(1, <<31, 41, 52>>, <<"c", "d", "e">>) @@ "a" :> Leaf(<<11, 13>>) @@
     "b" :> Leaf(<<21, 22, 29>>) @@ "c" :> Leaf(<<31, 33>>) @@ "d" :> Leaf(<<41, 42>>) @@
     "e" :> Leaf(<<52>>))
Flat   == "r" :> Node(1, <<11, 21>>, <<"a", "b">>) @@ "a" :> Leaf(<<11, 13, 15>>) @@ "b" :> Leaf(<<21, 41>>)
Lonely == "r" :> Leaf(<<11, 21, 31, 41>>)

(* A leaf out of order, and one its parent knows by another key.           *)
Shuffled == [Flat EXCEPT !["a"] = Leaf(<<11, 15, 13>>)]
Renamed  == [Flat EXCEPT !["r"] = Node(1, <<10, 21>>, <<"a", "b">>)]

TreeOf(blocks, unread) == [blocks |-> blocks, root |-> "r", unread |-> unread]

MCTrees ==
    {TreeOf(Tall, u) : u \in {{}, {"m"}, {"a"}, {"b"}, {"n"}, {"c"}, {"d", "e"}}} \cup
    {TreeOf(b, {}) : b \in {Flat, Lonely, Shuffled, Renamed}}

MCRootKeys == {9, 19, 29, 39, 49, 59, 69}

(* Machines: a volume on one device and one on two, root items of the      *)
(* offset -1, seeds, unknown features, a device that is no btrfs, and a    *)
(* lonely half of a volume with a free space tree.                         *)
Vol(f, devid, num) ==
    [fsid |-> f, devid |-> devid, num |-> num, ids |-> 1 .. num, super |-> "good", seed |-> FALSE,
     last |-> "none", free_space |-> FALSE]

MCDisks ==
    {"p" :> Vol("one", 1, 1) @@ "q" :> Vol("two", 1, 2) @@ "r" :> Vol("two", 2, 2),
     "p" :> [Vol("one", 1, 1) EXCEPT !.last = "below"] @@ "q" :> [Vol("two", 1, 1) EXCEPT !.seed = TRUE]
        @@ "r" :> [Vol("two", 1, 1) EXCEPT !.super = "features"],
     "p" :> [Vol("two", 1, 2) EXCEPT !.free_space = TRUE, !.last = "root"] @@ "q" :> Gone
        @@ "r" :> [Vol("one", 1, 1) EXCEPT !.super = "alien"]}
=============================================================================
