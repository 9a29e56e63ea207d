----------------------------- MODULE XfsGeometry -----------------------------
(***************************************************************************)
(* What libxfs_mount computes from a superblock: how many records a block  *)
(* of each kind of tree holds, and from the smallest numbers how high each *)
(* tree can become.  The superblock is not checked before (its magic       *)
(* number never is); the block sizes are those mkfs makes.                 *)
(***************************************************************************)
EXTENDS Integers

CONSTANTS
    BlockSizes, \* block sizes of a file system
    AgSizes,    \* sizes of an allocation group in blocks
    InopLogs,   \* logarithms of the inodes per block
    MAXEXTNUM,  \* extents of a file
    MAXAEXTNUM  \* extents of the attributes of a file

ASSUME GeometryAssumption ==
    /\ BlockSizes \subseteq Nat /\ \A b \in BlockSizes : b >= 512
    /\ AgSizes \subseteq Nat \ {0} /\ InopLogs \subseteq Nat
    /\ MAXEXTNUM \in Nat \ {0} /\ MAXAEXTNUM \in Nat \ {0}

VARIABLES
    sb,        \* the superblock: block size, size of a group, checksums, reflink
    tree,      \* the tree whose height is computed
    maxblocks, \* blocks of the level reached
    level,
    gpc

geometryVars == <<sb, tree, maxblocks, level, gpc>>

Superblocks ==
    [blocksize : BlockSizes, agblocks : AgSizes, inopblog : InopLogs, crc : BOOLEAN, reflink : BOOLEAN]

(* In the order of libxfs_mount.                                           *)
HeightOrder == <<"alloc", "data", "attr", "inode", "rmap", "refcount">>

GeometryInit ==
    /\ sb = CHOOSE s \in Superblocks : TRUE
    /\ tree = 0 /\ maxblocks = 0 /\ level = 0 /\ gpc = "new"
-----------------------------------------------------------------------------
Name == HeightOrder[tree]

(* Bytes of the header of a block, with or without checksums.              *)
BlockHeader(t) ==
    CASE t \in {"alloc", "inode"}     -> IF sb.crc THEN 56 ELSE 16
      [] t \in {"data", "attr"}       -> IF sb.crc THEN 72 ELSE 24
      [] t \in {"rmap", "refcount"}   -> 56

LeafEntry == [alloc |-> 8, inode |-> 16, data |-> 16, attr |-> 16, rmap |-> 24, refcount |-> 12]

(* A key (two for the reverse map) and a pointer.                          *)
NodeEntry == [alloc |-> 12, inode |-> 8, data |-> 16, attr |-> 16, rmap |-> 44, refcount |-> 8]

maxrecs(t, leaf) ==
    (sb.blocksize - BlockHeader(t)) \div (IF leaf THEN LeafEntry[t] ELSE NodeEntry[t])

(* xfs_sb_mount_common: a block is at least half full.                     *)
mnr(t, leaf) == maxrecs(t, leaf) \div 2

(* xfs_bmdr_maxrecs of the root in the inode.                              *)
maxrootrecs == IF Name = "data" THEN 3 ELSE 2

agblklog == CHOOSE k \in 0..30 : 2 ^ k >= sb.agblocks /\ \A j \in 0..(k - 1) : 2 ^ j < sb.agblocks

(* The inode numbers of a group in chunks of 64.                           *)
Entries(t) ==
    CASE t = "alloc" -> (sb.agblocks + 1) \div 2
      [] t = "data"  -> MAXEXTNUM
      [] t = "attr"  -> MAXAEXTNUM
      [] t = "inode" -> 2 ^ (agblklog + sb.inopblog) \div 64
      [] t \in {"rmap", "refcount"} -> sb.agblocks

(* Mutant: blocks are rounded down.                                        *)
RoundedDown(n, d) == n \div d

RoundedUp(n, d) == (n + d - 1) \div d

libxfs_mount ==
    /\ gpc = "new"
    /\ sb' \in Superblocks
    /\ tree' = 1 /\ gpc' = "start"
    /\ UNCHANGED <<maxblocks, level>>

(* With shared blocks the reverse map has no bound but the height of any   *)
(* tree.                                                                   *)
StartHeight ==
    /\ gpc = "start"
    /\ IF Name = "rmap" /\ sb.reflink
       THEN level' = 9 /\ gpc' = "next" /\ UNCHANGED maxblocks
       ELSE /\ maxblocks' = RoundedUp(Entries(Name), mnr(Name, TRUE))
            /\ level' = 1 /\ gpc' = "loop"
    /\ UNCHANGED <<sb, tree>>

(* xfs_btree_compute_maxlevels and, for files, xfs_bmap_compute_maxlevels. *)
OneLevelUp ==
    /\ gpc = "loop" /\ maxblocks > 1
    /\ level' = level + 1
    /\ maxblocks' = IF Name \in {"data", "attr"} /\ maxblocks <= maxrootrecs
                    THEN 1 ELSE RoundedUp(maxblocks, mnr(Name, FALSE))
    /\ UNCHANGED <<sb, tree, gpc>>

HeightDone ==
    /\ gpc = "loop" /\ maxblocks <= 1
    /\ gpc' = "next"
    /\ UNCHANGED <<sb, tree, maxblocks, level>>

NextTree ==
    /\ gpc = "next"
    /\ IF tree < 6 THEN tree' = tree + 1 /\ gpc' = "start" ELSE tree' = tree /\ gpc' = "new"
    /\ UNCHANGED <<sb, maxblocks, level>>

GeometryNext == libxfs_mount \/ StartHeight \/ OneLevelUp \/ HeightDone \/ NextTree
-----------------------------------------------------------------------------
(* Entries that a tree of height h holds when every block is as empty as   *)
(* it may be; the root of a file's tree is in the inode.                   *)
Capacity(h) ==
    IF h = 1 \/ Name \notin {"data", "attr"}
    THEN mnr(Name, TRUE) * mnr(Name, FALSE) ^ (h - 1)
    ELSE mnr(Name, TRUE) * maxrootrecs * mnr(Name, FALSE) ^ (h - 2)

(* The height that the loop of compute_maxlevels finds is the least one    *)
(* with which all entries find a place, for every block size: no tree of a *)
(* group is higher than the mount says.  The tree of a file may be one     *)
(* level higher: when one block remains below the root, the root itself is *)
(* not counted.                                                            *)
HeightsLeast ==
    gpc = "next" /\ ~(Name = "rmap" /\ sb.reflink) =>
        /\ Capacity(IF Name \in {"data", "attr"} THEN level + 1 ELSE level) >= Entries(Name)
        /\ level > 1 => Capacity(level - 1) < Entries(Name)
=============================================================================
