-------------------------------- MODULE MCXfs --------------------------------
(***************************************************************************)
(* Small instances of the XFS library.  A volume has two groups of eight   *)
(* blocks: blocks 0 and 1 hold the headers and the root, the others are    *)
(* files, free space or blocks of the free list.                           *)
(***************************************************************************)
EXTENDS XfsLibrary

(* A free list of three entries that goes around, one with its end outside *)
(* the array, and an empty one.                                            *)
Around == [flcount |-> 2, flfirst |-> 2, fllast |-> 0, listed |-> {2, 0},
           agfl |-> (0 :> 5 @@ 1 :> 6 @@ 2 :> 7)]
Beyond == [Around EXCEPT !.fllast = 3]
NoList == [Around EXCEPT !.flcount = 0, !.listed = {}]

Group(list, leaves) ==
    [flcount |-> list.flcount, flfirst |-> list.flfirst, fllast |-> list.fllast,
     agfl |-> list.agfl, listed |-> list.listed, leaves |-> leaves]

FreeIn(ag) ==
    {ag.agfl[i] : i \in ag.listed} \cup
    UNION {UNION {r[1] .. (r[1] + r[2] - 1) : r \in ToSet(leaf_)} : leaf_ \in ToSet(ag.leaves)}

Volume(ags) ==
    [dblocks |-> 8 * Len(ags), agblocks |-> 8, ags |-> ags,
     used |-> UNION {{8 * (n - 1) + b : b \in (0..7) \ FreeIn(ags[n])} : n \in DOMAIN ags}]

MCVolumes ==
    {Volume(<<Group(Around, <<<<<<2, 2>>>>, <<<<4, 1>>>>>>), Group(NoList, <<<<<<3, 5>>>>>>)>>),
     Volume(<<Group(Beyond, <<<<<<2, 1>>, <<4, 1>>>>>>), Group(Around, <<<<>>>>)>>)}

MCDevs       == {"sda1", "sdb1", "sdc1"}
MCKeys       == {[blk |-> 1, len |-> 1], [blk |-> 1, len |-> 2], [blk |-> 2, len |-> 1], [blk |-> 3, len |-> 2]}
MCLastSector == [blk |-> 3, len |-> 2]
MCAgCounts   == {1, 2, 3, 5, 8, 9, 16}
MCAgSizes    == {16, 1000, 65536, 500000}
=============================================================================
