--------------------------- MODULE MCRestoreImage ---------------------------
(* The images of every bitmap: complete, cut at every cell, with a cell    *)
(* lost, with a block overwritten by block 0, and with two blocks          *)
(* exchanged.                                                              *)
EXTENDS RestoreImage

MCSource == [b \in Blocks |-> b]
MCContents == Blocks
MCOldContents == {-2}
MCTargetSizes == {TotalBlocks - 1, TotalBlocks}

Whole == {CompleteImage(u, B, MCSource) : u \in UsedCounts, B \in SUBSET Blocks}

Cut(img) == {SubSeq(img, 1, k) : k \in 0 .. Len(img) - 1}

Lost(img) == {[img EXCEPT ![p] = Torn] : p \in 1 .. Len(img)}

BlockCells(img) == {p \in 1 .. Len(img) : img[p][1] = "block"}

Overwritten(img) ==
    {[img EXCEPT ![p] = Block(0)] : p \in BlockCells(img)}

Exchanged(img) ==
    {[img EXCEPT ![p] = img[q], ![q] = img[p]] : p, q \in BlockCells(img)}

MCImages ==
    UNION {{img} \cup Cut(img) \cup Lost(img) \cup Overwritten(img) \cup Exchanged(img) :
             img \in Whole}
=============================================================================
