---------------------------- MODULE ImageFormat ----------------------------
(***************************************************************************)
(* The image file of a partition, as a sequence of cells: the header       *)
(* (image_desc), the bitmap, the bitmap's CRC, then the used blocks in     *)
(* order with a checksum cell after every blocks_per_checksum of them and  *)
(* after the last ones.                                                    *)
(*                                                                         *)
(* A CRC is the value it was computed from: two different inputs have      *)
(* different CRCs.  A cell that was cut off by a failed write, or lost     *)
(* when the machine went down, is Torn: no reader takes it for a whole     *)
(* cell.                                                                   *)
(***************************************************************************)
EXTENDS DataPlane, Sequences, FiniteSets

Desc(usedblocks)   == <<"desc", usedblocks>>
Bits(bitmap)       == <<"bits", bitmap>>
BitsCrc(bitmap)    == <<"crc", bitmap>>
Block(content)     == <<"block", content>>
Checksum(contents) == <<"checksum", contents>>
Torn               == <<"torn", -1>>

(* Mutant: a checksum behind every block.                                  *)
OneBlockPerChecksum == 1

(* The handlers set blocks_per_checksum to the capacity of their buffer.   *)
blocks_per_checksum == BufferCapacity

get_checksum_count(block_count, blocks_per_cs) ==
    IF blocks_per_cs = 0 THEN 0 ELSE block_count \div blocks_per_cs

(* convert_blocks_to_bytes, in cells: the blocks and the checksums that    *)
(* become complete between the two offsets.                                *)
convert_blocks_to_bytes(block_offset, block_count, blocks_per_cs) ==
    block_count + ( get_checksum_count(block_offset + block_count, blocks_per_cs)
                    - get_checksum_count(block_offset, blocks_per_cs) )
-----------------------------------------------------------------------------
(* The reference for what a complete image holds, stated without the       *)
(* loops: the used blocks below a block, the k-th used block, the g-th     *)
(* group of blocks that share a checksum, and the cell at each position.   *)
Below(bitmap, b) == {u \in bitmap : u < b}

KthUsed(bitmap, k) == CHOOSE b \in bitmap : Cardinality(Below(bitmap, b)) = k - 1

Group(bitmap, contents, g) ==
    LET n == Cardinality(bitmap)
        C == blocks_per_checksum
    IN  [k \in 1 .. IF g * C =< n THEN C ELSE n % C |-> contents[KthUsed(bitmap, (g - 1) * C + k)]]

CellAt(bitmap, contents, p) ==
    LET C     == blocks_per_checksum
        group == Group(bitmap, contents, (p - 1) \div (C + 1) + 1)
        k     == ((p - 1) % (C + 1)) + 1
    IN  IF k =< Len(group) THEN Block(group[k]) ELSE Checksum(group)

(* The cells that n blocks and the checksums complete by then take up, and *)
(* those of n blocks with the checksum of the rest.                        *)
CellsOf(n)    == n + n \div blocks_per_checksum
DataLength(n) == CellsOf(n) + IF n % blocks_per_checksum = 0 THEN 0 ELSE 1

ImageData(bitmap, contents) ==
    [p \in 1 .. DataLength(Cardinality(bitmap)) |-> CellAt(bitmap, contents, p)]

CompleteImage(usedblocks, bitmap, contents) ==
    <<Desc(usedblocks), Bits(bitmap), BitsCrc(bitmap)>>
        \o ImageData(bitmap, contents)
=============================================================================
