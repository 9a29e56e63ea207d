----------------------------- MODULE FatBitmap -----------------------------
(***************************************************************************)
(* The FAT reader of gdbus-fatfs.c.  Two passes walk the same table: the   *)
(* one of get_used_block, called by read_super_blocks, counts the sectors  *)
(* to be copied, and the one of read_bitmap_info builds the bitmap.  A     *)
(* pass marks the reserved sectors, the FATs and the root directory, seeks *)
(* to the first FAT, reads one entry for the status (none on FAT12) and    *)
(* then reads one entry per cluster of the data area, in order, from where *)
(* the file position stands.                                               *)
(*                                                                         *)
(* A sector is the unit of length.  A table entry is the triple of its     *)
(* nibbles, lowest first; the twelve bits that the bad-cluster mark, the   *)
(* free mark and the status bits differ in are all that is kept of the     *)
(* wider entries of FAT16 and FAT32.                                       *)
(***************************************************************************)
EXTENDS Integers, FiniteSets

CONSTANTS
    DirEntriesPerSector,  \* sector_size / 32
    Fat12Threshold,       \* FAT12_THRESHOLD
    BootSectors,          \* the boot sectors the reader may meet
    Tables                \* the contents of the first FAT

VARIABLES
    fat_sb,      \* the boot sector
    FAT,         \* entry number -> nibbles
    FS,          \* the global FS: the type found by get_fat_fs_type
    pass,        \* "count" (get_used_block) or "bitmap" (read_bitmap_info)
    at,          \* where the pass is
    pos,         \* how many entries of the table were read
    i,           \* how many clusters were judged
    block,       \* the next sector
    map,         \* the bitmap of this pass
    usedblocks,  \* fs_info.usedblocks
    failed,      \* a read of the table failed
    result       \* what read_bitmap_info returned

vars == <<fat_sb, FAT, FS, pass, at, pos, i, block, map, usedblocks, failed, result>>

Free  == <<0, 0, 0>>     \* 0x0000
Bad   == <<7, 15, 15>>   \* 0xFFF7

-----------------------------------------------------------------------------
(* The geometry.  The 16-bit fields are 0 where the 32-bit ones count.     *)
get_total_sector ==
    IF fat_sb.sectors # 0 THEN fat_sb.sectors ELSE fat_sb.sector_count

get_sec_per_fat ==
    IF fat_sb.fat_length # 0 THEN fat_sb.fat_length ELSE fat_sb.fat32_length

get_root_sec ==
    (fat_sb.dir_entries + DirEntriesPerSector - 1) \div DirEntriesPerSector

ReservedSectors ==
    fat_sb.reserved + fat_sb.fats * get_sec_per_fat + get_root_sec

get_cluster_count ==
    IF ReservedSectors > get_total_sector THEN 0
    ELSE (get_total_sector - ReservedSectors) \div fat_sb.cluster_size

Sectors == 0 .. get_total_sector - 1

(* get_fat_fs_type: a short volume of the FAT16 layout is FAT12; NULL when *)
(* no cluster fits, or when no field says what the volume is.              *)
get_fat_fs_type ==
    IF fat_sb.ext_signature \/ (fat_sb.fat_length # 0 /\ fat_sb.fat32_length = 0)
    THEN LET data_size == get_total_sector - fat_sb.reserved - get_root_sec
                             - fat_sb.fats * fat_sb.fat_length
             clusters  == data_size \div fat_sb.cluster_size
         IN  IF data_size =< 0 \/ clusters =< 0 THEN "NULL"
             ELSE IF clusters >= Fat12Threshold THEN "FAT16"
             ELSE "FAT12"
    ELSE IF fat_sb.fat32_name \/ (fat_sb.fat_length = 0 /\ fat_sb.fat32_length # 0)
    THEN "FAT32"
    ELSE "NULL"

-----------------------------------------------------------------------------
Init ==
    /\ fat_sb \in BootSectors
    /\ FAT \in Tables
    /\ FS = "none"
    /\ pass = "count"
    /\ at = "open"
    /\ pos = 0
    /\ i = 0
    /\ block = 0
    /\ map = {}
    /\ usedblocks = 0
    /\ failed = FALSE
    /\ result = "none"

(* get_fat_fs_sector: the device is opened and its boot sector read, or    *)
(* the pass ends with FALSE.  read_super_blocks then finds the type; it    *)
(* copies the type's name, and dies on the NULL of a volume of no type.    *)
OpenDevice ==
    /\ at = "open"
    /\ \/ /\ at' = "stopped"
          /\ result' = "FALSE"
          /\ UNCHANGED FS
       \/ /\ FS' = IF pass = "count" THEN get_fat_fs_type ELSE FS
          /\ at' = IF FS' = "NULL" THEN "died" ELSE "mark"
          /\ UNCHANGED result
    /\ UNCHANGED <<fat_sb, FAT, pass, pos, i, block, map, usedblocks, failed>>

(* pc_init_bitmap, mark_reserved_sectors and the seek to the first FAT:    *)
(* every bit is set, those of the reserved sectors, the FATs and the root  *)
(* directory again, and `block' is left behind them.                       *)
mark_reserved_sectors ==
    /\ at = "mark"
    /\ map' = Sectors
    /\ block' = ReservedSectors
    /\ pos' = 0
    /\ i' = 0
    /\ at' = "status"
    /\ UNCHANGED <<fat_sb, FAT, FS, pass, usedblocks, failed, result>>

(* The bits 0x8000 and 0x4000 of FAT16, 0x08000000 and 0x04000000 of FAT32.*)
StatusGood(entry) == entry[3] >= 12

(* What a pass does about a bad status: get_used_block returns 0, which    *)
(* read_super_blocks takes for the count, and read_bitmap_info FALSE.      *)
BadStatus ==
    IF pass = "count"
    THEN /\ usedblocks' = 0
         /\ pass' = "bitmap"
         /\ at' = "open"
         /\ UNCHANGED result
    ELSE /\ at' = "stopped"
         /\ result' = "FALSE"
         /\ UNCHANGED <<pass, usedblocks>>

GoodStatus ==
    /\ at' = "clusters"
    /\ UNCHANGED <<pass, usedblocks, result>>

(* check_fat_status: one entry is read where the file stands, which is the *)
(* first of the table; FAT12 reads none.  A read that fails leaves the     *)
(* uninitialised entry to be tested.                                       *)
check_fat_status ==
    /\ at = "status"
    /\ \/ /\ FS = "FAT12"
          /\ GoodStatus
          /\ UNCHANGED <<pos, failed>>
       \/ /\ FS # "FAT12"
          /\ pos' = pos + 1
          /\ IF StatusGood(FAT[pos]) THEN GoodStatus ELSE BadStatus
          /\ UNCHANGED failed
       \/ /\ FS # "FAT12"
          /\ GoodStatus \/ BadStatus
          /\ failed' = TRUE
          /\ UNCHANGED pos
    /\ UNCHANGED <<fat_sb, FAT, FS, i, block, map>>

(* The entry that the next read gives.  FAT12 reads sixteen bits for every *)
(* entry of twelve and drops the lowest four.                              *)
Nibble(k) == FAT[k \div 3][(k % 3) + 1]

EntryAt(n) ==
    IF FS = "FAT12"
    THEN <<Nibble(4 * n + 1), Nibble(4 * n + 2), Nibble(4 * n + 3)>>
    ELSE FAT[n]

(* A bad or a free entry clears the bits of the cluster, any other sets    *)
(* them; sectors behind the end have no bit.                               *)
Judge(entry) ==
    LET cluster == {b \in block .. block + fat_sb.cluster_size - 1 : b \in Sectors}
    IN  map' = IF entry \in {Free, Bad} THEN map \ cluster ELSE map \cup cluster

(* check_fat12_entry, check_fat16_entry, check_fat32_entry: the next entry *)
(* judges the next cluster.  The result of read is not looked at: when it  *)
(* fails the entry is the 0 it was initialised with, and the file position *)
(* stays.                                                                  *)
check_fat_entry ==
    /\ at = "clusters"
    /\ i < get_cluster_count
    /\ \/ /\ Judge(EntryAt(pos))
          /\ pos' = pos + 1
          /\ UNCHANGED failed
       \/ /\ Judge(Free)
          /\ failed' = TRUE
          /\ UNCHANGED pos
    /\ block' = block + fat_sb.cluster_size
    /\ i' = i + 1
    /\ UNCHANGED <<fat_sb, FAT, FS, pass, at, usedblocks, result>>

(* Mutant: the counting pass leaves the sectors behind the clusters out.   *)
EndOfPassNoTail ==
    /\ at = "clusters"
    /\ i = get_cluster_count
    /\ IF pass = "count"
       THEN /\ usedblocks' = Cardinality(map \ (block .. get_total_sector))
            /\ pass' = "bitmap"
            /\ at' = "open"
            /\ UNCHANGED <<map, result>>
       ELSE /\ at' = "stopped"
            /\ result' = "TRUE"
            /\ UNCHANGED <<map, pass, usedblocks>>
    /\ UNCHANGED <<fat_sb, FAT, FS, pos, i, block, failed>>

(* The end of a pass.  get_used_block sets the bits behind the last        *)
(* cluster and counts; read_super_blocks always returns TRUE then, and     *)
(* read_bitmap_info opens the device again.                                *)
EndOfPass ==
    /\ at = "clusters"
    /\ i = get_cluster_count
    /\ IF pass = "count"
       THEN /\ map' = map \cup {b \in Sectors : b >= block}
            /\ usedblocks' = Cardinality(map')
            /\ pass' = "bitmap"
            /\ at' = "open"
            /\ UNCHANGED result
       ELSE /\ at' = "stopped"
            /\ result' = "TRUE"
            /\ UNCHANGED <<map, pass, usedblocks>>
    /\ UNCHANGED <<fat_sb, FAT, FS, pos, i, block, failed>>

Next ==
    \/ OpenDevice
    \/ mark_reserved_sectors
    \/ check_fat_status
    \/ check_fat_entry
    \/ EndOfPass

Spec == Init /\ [][Next]_vars /\ WF_vars(Next)

-----------------------------------------------------------------------------
TypeOK ==
    /\ FS \in {"none", "NULL", "FAT12", "FAT16", "FAT32"}
    /\ pass \in {"count", "bitmap"}
    /\ at \in {"open", "mark", "status", "clusters", "stopped", "died"}
    /\ pos \in 0 .. get_cluster_count + 1
    /\ i \in 0 .. get_cluster_count
    /\ map \subseteq Sectors
    /\ result \in {"none", "TRUE", "FALSE"}

(* Whatever the table holds and whichever reads fail, a bitmap that is     *)
(* returned has the bits of the boot sector, the FATs, the root directory  *)
(* and the sectors behind the last whole cluster.                          *)
MetadataMarked ==
    result = "TRUE" =>
        \A b \in Sectors :
            \/ b < ReservedSectors
            \/ b >= ReservedSectors + get_cluster_count * fat_sb.cluster_size
            => b \in map

(* When no read failed, the number of used blocks that get_used_block      *)
(* counted for the header and the progress is the number of bits that      *)
(* read_bitmap_info set in its own pass over the table.                    *)
PassesAgree ==
    result = "TRUE" /\ ~failed => usedblocks = Cardinality(map)

(* "The second fat is used to check FAT status": the first entry of the    *)
(* table belongs to the media descriptor, the second to the status, and    *)
(* the third is that of the first cluster.  Every cluster whose own entry  *)
(* says it is in use has its bits set.                                     *)
UsedClustersMarked ==
    result = "TRUE" /\ ~failed =>
        \A k \in 0 .. get_cluster_count - 1 :
            FAT[k + 2] \notin {Free, Bad} =>
                ReservedSectors + k * fat_sb.cluster_size ..
                    ReservedSectors + (k + 1) * fat_sb.cluster_size - 1 \subseteq map

(* The sectors of a cluster, and the entry a pass without failing reads    *)
(* takes for it: FAT12 begins with the first of the table, the others with *)
(* the one behind the entry read for the status.                           *)
Cluster(k) ==
    {b \in Sectors : /\ ReservedSectors + k * fat_sb.cluster_size =< b
                     /\ b < ReservedSectors + (k + 1) * fat_sb.cluster_size}

FirstEntry == IF FS = "FAT12" THEN 0 ELSE 1

(* The bits that are set when n clusters were judged and no read failed.   *)
Kept(n) ==
    {b \in Sectors : \A k \in 0 .. n - 1 :
        b \in Cluster(k) => EntryAt(FirstEntry + k) \notin {Free, Bad}}

StatusPasses == FS = "FAT12" \/ StatusGood(FAT[0])

(* Where a pass is, and that it leaves everything but clusters marked.     *)
MarkInv ==
    /\ at = "status" => pos = 0 /\ i = 0 /\ map = Sectors
    /\ at \in {"status", "clusters"} => block = ReservedSectors + i * fat_sb.cluster_size
    /\ at = "clusters" => pos =< i + 1
    /\ at \in {"status", "clusters"} =>
            {b \in Sectors : b < ReservedSectors \/ b >= block} \subseteq map
    /\ at # "stopped" => result = "none"

(* What a pass without failing reads has found, and the count of the first *)
(* pass while the second one is under way.                                 *)
PassInv ==
    ~failed =>
        /\ at = "clusters" => pos = FirstEntry + i /\ map = Kept(i) /\ StatusPasses
        /\ pass = "bitmap" /\ StatusPasses => usedblocks = Cardinality(Kept(get_cluster_count))
=============================================================================
