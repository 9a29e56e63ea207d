--------------------------- MODULE BitmapReaders ---------------------------
(***************************************************************************)
(* One backup call and the reader of its method: gdbus_sysbak_extfs_ptf    *)
(* and _ptp go through the functions of gdbus-extfs.c, the fatfs methods   *)
(* through those of gdbus-fatfs.c, which have the same names and the same  *)
(* promise: a bitmap and a number of used blocks that belong together.     *)
(***************************************************************************)
EXTENDS Integers, FiniteSets

CONSTANTS
    BlocksPerGroup, Volumes,
    DirEntriesPerSector, Fat12Threshold, BootSectors, Tables

ASSUME BlocksPerGroupAssumption == BlocksPerGroup \in Nat \ {0}

(* What libext2fs shows of a volume it has opened: the blocks it has in    *)
(* use are those of its groups, and it has at least the blocks of its      *)
(* superblock and of its group descriptors.                                *)
VolumeOK(v) ==
    /\ v.first \in Nat /\ v.totalblock \in Nat
    /\ v.first + 1 < v.totalblock
    /\ v.inuse \subseteq v.first .. v.totalblock - 1

(* The fields of a boot sector are unsigned; get_cluster_count divides by  *)
(* the size of a cluster.                                                  *)
BootSectorOK(b) ==
    /\ b.sectors \in Nat /\ b.sector_count \in Nat
    /\ b.fat_length \in Nat /\ b.fat32_length \in Nat
    /\ b.dir_entries \in Nat /\ b.reserved \in Nat /\ b.fats \in Nat
    /\ b.cluster_size \in Nat \ {0}

ASSUME ExtVolumesAssumption == \A v \in Volumes : VolumeOK(v)

ASSUME BootSectorsAssumption ==
    DirEntriesPerSector \in Nat \ {0} /\ \A b \in BootSectors : BootSectorOK(b)

VARIABLES
    method,                                                       \* "extfs" or "fatfs"
    extfs, ext_step, ext_bitmap, group, current_block, lfree,     \* gdbus-extfs.c
    fat_sb, FAT, FS, fat_pass, fat_at, fat_pos, fat_i, fat_block, \* gdbus-fatfs.c
    fat_map, fat_failed,
    usedblocks, result                                            \* the handler's

Ext == INSTANCE ExtBitmap WITH step <- ext_step, bitmap <- ext_bitmap
Fat == INSTANCE FatBitmap WITH
    pass <- fat_pass, at <- fat_at, pos <- fat_pos, i <- fat_i,
    block <- fat_block, map <- fat_map, failed <- fat_failed

extvars == <<extfs, ext_step, ext_bitmap, group, current_block, lfree>>
fatvars == <<fat_sb, FAT, FS, fat_pass, fat_at, fat_pos, fat_i, fat_block, fat_map, fat_failed>>
vars    == <<method, extvars, fatvars, usedblocks, result>>

(* The reader that is not called stays as it is; its volume is fixed.      *)
Init ==
    /\ \/ /\ method = "extfs"
          /\ fat_sb = CHOOSE b \in BootSectors : TRUE
          /\ FAT = CHOOSE t \in Tables : TRUE
       \/ /\ method = "fatfs"
          /\ extfs = CHOOSE v \in Volumes : TRUE
    /\ Ext!Init
    /\ Fat!Init

ExtReader ==
    /\ method = "extfs"
    /\ Ext!Next
    /\ UNCHANGED <<method, fatvars>>

FatReader ==
    /\ method = "fatfs"
    /\ Fat!Next
    /\ UNCHANGED <<method, extvars>>

Next == ExtReader \/ FatReader

Spec == Init /\ [][Next]_vars
-----------------------------------------------------------------------------
TypeOK == Ext!TypeOK /\ Fat!TypeOK

(* An ext bitmap that is returned leaves out exactly the blocks that the   *)
(* file system has free (ExtBitmap!Exact).                                 *)
ExtExact == method = "extfs" => Ext!Exact

(* Reserved sectors, FATs, root directory and the rest behind the last     *)
(* cluster are always copied (FatBitmap!MetadataMarked).                   *)
FatMetadataMarked == method = "fatfs" => Fat!MetadataMarked

(* The header's number of used blocks is the number of bits the copy loops *)
(* walk, for ext by the checks of read_bitmap_info, for FAT because the    *)
(* two passes agree.                                                       *)
CountsAgree ==
    /\ method = "extfs" => Ext!CountAgrees
    /\ method = "fatfs" => Fat!PassesAgree

(* What both readers promise the copy loops at every step.                 *)
ReadersInvariant == TypeOK /\ FatMetadataMarked /\ CountsAgree

(* The bits of every FAT cluster in use are set                            *)
(* (FatBitmap!UsedClustersMarked).                                         *)
FatUsedClustersMarked == method = "fatfs" => Fat!UsedClustersMarked

(* The inductive invariant: what the reader that was called knows of its   *)
(* bitmap, and that the other one has not begun.                           *)
ReadersInv ==
    /\ TypeOK
    /\ method \in {"extfs", "fatfs"}
    /\ VolumeOK(extfs) /\ BootSectorOK(fat_sb)
    /\ method = "extfs" => Ext!CallInv
    /\ method = "fatfs" => Fat!MarkInv /\ Fat!PassInv
    /\ ExtExact /\ FatMetadataMarked /\ CountsAgree
=============================================================================
