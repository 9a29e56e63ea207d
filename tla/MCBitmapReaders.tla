-------------------------- MODULE MCBitmapReaders --------------------------
(* Ext: volumes of five and of four blocks in groups of two, with and      *)
(* without a boot block in front, every bitmap, group counts that are      *)
(* right or one off, groups without a bitmap, a superblock count that is   *)
(* right or one off, clean and unclean states.                             *)
(* FAT: FAT16 with and without a remainder behind the clusters, FAT12,     *)
(* FAT32 and a volume too small for a cluster; every table of three data   *)
(* entries that are free, bad, a link or an end of chain.                  *)
EXTENDS BitmapReaders

MCGroups(total, first) == (total - first + BlocksPerGroup - 1) \div BlocksPerGroup

MCGroupFree(total, first, used, g) ==
    Cardinality({b \in first + g * BlocksPerGroup .. first + (g + 1) * BlocksPerGroup - 1 :
                    b < total /\ b \notin used})

MCVolume(total, first, used, wrong, uninit, off, state) ==
    [totalblock |-> total, first |-> first, inuse |-> used, state |-> state, uninit |-> uninit,
     freeblocks |-> total - first - Cardinality(used) + off,
     bg_free    |-> [g \in 0 .. MCGroups(total, first) - 1 |->
                        MCGroupFree(total, first, used, g) + (IF g = wrong THEN 1 ELSE 0)]]

MCVolumes ==
    UNION {{MCVolume(total, first, used, wrong, uninit, off, state) :
               used \in SUBSET (first .. total - 1), wrong \in {-1, 0, 1},
               uninit \in {{}, {1}}, off \in {0, 1}, state \in {"valid", "error"}} :
           total \in {4, 5}, first \in {0, 1}}

MCBoot(sectors, sector_count, fat_length, fat32_length, dir_entries, sig, name) ==
    [sectors |-> sectors, sector_count |-> sector_count, fat_length |-> fat_length,
     fat32_length |-> fat32_length, dir_entries |-> dir_entries, ext_signature |-> sig,
     fat32_name |-> name, reserved |-> 1, fats |-> 2, cluster_size |-> 2]

(* The volumes on which the status is read from the table.                 *)
MCWithStatus ==
    {MCBoot(11, 0, 1, 0, 3, TRUE, FALSE),    \* FAT16, three clusters
     MCBoot(0, 12, 1, 0, 3, FALSE, FALSE),   \* FAT16, a sector behind them
     MCBoot(0, 9, 0, 1, 0, FALSE, TRUE)}     \* FAT32, three clusters

MCBootSectors ==
    MCWithStatus \cup
    {MCBoot(9, 0, 1, 0, 3, TRUE, FALSE),     \* FAT12, two clusters
     MCBoot(6, 0, 1, 0, 3, TRUE, FALSE)}     \* no whole cluster

(* The media descriptor, the status entry, three clusters, and the        *)
(* padding of the sector.                                                  *)
MCTables ==
    {[n \in 0 .. 5 |-> CASE n = 0 -> <<8, 15, media>>
                         [] n = 1 -> <<15, 15, status>>
                         [] n \in 2 .. 4 -> data[n]
                         [] OTHER -> <<0, 0, 0>>] :
        data \in [2 .. 4 -> {<<0, 0, 0>>, <<7, 15, 15>>, <<3, 0, 0>>, <<15, 15, 15>>}],
        status \in {15, 7}, media \in {15, 0}}
=============================================================================
