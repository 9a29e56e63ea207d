---------------------------- MODULE ReaderProofs ----------------------------
(***************************************************************************)
(* What holds of the bitmap readers for every volume: the ext and the FAT  *)
(* reader return the bitmap the file system describes and a count that     *)
(* goes with it; and of the btrfs library behind the btrfs reader, for     *)
(* every number of copies and every number of calls, the reading of a tree *)
(* block, the map of chunks, the buffers of an opened file system and the  *)
(* list of its devices.                                                    *)
(***************************************************************************)
EXTENDS BtrfsLibrary, BitmapReaders, FiniteSetTheorems, TLAPS

-----------------------------------------------------------------------------
(* The ext reader.                                                         *)

(* Both readers count with the same operator.                              *)
LEMMA SameCardinality ==
    \A S : Ext!Cardinality(S) = Cardinality(S) /\ Fat!Cardinality(S) = Cardinality(S)
BY DEF Cardinality, Ext!Cardinality, Fat!Cardinality

(* There are t numbers below t.                                            *)
LEMMA NumbersBelow ==
    ASSUME NEW t \in Nat
    PROVE  IsFiniteSet(0 .. t - 1) /\ Cardinality(0 .. t - 1) = t
BY FS_Interval

(* The groups cover the blocks, and the last one is not beyond them.       *)
LEMMA GroupsCover ==
    ASSUME NEW n \in Nat, NEW b \in Nat \ {0}
    PROVE  /\ (n + b - 1) \div b \in Nat
           /\ n =< ((n + b - 1) \div b) * b
           /\ \A g \in Nat : g < (n + b - 1) \div b => g * b < n
<1> DEFINE G == (n + b - 1) \div b
<1>1. /\ G \in Nat
      /\ (n + b - 1) % b \in 0 .. b - 1
      /\ n + b - 1 = (G * b) + ((n + b - 1) % b)
    <2> DEFINE x == n + b - 1
    <2>1. x \in Nat
        OBVIOUS
    <2> HIDE DEF x
    <2>2. /\ x \div b \in Nat /\ x % b \in 0 .. b - 1
          /\ x = ((x \div b) * b) + (x % b)
        BY <2>1
    <2>3. QED BY <2>2 DEF x
<1> HIDE DEF G
<1>2. G * b \in Int /\ n =< G * b /\ G * b =< n + b - 1
    BY <1>1
<1>3. ASSUME NEW g \in Nat, g < G
      PROVE  g * b < n
    <2>1. g + 1 =< G
        BY <1>1, <1>3
    <2>2. (g + 1) * b =< G * b
        BY <1>1, <2>1
    <2>3. (g + 1) * b = g * b + b /\ g * b \in Int
        OBVIOUS
    <2>4. QED BY <1>2, <2>2, <2>3
<1>4. QED BY <1>1, <1>2, <1>3 DEF G

(* The blocks a volume has, and the types of what describes them.          *)
LEMMA VolumeTypes ==
    ASSUME VolumeOK(extfs)
    PROVE  /\ extfs.first \in Nat /\ extfs.totalblock \in Nat
           /\ Ext!TotalBlock = extfs.totalblock
           /\ extfs.first + 1 < extfs.totalblock
           /\ extfs.inuse \subseteq extfs.first .. extfs.totalblock - 1
           /\ Ext!Groups \in Nat
           /\ extfs.totalblock =< extfs.first + Ext!Groups * BlocksPerGroup
           /\ \A g \in Nat : g < Ext!Groups => extfs.first + g * BlocksPerGroup < extfs.totalblock
<1>1. /\ extfs.first \in Nat /\ extfs.totalblock \in Nat
      /\ Ext!TotalBlock = extfs.totalblock
      /\ extfs.first + 1 < extfs.totalblock
      /\ extfs.inuse \subseteq extfs.first .. extfs.totalblock - 1
    BY DEF VolumeOK, Ext!TotalBlock
<1> DEFINE n == extfs.totalblock - extfs.first
<1>2. n \in Nat
    BY <1>1
<1>3. Ext!Groups = (n + BlocksPerGroup - 1) \div BlocksPerGroup
    BY <1>1 DEF Ext!Groups
<1> HIDE DEF n
<1>4. /\ Ext!Groups \in Nat
      /\ n =< Ext!Groups * BlocksPerGroup
      /\ \A g \in Nat : g < Ext!Groups => g * BlocksPerGroup < n
    BY <1>2, <1>3, GroupsCover, BlocksPerGroupAssumption
<1>5. Ext!Groups * BlocksPerGroup \in Int /\ \A g \in Nat : g * BlocksPerGroup \in Int
    BY <1>4, BlocksPerGroupAssumption
<1>6. QED BY <1>1, <1>4, <1>5 DEF n

(* The free blocks below a group, and how many they are.                   *)
LEMMA FreeBelowTypes ==
    ASSUME VolumeOK(extfs), NEW g \in Nat
    PROVE  /\ Ext!FreeBelow(g) \subseteq 0 .. Ext!TotalBlock - 1
           /\ IsFiniteSet(Ext!FreeBelow(g))
           /\ Cardinality(Ext!FreeBelow(g)) \in 0 .. Ext!TotalBlock
<1>1. Ext!TotalBlock \in Nat /\ extfs.first \in Nat
    BY VolumeTypes
<1>2. Ext!FreeBelow(g) \subseteq 0 .. Ext!TotalBlock - 1
    BY <1>1 DEF Ext!FreeBelow
<1>3. IsFiniteSet(0 .. Ext!TotalBlock - 1) /\ Cardinality(0 .. Ext!TotalBlock - 1) = Ext!TotalBlock
    BY <1>1, NumbersBelow
<1>4. IsFiniteSet(Ext!FreeBelow(g)) /\ Cardinality(Ext!FreeBelow(g)) =< Ext!TotalBlock
    BY <1>2, <1>3, FS_Subset
<1>5. Cardinality(Ext!FreeBelow(g)) \in Nat
    BY <1>4, FS_CardinalityType
<1>6. QED BY <1>1, <1>2, <1>4, <1>5

(* The free blocks below the first group are none; below the last one they *)
(* are all, and a group adds its own.                                      *)
LEMMA FreeBelowFirst ==
    ASSUME VolumeOK(extfs) PROVE Ext!FreeBelow(0) = {}
<1>1. extfs.first \in Nat /\ extfs.first + 0 * BlocksPerGroup = extfs.first
    BY VolumeTypes, BlocksPerGroupAssumption
<1>2. QED BY <1>1 DEF Ext!FreeBelow

LEMMA FreeBelowLast ==
    ASSUME VolumeOK(extfs)
    PROVE  (0 .. Ext!TotalBlock - 1) \ Ext!FreeBelow(Ext!Groups)
               = (0 .. extfs.first - 1) \cup extfs.inuse
<1> DEFINE bound == extfs.first + Ext!Groups * BlocksPerGroup
<1>1. /\ extfs.first \in Nat /\ Ext!TotalBlock \in Nat /\ bound \in Int
      /\ Ext!TotalBlock =< bound /\ extfs.first + 1 < Ext!TotalBlock
      /\ extfs.inuse \subseteq extfs.first .. Ext!TotalBlock - 1
    BY VolumeTypes, BlocksPerGroupAssumption
<1>2. Ext!FreeBelow(Ext!Groups) = {b \in extfs.first .. Ext!TotalBlock - 1 : b < bound} \ extfs.inuse
    BY DEF Ext!FreeBelow
<1> HIDE DEF bound
<1>3. Ext!FreeBelow(Ext!Groups) = (extfs.first .. Ext!TotalBlock - 1) \ extfs.inuse
    BY <1>1, <1>2
<1>4. QED BY <1>1, <1>3

LEMMA FreeBelowNext ==
    ASSUME VolumeOK(extfs), NEW g \in Nat
    PROVE  /\ Ext!FreeBelow(g + 1) = Ext!FreeBelow(g) \cup (Ext!GroupBlocks(g) \ extfs.inuse)
           /\ Ext!FreeBelow(g) \cap (Ext!GroupBlocks(g) \ extfs.inuse) = {}
           /\ Cardinality(Ext!FreeBelow(g + 1))
                  = Cardinality(Ext!FreeBelow(g)) + Cardinality(Ext!GroupBlocks(g) \ extfs.inuse)
<1> DEFINE lower == extfs.first + g * BlocksPerGroup
           upper == extfs.first + (g + 1) * BlocksPerGroup
<1>1. /\ extfs.first \in Nat /\ Ext!TotalBlock \in Nat
      /\ lower \in Nat /\ upper \in Nat /\ extfs.first =< lower /\ lower < upper
    BY VolumeTypes, BlocksPerGroupAssumption
<1>2. /\ Ext!FreeBelow(g) = {b \in extfs.first .. Ext!TotalBlock - 1 : b < lower} \ extfs.inuse
      /\ Ext!FreeBelow(g + 1) = {b \in extfs.first .. Ext!TotalBlock - 1 : b < upper} \ extfs.inuse
      /\ Ext!GroupBlocks(g) = {b \in lower .. upper - 1 : b < Ext!TotalBlock}
    <2>1. \A b \in Int : b \in lower .. upper - 1 <=>
              b \in extfs.first + g * BlocksPerGroup .. extfs.first + (g + 1) * BlocksPerGroup - 1
        BY <1>1, BlocksPerGroupAssumption
    <2>2. /\ Ext!FreeBelow(g) = {b \in extfs.first .. Ext!TotalBlock - 1 : b < lower} \ extfs.inuse
          /\ Ext!FreeBelow(g + 1) = {b \in extfs.first .. Ext!TotalBlock - 1 : b < upper} \ extfs.inuse
        BY DEF Ext!FreeBelow
    <2>3. lower .. upper - 1
              = extfs.first + g * BlocksPerGroup .. extfs.first + (g + 1) * BlocksPerGroup - 1
        BY <1>1, <2>1, BlocksPerGroupAssumption
    <2>4. QED BY <2>2, <2>3 DEF Ext!GroupBlocks
<1> HIDE DEF lower, upper
<1>3. Ext!FreeBelow(g + 1) = Ext!FreeBelow(g) \cup (Ext!GroupBlocks(g) \ extfs.inuse)
    BY <1>1, <1>2
<1>4. Ext!FreeBelow(g) \cap (Ext!GroupBlocks(g) \ extfs.inuse) = {}
    BY <1>1, <1>2
<1>5. IsFiniteSet(Ext!FreeBelow(g)) /\ IsFiniteSet(Ext!FreeBelow(g + 1))
    BY FreeBelowTypes
<1>6. IsFiniteSet(Ext!GroupBlocks(g) \ extfs.inuse)
    BY <1>3, <1>5, FS_Subset
<1>7. Cardinality(Ext!FreeBelow(g + 1))
          = Cardinality(Ext!FreeBelow(g)) + Cardinality(Ext!GroupBlocks(g) \ extfs.inuse)
              - Cardinality(Ext!FreeBelow(g) \cap (Ext!GroupBlocks(g) \ extfs.inuse))
    BY <1>3, <1>5, <1>6, FS_Union
<1>8. Cardinality(Ext!FreeBelow(g)) \in Nat /\ Cardinality(Ext!GroupBlocks(g) \ extfs.inuse) \in Nat
    BY <1>5, <1>6, FS_CardinalityType
<1>9. QED BY <1>3, <1>4, <1>7, <1>8, FS_EmptySet

(* What the checks of read_bitmap_info make of the scanned bitmap.         *)
LEMMA ScannedCount ==
    ASSUME VolumeOK(extfs), NEW g \in Nat
    PROVE  Cardinality((0 .. Ext!TotalBlock - 1) \ Ext!FreeBelow(g))
               = Ext!TotalBlock - Cardinality(Ext!FreeBelow(g))
<1>1. Ext!TotalBlock \in Nat
    BY VolumeTypes
<1>2. IsFiniteSet(0 .. Ext!TotalBlock - 1) /\ Cardinality(0 .. Ext!TotalBlock - 1) = Ext!TotalBlock
    BY <1>1, NumbersBelow
<1>3. /\ Ext!FreeBelow(g) \subseteq 0 .. Ext!TotalBlock - 1
      /\ IsFiniteSet(Ext!FreeBelow(g))
    BY FreeBelowTypes
<1> DEFINE All == 0 .. Ext!TotalBlock - 1
<1>4. All \cap Ext!FreeBelow(g) = Ext!FreeBelow(g) /\ IsFiniteSet(All)
    BY <1>2, <1>3
<1> HIDE DEF All
<1>5. Cardinality(All \ Ext!FreeBelow(g)) = Cardinality(All) - Cardinality(Ext!FreeBelow(g))
    BY <1>4, FS_Difference
<1>6. QED BY <1>2, <1>5 DEF All

(* A group that is scanned is looked at block by block up to its end: the  *)
(* last block of the file system is not behind the scan yet.               *)
LEMMA LastOfGroup ==
    ASSUME VolumeOK(extfs), NEW g \in Nat, g < Ext!Groups
    PROVE  LET last == CHOOSE b \in Ext!GroupBlocks(g) : \A c \in Ext!GroupBlocks(g) : c =< b
           IN  /\ Ext!GroupBlocks(g) # {}
               /\ g + 1 < Ext!Groups => last < Ext!TotalBlock - 1
<1> DEFINE lower == extfs.first + g * BlocksPerGroup
           upper == extfs.first + (g + 1) * BlocksPerGroup
           S == Ext!GroupBlocks(g)
<1>1. /\ Ext!TotalBlock \in Nat /\ lower \in Nat /\ upper \in Nat
      /\ lower < upper /\ lower < Ext!TotalBlock
      /\ g + 1 < Ext!Groups => upper < Ext!TotalBlock
    <2>1. g + 1 \in Nat /\ extfs.first \in Nat
        BY VolumeTypes
    <2>2. lower \in Nat /\ upper \in Nat /\ lower < upper
        BY <2>1, BlocksPerGroupAssumption
    <2>3. QED BY <2>1, <2>2, VolumeTypes
<1>2. S = {b \in lower .. upper - 1 : b < Ext!TotalBlock}
    <2>1. lower .. upper - 1
              = extfs.first + g * BlocksPerGroup .. extfs.first + (g + 1) * BlocksPerGroup - 1
        BY <1>1, VolumeTypes, BlocksPerGroupAssumption
    <2>2. QED BY <2>1 DEF Ext!GroupBlocks
<1> HIDE DEF lower, upper, S
<1>3. lower \in S
    BY <1>1, <1>2
<1>4. ASSUME g + 1 < Ext!Groups
      PROVE  (CHOOSE b \in S : \A c \in S : c =< b) < Ext!TotalBlock - 1
    <2>1. upper - 1 \in S /\ \A c \in S : c =< upper - 1
        BY <1>1, <1>2, <1>4
    <2>2. (CHOOSE b \in S : \A c \in S : c =< b) \in S
        BY <2>1
    <2>3. \A b \in S : b < Ext!TotalBlock - 1
        BY <1>1, <1>2, <1>4
    <2>4. QED BY <2>2, <2>3
<1>5. QED BY <1>3, <1>4 DEF S

(* What the scan knows, counted with Cardinality.                          *)
LEMMA ScanParts ==
    Ext!ScanInv <=>
        /\ ext_bitmap = (0 .. Ext!TotalBlock - 1) \ Ext!FreeBelow(group)
        /\ lfree = Cardinality(Ext!FreeBelow(group))
        /\ group < Ext!Groups => current_block < Ext!TotalBlock - 1
<1>1. Ext!Cardinality(Ext!FreeBelow(group)) = Cardinality(Ext!FreeBelow(group))
    BY SameCardinality
<1>2. QED BY <1>1 DEF Ext!ScanInv

LEMMA ScanPartsNext ==
    Ext!ScanInv' <=>
        /\ ext_bitmap' = (0 .. (Ext!TotalBlock)' - 1) \ Ext!FreeBelow(group)'
        /\ lfree' = Cardinality(Ext!FreeBelow(group)')
        /\ group' < (Ext!Groups)' => current_block' < (Ext!TotalBlock)' - 1
<1>1. Ext!Cardinality(Ext!FreeBelow(group)') = Cardinality(Ext!FreeBelow(group)')
    BY SameCardinality
<1>2. Ext!Cardinality(Ext!FreeBelow(group))' = Ext!Cardinality(Ext!FreeBelow(group)')
    BY DEF Ext!Cardinality
<1>3. QED BY <1>1, <1>2 DEF Ext!ScanInv

(* The volume is the same after every step.                                *)
LEMMA SameVolume ==
    ASSUME extfs' = extfs
    PROVE  /\ VolumeOK(extfs)' <=> VolumeOK(extfs)
           /\ (Ext!TotalBlock)' = Ext!TotalBlock /\ (Ext!Groups)' = Ext!Groups
           /\ \A g : Ext!FreeBelow(g)' = Ext!FreeBelow(g)
BY DEF VolumeOK, Ext!TotalBlock, Ext!Groups, Ext!FreeBelow

(* Nothing is promised of a call that has not returned TRUE.               *)
LEMMA NotReturned ==
    ASSUME result' # "TRUE" PROVE (Ext!Exact)' /\ (Ext!CountAgrees)'
BY DEF Ext!Exact, Ext!CountAgrees

(* The size and the count of used blocks are taken from the superblock.    *)
LEMMA SuperStep ==
    ASSUME VolumeOK(extfs), Ext!TypeOK, Ext!CallInv, Ext!read_super_blocks
    PROVE  (Ext!TypeOK)' /\ (Ext!CallInv)' /\ (Ext!Exact)' /\ (Ext!CountAgrees)'
<1> USE DEF Ext!read_super_blocks
<1>1. /\ extfs' = extfs /\ ext_bitmap' = ext_bitmap /\ group' = group
      /\ current_block' = current_block /\ lfree' = lfree
      /\ ext_step = "super" /\ result = "none"
      /\ \/ ext_step' = "bitmap" /\ result' = result
                /\ usedblocks' = Ext!TotalBlock - extfs.freeblocks
         \/ ext_step' = "done" /\ result' = "FALSE"
    BY DEF Ext!Return, Ext!CallInv
<1>2. (Ext!TotalBlock)' = Ext!TotalBlock /\ (Ext!Groups)' = Ext!Groups
    BY <1>1, SameVolume
<1>3. (Ext!TypeOK)'
    BY <1>1, <1>2 DEF Ext!TypeOK
<1>4. (Ext!CallInv)'
    BY <1>1, <1>2 DEF Ext!CallInv
<1>5. QED BY <1>1, <1>3, <1>4, NotReturned

(* Every bit is set before the first group is scanned.                     *)
LEMMA ReadBitmapsStep ==
    ASSUME VolumeOK(extfs), Ext!TypeOK, Ext!CallInv, Ext!ReadBitmaps
    PROVE  (Ext!TypeOK)' /\ (Ext!CallInv)' /\ (Ext!Exact)' /\ (Ext!CountAgrees)'
<1> USE DEF Ext!ReadBitmaps
<1>1. /\ extfs' = extfs /\ usedblocks' = usedblocks /\ group' = group
      /\ current_block' = current_block /\ lfree' = lfree
      /\ ext_step = "bitmap" /\ result = "none"
      /\ group = 0 /\ current_block = 0 /\ lfree = 0
      /\ usedblocks = Ext!TotalBlock - extfs.freeblocks
      /\ \/ ext_step' = "done" /\ result' = "FALSE" /\ ext_bitmap' = ext_bitmap
         \/ ext_step' = "groups" /\ result' = result /\ ext_bitmap' = 0 .. Ext!TotalBlock - 1
    BY DEF Ext!Return, Ext!CallInv
<1>2. /\ (Ext!TotalBlock)' = Ext!TotalBlock /\ (Ext!Groups)' = Ext!Groups
      /\ \A g : Ext!FreeBelow(g)' = Ext!FreeBelow(g)
    BY <1>1, SameVolume
<1>3. (Ext!TypeOK)'
    BY <1>1, <1>2 DEF Ext!TypeOK
<1>4. ASSUME ext_step' = "groups" PROVE (Ext!ScanInv)'
    <2>1. ext_bitmap' = 0 .. Ext!TotalBlock - 1
        BY <1>1, <1>4
    <2>2. Ext!FreeBelow(0) = {} /\ Cardinality({}) = 0
        BY FreeBelowFirst, FS_EmptySet
    <2>3. 0 < Ext!TotalBlock - 1
        BY VolumeTypes
    <2>4. Ext!FreeBelow(group)' = {}
        BY <1>1, <1>2, <2>2
    <2>5. QED BY <1>1, <1>2, <2>1, <2>2, <2>3, <2>4, ScanPartsNext
<1>5. (Ext!CallInv)'
    BY <1>1, <1>2, <1>4 DEF Ext!CallInv
<1>6. QED BY <1>1, <1>3, <1>5, NotReturned

(* A group's free blocks lose their bits and are counted.                  *)
LEMMA ScanGroupStep ==
    ASSUME VolumeOK(extfs), Ext!TypeOK, Ext!CallInv, Ext!ScanGroup
    PROVE  (Ext!TypeOK)' /\ (Ext!CallInv)' /\ (Ext!Exact)' /\ (Ext!CountAgrees)'
<1>1. /\ extfs' = extfs /\ usedblocks' = usedblocks /\ group' = group + 1
      /\ ext_step = "groups" /\ result = "none"
      /\ usedblocks = Ext!TotalBlock - extfs.freeblocks
      /\ group \in Nat /\ group < Ext!Groups
      /\ Ext!ScanInv
    BY VolumeTypes DEF Ext!ScanGroup, Ext!CallInv, Ext!TypeOK
<1>2. /\ (Ext!TotalBlock)' = Ext!TotalBlock /\ (Ext!Groups)' = Ext!Groups
      /\ \A g : Ext!FreeBelow(g)' = Ext!FreeBelow(g)
    BY <1>1, SameVolume
<1> DEFINE S == Ext!GroupBlocks(group)
           free == S \ extfs.inuse
<1>3. current_block < Ext!TotalBlock - 1 /\ S # {}
    BY <1>1, LastOfGroup, ScanParts
<1>4. /\ ext_bitmap' = ext_bitmap \ free
      /\ lfree' = lfree + Cardinality(free)
      /\ current_block' = CHOOSE b \in S : \A c \in S : c =< b
      /\ \/ ext_step' = "done" /\ result' = "FALSE"
         \/ ext_step' = ext_step /\ result' = result
    BY <1>3, SameCardinality DEF Ext!ScanGroup, Ext!Return
<1>5. /\ Ext!FreeBelow(group + 1) = Ext!FreeBelow(group) \cup free
      /\ Cardinality(Ext!FreeBelow(group + 1)) = Cardinality(Ext!FreeBelow(group)) + Cardinality(free)
    BY <1>1, FreeBelowNext
<1>6. group + 1 < Ext!Groups => current_block' < Ext!TotalBlock - 1
    BY <1>1, <1>4, LastOfGroup
<1> HIDE DEF S, free
<1>7. (Ext!ScanInv)'
    <2>1. Ext!FreeBelow(group)' = Ext!FreeBelow(group + 1)
        BY <1>1, <1>2
    <2>2. /\ ext_bitmap = (0 .. Ext!TotalBlock - 1) \ Ext!FreeBelow(group)
          /\ lfree = Cardinality(Ext!FreeBelow(group))
        BY <1>1, ScanParts
    <2>3. ext_bitmap' = (0 .. Ext!TotalBlock - 1) \ Ext!FreeBelow(group + 1)
        BY <1>4, <1>5, <2>2
    <2>4. lfree' = Cardinality(Ext!FreeBelow(group + 1))
        BY <1>4, <1>5, <2>2
    <2>5. QED BY <1>1, <1>2, <1>6, <2>1, <2>3, <2>4, ScanPartsNext
<1>8. (Ext!CallInv)'
    BY <1>1, <1>2, <1>4, <1>7 DEF Ext!CallInv
<1>9. (Ext!TypeOK)'
    <2>1. group + 1 \in Nat /\ Ext!TotalBlock \in Nat /\ Ext!Groups \in Nat
        BY <1>1, VolumeTypes
    <2>2. /\ ext_bitmap' = (0 .. Ext!TotalBlock - 1) \ Ext!FreeBelow(group + 1)
          /\ lfree' = Cardinality(Ext!FreeBelow(group + 1))
        BY <1>1, <1>2, <1>7, ScanPartsNext
    <2>3. lfree' \in 0 .. Ext!TotalBlock
        BY <2>1, <2>2, FreeBelowTypes
    <2>4. group' \in 0 .. Ext!Groups
        BY <1>1, <2>1
    <2>5. QED BY <1>1, <1>2, <1>4, <2>2, <2>3, <2>4 DEF Ext!TypeOK
<1>10. result' # "TRUE"
    BY <1>1, <1>4
<1>11. QED BY <1>8, <1>9, <1>10, NotReturned

(* What is returned is the bitmap of all the blocks but the free ones, as  *)
(* many as the superblock says.                                            *)
LEMMA CheckFreeStep ==
    ASSUME VolumeOK(extfs), Ext!TypeOK, Ext!CallInv, Ext!CheckFree
    PROVE  (Ext!TypeOK)' /\ (Ext!CallInv)' /\ (Ext!Exact)' /\ (Ext!CountAgrees)'
<1>1. /\ extfs' = extfs /\ usedblocks' = usedblocks /\ ext_bitmap' = ext_bitmap
      /\ group' = group /\ current_block' = current_block /\ lfree' = lfree
      /\ ext_step = "groups" /\ ext_step' = "done"
      /\ result' = IF lfree = extfs.freeblocks THEN "TRUE" ELSE "FALSE"
      /\ usedblocks = Ext!TotalBlock - extfs.freeblocks
      /\ group = Ext!Groups /\ Ext!ScanInv
    BY DEF Ext!CheckFree, Ext!CallInv, Ext!Return
<1>2. (Ext!TotalBlock)' = Ext!TotalBlock /\ (Ext!Groups)' = Ext!Groups
    BY <1>1, SameVolume
<1>3. (Ext!TypeOK)'
    BY <1>1, <1>2 DEF Ext!TypeOK
<1>4. (Ext!CallInv)'
    BY <1>1, <1>2 DEF Ext!CallInv
<1>5. ext_bitmap = (0 .. extfs.first - 1) \cup extfs.inuse
    BY <1>1, FreeBelowLast, ScanParts
<1>6. Cardinality(ext_bitmap) = Ext!TotalBlock - lfree
    BY <1>1, ScannedCount, VolumeTypes, ScanParts
<1>7. (Ext!Exact)'
    BY <1>1, <1>5 DEF Ext!Exact
<1>8. (Ext!CountAgrees)'
    <2>1. usedblocks' = Ext!TotalBlock - extfs.freeblocks
        BY <1>1
    <2>2. result' = "TRUE" => usedblocks' = Cardinality(ext_bitmap')
        BY <1>1, <1>6, <2>1
    <2>3. Ext!Cardinality(ext_bitmap') = Cardinality(ext_bitmap')
        BY SameCardinality
    <2>4. (Ext!gdbus_get_extfs_device_info.usedblocks)' = Ext!TotalBlock - extfs.freeblocks
        BY <1>1, <1>2 DEF Ext!gdbus_get_extfs_device_info
    <2>5. QED BY <2>1, <2>2, <2>3, <2>4 DEF Ext!CountAgrees
<1>9. QED BY <1>3, <1>4, <1>7, <1>8

LEMMA ExtStep ==
    ASSUME VolumeOK(extfs), Ext!TypeOK, Ext!CallInv, Ext!Next
    PROVE  (Ext!TypeOK)' /\ (Ext!CallInv)' /\ (Ext!Exact)' /\ (Ext!CountAgrees)' /\ VolumeOK(extfs)'
<1>1. extfs' = extfs
    BY DEF Ext!Next, Ext!read_super_blocks, Ext!ReadBitmaps, Ext!ScanGroup, Ext!CheckFree
<1>2. QED
    BY <1>1, SameVolume, SuperStep, ReadBitmapsStep, ScanGroupStep, CheckFreeStep DEF Ext!Next

-----------------------------------------------------------------------------
(* The FAT reader.                                                         *)

(* Quotients are natural numbers.                                          *)
LEMMA QuotientNat ==
    ASSUME NEW x \in Nat, NEW d \in Nat \ {0} PROVE x \div d \in Nat
OBVIOUS

(* The sectors of a volume, counted from its boot sector.                  *)
LEMMA FatGeometry ==
    ASSUME BootSectorOK(fat_sb)
    PROVE  /\ Fat!get_total_sector \in Nat /\ Fat!ReservedSectors \in Nat
           /\ Fat!get_cluster_count \in Nat /\ fat_sb.cluster_size \in Nat \ {0}
<1>1. /\ Fat!get_total_sector \in Nat /\ Fat!get_sec_per_fat \in Nat
      /\ fat_sb.cluster_size \in Nat \ {0} /\ fat_sb.reserved \in Nat /\ fat_sb.fats \in Nat
      /\ fat_sb.dir_entries \in Nat /\ DirEntriesPerSector \in Nat \ {0}
    BY BootSectorsAssumption DEF BootSectorOK, Fat!get_total_sector, Fat!get_sec_per_fat
<1>2. Fat!get_root_sec \in Nat
    <2>1. fat_sb.dir_entries + DirEntriesPerSector - 1 \in Nat
        BY <1>1
    <2>2. QED BY <1>1, <2>1, QuotientNat DEF Fat!get_root_sec
<1>3. Fat!ReservedSectors \in Nat
    <2>1. fat_sb.fats * Fat!get_sec_per_fat \in Nat
        BY <1>1
    <2>2. QED BY <1>1, <1>2, <2>1 DEF Fat!ReservedSectors
<1>4. Fat!get_cluster_count \in Nat
    <2>1. CASE Fat!ReservedSectors > Fat!get_total_sector
        BY <2>1 DEF Fat!get_cluster_count
    <2>2. CASE ~(Fat!ReservedSectors > Fat!get_total_sector)
        <3>1. Fat!get_total_sector - Fat!ReservedSectors \in Nat
            BY <1>1, <1>3, <2>2
        <3>2. QED BY <1>1, <2>2, <3>1, QuotientNat DEF Fat!get_cluster_count
    <2>3. QED BY <2>1, <2>2
<1>5. QED BY <1>1, <1>3, <1>4

(* Clusters begin where the one before them ends.                          *)
LEMMA ClusterEdges ==
    ASSUME NEW c \in Nat \ {0}, NEW R \in Nat, NEW n \in Nat
    PROVE  /\ R + n * c \in Nat /\ R + (n + 1) * c = R + n * c + c
           /\ R =< R + n * c
           /\ \A k \in Nat : k < n => R + (k + 1) * c =< R + n * c
<1>1. n * c \in Nat /\ (n + 1) * c = n * c + c
    OBVIOUS
<1>2. ASSUME NEW k \in Nat, k < n
      PROVE  (k + 1) * c =< n * c
    <2>1. k + 1 =< n /\ k + 1 \in Nat
        BY <1>2
    <2>2. QED BY <2>1
<1>3. QED BY <1>1, <1>2

(* No sector behind the first n clusters, or of the one that comes next,   *)
(* was judged by them, and none before the first.                          *)
LEMMA KeptBehind ==
    ASSUME BootSectorOK(fat_sb), NEW n \in Nat
    PROVE  /\ {b \in Fat!Sectors : b < Fat!ReservedSectors} \subseteq Fat!Kept(n)
           /\ {b \in Fat!Sectors : b >= Fat!ReservedSectors + n * fat_sb.cluster_size} \subseteq Fat!Kept(n)
           /\ Fat!Cluster(n) \subseteq Fat!Kept(n)
<1> DEFINE c == fat_sb.cluster_size
           R == Fat!ReservedSectors
<1>1. c \in Nat \ {0} /\ R \in Nat /\ Fat!get_total_sector \in Nat
    BY FatGeometry
<1>2. Fat!Sectors \subseteq Nat
    BY <1>1 DEF Fat!Sectors
<1>3. \A k : Fat!Cluster(k) = {b \in Fat!Sectors : R + k * c =< b /\ b < R + (k + 1) * c}
    BY DEF Fat!Cluster
<1> HIDE DEF c, R
<1>4. \A k \in 0 .. n - 1 : R + k * c \in Nat /\ R =< R + k * c
          /\ R + (k + 1) * c \in Nat /\ R + (k + 1) * c =< R + n * c
    BY <1>1, ClusterEdges
<1>5. R + n * c \in Nat
    BY <1>1, ClusterEdges
<1>6. ASSUME NEW b \in Fat!Sectors, b < R \/ b >= R + n * c, NEW k \in 0 .. n - 1
      PROVE  b \notin Fat!Cluster(k)
    BY <1>1, <1>2, <1>3, <1>4, <1>5, <1>6
<1>7. \A b \in Fat!Sectors : b < R \/ b >= R + n * c => b \in Fat!Kept(n)
    BY <1>6 DEF Fat!Kept
<1>8. \A b \in Fat!Cluster(n) : b \in Fat!Sectors /\ b >= R + n * c
    BY <1>2, <1>3, <1>5
<1>9. QED BY <1>7, <1>8 DEF c, R

(* A pass begins with every bit set.                                       *)
LEMMA KeptFirst == Fat!Kept(0) = Fat!Sectors
BY DEF Fat!Kept

(* An entry decides on the bits of its cluster and of no other.            *)
LEMMA KeptNext ==
    ASSUME BootSectorOK(fat_sb), NEW n \in Nat
    PROVE  Fat!Kept(n + 1) =
               IF Fat!EntryAt(Fat!FirstEntry + n) \in {Fat!Free, Fat!Bad}
               THEN Fat!Kept(n) \ Fat!Cluster(n)
               ELSE Fat!Kept(n) \cup Fat!Cluster(n)
<1>1. Fat!Cluster(n) \subseteq Fat!Kept(n)
    BY KeptBehind
<1>2. 0 .. (n + 1) - 1 = (0 .. n - 1) \cup {n}
    OBVIOUS
<1>3. Fat!Kept(n + 1) =
          {b \in Fat!Kept(n) :
              b \in Fat!Cluster(n) =>
                  Fat!EntryAt(Fat!FirstEntry + n) \notin {Fat!Free, Fat!Bad}}
    BY <1>2 DEF Fat!Kept
<1>4. QED BY <1>1, <1>3

(* The volume and its table are the same after every step.                 *)
LEMMA SameBootSector ==
    ASSUME fat_sb' = fat_sb
    PROVE  /\ BootSectorOK(fat_sb)' <=> BootSectorOK(fat_sb)
           /\ (Fat!get_total_sector)' = Fat!get_total_sector
           /\ (Fat!ReservedSectors)' = Fat!ReservedSectors
           /\ (Fat!get_cluster_count)' = Fat!get_cluster_count
           /\ (Fat!Sectors)' = Fat!Sectors
           /\ \A k : Fat!Cluster(k)' = Fat!Cluster(k)
<1> USE DEF Fat!get_total_sector, Fat!ReservedSectors, Fat!get_sec_per_fat, Fat!get_root_sec
<1>1. /\ BootSectorOK(fat_sb)' <=> BootSectorOK(fat_sb)
      /\ (Fat!get_total_sector)' = Fat!get_total_sector
      /\ (Fat!ReservedSectors)' = Fat!ReservedSectors
    BY DEF BootSectorOK
<1>2. (Fat!get_cluster_count)' = Fat!get_cluster_count
    BY DEF Fat!get_cluster_count
<1>3. (Fat!Sectors)' = Fat!Sectors
    BY DEF Fat!Sectors
<1>4. \A k : Fat!Cluster(k)' = Fat!Cluster(k)
    BY DEF Fat!Cluster, Fat!Sectors
<1>5. QED BY <1>1, <1>2, <1>3, <1>4

LEMMA SameTable ==
    ASSUME fat_sb' = fat_sb, FAT' = FAT, FS' = FS
    PROVE  /\ (Fat!FirstEntry)' = Fat!FirstEntry
           /\ (Fat!StatusPasses)' = Fat!StatusPasses
           /\ \A n : Fat!Kept(n)' = Fat!Kept(n)
<1>1. (Fat!FirstEntry)' = Fat!FirstEntry
    BY DEF Fat!FirstEntry
<1>2. (Fat!StatusPasses)' = Fat!StatusPasses
    BY DEF Fat!StatusPasses, Fat!StatusGood
<1>3. \A n : Fat!EntryAt(n)' = Fat!EntryAt(n)
    BY DEF Fat!EntryAt, Fat!Nibble
<1>4. ASSUME NEW n PROVE Fat!Kept(n)' = Fat!Kept(n)
    <2>1. \A k \in 0 .. n - 1 : Fat!EntryAt(Fat!FirstEntry + k)' = Fat!EntryAt(Fat!FirstEntry + k)
        BY <1>1 DEF Fat!EntryAt, Fat!Nibble
    <2>2. (Fat!Sectors)' = Fat!Sectors /\ \A k : Fat!Cluster(k)' = Fat!Cluster(k)
        BY SameBootSector
    <2>3. QED BY <2>1, <2>2 DEF Fat!Kept, Fat!Free, Fat!Bad
<1>5. QED BY <1>1, <1>2, <1>4

(* Nothing is promised of a call that has not returned TRUE.               *)
LEMMA NotReturnedFat ==
    ASSUME result' # "TRUE" PROVE (Fat!MetadataMarked)' /\ (Fat!PassesAgree)'
BY DEF Fat!MetadataMarked, Fat!PassesAgree

(* What the passes have found, counted with Cardinality.                   *)
LEMMA PassParts ==
    Fat!PassInv <=>
        (~fat_failed =>
            /\ fat_at = "clusters" => /\ fat_pos = Fat!FirstEntry + fat_i
                                      /\ fat_map = Fat!Kept(fat_i) /\ Fat!StatusPasses
            /\ fat_pass = "bitmap" /\ Fat!StatusPasses =>
                   usedblocks = Cardinality(Fat!Kept(Fat!get_cluster_count)))
<1>1. \A S : Fat!Cardinality(S) = Cardinality(S)
    BY SameCardinality
<1>2. QED BY <1>1 DEF Fat!PassInv

LEMMA PassPartsNext ==
    Fat!PassInv' <=>
        (~fat_failed' =>
            /\ fat_at' = "clusters" => /\ fat_pos' = (Fat!FirstEntry)' + fat_i'
                                       /\ fat_map' = Fat!Kept(fat_i)' /\ (Fat!StatusPasses)'
            /\ fat_pass' = "bitmap" /\ (Fat!StatusPasses)' =>
                   usedblocks' = Cardinality(Fat!Kept(Fat!get_cluster_count)'))
<1>1. \A S : Fat!Cardinality(S) = Cardinality(S)
    BY SameCardinality
<1>2. Fat!Cardinality(Fat!Kept(Fat!get_cluster_count))'
          = Cardinality(Fat!Kept(Fat!get_cluster_count)')
    BY <1>1 DEF Fat!Cardinality, Cardinality
<1>3. QED BY <1>2 DEF Fat!PassInv

(* A pass that begins or ends has no promise to keep but its count.        *)
LEMMA OpenDeviceStep ==
    ASSUME BootSectorOK(fat_sb), Fat!TypeOK, Fat!MarkInv, Fat!PassInv, Fat!OpenDevice
    PROVE  (Fat!TypeOK)' /\ (Fat!MarkInv)' /\ (Fat!PassInv)'
               /\ (Fat!MetadataMarked)' /\ (Fat!PassesAgree)'
<1>1. /\ fat_sb' = fat_sb /\ FAT' = FAT /\ fat_pass' = fat_pass /\ fat_pos' = fat_pos
      /\ fat_i' = fat_i /\ fat_block' = fat_block /\ fat_map' = fat_map
      /\ usedblocks' = usedblocks /\ fat_failed' = fat_failed
      /\ result = "none"
      /\ fat_at' \in {"stopped", "died", "mark"}
      /\ result' \in {"FALSE", result} /\ (fat_at' # "stopped" => result' = result)
      /\ FS' = FS \/ FS' = Fat!get_fat_fs_type
      /\ fat_pass = "bitmap" => FS' = FS
    <2>1. Fat!OpenDevice => fat_at = "open"
        BY DEF Fat!OpenDevice
    <2>2. Fat!TypeOK => fat_pass \in {"count", "bitmap"}
        BY DEF Fat!TypeOK
    <2>3. QED BY <2>1, <2>2 DEF Fat!OpenDevice, Fat!MarkInv
<1>2. (Fat!get_cluster_count)' = Fat!get_cluster_count /\ (Fat!Sectors)' = Fat!Sectors
    BY <1>1, SameBootSector
<1>3. Fat!get_fat_fs_type \in {"NULL", "FAT12", "FAT16", "FAT32"}
    BY DEF Fat!get_fat_fs_type
<1>4. (Fat!TypeOK)'
    BY <1>1, <1>2, <1>3 DEF Fat!TypeOK
<1>5. (Fat!MarkInv)'
    BY <1>1 DEF Fat!MarkInv
<1>6. (Fat!PassInv)'
    <2>1. CASE fat_pass = "bitmap"
        <3>1. /\ (Fat!StatusPasses)' = Fat!StatusPasses
              /\ Fat!Kept(Fat!get_cluster_count)' = Fat!Kept(Fat!get_cluster_count)
            <4>1. FS' = FS
                BY <1>1, <2>1
            <4>2. QED BY <1>1, <1>2, <4>1, SameTable
        <3>2. QED BY <1>1, <2>1, <3>1, PassParts, PassPartsNext
    <2>2. CASE fat_pass # "bitmap"
        BY <1>1, <2>2, PassPartsNext
    <2>3. QED BY <2>1, <2>2
<1>7. QED BY <1>1, <1>4, <1>5, <1>6, NotReturnedFat

(* Every bit is set before the first entry is read.                        *)
LEMMA MarkReservedStep ==
    ASSUME BootSectorOK(fat_sb), Fat!TypeOK, Fat!MarkInv, Fat!PassInv, Fat!mark_reserved_sectors
    PROVE  (Fat!TypeOK)' /\ (Fat!MarkInv)' /\ (Fat!PassInv)'
               /\ (Fat!MetadataMarked)' /\ (Fat!PassesAgree)'
<1>1. /\ fat_sb' = fat_sb /\ FAT' = FAT /\ FS' = FS /\ fat_pass' = fat_pass
      /\ fat_map' = Fat!Sectors /\ fat_block' = Fat!ReservedSectors
      /\ fat_pos' = 0 /\ fat_i' = 0 /\ fat_at' = "status"
      /\ usedblocks' = usedblocks /\ fat_failed' = fat_failed
      /\ result' = result /\ result = "none"
    BY DEF Fat!mark_reserved_sectors, Fat!MarkInv
<1>2. /\ (Fat!get_cluster_count)' = Fat!get_cluster_count /\ (Fat!Sectors)' = Fat!Sectors
      /\ (Fat!ReservedSectors)' = Fat!ReservedSectors
    BY <1>1, SameBootSector
<1>3. /\ Fat!get_cluster_count \in Nat /\ Fat!ReservedSectors \in Nat
      /\ fat_sb.cluster_size \in Nat
    BY FatGeometry
<1>4. (Fat!TypeOK)'
    BY <1>1, <1>2, <1>3 DEF Fat!TypeOK
<1>5. (Fat!MarkInv)'
    <2>1. Fat!ReservedSectors + 0 * fat_sb.cluster_size = Fat!ReservedSectors
        BY <1>3
    <2>2. QED BY <1>1, <1>2, <2>1 DEF Fat!MarkInv
<1>6. (Fat!PassInv)'
    <2>1. /\ (Fat!StatusPasses)' = Fat!StatusPasses
          /\ Fat!Kept(Fat!get_cluster_count)' = Fat!Kept(Fat!get_cluster_count)
        BY <1>1, <1>2, SameTable
    <2>2. QED BY <1>1, <2>1, PassParts, PassPartsNext
<1>7. QED BY <1>1, <1>4, <1>5, <1>6, NotReturnedFat

(* A bad status ends a pass; a good one leaves the table where the entry   *)
(* of the first cluster will be read.                                      *)
LEMMA StatusStep ==
    ASSUME BootSectorOK(fat_sb), Fat!TypeOK, Fat!MarkInv, Fat!PassInv, Fat!check_fat_status
    PROVE  (Fat!TypeOK)' /\ (Fat!MarkInv)' /\ (Fat!PassInv)'
               /\ (Fat!MetadataMarked)' /\ (Fat!PassesAgree)'
<1>1. /\ fat_sb' = fat_sb /\ FAT' = FAT /\ FS' = FS /\ fat_i' = fat_i
      /\ fat_block' = fat_block /\ fat_map' = fat_map
      /\ fat_at = "status" /\ result = "none"
      /\ fat_pos = 0 /\ fat_i = 0 /\ fat_map = Fat!Sectors
    BY DEF Fat!check_fat_status, Fat!MarkInv
<1>2. \/ /\ fat_at' = "clusters" /\ fat_pass' = fat_pass /\ usedblocks' = usedblocks
         /\ result' = result
      \/ /\ fat_pass = "count" /\ fat_pass' = "bitmap" /\ fat_at' = "open" /\ result' = result
      \/ /\ fat_pass # "count" /\ fat_at' = "stopped" /\ result' = "FALSE"
         /\ fat_pass' = fat_pass /\ usedblocks' = usedblocks
    BY DEF Fat!check_fat_status, Fat!GoodStatus, Fat!BadStatus
<1>3. \/ fat_failed' = TRUE /\ fat_pos' = fat_pos
      \/ /\ fat_failed' = fat_failed /\ fat_at' = "clusters" /\ Fat!StatusPasses
         /\ fat_pos' = Fat!FirstEntry
      \/ /\ fat_failed' = fat_failed /\ fat_at' # "clusters" /\ ~Fat!StatusPasses
         /\ fat_pos' = fat_pos + 1
    <2>1. CASE FS = "FAT12"
        <3>1. fat_failed' = fat_failed /\ fat_at' = "clusters" /\ fat_pos' = fat_pos
            BY <2>1 DEF Fat!check_fat_status, Fat!GoodStatus
        <3>2. Fat!StatusPasses /\ Fat!FirstEntry = 0
            BY <2>1 DEF Fat!StatusPasses, Fat!FirstEntry
        <3>3. QED BY <1>1, <3>1, <3>2
    <2>2. CASE FS # "FAT12"
        <3>1. \/ fat_failed' = TRUE /\ fat_pos' = fat_pos
              \/ /\ fat_failed' = fat_failed /\ fat_pos' = fat_pos + 1
                 /\ IF Fat!StatusGood(FAT[fat_pos]) THEN Fat!GoodStatus ELSE Fat!BadStatus
            BY <2>2 DEF Fat!check_fat_status
        <3>2. Fat!FirstEntry = fat_pos + 1
            BY <1>1, <2>2 DEF Fat!FirstEntry
        <3>3. Fat!StatusPasses <=> Fat!StatusGood(FAT[fat_pos])
            BY <1>1, <2>2 DEF Fat!StatusPasses
        <3>4. /\ Fat!GoodStatus => fat_at' = "clusters"
              /\ Fat!BadStatus => fat_at' # "clusters"
            BY DEF Fat!GoodStatus, Fat!BadStatus
        <3>5. QED BY <3>1, <3>2, <3>3, <3>4
    <2>3. QED BY <2>1, <2>2
<1>4. /\ (Fat!get_cluster_count)' = Fat!get_cluster_count /\ (Fat!Sectors)' = Fat!Sectors
      /\ (Fat!ReservedSectors)' = Fat!ReservedSectors
      /\ (Fat!FirstEntry)' = Fat!FirstEntry /\ (Fat!StatusPasses)' = Fat!StatusPasses
      /\ \A n : Fat!Kept(n)' = Fat!Kept(n)
    BY <1>1, SameBootSector, SameTable
<1>5. Fat!get_cluster_count \in Nat /\ Fat!FirstEntry \in {0, 1}
    BY FatGeometry DEF Fat!FirstEntry
<1>6. fat_pos' \in 0 .. 1
    BY <1>1, <1>3, <1>5
<1>7. (Fat!TypeOK)'
    BY <1>1, <1>2, <1>4, <1>5, <1>6 DEF Fat!TypeOK
<1>8. (Fat!MarkInv)'
    BY <1>1, <1>2, <1>4, <1>6 DEF Fat!MarkInv
<1>9. (Fat!PassInv)'
    <2>1. ASSUME ~fat_failed', fat_at' = "clusters"
          PROVE  /\ fat_pos' = (Fat!FirstEntry)' + fat_i'
                 /\ fat_map' = Fat!Kept(fat_i)' /\ (Fat!StatusPasses)'
        <3>1. fat_pos' = Fat!FirstEntry /\ Fat!StatusPasses
            BY <1>3, <2>1
        <3>2. Fat!Kept(fat_i)' = Fat!Kept(0)
            <4>1. Fat!Kept(fat_i)' = Fat!Kept(fat_i')
                BY <1>1, <1>4
            <4>2. QED BY <1>1, <4>1
        <3>3. QED BY <1>1, <1>4, <1>5, <3>1, <3>2, KeptFirst
    <2>2. ASSUME ~fat_failed', fat_pass' = "bitmap", (Fat!StatusPasses)'
          PROVE  usedblocks' = Cardinality(Fat!Kept(Fat!get_cluster_count)')
        <3>1. fat_at' = "clusters" /\ ~fat_failed
            BY <1>3, <1>4, <2>2
        <3>2. fat_pass = "bitmap" /\ usedblocks' = usedblocks
            BY <1>2, <2>2, <3>1
        <3>3. Fat!Kept(Fat!get_cluster_count)' = Fat!Kept(Fat!get_cluster_count)
            BY <1>4
        <3>4. QED BY <1>4, <2>2, <3>1, <3>2, <3>3, PassParts
    <2>3. QED BY <2>1, <2>2, PassPartsNext
<1>10. result' # "TRUE"
    BY <1>1, <1>2
<1>11. QED BY <1>7, <1>8, <1>9, <1>10, NotReturnedFat

(* The sectors that an entry is judged for are those of the next cluster.  *)
LEMMA NextCluster ==
    ASSUME BootSectorOK(fat_sb), fat_i \in Nat,
           fat_block = Fat!ReservedSectors + fat_i * fat_sb.cluster_size
    PROVE  /\ {b \in fat_block .. fat_block + fat_sb.cluster_size - 1 : b \in Fat!Sectors}
                  = Fat!Cluster(fat_i)
           /\ fat_block + fat_sb.cluster_size
                  = Fat!ReservedSectors + (fat_i + 1) * fat_sb.cluster_size
           /\ Fat!ReservedSectors =< fat_block /\ fat_block \in Nat
           /\ \A b \in Fat!Cluster(fat_i) :
                  fat_block =< b /\ b < fat_block + fat_sb.cluster_size
<1> DEFINE c == fat_sb.cluster_size
           R == Fat!ReservedSectors
           upper == R + (fat_i + 1) * c
<1>1. c \in Nat \ {0} /\ R \in Nat /\ Fat!get_total_sector \in Nat
    BY FatGeometry
<1>2. /\ upper = fat_block + c
      /\ R =< fat_block /\ fat_block \in Nat
    <2> HIDE DEF c, R
    <2>1. QED BY <1>1, ClusterEdges DEF c, R
<1>3. Fat!Sectors \subseteq Nat
    BY <1>1 DEF Fat!Sectors
<1>4. Fat!Cluster(fat_i) = {b \in Fat!Sectors : fat_block =< b /\ b < upper}
    BY DEF Fat!Cluster
<1> HIDE DEF c, R, upper
<1>5. {b \in fat_block .. fat_block + c - 1 : b \in Fat!Sectors} = Fat!Cluster(fat_i)
    <2>1. \A b \in Nat : b \in fat_block .. fat_block + c - 1 <=> fat_block =< b /\ b < upper
        BY <1>1, <1>2
    <2>2. \A b : b \in Fat!Sectors => b \in Nat
        BY <1>3
    <2>3. QED BY <1>4, <2>1, <2>2
<1>6. \A b \in Fat!Cluster(fat_i) : fat_block =< b /\ b < fat_block + c
    BY <1>2, <1>4
<1>7. fat_block .. fat_block + fat_sb.cluster_size - 1 = fat_block .. fat_block + c - 1
    BY DEF c
<1>8. QED BY <1>2, <1>5, <1>6 DEF c, R, upper

(* An entry that is read judges the next cluster as Kept says; a read that *)
(* fails clears it.                                                        *)
LEMMA EntryStep ==
    ASSUME BootSectorOK(fat_sb), Fat!TypeOK, Fat!MarkInv, Fat!PassInv, Fat!check_fat_entry
    PROVE  (Fat!TypeOK)' /\ (Fat!MarkInv)' /\ (Fat!PassInv)'
               /\ (Fat!MetadataMarked)' /\ (Fat!PassesAgree)'
<1> DEFINE cluster == Fat!Cluster(fat_i)
<1>1. /\ fat_sb' = fat_sb /\ FAT' = FAT /\ FS' = FS /\ fat_pass' = fat_pass
      /\ fat_at' = fat_at /\ usedblocks' = usedblocks /\ result' = result
      /\ fat_at = "clusters" /\ result = "none"
    BY DEF Fat!check_fat_entry, Fat!MarkInv
<1>2. /\ fat_i < Fat!get_cluster_count
      /\ fat_block' = fat_block + fat_sb.cluster_size /\ fat_i' = fat_i + 1
    BY DEF Fat!check_fat_entry
<1>3. /\ fat_i \in Nat /\ fat_pos \in Nat /\ fat_pos =< fat_i + 1
      /\ fat_block = Fat!ReservedSectors + fat_i * fat_sb.cluster_size
      /\ Fat!get_cluster_count \in Nat
      /\ fat_map \subseteq Fat!Sectors
    BY <1>1, FatGeometry DEF Fat!TypeOK, Fat!MarkInv
<1>4. /\ {b \in fat_block .. fat_block + fat_sb.cluster_size - 1 : b \in Fat!Sectors} = cluster
      /\ fat_block' = Fat!ReservedSectors + (fat_i + 1) * fat_sb.cluster_size
      /\ Fat!ReservedSectors =< fat_block /\ fat_block \in Nat
      /\ \A b \in cluster : fat_block =< b /\ b < fat_block'
    BY <1>2, <1>3, NextCluster
<1>5. ASSUME NEW entry, Fat!Judge(entry)
      PROVE  fat_map' = IF entry \in {Fat!Free, Fat!Bad} THEN fat_map \ cluster ELSE fat_map \cup cluster
    BY <1>4, <1>5 DEF Fat!Judge
<1>6. \/ /\ fat_failed' = fat_failed /\ fat_pos' = fat_pos + 1
         /\ fat_map' = IF Fat!EntryAt(fat_pos) \in {Fat!Free, Fat!Bad}
                       THEN fat_map \ cluster ELSE fat_map \cup cluster
      \/ fat_failed' = TRUE /\ fat_pos' = fat_pos /\ fat_map' = fat_map \ cluster
    BY <1>5 DEF Fat!check_fat_entry
<1>7. cluster \subseteq Fat!Sectors
    BY DEF Fat!Cluster
<1> HIDE DEF cluster
<1>8. fat_map' \in {fat_map \ cluster, fat_map \cup cluster}
    BY <1>6
<1>9. fat_pos' \in Nat /\ fat_pos' =< fat_pos + 1
    BY <1>3, <1>6
<1>10. /\ (Fat!get_cluster_count)' = Fat!get_cluster_count /\ (Fat!Sectors)' = Fat!Sectors
       /\ (Fat!ReservedSectors)' = Fat!ReservedSectors
       /\ (Fat!FirstEntry)' = Fat!FirstEntry /\ (Fat!StatusPasses)' = Fat!StatusPasses
       /\ \A n : Fat!Kept(n)' = Fat!Kept(n)
    BY <1>1, SameBootSector, SameTable
<1>11. (Fat!TypeOK)'
    <2>1. fat_i' \in 0 .. Fat!get_cluster_count
        BY <1>2, <1>3
    <2>2. fat_pos' \in 0 .. Fat!get_cluster_count + 1
        BY <1>2, <1>3, <1>9
    <2>3. fat_map' \subseteq Fat!Sectors
        BY <1>3, <1>7, <1>8
    <2>4. QED BY <1>1, <1>10, <2>1, <2>2, <2>3 DEF Fat!TypeOK
<1>12. (Fat!MarkInv)'
    <2>1. {b \in Fat!Sectors : b < Fat!ReservedSectors \/ b >= fat_block} \subseteq fat_map
        BY <1>1 DEF Fat!MarkInv
    <2>2. fat_sb.cluster_size \in Nat \ {0} /\ Fat!ReservedSectors \in Nat /\ Fat!Sectors \subseteq Int
        BY FatGeometry DEF Fat!Sectors
    <2>3. \A b \in Fat!Sectors : b < Fat!ReservedSectors \/ b >= fat_block'
              => b \in fat_map /\ b \notin cluster
        BY <1>2, <1>4, <2>1, <2>2
    <2>4. {b \in Fat!Sectors : b < Fat!ReservedSectors \/ b >= fat_block'} \subseteq fat_map'
        BY <1>8, <2>3
    <2>5. fat_pos' =< fat_i' + 1
        BY <1>2, <1>3, <1>9
    <2>6. QED BY <1>1, <1>2, <1>4, <1>10, <2>4, <2>5 DEF Fat!MarkInv
<1>13. (Fat!PassInv)'
    <2>1. ASSUME ~fat_failed'
          PROVE  /\ fat_pos' = (Fat!FirstEntry)' + fat_i'
                 /\ fat_map' = Fat!Kept(fat_i)' /\ (Fat!StatusPasses)'
        <3>1. /\ fat_pos = Fat!FirstEntry + fat_i /\ fat_map = Fat!Kept(fat_i)
              /\ Fat!StatusPasses
            BY <1>1, <1>6, <2>1, PassParts
        <3>2. fat_pos' = Fat!FirstEntry + (fat_i + 1)
            BY <1>3, <1>6, <2>1, <3>1 DEF Fat!FirstEntry
        <3>3. fat_map' = Fat!Kept(fat_i + 1)
            <4>1. fat_map' = IF Fat!EntryAt(Fat!FirstEntry + fat_i) \in {Fat!Free, Fat!Bad}
                             THEN Fat!Kept(fat_i) \ cluster ELSE Fat!Kept(fat_i) \cup cluster
                BY <1>6, <2>1, <3>1
            <4>2. QED BY <1>3, <4>1, KeptNext DEF cluster
        <3>4. Fat!Kept(fat_i)' = Fat!Kept(fat_i')
            BY <1>10
        <3>5. QED BY <1>2, <1>10, <3>1, <3>2, <3>3, <3>4
    <2>2. ASSUME ~fat_failed', fat_pass' = "bitmap", (Fat!StatusPasses)'
          PROVE  usedblocks' = Cardinality(Fat!Kept(Fat!get_cluster_count)')
        <3>1. Fat!Kept(Fat!get_cluster_count)' = Fat!Kept(Fat!get_cluster_count)
            BY <1>10
        <3>2. ~fat_failed
            BY <1>6, <2>2
        <3>3. QED BY <1>1, <1>10, <2>2, <3>1, <3>2, PassParts
    <2>3. QED BY <2>1, <2>2, PassPartsNext
<1>14. QED BY <1>1, <1>11, <1>12, <1>13, NotReturnedFat

(* The counting pass leaves the count of the bits that the other one will  *)
(* set, and the other one returns them.                                    *)
LEMMA EndOfPassStep ==
    ASSUME BootSectorOK(fat_sb), Fat!TypeOK, Fat!MarkInv, Fat!PassInv, Fat!EndOfPass
    PROVE  (Fat!TypeOK)' /\ (Fat!MarkInv)' /\ (Fat!PassInv)'
               /\ (Fat!MetadataMarked)' /\ (Fat!PassesAgree)'
<1> DEFINE N == Fat!get_cluster_count
           tail == {b \in Fat!Sectors : b >= fat_block}
<1>1. /\ fat_sb' = fat_sb /\ FAT' = FAT /\ FS' = FS /\ fat_pos' = fat_pos /\ fat_i' = fat_i
      /\ fat_block' = fat_block /\ fat_failed' = fat_failed
      /\ fat_at = "clusters" /\ result = "none" /\ fat_i = N
      /\ fat_block = Fat!ReservedSectors + fat_i * fat_sb.cluster_size
      /\ {b \in Fat!Sectors : b < Fat!ReservedSectors \/ b >= fat_block} \subseteq fat_map
    BY DEF Fat!EndOfPass, Fat!MarkInv
<1>2. \/ /\ fat_pass = "count" /\ fat_map' = fat_map \cup tail
         /\ usedblocks' = Cardinality(fat_map')
         /\ fat_pass' = "bitmap" /\ fat_at' = "open" /\ result' = result
      \/ /\ fat_pass # "count" /\ fat_at' = "stopped" /\ result' = "TRUE"
         /\ fat_map' = fat_map /\ fat_pass' = fat_pass /\ usedblocks' = usedblocks
    <2>1. \A S : Fat!Cardinality(S) = Cardinality(S)
        BY SameCardinality
    <2>2. QED BY <2>1 DEF Fat!EndOfPass
<1>3. fat_map' = fat_map
    <2>1. tail \subseteq fat_map
        BY <1>1
    <2>2. QED BY <1>2, <2>1
<1> HIDE DEF tail
<1>4. /\ (Fat!get_cluster_count)' = N /\ (Fat!Sectors)' = Fat!Sectors
      /\ (Fat!ReservedSectors)' = Fat!ReservedSectors
      /\ (Fat!FirstEntry)' = Fat!FirstEntry /\ (Fat!StatusPasses)' = Fat!StatusPasses
      /\ \A n : Fat!Kept(n)' = Fat!Kept(n)
    BY <1>1, SameBootSector, SameTable
<1>5. ~fat_failed => fat_map = Fat!Kept(N) /\ Fat!StatusPasses
    <2>1. ~fat_failed => fat_map = Fat!Kept(fat_i) /\ Fat!StatusPasses
        BY <1>1, PassParts
    <2>2. QED BY <1>1, <2>1
<1>6. fat_pass \in {"count", "bitmap"}
    BY DEF Fat!TypeOK
<1>7. ~fat_failed => usedblocks' = Cardinality(Fat!Kept(N))
    <2>1. CASE fat_pass = "count"
        BY <1>2, <1>3, <1>5, <2>1
    <2>2. CASE fat_pass = "bitmap"
        <3>1. ~fat_failed /\ Fat!StatusPasses => usedblocks = Cardinality(Fat!Kept(N))
            BY <2>2, PassParts
        <3>2. QED BY <1>2, <1>5, <2>2, <3>1
    <2>3. QED BY <1>6, <2>1, <2>2
<1>8. (Fat!TypeOK)'
    BY <1>1, <1>2, <1>3, <1>4 DEF Fat!TypeOK
<1>9. (Fat!MarkInv)'
    BY <1>1, <1>2 DEF Fat!MarkInv
<1>10. (Fat!PassInv)'
    <2>1. Fat!Kept(Fat!get_cluster_count)' = Fat!Kept(N)
        BY <1>4
    <2>2. fat_at' # "clusters"
        BY <1>2
    <2>3. QED BY <1>1, <1>7, <2>1, <2>2, PassPartsNext
<1>11. (Fat!MetadataMarked)'
    <2>1. \A b \in Fat!Sectors :
              b < Fat!ReservedSectors \/ b >= Fat!ReservedSectors + N * fat_sb.cluster_size
              => b \in fat_map
        BY <1>1
    <2>2. QED BY <1>1, <1>3, <1>4, <2>1 DEF Fat!MetadataMarked
<1>12. (Fat!PassesAgree)'
    <2>1. ~fat_failed' => usedblocks' = Cardinality(fat_map')
        BY <1>1, <1>3, <1>5, <1>7
    <2>2. Fat!Cardinality(fat_map') = Cardinality(fat_map')
        BY SameCardinality
    <2>3. Fat!Cardinality(fat_map)' = Cardinality(fat_map')
        BY <2>2 DEF Fat!Cardinality
    <2>4. QED BY <2>1, <2>3 DEF Fat!PassesAgree
<1>13. QED BY <1>8, <1>9, <1>10, <1>11, <1>12

LEMMA FatStep ==
    ASSUME BootSectorOK(fat_sb), Fat!TypeOK, Fat!MarkInv, Fat!PassInv, Fat!Next
    PROVE  /\ (Fat!TypeOK)' /\ (Fat!MarkInv)' /\ (Fat!PassInv)'
           /\ (Fat!MetadataMarked)' /\ (Fat!PassesAgree)' /\ BootSectorOK(fat_sb)'
<1>1. fat_sb' = fat_sb
    BY DEF Fat!Next, Fat!OpenDevice, Fat!mark_reserved_sectors, Fat!check_fat_status,
           Fat!check_fat_entry, Fat!EndOfPass
<1>2. QED
    BY <1>1, SameBootSector, OpenDeviceStep, MarkReservedStep, StatusStep, EntryStep,
       EndOfPassStep DEF Fat!Next

-----------------------------------------------------------------------------
(* The call and its reader.                                                *)

(* The reader that is not called keeps its types.                          *)
LEMMA ExtKept ==
    ASSUME Ext!TypeOK, UNCHANGED extvars, result' \in {"none", "TRUE", "FALSE"}
    PROVE  (Ext!TypeOK)'
<1>1. /\ extfs' = extfs /\ ext_step' = ext_step /\ ext_bitmap' = ext_bitmap
      /\ group' = group /\ lfree' = lfree
    BY DEF extvars
<1>2. (Ext!TotalBlock)' = Ext!TotalBlock /\ (Ext!Groups)' = Ext!Groups
    BY <1>1, SameVolume
<1>3. QED BY <1>1, <1>2 DEF Ext!TypeOK

LEMMA FatKept ==
    ASSUME Fat!TypeOK, UNCHANGED fatvars, result' \in {"none", "TRUE", "FALSE"}
    PROVE  (Fat!TypeOK)'
<1>1. /\ fat_sb' = fat_sb /\ FS' = FS /\ fat_pass' = fat_pass /\ fat_at' = fat_at
      /\ fat_pos' = fat_pos /\ fat_i' = fat_i /\ fat_map' = fat_map
    BY DEF fatvars
<1>2. (Fat!get_cluster_count)' = Fat!get_cluster_count /\ (Fat!Sectors)' = Fat!Sectors
    BY <1>1, SameBootSector
<1>3. QED BY <1>1, <1>2 DEF Fat!TypeOK

(* What ReadersInv says is kept by every step.                             *)
LEMMA ReadersInvInit == Init => ReadersInv
<1> SUFFICES ASSUME Init PROVE ReadersInv
    OBVIOUS
<1>1. /\ extfs \in Volumes /\ ext_step = "super" /\ usedblocks = 0 /\ ext_bitmap = {}
      /\ group = 0 /\ current_block = 0 /\ lfree = 0 /\ result = "none"
    BY DEF Init, Ext!Init
<1>2. /\ fat_sb \in BootSectors /\ FS = "none" /\ fat_pass = "count" /\ fat_at = "open"
      /\ fat_pos = 0 /\ fat_i = 0 /\ fat_map = {} /\ fat_failed = FALSE
    BY DEF Init, Fat!Init
<1>3. VolumeOK(extfs) /\ BootSectorOK(fat_sb)
    BY <1>1, <1>2, ExtVolumesAssumption, BootSectorsAssumption
<1>4. Ext!TypeOK
    <2>1. Ext!TotalBlock \in Nat /\ Ext!Groups \in Nat
        BY <1>3, VolumeTypes
    <2>2. QED BY <1>1, <2>1 DEF Ext!TypeOK
<1>5. Ext!CallInv
    BY <1>1 DEF Ext!CallInv
<1>6. Fat!TypeOK
    <2>1. Fat!get_cluster_count \in Nat
        BY <1>3, FatGeometry
    <2>2. QED BY <1>1, <1>2, <2>1 DEF Fat!TypeOK
<1>7. Fat!MarkInv /\ Fat!PassInv
    BY <1>1, <1>2 DEF Fat!MarkInv, Fat!PassInv
<1>8. method \in {"extfs", "fatfs"}
    BY DEF Init
<1>9. ExtExact /\ FatMetadataMarked /\ CountsAgree
    BY <1>1 DEF ExtExact, FatMetadataMarked, CountsAgree, Ext!Exact, Ext!CountAgrees,
                Fat!MetadataMarked, Fat!PassesAgree
<1>10. QED BY <1>3, <1>4, <1>5, <1>6, <1>7, <1>8, <1>9 DEF ReadersInv, TypeOK

LEMMA ReadersInvStep == ReadersInv /\ [Next]_vars => ReadersInv'
<1> SUFFICES ASSUME ReadersInv, [Next]_vars PROVE ReadersInv'
    OBVIOUS
<1>1. /\ Ext!TypeOK /\ Fat!TypeOK /\ method \in {"extfs", "fatfs"}
      /\ VolumeOK(extfs) /\ BootSectorOK(fat_sb)
      /\ method = "extfs" => Ext!CallInv
      /\ method = "fatfs" => Fat!MarkInv /\ Fat!PassInv
    BY DEF ReadersInv, TypeOK
<1>2. CASE ExtReader
    <2>1. method = "extfs" /\ method' = method /\ Ext!Next /\ UNCHANGED fatvars
        BY <1>2 DEF ExtReader
    <2>2. /\ (Ext!TypeOK)' /\ (Ext!CallInv)' /\ (Ext!Exact)' /\ (Ext!CountAgrees)'
          /\ VolumeOK(extfs)'
        BY <1>1, <2>1, ExtStep
    <2>3. result' \in {"none", "TRUE", "FALSE"}
        BY <2>2 DEF Ext!TypeOK
    <2>4. (Fat!TypeOK)'
        BY <1>1, <2>1, <2>3, FatKept
    <2>5. BootSectorOK(fat_sb)'
        BY <1>1, <2>1, SameBootSector DEF fatvars
    <2>6. (ExtExact)' /\ (FatMetadataMarked)' /\ (CountsAgree)'
        BY <2>1, <2>2 DEF ExtExact, FatMetadataMarked, CountsAgree
    <2>7. QED BY <1>1, <2>1, <2>2, <2>4, <2>5, <2>6 DEF ReadersInv, TypeOK
<1>3. CASE FatReader
    <2>1. method = "fatfs" /\ method' = method /\ Fat!Next /\ UNCHANGED extvars
        BY <1>3 DEF FatReader
    <2>2. /\ (Fat!TypeOK)' /\ (Fat!MarkInv)' /\ (Fat!PassInv)' /\ (Fat!MetadataMarked)'
          /\ (Fat!PassesAgree)' /\ BootSectorOK(fat_sb)'
        BY <1>1, <2>1, FatStep
    <2>3. result' \in {"none", "TRUE", "FALSE"}
        BY <2>2 DEF Fat!TypeOK
    <2>4. (Ext!TypeOK)'
        BY <1>1, <2>1, <2>3, ExtKept
    <2>5. VolumeOK(extfs)'
        BY <1>1, <2>1, SameVolume DEF extvars
    <2>6. (ExtExact)' /\ (FatMetadataMarked)' /\ (CountsAgree)'
        BY <2>1, <2>2 DEF ExtExact, FatMetadataMarked, CountsAgree
    <2>7. QED BY <1>1, <2>1, <2>2, <2>4, <2>5, <2>6 DEF ReadersInv, TypeOK
<1>4. CASE UNCHANGED vars
    <2>1. UNCHANGED <<method, extvars, fatvars, usedblocks, result>>
        BY <1>4 DEF vars
    <2>2. /\ extfs' = extfs /\ ext_step' = ext_step /\ ext_bitmap' = ext_bitmap
          /\ group' = group /\ current_block' = current_block /\ lfree' = lfree
          /\ usedblocks' = usedblocks /\ result' = result /\ method' = method
        BY <2>1 DEF extvars
    <2>3. /\ fat_sb' = fat_sb /\ FAT' = FAT /\ FS' = FS /\ fat_pass' = fat_pass
          /\ fat_at' = fat_at /\ fat_pos' = fat_pos /\ fat_i' = fat_i
          /\ fat_block' = fat_block /\ fat_map' = fat_map /\ fat_failed' = fat_failed
        BY <2>1 DEF fatvars
    <2>4. /\ (Ext!TotalBlock)' = Ext!TotalBlock /\ (Ext!Groups)' = Ext!Groups
          /\ \A g : Ext!FreeBelow(g)' = Ext!FreeBelow(g)
          /\ VolumeOK(extfs)'
        BY <1>1, <2>2, SameVolume
    <2>5. /\ (Fat!get_total_sector)' = Fat!get_total_sector
          /\ (Fat!ReservedSectors)' = Fat!ReservedSectors
          /\ (Fat!get_cluster_count)' = Fat!get_cluster_count
          /\ (Fat!Sectors)' = Fat!Sectors /\ BootSectorOK(fat_sb)'
        BY <1>1, <2>3, SameBootSector
    <2>6. /\ (Fat!FirstEntry)' = Fat!FirstEntry /\ (Fat!StatusPasses)' = Fat!StatusPasses
          /\ \A n : Fat!Kept(n)' = Fat!Kept(n)
        BY <2>3, SameTable
    <2>7. (Ext!TypeOK)' /\ (Fat!TypeOK)'
        BY <1>1, <2>2, <2>3, <2>4, <2>5 DEF Ext!TypeOK, Fat!TypeOK
    <2>8. (Ext!ScanInv)' <=> Ext!ScanInv
        BY <2>2, <2>4, ScanParts, ScanPartsNext
    <2>9. (Ext!CallInv)' <=> Ext!CallInv
        BY <2>2, <2>4, <2>8 DEF Ext!CallInv
    <2>10. (Fat!MarkInv)' <=> Fat!MarkInv
        BY <2>2, <2>3, <2>5 DEF Fat!MarkInv
    <2>11. (Fat!PassInv)' <=> Fat!PassInv
        BY <2>2, <2>3, <2>5, <2>6, PassParts, PassPartsNext
    <2>12. ExtExact' <=> ExtExact
        BY <2>2 DEF ExtExact, Ext!Exact
    <2>13. FatMetadataMarked' <=> FatMetadataMarked
        BY <2>2, <2>3, <2>5 DEF FatMetadataMarked, Fat!MetadataMarked
    <2>14. CountsAgree' <=> CountsAgree
        BY <2>2, <2>3, <2>4 DEF CountsAgree, Ext!CountAgrees, Ext!gdbus_get_extfs_device_info,
                               Fat!PassesAgree, Ext!Cardinality, Fat!Cardinality
    <2>15. QED
        BY <1>1, <2>2, <2>4, <2>5, <2>7, <2>9, <2>10, <2>11, <2>12, <2>13, <2>14
           DEF ReadersInv, TypeOK
<1>5. QED BY <1>2, <1>3, <1>4 DEF Next

THEOREM ReadersInvHolds == Spec => []ReadersInv
<1>1. QED BY ReadersInvInit, ReadersInvStep, PTL DEF Spec

(* The bitmap of an ext file system leaves out exactly the blocks the file *)
(* system has free, whatever the volume, the size of its groups and the    *)
(* first data block (read_bitmap_info of gdbus-extfs.c).                   *)
THEOREM ExtIsExact == Spec => []ExtExact
<1>1. ReadersInv => ExtExact
    BY DEF ReadersInv
<1>2. QED BY <1>1, ReadersInvHolds, PTL

(* Both readers return a bitmap and a number of used blocks that belong    *)
(* together, and FAT's keeps everything that is not a cluster.             *)
THEOREM ReadersAreRight == Spec => []ReadersInvariant
<1>1. ReadersInv => ReadersInvariant
    BY DEF ReadersInv, ReadersInvariant
<1>2. QED BY <1>1, ReadersInvHolds, PTL

-----------------------------------------------------------------------------
(* Reading a tree block.                                                   *)

(* Initially there is no buffer.                                           *)
LEMMA BlockInvInit == BlockInit => BufferSound /\ RightCopyWins
<1> SUFFICES ASSUME BlockInit PROVE BufferSound /\ RightCopyWins
    OBVIOUS
<1> USE DEF BlockInit
<1>1. BlockTypeOK
    <2>1. eb \in ExtentBuffers /\ tryOf \in Tries
        BY BlockAssumption DEF NoBuffer, NoContent, NoTry, ExtentBuffers, Tries
    <2>2. held \in Nat /\ want \in 0 .. MaxGen /\ reads \in 0 .. MaxReads
        BY BlockAssumption
    <2>3. fresh \in BOOLEAN
        OBVIOUS
    <2>4. bpc = "new" /\ NearTypeOK
        BY DEF NearTypeOK, Nobody
    <2> HIDE DEF BlockInit
    <2>5. QED BY <2>1, <2>2, <2>3, <2>4 DEF BlockTypeOK
<1>2. UptodateIsSane /\ WrongGenerationMarked /\ ReferencesHeld
    BY DEF UptodateIsSane, WrongGenerationMarked, ReferencesHeld, Holders, NoBuffer, Nobody
<1>3. StaleIsUnshared /\ TriedInVain /\ RightCopyWins
    BY DEF StaleIsUnshared, TriedInVain, RightCopyWins, NoBuffer
<1>4. QED BY <1>1, <1>2, <1>3 DEF BufferSound

(* btrfs_num_copies of the block counts its mirrors.                       *)
LEMMA NumCopies ==
    ASSUME NEW n \in Nat, DOMAIN copies = 1 .. n
    PROVE  num_copies = n
BY FS_Interval DEF num_copies

(* Letting go of a buffer gives a buffer: the same one with a reference    *)
(* less, or none.                                                          *)
LEMMA FreedBuffer ==
    ASSUME NEW b \in ExtentBuffers, b.refs > 0
    PROVE  /\ Freed(b) \in ExtentBuffers
           /\ Freed(b).refs = b.refs - 1
           /\ b.refs = 1 => Freed(b) = NoBuffer
           /\ b.refs # 1 => /\ Freed(b).uptodate = b.uptodate /\ Freed(b).bad = b.bad
                            /\ Freed(b).recow = b.recow /\ Freed(b).content = b.content
<1>1. CASE b.refs = 1
    <2>1. NoBuffer \in ExtentBuffers
        BY BlockAssumption DEF ExtentBuffers, NoBuffer, NoContent
    <2>2. NoBuffer.refs = 0
        BY DEF NoBuffer
    <2>3. QED BY <1>1, <2>1, <2>2 DEF Freed
<1>2. CASE b.refs # 1
    <2>1. b.refs \in Nat /\ b.refs - 1 \in Nat
        BY DEF ExtentBuffers
    <2>2. Freed(b) = [b EXCEPT !.refs = b.refs - 1]
        BY <1>2 DEF Freed
    <2>3. QED BY <1>2, <2>1, <2>2 DEF ExtentBuffers
<1>3. QED BY <1>1, <1>2

(* verify_parent_transid accepts the generation asked for, and any other   *)
(* only when it is to be ignored, which it marks.                          *)
LEMMA VerifyBuffer ==
    ASSUME NEW b \in ExtentBuffers, NEW transid \in 0 .. MaxGen, NEW ignore \in BOOLEAN
    PROVE  LET v == verify_parent_transid(b, transid, ignore)
           IN  /\ v.b \in ExtentBuffers
               /\ v.b.refs = b.refs /\ v.b.recow = b.recow /\ v.b.content = b.content
               /\ v.ok <=> (transid = 0 \/ b.content.gen = transid \/ ignore)
               /\ v.ok => v.b.uptodate = b.uptodate
               /\ v.ok /\ transid # 0 /\ b.content.gen # transid => v.b.bad
               /\ ~b.uptodate => ~v.b.uptodate
<1> DEFINE right == transid = 0 \/ b.content.gen = transid
<1>1. CASE right
    BY <1>1 DEF verify_parent_transid
<1>2. CASE ~right /\ ignore
    BY <1>2 DEF verify_parent_transid, ExtentBuffers
<1>3. CASE ~right /\ ~ignore
    BY <1>3 DEF verify_parent_transid, ExtentBuffers
<1>4. QED BY <1>1, <1>2, <1>3

(* What the read of a mirror puts into the buffer: a good copy is taken as *)
(* it is, and what is sane is one of the copies.                           *)
LEMMA ReadMirror ==
    ASSUME BufferSound, bpc = "reading"
    PROVE  /\ read_whole_eb \in [read : {"whole", "part", "error"}, csum : BOOLEAN,
                                 head : BOOLEAN, gen : 0 .. MaxGen]
           /\ \E m \in DOMAIN copies :
                 /\ m = IF tryOf.mirror = 0 THEN first ELSE tryOf.mirror
                 /\ Sane(copies[m]) => read_whole_eb = copies[m]
                 /\ Sane(read_whole_eb) => read_whole_eb = copies[m]
<1>1. PICK n \in 1 .. MaxCopies : copies \in [1 .. n -> Copies] /\ first \in 1 .. n
    BY DEF BufferSound, BlockTypeOK
<1> DEFINE m == IF tryOf.mirror = 0 THEN first ELSE tryOf.mirror
<1>2. m \in DOMAIN copies
    BY <1>1 DEF BufferSound, TriedInVain
<1>3. copies[m] \in Copies
    BY <1>1, <1>2
<1>4. eb \in ExtentBuffers
    BY DEF BufferSound, BlockTypeOK
<1>5. read_whole_eb = read_extent_from_disk(copies[m])
    BY DEF read_whole_eb
<1> HIDE DEF m
<1>6. CASE copies[m].read = "error"
    <2>1. read_whole_eb = [eb.content EXCEPT !.read = "error"]
        BY <1>5, <1>6 DEF read_extent_from_disk
    <2>2. read_whole_eb.read = "error"
        BY <2>1, <1>4 DEF ExtentBuffers
    <2>3. read_whole_eb \in [read : {"whole", "part", "error"}, csum : BOOLEAN,
                             head : BOOLEAN, gen : 0 .. MaxGen]
        BY <2>1, <1>4 DEF ExtentBuffers
    <2>4. QED BY <1>2, <1>6, <2>2, <2>3 DEF Sane, m
<1>7. CASE copies[m].read # "error"
    <2>1. read_whole_eb = copies[m]
        BY <1>5, <1>7 DEF read_extent_from_disk
    <2>2. QED BY <1>2, <1>3, <2>1, BlockAssumption DEF Copies, Generations, m
<1>8. QED BY <1>6, <1>7

(* The next mirror to try after one that was no good.                      *)
LEMMA NextMirror ==
    ASSUME BufferSound, bpc = "reading", ~tryOf.ignore, NEW gen \in 0 .. MaxGen,
           ~Good(copies[IF tryOf.mirror = 0 THEN first ELSE tryOf.mirror])
    PROVE  LET next_ == NextTry(gen)
           IN  /\ next_ \in Tries
               /\ next_.mirror \in {0} \cup DOMAIN copies /\ next_.good \in {0} \cup DOMAIN copies
               /\ \A m \in 1 .. next_.mirror - 1 : next_.ignore \/ ~Good(copies[m])
               /\ next_.ignore => \A m \in DOMAIN copies : ~Good(copies[m])
<1>1. PICK n \in 1 .. MaxCopies : copies \in [1 .. n -> Copies] /\ first \in 1 .. n
    BY DEF BufferSound, BlockTypeOK
<1>2. num_copies = n /\ n \in Nat /\ DOMAIN copies = 1 .. n
    BY <1>1, NumCopies, BlockAssumption
<1>3. tryOf \in Tries
    BY DEF BufferSound, BlockTypeOK
<1>4. /\ tryOf.mirror \in 0 .. n /\ tryOf.good \in 0 .. n
      /\ \A m \in 1 .. tryOf.mirror - 1 : ~Good(copies[m])
    BY <1>2 DEF BufferSound, TriedInVain
<1>5. CASE n = 1
    <2>1. NextTry(gen) = [tryOf EXCEPT !.ignore = TRUE]
        BY <1>2, <1>5 DEF NextTry
    <2>2. ~Good(copies[1])
        BY <1>1, <1>4, <1>5
    <2>3. /\ NextTry(gen) \in Tries
          /\ NextTry(gen).mirror = tryOf.mirror /\ NextTry(gen).good = tryOf.good
          /\ NextTry(gen).ignore
        BY <2>1, <1>3 DEF Tries
    <2>4. QED BY <1>2, <1>4, <1>5, <2>2, <2>3
<1>6. CASE n # 1
    <2> DEFINE better == gen > tryOf.best /\ tryOf.mirror # 0
               good   == IF better THEN tryOf.mirror ELSE tryOf.good
               best   == IF better THEN gen ELSE tryOf.best
    <2>1. good \in 0 .. n /\ best \in 0 .. MaxGen
        BY <1>3, <1>4 DEF Tries
    <2>2. CASE tryOf.mirror + 1 > n
        <3>1. NextTry(gen) = [mirror |-> good, good |-> good, best |-> best, ignore |-> TRUE]
            BY <1>2, <1>6, <2>2 DEF NextTry
        <3>2. tryOf.mirror = n /\ tryOf.mirror # 0
            BY <1>1, <1>4, <2>2, BlockAssumption
        <3>3. \A m \in 1 .. n : ~Good(copies[m])
            BY <1>4, <3>2
        <3> HIDE DEF good, best
        <3>4. NextTry(gen) \in Tries
            BY <3>1, <2>1, <1>1, BlockAssumption DEF Tries
        <3>5. QED BY <1>2, <2>1, <3>1, <3>3, <3>4
    <2>3. CASE ~(tryOf.mirror + 1 > n)
        <3>1. NextTry(gen) = [mirror |-> tryOf.mirror + 1, good |-> good, best |-> best,
                              ignore |-> FALSE]
            BY <1>2, <1>6, <2>3 DEF NextTry
        <3>2. tryOf.mirror + 1 \in 1 .. n
            BY <1>4, <2>3
        <3>3. \A m \in 1 .. tryOf.mirror : ~Good(copies[m])
            BY <1>4
        <3> HIDE DEF good, best
        <3>4. NextTry(gen) \in Tries
            BY <3>1, <3>2, <2>1, <1>1, BlockAssumption DEF Tries
        <3>5. QED BY <1>2, <1>4, <2>1, <3>1, <3>2, <3>3, <3>4
    <2>4. QED BY <2>2, <2>3
<1>7. QED BY <1>5, <1>6

(* The buffer of a call under way, or of one that failed, is the call's.   *)
LEMMA OnlyTheCall ==
    ASSUME BufferSound, bpc \in {"reading", "failed"}
    PROVE  /\ eb \in ExtentBuffers /\ tryOf \in Tries /\ want \in 0 .. MaxGen /\ held \in Nat
           /\ reads \in 0 .. MaxReads
           /\ ~eb.uptodate /\ held = 0 /\ ~eb.recow /\ eb.refs = IF bpc = "reading" THEN 1 ELSE 0
<1>1. /\ eb \in ExtentBuffers /\ tryOf \in Tries /\ want \in 0 .. MaxGen /\ held \in Nat
      /\ reads \in 0 .. MaxReads
    BY DEF BufferSound, BlockTypeOK
<1>2. ~eb.uptodate /\ held = 0 /\ ~eb.recow
    BY DEF BufferSound, StaleIsUnshared
<1>3. Holders = IF bpc = "reading" THEN 1 ELSE 0
    BY <1>2 DEF Holders
<1>4. eb.refs \in Nat
    BY <1>1 DEF ExtentBuffers
<1>5. eb.refs <= Holders /\ (eb.refs = 0 => Holders = 0)
    BY DEF BufferSound, ReferencesHeld
<1>6. QED BY <1>1, <1>2, <1>3, <1>4, <1>5

(* A step that leaves the overlapping block alone and gives every new      *)
(* holder a reference of the buffer.                                       *)
LEMMA NearKept ==
    ASSUME BufferSound, UNCHANGED nearVars, bpc' # "undefined", eb'.refs \in Nat,
           eb'.refs = Holders', eb.refs # 0 \/ eb'.refs = 0
    PROVE  ReferencesHeld'
BY DEF BufferSound, ReferencesHeld, nearVars

(* A turn of the loop that gives the buffer out.                           *)
LEMMA AttemptSucceeds ==
    ASSUME BufferSound, RightCopyWins, attempt, bpc' = "idle"
    PROVE  BufferSound' /\ RightCopyWins'
<1> DEFINE b == [eb EXCEPT !.content = read_whole_eb]
           v == verify_parent_transid(b, want, tryOf.ignore)
           onList == v.b.bad /\ ~v.b.recow
<1>1. /\ bpc = "reading" /\ UNCHANGED <<copies, first, want, fresh, nearVars, reads>>
      /\ Sane(b.content) /\ v.ok /\ UNCHANGED tryOf /\ held' = held + 1
      /\ eb' = [v.b EXCEPT !.uptodate = TRUE, !.recow = @ \/ onList,
                           !.refs = IF onList THEN @ + 1 ELSE @]
    BY DEF attempt
<1>2. /\ eb \in ExtentBuffers /\ tryOf \in Tries /\ want \in 0 .. MaxGen /\ held \in Nat
      /\ reads \in 0 .. MaxReads
      /\ ~eb.uptodate /\ held = 0 /\ ~eb.recow /\ eb.refs = 1
    BY <1>1, OnlyTheCall
<1>3. tryOf.ignore \in BOOLEAN
    BY <1>2 DEF Tries
<1>4. b \in ExtentBuffers /\ b.content = read_whole_eb /\ b.refs = 1 /\ ~b.recow
    BY <1>1, <1>2, ReadMirror DEF ExtentBuffers
<1> HIDE DEF b
<1>5. /\ v.b \in ExtentBuffers /\ v.b.refs = 1 /\ ~v.b.recow /\ v.b.content = b.content
      /\ want = 0 \/ b.content.gen = want \/ tryOf.ignore
      /\ want # 0 /\ b.content.gen # want => v.b.bad
    BY <1>1, <1>2, <1>3, <1>4, VerifyBuffer
<1> HIDE DEF v
<1>6. /\ eb'.uptodate /\ eb'.bad = v.b.bad /\ eb'.content = b.content
      /\ eb'.recow <=> v.b.bad
    BY <1>1, <1>5 DEF ExtentBuffers
<1>7. eb'.refs = IF v.b.bad THEN 2 ELSE 1
    BY <1>1, <1>5 DEF ExtentBuffers
<1>8. v.b.bad \in BOOLEAN /\ v.b.recow \in BOOLEAN
    BY <1>5 DEF ExtentBuffers
<1>9. eb' \in ExtentBuffers
    <2>1. CASE v.b.bad
        <3>1. eb' = [v.b EXCEPT !.uptodate = TRUE, !.recow = TRUE, !.refs = @ + 1]
            <4>1. onList
                BY <1>5, <2>1
            <4>2. [v.b EXCEPT !.uptodate = TRUE, !.recow = @ \/ onList,
                              !.refs = IF onList THEN @ + 1 ELSE @]
                = [v.b EXCEPT !.uptodate = TRUE, !.recow = TRUE, !.refs = @ + 1]
                BY <4>1, Zenon
            <4>3. QED BY <1>1, <4>2
        <3>2. eb' = [refs |-> v.b.refs + 1, uptodate |-> TRUE, bad |-> v.b.bad, recow |-> TRUE,
                     content |-> v.b.content]
            BY <3>1, <1>5 DEF ExtentBuffers
        <3>3. QED BY <1>5, <1>8, <3>2 DEF ExtentBuffers
    <2>2. CASE ~v.b.bad
        <3>1. eb' = [refs |-> 1, uptodate |-> TRUE, bad |-> FALSE, recow |-> FALSE,
                     content |-> v.b.content]
            BY <1>1, <1>5, <1>8, <2>2 DEF ExtentBuffers
        <3>2. QED BY <1>5, <3>1 DEF ExtentBuffers
    <2>3. QED BY <2>1, <2>2
<1>10. BlockTypeOK'
    <2>1. fresh' \in BOOLEAN
        BY <1>1 DEF BufferSound, BlockTypeOK
    <2>2. held' \in Nat /\ want' \in 0 .. MaxGen /\ reads' \in 0 .. MaxReads /\ tryOf' \in Tries
        BY <1>1, <1>2
    <2>3. \E n \in 1 .. MaxCopies : copies' \in [1 .. n -> Copies] /\ first' \in 1 .. n
        BY <1>1 DEF BufferSound, BlockTypeOK
    <2>4. NearTypeOK'
        BY <1>1 DEF BufferSound, BlockTypeOK, NearTypeOK, nearVars
    <2>5. QED BY <1>1, <1>9, <2>1, <2>2, <2>3, <2>4 DEF BlockTypeOK
<1>11. UptodateIsSane'
    BY <1>1, <1>4, <1>6, ReadMirror DEF UptodateIsSane, Sane, csum_tree_block, check_tree_block
<1>12. WrongGenerationMarked'
    BY <1>1, <1>5, <1>6 DEF WrongGenerationMarked
<1>13. ReferencesHeld'
    <2>1. Holders' = eb'.refs /\ eb'.refs > 0
        BY <1>1, <1>2, <1>6, <1>7 DEF Holders
    <2>2. QED BY <1>1, <1>2, <1>7, <2>1, NearKept
<1>14. StaleIsUnshared' /\ TriedInVain'
    BY <1>6 DEF StaleIsUnshared, TriedInVain
<1>15. RightCopyWins'
    <2>1. ASSUME NEW m \in DOMAIN copies, Good(copies[m])
          PROVE  Good(eb'.content)
        <3>1. ~tryOf.ignore
            BY <1>1, <2>1 DEF BufferSound, TriedInVain
        <3>2. QED BY <1>1, <1>5, <1>6, <3>1 DEF Good
    <2>2. QED BY <1>1, <2>1 DEF RightCopyWins, Good
<1>16. QED BY <1>10, <1>11, <1>12, <1>13, <1>14, <1>15 DEF BufferSound

(* A turn of the loop that finds the mirror no good: the next one is tried *)
(* or the read fails.                                                      *)
LEMMA AttemptFails ==
    ASSUME BufferSound, RightCopyWins, attempt, bpc' # "idle"
    PROVE  BufferSound' /\ RightCopyWins'
<1> DEFINE b == [eb EXCEPT !.content = read_whole_eb]
           v == verify_parent_transid(b, want, tryOf.ignore)
           e == IF Sane(b.content) THEN v.b ELSE b
<1>1. /\ bpc = "reading" /\ UNCHANGED <<copies, first, want, fresh, nearVars, reads, held>>
      /\ ~(Sane(b.content) /\ v.ok)
      /\ \/ tryOf.ignore /\ eb' = Freed(e) /\ bpc' = "failed" /\ UNCHANGED tryOf
         \/ ~tryOf.ignore /\ eb' = e /\ tryOf' = NextTry(b.content.gen) /\ UNCHANGED bpc
    BY DEF attempt
<1>2. /\ eb \in ExtentBuffers /\ tryOf \in Tries /\ want \in 0 .. MaxGen
      /\ held \in Nat /\ reads \in 0 .. MaxReads
      /\ ~eb.uptodate /\ held = 0 /\ ~eb.recow /\ eb.refs = 1
    BY <1>1, OnlyTheCall
<1>3. tryOf.ignore \in BOOLEAN
    BY <1>2 DEF Tries
<1>4. b \in ExtentBuffers /\ b.content = read_whole_eb /\ b.refs = 1 /\ ~b.recow /\ ~b.uptodate
    BY <1>1, <1>2, ReadMirror DEF ExtentBuffers
<1> HIDE DEF b
<1>5. /\ v.b \in ExtentBuffers /\ v.b.refs = 1 /\ ~v.b.recow /\ v.b.content = b.content
      /\ ~v.b.uptodate
      /\ v.ok <=> (want = 0 \/ b.content.gen = want \/ tryOf.ignore)
    BY <1>1, <1>2, <1>3, <1>4, VerifyBuffer
<1> HIDE DEF v
<1>6. e \in ExtentBuffers /\ e.refs = 1 /\ ~e.recow /\ ~e.uptodate
    BY <1>4, <1>5
<1> HIDE DEF e
<1>7. ~Good(copies[IF tryOf.mirror = 0 THEN first ELSE tryOf.mirror])
    BY <1>1, <1>4, <1>5, ReadMirror DEF Good
<1>8. fresh' \in BOOLEAN
    BY <1>1 DEF BufferSound, BlockTypeOK
<1>9. held' \in Nat /\ want' \in 0 .. MaxGen /\ reads' \in 0 .. MaxReads /\ NearTypeOK'
    BY <1>1, <1>2 DEF BufferSound, BlockTypeOK, NearTypeOK, nearVars
<1>10. \E n \in 1 .. MaxCopies : copies' \in [1 .. n -> Copies] /\ first' \in 1 .. n
    BY <1>1 DEF BufferSound, BlockTypeOK
<1>11. CASE tryOf.ignore
    <2>1. eb' = NoBuffer /\ eb' \in ExtentBuffers
        BY <1>1, <1>6, <1>11, FreedBuffer
    <2>2. BlockTypeOK'
        BY <1>1, <1>2, <1>8, <1>9, <1>10, <1>11, <2>1 DEF BlockTypeOK
    <2>3. UptodateIsSane' /\ WrongGenerationMarked' /\ StaleIsUnshared' /\ TriedInVain'
        BY <1>1, <1>2, <1>11, <2>1
           DEF UptodateIsSane, WrongGenerationMarked, StaleIsUnshared, TriedInVain, NoBuffer
    <2>4. ReferencesHeld'
        <3>1. bpc' = "failed" /\ held' = 0 /\ ~eb'.recow /\ eb'.refs = 0
            BY <1>1, <1>2, <1>11, <2>1 DEF NoBuffer
        <3>2. Holders' = 0
            BY <3>1 DEF Holders
        <3>3. QED BY <1>1, <1>2, <3>1, <3>2, NearKept
    <2>5. RightCopyWins'
        BY <1>1, <1>11 DEF RightCopyWins, BufferSound, TriedInVain, Good
    <2>6. QED BY <2>2, <2>3, <2>4, <2>5 DEF BufferSound
<1>12. CASE ~tryOf.ignore
    <2>1. eb' = e /\ bpc' = "reading" /\ tryOf' = NextTry(b.content.gen)
        BY <1>1, <1>12
    <2>2. b.content.gen \in 0 .. MaxGen
        BY <1>4 DEF ExtentBuffers
    <2>3. /\ tryOf' \in Tries
          /\ tryOf'.mirror \in {0} \cup DOMAIN copies /\ tryOf'.good \in {0} \cup DOMAIN copies
          /\ \A m \in 1 .. tryOf'.mirror - 1 : tryOf'.ignore \/ ~Good(copies[m])
          /\ tryOf'.ignore => \A m \in DOMAIN copies : ~Good(copies[m])
        BY <1>1, <1>7, <1>12, <2>1, <2>2, NextMirror
    <2>4. BlockTypeOK'
        BY <1>6, <1>8, <1>9, <1>10, <2>1, <2>3 DEF BlockTypeOK
    <2>5. UptodateIsSane' /\ WrongGenerationMarked' /\ StaleIsUnshared'
        BY <1>1, <1>2, <1>6, <2>1
           DEF UptodateIsSane, WrongGenerationMarked, StaleIsUnshared
    <2>6. ReferencesHeld'
        <3>1. Holders' = 1 /\ eb'.refs = 1
            BY <1>1, <1>2, <1>6, <2>1 DEF Holders
        <3>2. QED BY <1>1, <1>2, <2>1, <3>1, NearKept
    <2>7. TriedInVain'
        BY <1>1, <2>3 DEF TriedInVain, Good
    <2>8. RightCopyWins'
        BY <2>1 DEF RightCopyWins
    <2>9. QED BY <2>4, <2>5, <2>6, <2>7, <2>8 DEF BufferSound
<1>13. QED BY <1>11, <1>12

(* A step between two calls that leaves the buffer alone.                  *)
LEMMA BufferKept ==
    ASSUME BufferSound, RightCopyWins, bpc \in {"idle", "failed", "refused"},
           UNCHANGED <<copies, first, eb, held, want>>, tryOf' = tryOf,
           reads' \in 0 .. MaxReads, NearTypeOK', ReferencesHeld',
           \/ bpc' = "idle" /\ (~fresh' \/ fresh' = fresh)
           \/ bpc' = "refused" /\ ~fresh' /\ held = 0
           \/ bpc' = "undefined" /\ fresh' = fresh,
           fresh' \in BOOLEAN
    PROVE  BufferSound' /\ RightCopyWins'
<1>1. BlockTypeOK'
    <2>1. eb' \in ExtentBuffers /\ tryOf' \in Tries /\ held' \in Nat /\ want' \in 0 .. MaxGen
        BY DEF BufferSound, BlockTypeOK
    <2>2. \E n \in 1 .. MaxCopies : copies' \in [1 .. n -> Copies] /\ first' \in 1 .. n
        BY DEF BufferSound, BlockTypeOK
    <2>3. bpc' \in {"idle", "refused", "undefined"}
        OBVIOUS
    <2>4. QED BY <2>1, <2>2, <2>3 DEF BlockTypeOK
<1>2. UptodateIsSane' /\ TriedInVain' /\ StaleIsUnshared'
    BY DEF BufferSound, UptodateIsSane, TriedInVain, StaleIsUnshared
<1>3. bpc # "idle" => held = 0
    BY DEF BufferSound, StaleIsUnshared
<1>4. WrongGenerationMarked'
    BY <1>3 DEF BufferSound, WrongGenerationMarked
<1>5. RightCopyWins'
    <2>1. bpc = "refused" => ~fresh
        BY DEF BufferSound, StaleIsUnshared
    <2>2. QED BY <2>1 DEF RightCopyWins, Good
<1>6. QED BY <1>1, <1>2, <1>4, <1>5 DEF BufferSound

(* A reference of the buffer is let go of, by one of the callers or by     *)
(* recow_ebs.                                                              *)
LEMMA BufferLetGo ==
    ASSUME BufferSound, RightCopyWins, bpc = "idle", bpc' = "idle", ~fresh', fresh' \in BOOLEAN,
           UNCHANGED <<copies, first, want>>, tryOf' = tryOf, reads' \in 0 .. MaxReads,
           NEW b \in ExtentBuffers, b.refs = eb.refs, b.uptodate = eb.uptodate, b.bad = eb.bad,
           b.content = eb.content, b.recow => eb.recow,
           eb.refs > 0, eb' = Freed(b), held' \in 0 .. held, eb.refs = 1 => held' = 0,
           NearTypeOK', ReferencesHeld'
    PROVE  BufferSound' /\ RightCopyWins'
<1>1. /\ eb' \in ExtentBuffers /\ eb'.refs = eb.refs - 1
      /\ eb.refs = 1 => eb' = NoBuffer
      /\ eb.refs # 1 => /\ eb'.uptodate = eb.uptodate /\ eb'.bad = eb.bad
                        /\ eb'.recow = b.recow /\ eb'.content = eb.content
    BY FreedBuffer
<1>2. held \in Nat /\ want \in 0 .. MaxGen
    BY DEF BufferSound, BlockTypeOK
<1>3. BlockTypeOK'
    <2>1. eb' \in ExtentBuffers /\ tryOf' \in Tries /\ held' \in Nat /\ want' \in 0 .. MaxGen
        BY <1>1, <1>2 DEF BufferSound, BlockTypeOK
    <2>2. \E n \in 1 .. MaxCopies : copies' \in [1 .. n -> Copies] /\ first' \in 1 .. n
        BY DEF BufferSound, BlockTypeOK
    <2>3. QED BY <2>1, <2>2 DEF BlockTypeOK
<1>4. ~eb.uptodate => held = 0 /\ ~eb.recow
    BY DEF BufferSound, StaleIsUnshared
<1>5. UptodateIsSane' /\ StaleIsUnshared'
    <2>1. CASE eb.refs = 1
        BY <1>1, <2>1 DEF UptodateIsSane, StaleIsUnshared, NoBuffer
    <2>2. CASE eb.refs # 1
        BY <1>1, <1>2, <1>4, <2>2 DEF BufferSound, UptodateIsSane, StaleIsUnshared
    <2>3. QED BY <2>1, <2>2
<1>6. WrongGenerationMarked'
    BY <1>1, <1>2 DEF BufferSound, WrongGenerationMarked
<1>7. TriedInVain' /\ RightCopyWins'
    BY DEF TriedInVain, RightCopyWins
<1>8. QED BY <1>3, <1>5, <1>6, <1>7 DEF BufferSound

(* What is known between two calls.                                        *)
LEMMA BetweenCalls ==
    ASSUME BufferSound
    PROVE  /\ eb \in ExtentBuffers /\ tryOf \in Tries /\ held \in Nat /\ want \in 0 .. MaxGen
           /\ reads \in 0 .. MaxReads /\ NearTypeOK
           /\ eb.refs \in Nat /\ eb.recow \in BOOLEAN /\ eb.content.gen \in 0 .. MaxGen
           /\ near.refs \in Nat /\ near.held \in Nat /\ dangling \in Nat
           /\ near = [refs |-> near.refs, held |-> near.held]
           /\ Holders \in Nat
<1>1. eb \in ExtentBuffers /\ held \in Nat /\ NearTypeOK
    BY DEF BufferSound, BlockTypeOK
<1>2. Holders \in Nat
    BY <1>1 DEF Holders
<1>3. QED BY <1>1, <1>2 DEF BufferSound, BlockTypeOK, NearTypeOK, ExtentBuffers

(* free_extent_buffer for one of the overlapping block's references, when  *)
(* n callers keep a pointer to it.                                         *)
LEMMA NearLetGo ==
    ASSUME BufferSound, NEW n \in Nat, near.refs > 0, letGoNear(n)
    PROVE  /\ near' \in [refs : Nat, held : Nat] /\ dangling' \in Nat
           /\ near.refs = 1 => near' = Nobody /\ dangling' = dangling + n
           /\ near.refs # 1 => /\ near' = [refs |-> near.refs - 1, held |-> n]
                               /\ dangling' = dangling /\ near.refs > 1
<1>1. near.refs \in Nat /\ dangling \in Nat
    BY BetweenCalls
<1>2. CASE near.refs = 1
    BY <1>1, <1>2 DEF letGoNear, Nobody
<1>3. CASE near.refs # 1
    BY <1>1, <1>3 DEF letGoNear
<1>4. QED BY <1>2, <1>3

(* Asking for the block: the overlapping one, when it is in the cache,     *)
(* loses a reference.                                                      *)
LEMMA FindNear ==
    ASSUME BufferSound, NEW transid, find_create(transid)
    PROVE  /\ NearTypeOK'
           /\ ~overlapped' => UNCHANGED nearVars
           /\ near.refs > 1 => /\ near'.refs = near.refs - 1 /\ near'.held = near.held /\ overlapped'
                               /\ eb.refs = 0 /\ Holders = 0
           /\ near.refs <= 1 => near'.refs = 0 /\ near'.held = 0
<1>1. near.refs \in Nat /\ near.held \in Nat /\ NearTypeOK /\ eb.refs \in Nat
    BY BetweenCalls
<1>2. near.refs = 0 => near.held = 0
    BY DEF BufferSound, ReferencesHeld
<1>3. near.refs # 0 => eb.refs = 0 /\ Holders = 0
    BY DEF BufferSound, ReferencesHeld
<1>4. CASE near.refs = 0
    <2>1. UNCHANGED nearVars
        BY <1>4 DEF find_create
    <2>2. QED BY <1>1, <1>2, <1>4, <2>1 DEF nearVars, NearTypeOK
<1>5. CASE near.refs # 0
    <2>1. letGoNear(near.held) /\ overlapped' = TRUE
        BY <1>5 DEF find_create
    <2>2. near'.refs = near.refs - 1 /\ near'.held = IF near.refs = 1 THEN 0 ELSE near.held
        BY <1>1, <1>5, <2>1, NearLetGo DEF Nobody
    <2>3. NearTypeOK'
        BY <1>1, <1>5, <2>1, NearLetGo DEF NearTypeOK
    <2>4. QED BY <1>1, <1>3, <1>5, <2>1, <2>2, <2>3
<1>6. QED BY <1>4, <1>5

(* Another block is in the way and stays there.                            *)
LEMMA FindRefused ==
    ASSUME BufferSound, RightCopyWins, NEW transid, find_create(transid), near.refs > 1
    PROVE  BufferSound' /\ RightCopyWins'
<1>1. /\ bpc = "idle" /\ reads < MaxReads /\ reads' = reads + 1 /\ UNCHANGED <<copies, first>>
      /\ bpc' = "refused" /\ fresh' = FALSE /\ UNCHANGED <<eb, held, want, tryOf>>
    <2>1. refusedByNear
        BY BetweenCalls DEF find_create
    <2>2. QED BY <2>1 DEF find_create, refusedByNear
<1>2. /\ near.refs \in Nat /\ near.held \in Nat /\ held \in Nat /\ eb.recow \in BOOLEAN
      /\ reads \in 0 .. MaxReads
    BY BetweenCalls
<1>3. /\ NearTypeOK' /\ near'.refs = near.refs - 1 /\ near'.held = near.held /\ overlapped'
      /\ eb.refs = 0 /\ Holders = 0
    BY FindNear
<1>4. Holders' = 0 /\ held = 0
    BY <1>1, <1>2, <1>3 DEF Holders
<1>5. near.refs <= near.held
    BY DEF BufferSound, ReferencesHeld
<1>6. ReferencesHeld'
    BY <1>1, <1>2, <1>3, <1>4, <1>5 DEF ReferencesHeld
<1>7. reads' \in 0 .. MaxReads
    BY <1>1, <1>2, BlockAssumption
<1>8. QED BY <1>1, <1>3, <1>4, <1>6, <1>7, BufferKept

(* The buffer is found, or made.                                           *)
LEMMA FindStep ==
    ASSUME BufferSound, RightCopyWins, NEW transid \in {0} \cup Generations, find_create(transid),
           near.refs <= 1
    PROVE  BufferSound' /\ RightCopyWins'
<1> DEFINE b == [eb EXCEPT !.refs = @ + 1]
           v == verify_parent_transid(b, transid, TRUE)
<1>1. /\ eb \in ExtentBuffers /\ held \in Nat /\ reads \in 0 .. MaxReads /\ Holders \in Nat
      /\ eb.refs \in Nat /\ eb.recow \in BOOLEAN
    BY BetweenCalls
<1>2. /\ b \in ExtentBuffers /\ b.refs = eb.refs + 1 /\ b.uptodate = eb.uptodate
      /\ b.bad = eb.bad /\ b.recow = eb.recow /\ b.content = eb.content
    BY <1>1 DEF ExtentBuffers
<1>3. /\ bpc = "idle" /\ want' = transid /\ tryOf' = NoTry /\ reads' = reads + 1
      /\ reads < MaxReads /\ UNCHANGED <<copies, first>>
      /\ IF b.uptodate
         THEN eb' = v.b /\ held' = held + 1 /\ bpc' = "idle" /\ fresh' = FALSE
         ELSE eb' = b /\ bpc' = "reading" /\ fresh' = TRUE /\ UNCHANGED held
    <2>1. foundOrMade(b, transid)
        BY BetweenCalls DEF find_create, refusedByNear
    <2>2. QED BY <2>1 DEF find_create, foundOrMade
<1> HIDE DEF b
<1>4. transid \in 0 .. MaxGen
    BY BlockAssumption DEF Generations
<1>5. /\ v.b \in ExtentBuffers
      /\ v.b.refs = b.refs /\ v.b.recow = b.recow /\ v.b.content = b.content
      /\ v.b.uptodate = b.uptodate
      /\ transid # 0 /\ b.content.gen # transid => v.b.bad
    <2>1. PICK yes \in BOOLEAN : yes = TRUE
        OBVIOUS
    <2>2. v = verify_parent_transid(b, transid, yes)
        BY <2>1
    <2> HIDE DEF v
    <2>3. /\ v.b \in ExtentBuffers
          /\ v.b.refs = b.refs /\ v.b.recow = b.recow /\ v.b.content = b.content
          /\ v.ok <=> (transid = 0 \/ b.content.gen = transid \/ yes)
          /\ v.ok => v.b.uptodate = b.uptodate
          /\ v.ok /\ transid # 0 /\ b.content.gen # transid => v.b.bad
        BY <1>2, <1>4, <2>2, VerifyBuffer
    <2>4. v.ok
        BY <2>1, <2>3
    <2>5. QED BY <2>3, <2>4
<1> HIDE DEF v
<1>6. reads' \in 0 .. MaxReads /\ want' \in 0 .. MaxGen
    BY <1>1, <1>3, <1>4, BlockAssumption
<1>7. tryOf' \in Tries
    BY <1>3, BlockAssumption DEF Tries, NoTry
<1>8. \E n \in 1 .. MaxCopies : copies' \in [1 .. n -> Copies] /\ first' \in 1 .. n
    BY <1>3 DEF BufferSound, BlockTypeOK
<1>9. fresh' \in BOOLEAN /\ bpc' \in {"idle", "reading"} /\ eb' \in ExtentBuffers
    BY <1>2, <1>3, <1>5
<1>10. held' \in Nat
    BY <1>1, <1>3
<1>11. BlockTypeOK'
    BY <1>6, <1>7, <1>8, <1>9, <1>10, FindNear DEF BlockTypeOK
<1>12. /\ near'.refs = 0 /\ near'.held = 0
       /\ ~overlapped' => UNCHANGED nearVars
    BY FindNear
<1>13. Holders' = Holders + 1 /\ eb'.refs = eb.refs + 1
    <2>1. CASE b.uptodate
        BY <1>1, <1>2, <1>3, <1>5, <2>1 DEF Holders
    <2>2. CASE ~b.uptodate
        BY <1>1, <1>2, <1>3, <2>2 DEF Holders
    <2>3. QED BY <2>1, <2>2
<1>14. ReferencesHeld'
    <2>1. eb.refs <= Holders /\ (~overlapped => eb.refs = Holders /\ dangling = 0)
        BY DEF BufferSound, ReferencesHeld
    <2>2. eb'.refs <= Holders' /\ eb'.refs # 0
        BY <1>1, <1>13, <2>1
    <2>3. ~overlapped' => eb'.refs = Holders' /\ dangling' = 0
        BY <1>1, <1>12, <1>13, <2>1 DEF nearVars
    <2>4. bpc' # "undefined"
        BY <1>9
    <2>5. QED BY <1>12, <2>2, <2>3, <2>4 DEF ReferencesHeld
<1>15. CASE eb.uptodate
    <2>1. eb' = v.b /\ held' = held + 1 /\ bpc' = "idle" /\ fresh' = FALSE
        BY <1>2, <1>3, <1>15
    <2>2. UptodateIsSane'
        BY <1>2, <1>3, <1>5, <2>1, <1>15 DEF BufferSound, UptodateIsSane
    <2>3. WrongGenerationMarked'
        BY <1>3, <1>5, <2>1 DEF WrongGenerationMarked
    <2>4. StaleIsUnshared'
        BY <1>2, <1>5, <2>1, <1>15 DEF StaleIsUnshared
    <2>5. TriedInVain' /\ RightCopyWins'
        BY <2>1 DEF TriedInVain, RightCopyWins
    <2>6. QED BY <1>11, <1>14, <2>2, <2>3, <2>4, <2>5 DEF BufferSound
<1>16. CASE ~eb.uptodate
    <2>1. eb' = b /\ bpc' = "reading" /\ UNCHANGED held
        BY <1>2, <1>3, <1>16
    <2>2. held = 0 /\ ~eb.recow
        BY <1>16 DEF BufferSound, StaleIsUnshared
    <2>3. UptodateIsSane' /\ WrongGenerationMarked' /\ StaleIsUnshared' /\ RightCopyWins'
        BY <1>2, <1>16, <2>1, <2>2
           DEF UptodateIsSane, WrongGenerationMarked, StaleIsUnshared, RightCopyWins
    <2>4. TriedInVain'
        BY <1>3 DEF TriedInVain, NoTry
    <2>5. QED BY <1>11, <1>14, <2>3, <2>4 DEF BufferSound
<1>17. QED BY <1>15, <1>16

(* The buffer loses a reference, or all its holders.                       *)
LEMMA LetGoEffect ==
    ASSUME BufferSound, NEW n \in Nat, letGo(n)
    PROVE  /\ eb' = Freed(eb) /\ held' \in Nat /\ dangling' \in Nat
           /\ eb.refs = 1 => held' = 0 /\ dangling' = dangling + n
           /\ eb.refs # 1 => held' = n /\ dangling' = dangling
BY BetweenCalls DEF letGo

(* Asking for the overlapping block.                                       *)
LEMMA NearStep ==
    ASSUME BufferSound, RightCopyWins, read_near
    PROVE  BufferSound' /\ RightCopyWins'
<1>1. /\ bpc = "idle" /\ bpc' = "idle" /\ reads < MaxReads /\ reads' = reads + 1
      /\ fresh' = FALSE /\ UNCHANGED <<copies, first, want, tryOf>>
    BY DEF read_near
<1>2. /\ near.refs \in Nat /\ near.held \in Nat /\ held \in Nat /\ eb.recow \in BOOLEAN
      /\ reads \in 0 .. MaxReads /\ eb \in ExtentBuffers /\ eb.refs \in Nat /\ NearTypeOK
      /\ dangling \in Nat /\ Holders \in Nat
    BY BetweenCalls
<1>3. reads' \in 0 .. MaxReads
    BY <1>1, <1>2, BlockAssumption
<1>4. /\ eb.refs <= Holders /\ near.refs <= near.held /\ (eb.refs = 0 \/ near.refs = 0)
      /\ (eb.refs = 0 => Holders = 0) /\ (near.refs = 0 => near.held = 0)
      /\ (~overlapped => eb.refs = Holders /\ near.refs = near.held /\ dangling = 0)
    BY DEF BufferSound, ReferencesHeld
<1>5. CASE eb.refs = 0
    <2>1. UNCHANGED <<eb, held, dangling, overlapped>>
        BY <1>5 DEF read_near
    <2>2. /\ near' \in [refs : Nat, held : Nat] /\ near'.refs <= near'.held
          /\ (near'.refs = 0 => near'.held = 0) /\ (near.refs = near.held => near'.refs = near'.held)
        <3>1. CASE near.refs > 0
            <4>1. near' = [refs |-> near.refs + 1, held |-> near.held + 1]
                BY <1>2, <3>1 DEF read_near
            <4>2. QED BY <1>2, <1>4, <4>1
        <3>2. CASE near.refs = 0
            <4>1. near' \in {[refs |-> 1, held |-> 1], Nobody}
                BY <1>2, <1>5, <3>2 DEF read_near
            <4>2. QED BY <4>1 DEF Nobody
        <3>3. QED BY <1>2, <3>1, <3>2
    <2>3. NearTypeOK'
        BY <1>2, <2>1, <2>2 DEF NearTypeOK
    <2>4. Holders' = Holders
        BY <1>1, <2>1 DEF Holders
    <2>5. ReferencesHeld'
        BY <1>1, <1>2, <1>4, <1>5, <2>1, <2>2, <2>4 DEF ReferencesHeld
    <2>6. QED BY <1>1, <1>3, <2>1, <2>3, <2>5, BufferKept
<1>6. CASE eb.refs # 0
    <2>1. letGo(held) /\ overlapped' = TRUE
        BY <1>6 DEF read_near
    <2>2. near.refs = 0 /\ near.held = 0
        BY <1>4, <1>6
    <2>3. /\ near' \in [refs : Nat, held : Nat] /\ near'.refs <= near'.held
          /\ (near'.refs = 0 => near'.held = 0) /\ (eb.refs # 1 => near'.refs = 0)
        <3>1. CASE eb.refs <= 1
            <4>1. near' \in {[refs |-> 1, held |-> 1], Nobody}
                BY <1>2, <2>2, <3>1 DEF read_near
            <4>2. QED BY <1>2, <1>6, <3>1, <4>1 DEF Nobody
        <3>2. CASE eb.refs > 1
            <4>1. UNCHANGED near
                BY <1>2, <2>2, <3>2 DEF read_near
            <4>2. QED BY <1>2, <2>2, <4>1 DEF NearTypeOK
        <3>3. QED BY <1>2, <3>1, <3>2
    <2>4. /\ eb' = Freed(eb) /\ held' \in Nat /\ dangling' \in Nat
          /\ eb.refs = 1 => held' = 0
          /\ eb.refs # 1 => held' = held
        BY <1>2, <2>1, LetGoEffect
    <2>5. NearTypeOK'
        BY <2>1, <2>3, <2>4 DEF NearTypeOK
    <2>6. eb.refs > 0
        BY <1>2, <1>6
    <2>7. /\ eb'.refs = eb.refs - 1
          /\ eb.refs = 1 => eb' = NoBuffer
          /\ eb.refs # 1 => eb'.recow = eb.recow
        BY <1>2, <2>4, <2>6, FreedBuffer
    <2>8. eb.refs = 1 => Holders' = 0
        BY <1>1, <2>4, <2>7 DEF Holders, NoBuffer
    <2>9. eb.refs # 1 => Holders' = Holders
        BY <1>1, <2>4, <2>7 DEF Holders
    <2>10. ReferencesHeld'
        BY <1>1, <1>2, <1>4, <2>1, <2>3, <2>6, <2>7, <2>8, <2>9 DEF ReferencesHeld
    <2>11. held' \in 0 .. held
        BY <1>2, <2>4
    <2>12. QED BY <1>1, <1>2, <1>3, <2>4, <2>5, <2>6, <2>10, <2>11, BufferLetGo
<1>7. QED BY <1>5, <1>6

(* A caller lets go of one of the two.                                     *)
LEMMA ReleaseStep ==
    ASSUME BufferSound, RightCopyWins, release
    PROVE  BufferSound' /\ RightCopyWins'
<1>1. /\ bpc = "idle" /\ bpc' = "idle" /\ fresh' = FALSE
      /\ UNCHANGED <<copies, first, want, tryOf, overlapped, reads>>
    BY DEF release
<1>2. /\ near.refs \in Nat /\ near.held \in Nat /\ held \in Nat /\ eb.recow \in BOOLEAN
      /\ reads \in 0 .. MaxReads /\ eb \in ExtentBuffers /\ eb.refs \in Nat /\ NearTypeOK
      /\ dangling \in Nat /\ Holders \in Nat
    BY BetweenCalls
<1>3. /\ eb.refs <= Holders /\ near.refs <= near.held /\ (eb.refs = 0 \/ near.refs = 0)
      /\ (eb.refs = 0 => Holders = 0) /\ (near.refs = 0 => near.held = 0)
      /\ (~overlapped => eb.refs = Holders /\ near.refs = near.held /\ dangling = 0)
    BY DEF BufferSound, ReferencesHeld
<1>4. CASE held > 0 /\ letGo(held - 1) /\ UNCHANGED near
    <2>1. held - 1 \in Nat
        BY <1>2, <1>4
    <2>2. /\ eb' = Freed(eb) /\ held' \in Nat /\ dangling' \in Nat
          /\ eb.refs = 1 => held' = 0 /\ dangling' = dangling + (held - 1)
          /\ eb.refs # 1 => held' = held - 1 /\ dangling' = dangling
        BY <1>4, <2>1, LetGoEffect
    <2>3. Holders = held + (IF eb.recow THEN 1 ELSE 0)
        BY <1>1, <1>2 DEF Holders
    <2>4. eb.refs > 0
        BY <1>2, <1>3, <1>4, <2>3
    <2>5. /\ eb'.refs = eb.refs - 1
          /\ eb.refs = 1 => eb' = NoBuffer
          /\ eb.refs # 1 => eb'.recow = eb.recow
        BY <1>2, <2>2, <2>4, FreedBuffer
    <2>6. eb.refs = 1 => Holders' = 0
        BY <1>1, <2>2, <2>5 DEF Holders, NoBuffer
    <2>7. eb.refs # 1 => Holders' = Holders - 1
        <3>1. eb.refs # 1 => held' = held - 1
            BY <2>2
        <3>2. eb.refs # 1 => Holders' = held' + (IF eb.recow THEN 1 ELSE 0) + 0
            BY <1>1, <2>5 DEF Holders
        <3>3. CASE eb.recow
            BY <1>2, <2>3, <3>1, <3>2, <3>3
        <3>4. CASE ~eb.recow
            BY <1>2, <2>3, <3>1, <3>2, <3>4
        <3>5. QED BY <3>3, <3>4
    <2>8. ~overlapped => dangling' = 0
        BY <1>2, <1>3, <1>4, <2>2, <2>3
    <2>9. ReferencesHeld'
        BY <1>1, <1>2, <1>3, <1>4, <2>4, <2>5, <2>6, <2>7, <2>8 DEF ReferencesHeld
    <2>10. NearTypeOK'
        BY <1>1, <1>2, <1>4, <2>2 DEF NearTypeOK
    <2>11. held' \in 0 .. held /\ reads' \in 0 .. MaxReads
        BY <1>1, <1>2, <2>1, <2>2
    <2>12. QED BY <1>1, <1>2, <2>2, <2>4, <2>9, <2>10, <2>11, BufferLetGo
<1>5. CASE near.held > 0 /\ letGoNear(near.held - 1) /\ UNCHANGED <<eb, held>>
    <2>1. near.held - 1 \in Nat /\ near.refs > 0
        BY <1>2, <1>3, <1>5
    <2>2. /\ near' \in [refs : Nat, held : Nat] /\ dangling' \in Nat
          /\ near.refs = 1 => near' = Nobody /\ dangling' = dangling + (near.held - 1)
          /\ near.refs # 1 => near' = [refs |-> near.refs - 1, held |-> near.held - 1] /\ dangling' = dangling
        BY <1>5, <2>1, NearLetGo
    <2>3. near'.refs = near.refs - 1 /\ near'.held = IF near.refs = 1 THEN 0 ELSE near.held - 1
        BY <1>2, <2>2 DEF Nobody
    <2>4. ~overlapped => dangling' = 0
        BY <1>2, <1>3, <2>2
    <2>5. Holders' = Holders
        BY <1>1, <1>5 DEF Holders
    <2>6. ReferencesHeld'
        BY <1>1, <1>2, <1>3, <1>5, <2>1, <2>3, <2>4, <2>5 DEF ReferencesHeld
    <2>7. NearTypeOK'
        BY <1>1, <1>2, <2>2 DEF NearTypeOK
    <2>8. QED BY <1>1, <1>2, <1>5, <2>6, <2>7, BufferKept
<1>6. QED BY <1>4, <1>5 DEF release

(* A failed call is over, or a freed buffer is used.                       *)
LEMMA CallOver ==
    ASSUME BufferSound, RightCopyWins, giveUp \/ useFreed
    PROVE  BufferSound' /\ RightCopyWins'
<1>1. /\ UNCHANGED <<copies, first, eb, held, want, fresh, nearVars, reads>> /\ tryOf' = tryOf
      /\ \/ bpc \in {"failed", "refused"} /\ bpc' = "idle"
         \/ bpc = "idle" /\ dangling > 0 /\ bpc' = "undefined"
    BY DEF giveUp, useFreed
<1>2. NearTypeOK' /\ reads' \in 0 .. MaxReads /\ dangling \in Nat
    BY <1>1, BetweenCalls DEF NearTypeOK, nearVars
<1>3. Holders' = Holders
    BY <1>1 DEF Holders
<1>4. ReferencesHeld'
    BY <1>1, <1>2, <1>3 DEF BufferSound, ReferencesHeld, nearVars
<1>5. fresh' \in BOOLEAN
    BY <1>1 DEF BufferSound, BlockTypeOK
<1>6. QED BY <1>1, <1>2, <1>4, <1>5, BufferKept

(* recow_ebs lets go of the buffer.                                        *)
LEMMA RecowStep ==
    ASSUME BufferSound, RightCopyWins, dropRecow
    PROVE  BufferSound' /\ RightCopyWins'
<1> DEFINE b == [eb EXCEPT !.recow = FALSE]
<1>1. /\ bpc = "idle" /\ bpc' = "idle" /\ eb.recow /\ eb' = Freed(b) /\ fresh' = FALSE
      /\ UNCHANGED <<copies, first, want, tryOf, near, overlapped, reads>>
      /\ IF eb.refs = 1 THEN held' = 0 /\ dangling' = dangling + held ELSE UNCHANGED <<held, dangling>>
    BY DEF dropRecow
<1>2. /\ near.refs \in Nat /\ held \in Nat /\ reads \in 0 .. MaxReads /\ eb \in ExtentBuffers
      /\ eb.refs \in Nat /\ NearTypeOK /\ dangling \in Nat /\ Holders \in Nat
    BY BetweenCalls
<1>3. /\ b \in ExtentBuffers /\ b.refs = eb.refs /\ b.uptodate = eb.uptodate
      /\ b.bad = eb.bad /\ ~b.recow /\ b.content = eb.content
    BY <1>2 DEF ExtentBuffers
<1> HIDE DEF b
<1>4. /\ eb.refs <= Holders /\ near.refs <= near.held /\ (eb.refs = 0 \/ near.refs = 0)
      /\ (eb.refs = 0 => Holders = 0) /\ (near.refs = 0 => near.held = 0)
      /\ (~overlapped => eb.refs = Holders /\ near.refs = near.held /\ dangling = 0)
    BY DEF BufferSound, ReferencesHeld
<1>5. Holders = held + 1
    BY <1>1, <1>2 DEF Holders
<1>6. eb.refs > 0
    BY <1>2, <1>4, <1>5
<1>7. /\ eb'.refs = eb.refs - 1
      /\ eb.refs = 1 => eb' = NoBuffer
      /\ eb.refs # 1 => ~eb'.recow
    BY <1>1, <1>3, <1>6, FreedBuffer
<1>8. eb.refs = 1 => Holders' = 0
    BY <1>1, <1>7 DEF Holders, NoBuffer
<1>9. eb.refs # 1 => Holders' = Holders - 1
    <2>1. eb.refs # 1 => held' = held
        BY <1>1
    <2>2. eb.refs # 1 => Holders' = held' + 0 + 0
        BY <1>1, <1>7 DEF Holders
    <2>3. QED BY <1>2, <1>5, <2>1, <2>2
<1>10. ~overlapped => dangling' = 0
    BY <1>1, <1>2, <1>4, <1>5
<1>11. ReferencesHeld'
    BY <1>1, <1>2, <1>4, <1>6, <1>7, <1>8, <1>9, <1>10 DEF ReferencesHeld
<1>12. NearTypeOK' /\ held' \in 0 .. held /\ reads' \in 0 .. MaxReads /\ (eb.refs = 1 => held' = 0)
    BY <1>1, <1>2 DEF NearTypeOK
<1>13. QED BY <1>1, <1>3, <1>6, <1>11, <1>12, BufferLetGo

(* Every step of a block's life keeps the invariant.                       *)
LEMMA BlockInvStep ==
    BufferSound /\ RightCopyWins /\ [BlockNext]_blockVars => BufferSound' /\ RightCopyWins'
<1> SUFFICES ASSUME BufferSound, RightCopyWins, [BlockNext]_blockVars
             PROVE  BufferSound' /\ RightCopyWins'
    OBVIOUS
<1>1. CASE someBlock
    <2>1. /\ bpc = "new" /\ bpc' = "idle" /\ UNCHANGED <<eb, held, want, tryOf, fresh, nearVars, reads>>
          /\ \E n \in 1 .. MaxCopies : copies' \in [1 .. n -> Copies] /\ first' \in 1 .. n
        BY <1>1 DEF someBlock
    <2>2. held = 0 /\ ~eb.uptodate /\ ~eb.recow
        BY <2>1 DEF BufferSound, StaleIsUnshared
    <2>3. ~fresh'
        BY <2>1 DEF BufferSound, StaleIsUnshared
    <2>4. BlockTypeOK'
        <3>1. /\ eb' \in ExtentBuffers /\ tryOf' \in Tries
              /\ held' \in Nat /\ want' \in 0 .. MaxGen /\ reads' \in 0 .. MaxReads
            BY <2>1 DEF BufferSound, BlockTypeOK
        <3>2. fresh' \in BOOLEAN
            BY <2>1 DEF BufferSound, BlockTypeOK
        <3>3. NearTypeOK'
            BY <2>1 DEF BufferSound, BlockTypeOK, NearTypeOK, nearVars
        <3>4. QED BY <2>1, <3>1, <3>2, <3>3 DEF BlockTypeOK
    <2>5. UptodateIsSane' /\ WrongGenerationMarked' /\ StaleIsUnshared' /\ TriedInVain'
        BY <2>1, <2>2 DEF UptodateIsSane, WrongGenerationMarked, StaleIsUnshared, TriedInVain
    <2>6. ReferencesHeld'
        <3>1. Holders' = Holders
            BY <2>1 DEF Holders
        <3>2. QED BY <2>1, <3>1 DEF BufferSound, ReferencesHeld, nearVars
    <2>7. RightCopyWins'
        BY <2>1, <2>3 DEF RightCopyWins
    <2>8. QED BY <2>4, <2>5, <2>6, <2>7 DEF BufferSound
<1>2. CASE attempt
    BY <1>2, AttemptSucceeds, AttemptFails
<1>3. ASSUME NEW transid \in {0} \cup Generations, find_create(transid)
      PROVE  BufferSound' /\ RightCopyWins'
    <2>1. near.refs \in Nat
        BY BetweenCalls
    <2>2. CASE near.refs > 1
        BY <1>3, <2>2, FindRefused
    <2>3. CASE near.refs <= 1
        BY <1>3, <2>3, FindStep
    <2>4. QED BY <2>1, <2>2, <2>3
<1>4. CASE UNCHANGED blockVars
    BY <1>4 DEF blockVars, nearVars, BufferSound, BlockTypeOK, NearTypeOK, UptodateIsSane, WrongGenerationMarked,
                ReferencesHeld, Holders, StaleIsUnshared, TriedInVain, RightCopyWins, Good
<1>5. QED BY <1>1, <1>2, <1>3, <1>4, NearStep, ReleaseStep, CallOver, RecowStep DEF BlockNext

(* In the library a part moves by its own steps only.                      *)
LEMMA PartsStep ==
    [BtrfsNext]_btrfsVars => /\ [BlockNext]_blockVars /\ [ChunksNext]_chunkVars
                             /\ [OpenNext]_openVars /\ [SearchNext]_searchVars
                             /\ [WalkNext]_walkVars
BY DEF BtrfsNext, btrfsVars

(* A caller of read_tree_block gets a whole copy with a right checksum and *)
(* a sane header, marked if its generation is wrong, and the buffer lives  *)
(* while somebody holds it, for every number of copies and of calls; only  *)
(* a request for a block that overlaps it can take it from its holders.    *)
THEOREM BufferIsSound == BtrfsSpec => []BufferSound
<1>1. BtrfsInit => BufferSound /\ RightCopyWins
    BY BlockInvInit DEF BtrfsInit
<1>2. BufferSound /\ RightCopyWins /\ [BtrfsNext]_btrfsVars => BufferSound' /\ RightCopyWins'
    BY BlockInvStep, PartsStep
<1>3. QED BY <1>1, <1>2, PTL DEF BtrfsSpec

(* The loop over the mirrors neither fails nor settles for a wrong         *)
(* generation while one copy is good, for every number of copies.          *)
THEOREM RightCopyIsFound == BtrfsSpec => []RightCopyWins
<1>1. BtrfsInit => BufferSound /\ RightCopyWins
    BY BlockInvInit DEF BtrfsInit
<1>2. BufferSound /\ RightCopyWins /\ [BtrfsNext]_btrfsVars => BufferSound' /\ RightCopyWins'
    BY BlockInvStep, PartsStep
<1>3. QED BY <1>1, <1>2, PTL DEF BtrfsSpec
-----------------------------------------------------------------------------
(* The map of chunks.                                                      *)

(* Before a volume is opened its map is empty.                             *)
LEMMA ChunksInvInit == ChunksInit => ChunkMapSound
BY DEF ChunksInit, ChunkMapSound, ChunksTypeOK, MappingDisjoint, MappedFromItems, ReadIsMapped,
       GoodVolumeMapped, ChunkItems

(* The items of an open volume are chunks with a start and a length, or no *)
(* chunks.                                                                 *)
LEMMA ItemTypes ==
    ASSUME ChunkMapSound, cpc # "new"
    PROVE  /\ Len(chunkItems.sys) \in Nat /\ DOMAIN chunkItems.sys = 1 .. Len(chunkItems.sys)
           /\ Len(chunkItems.tree) \in Nat /\ DOMAIN chunkItems.tree = 1 .. Len(chunkItems.tree)
           /\ \A c \in ChunkItems : c.key = "chunk" => c.start \in Nat /\ c.size \in Nat
<1>1. chunkItems \in ChunkVolumes
    BY DEF ChunkMapSound, ChunksTypeOK
<1>2. \A items \in {chunkItems.sys, chunkItems.tree} :
          /\ Len(items) \in Nat /\ DOMAIN items = 1 .. Len(items)
          /\ \A i \in DOMAIN items : items[i].key = "chunk" => items[i].start \in Nat /\ items[i].size \in Nat
    BY <1>1, ChunkVolumesAssumption
<1>3. QED BY <1>2 DEF ChunkItems

(* read_one_chunk puts the chunk's first address into the map and keeps    *)
(* the map a function; it fails only for an invalid chunk or one that      *)
(* overlaps another chunk of the volume.                                   *)
LEMMA ReadOneChunk ==
    ASSUME ChunkMapSound, cpc # "new", UNCHANGED chunkItems,
           NEW c \in ChunkItems, c.key = "chunk", NEW inSuper \in BOOLEAN, read_one_chunk(c, inSuper)
    PROVE  /\ MappingDisjoint' /\ MappedFromItems' /\ mapping \subseteq mapping'
           /\ \/ /\ cpc' = "failed" /\ UNCHANGED cursor
                 /\ \/ ~btrfs_check_chunk_valid(c, inSuper)
                    \/ \E d \in ChunkItems : d.key = "chunk" /\ c # d /\ Overlap(c, d)
              \/ cpc' = cpc /\ cursor' = cursor + 1 /\ IsMapped(mapping', c.start)
<1>1. c.start \in Nat /\ c.size \in Nat
    BY ItemTypes
<1>2. MappingDisjoint /\ MappedFromItems
    BY DEF ChunkMapSound
<1>3. ChunkItems' = ChunkItems
    BY DEF ChunkItems
<1>4. CASE ~btrfs_check_chunk_valid(c, inSuper)
    BY <1>2, <1>3, <1>4 DEF read_one_chunk, MappingDisjoint, MappedFromItems
<1>5. CASE btrfs_check_chunk_valid(c, inSuper) /\ AlreadyMapped(c)
    <2>1. cursor' = cursor + 1 /\ UNCHANGED <<mapping, cpc>>
        BY <1>5 DEF read_one_chunk
    <2>2. IsMapped(mapping', c.start)
        BY <1>5, <2>1 DEF AlreadyMapped, search_cache_extent, IsMapped
    <2>3. QED BY <1>2, <1>3, <2>1, <2>2 DEF MappingDisjoint, MappedFromItems
<1>6. CASE btrfs_check_chunk_valid(c, inSuper) /\ ~AlreadyMapped(c) /\ ~insert_cache_extent(mapping, c)
    <2>1. cpc' = "failed" /\ UNCHANGED <<mapping, cursor>>
        BY <1>6 DEF read_one_chunk
    <2>2. PICK d \in mapping : Overlap(c, d)
        BY <1>6 DEF insert_cache_extent
    <2>3. d \in ChunkItems /\ d.key = "chunk" /\ d.start \in Nat /\ d.size \in Nat \ {0}
        BY <1>2 DEF MappedFromItems
    <2>4. c # d
        <3> SUFFICES ASSUME c = d PROVE AlreadyMapped(c)
            BY <1>6
        <3>1. \A e \in mapping : LastOf(e) >= c.start => c.start <= e.start
            <4> SUFFICES ASSUME NEW e \in mapping, LastOf(e) >= c.start, ~(c.start <= e.start)
                         PROVE  FALSE
                OBVIOUS
            <4>1. e.start \in Nat /\ e.size \in Nat
                BY <1>2 DEF MappedFromItems
            <4>2. e.start < c.start /\ e # d
                BY <1>1, <4>1
            <4>3. Overlap(d, e)
                BY <2>3, <4>1, <4>2 DEF Overlap, LastOf
            <4>4. QED BY <1>2, <4>2, <4>3 DEF MappingDisjoint
        <3>2. LastOf(c) >= c.start
            BY <1>1, <2>3 DEF LastOf
        <3>3. QED BY <1>1, <3>1, <3>2 DEF AlreadyMapped, search_cache_extent
    <2>5. QED BY <1>2, <1>3, <2>1, <2>2, <2>3, <2>4 DEF MappingDisjoint, MappedFromItems
<1>7. CASE btrfs_check_chunk_valid(c, inSuper) /\ ~AlreadyMapped(c) /\ insert_cache_extent(mapping, c)
    <2>1. mapping' = mapping \cup {c} /\ cursor' = cursor + 1 /\ UNCHANGED cpc
        BY <1>7 DEF read_one_chunk
    <2>2. MappingDisjoint'
        BY <1>2, <1>7, <2>1 DEF MappingDisjoint, insert_cache_extent, Overlap
    <2>3. c.size > 0
        BY <1>7 DEF btrfs_check_chunk_valid
    <2>4. MappedFromItems'
        BY <1>1, <1>2, <1>3, <2>1, <2>3 DEF MappedFromItems
    <2>5. IsMapped(mapping', c.start)
        <3>1. c.start <= c.start /\ c.start <= LastOf(c)
            BY <1>1, <2>3 DEF LastOf
        <3>2. QED BY <2>1, <3>1 DEF IsMapped
    <2>6. QED BY <2>1, <2>2, <2>4, <2>5
<1>8. QED BY <1>4, <1>5, <1>6, <1>7

(* Every item read keeps the map sound.                                    *)
LEMMA ChunksInvStep == ChunkMapSound /\ [ChunksNext]_chunkVars => ChunkMapSound'
<1> SUFFICES ASSUME ChunkMapSound, [ChunksNext]_chunkVars
             PROVE  ChunkMapSound'
    OBVIOUS
<1>1. /\ ChunksTypeOK /\ MappingDisjoint /\ MappedFromItems /\ ReadIsMapped /\ GoodVolumeMapped
      /\ cursor \in Nat \ {0}
    BY DEF ChunkMapSound, ChunksTypeOK
<1>2. CASE setupChunks
    <2>1. /\ cpc' = "sys" /\ chunkItems' \in ChunkVolumes /\ mapping' = {} /\ cursor' = 1
        BY <1>1, <1>2 DEF setupChunks, ChunksTypeOK
    <2>2. DOMAIN chunkItems'.sys = 1 .. Len(chunkItems'.sys) /\ Len(chunkItems'.sys) \in Nat
        BY <2>1, ChunkVolumesAssumption
    <2>3. ReadIsMapped'
        BY <2>1, <2>2 DEF ReadIsMapped
    <2>4. QED BY <2>1, <2>3 DEF ChunkMapSound, ChunksTypeOK, MappingDisjoint, MappedFromItems,
                               GoodVolumeMapped
<1>3. CASE btrfs_read_sys_array
    <2>1. cpc = "sys" /\ UNCHANGED chunkItems /\ ChunkItems' = ChunkItems
        BY <1>3 DEF btrfs_read_sys_array, ChunkItems
    <2>2. chunkItems' \in ChunkVolumes
        BY <1>1, <2>1 DEF ChunksTypeOK
    <2>3. /\ Len(chunkItems.sys) \in Nat /\ DOMAIN chunkItems.sys = 1 .. Len(chunkItems.sys)
          /\ DOMAIN chunkItems.tree = 1 .. Len(chunkItems.tree)
        BY <2>1, ItemTypes
    <2>4. CASE cursor > Len(chunkItems.sys)
        <3>1. cpc' = "tree" /\ cursor' = 1 /\ UNCHANGED mapping
            BY <1>3, <2>4 DEF btrfs_read_sys_array
        <3>2. \A i \in DOMAIN chunkItems.sys : IsMapped(mapping, chunkItems.sys[i].start)
            BY <1>1, <2>1, <2>3, <2>4 DEF ReadIsMapped
        <3>3. ReadIsMapped'
            BY <2>1, <2>3, <3>1, <3>2 DEF ReadIsMapped, IsMapped
        <3>4. QED BY <1>1, <2>1, <2>2, <3>1, <3>3
                  DEF ChunkMapSound, ChunksTypeOK, MappingDisjoint, MappedFromItems, GoodVolumeMapped
    <2>5. CASE ~(cursor > Len(chunkItems.sys))
        <3> DEFINE c == chunkItems.sys[cursor]
        <3>1. cursor \in DOMAIN chunkItems.sys
            BY <1>1, <2>3, <2>5
        <3>2. CASE c.key # "chunk" \/ c.cut \/ c.num_stripes = 0
            <4>1. cpc' = "failed" /\ UNCHANGED <<mapping, cursor>>
                BY <1>3, <2>5, <3>2 DEF btrfs_read_sys_array
            <4>2. c.key # "chunk" \/ c.cut \/ ~btrfs_check_chunk_valid(c, TRUE)
                BY <3>2 DEF btrfs_check_chunk_valid
            <4>3. GoodVolumeMapped'
                BY <2>1, <3>1, <4>2 DEF GoodVolumeMapped
            <4>4. QED BY <1>1, <2>1, <2>2, <4>1, <4>3
                      DEF ChunkMapSound, ChunksTypeOK, MappingDisjoint, MappedFromItems, ReadIsMapped
        <3>3. CASE ~(c.key # "chunk" \/ c.cut \/ c.num_stripes = 0)
            <4>1. read_one_chunk(c, TRUE) /\ c \in ChunkItems /\ c.key = "chunk"
                BY <1>3, <2>5, <3>1, <3>3 DEF btrfs_read_sys_array, ChunkItems
            <4> HIDE DEF c
            <4>2. /\ MappingDisjoint' /\ MappedFromItems' /\ mapping \subseteq mapping'
                  /\ \/ /\ cpc' = "failed" /\ UNCHANGED cursor
                        /\ \/ ~btrfs_check_chunk_valid(c, TRUE)
                           \/ \E d \in ChunkItems : d.key = "chunk" /\ c # d /\ Overlap(c, d)
                     \/ cpc' = cpc /\ cursor' = cursor + 1 /\ IsMapped(mapping', c.start)
                BY <2>1, <4>1, ReadOneChunk
            <4>3. ChunksTypeOK'
                <5>1. \/ cpc' = "failed" /\ cursor' = cursor
                      \/ cpc' = cpc /\ cursor' = cursor + 1
                    BY <4>2, Zenon
                <5>2. cursor' \in Nat \ {0} /\ cpc' \in {"sys", "tree", "failed"}
                    BY <1>1, <2>1, <5>1
                <5>3. QED BY <2>2, <5>2 DEF ChunksTypeOK
            <4>4. ReadIsMapped'
                <5>1. \A l : IsMapped(mapping, l) => IsMapped(mapping', l)
                    BY <4>2 DEF IsMapped
                <5>2. CASE cpc' = "failed"
                    BY <5>2 DEF ReadIsMapped
                <5>3. CASE cpc' = cpc /\ cursor' = cursor + 1 /\ IsMapped(mapping', c.start)
                    <6>1. \A i \in DOMAIN chunkItems.sys : i < cursor + 1 => i < cursor \/ i = cursor
                        BY <1>1, <2>3
                    <6>2. \A i \in DOMAIN chunkItems.sys :
                             i < cursor + 1 => IsMapped(mapping', chunkItems.sys[i].start)
                        BY <1>1, <2>1, <5>1, <5>3, <6>1 DEF ReadIsMapped, c
                    <6>3. QED BY <2>1, <5>3, <6>2 DEF ReadIsMapped, IsMapped
                <5>4. QED BY <4>2, <5>2, <5>3
            <4>5. GoodVolumeMapped'
                BY <2>1, <3>1, <4>1, <4>2 DEF GoodVolumeMapped, c
            <4>6. QED BY <4>2, <4>3, <4>4, <4>5 DEF ChunkMapSound
        <3>4. QED BY <3>2, <3>3
    <2>6. QED BY <2>4, <2>5
<1>4. CASE btrfs_read_chunk_tree
    <2>1. cpc = "tree" /\ UNCHANGED chunkItems /\ ChunkItems' = ChunkItems
        BY <1>4 DEF btrfs_read_chunk_tree, ChunkItems
    <2>2. chunkItems' \in ChunkVolumes
        BY <1>1, <2>1 DEF ChunksTypeOK
    <2>3. Len(chunkItems.tree) \in Nat /\ DOMAIN chunkItems.tree = 1 .. Len(chunkItems.tree)
        BY <2>1, ItemTypes
    <2>4. CASE cursor > Len(chunkItems.tree)
        <3>1. cpc' = "mapped" /\ UNCHANGED <<mapping, cursor>>
            BY <1>4, <2>4 DEF btrfs_read_chunk_tree
        <3>2. \A i \in DOMAIN chunkItems.tree : i < cursor
            BY <1>1, <2>3, <2>4
        <3>3. ReadIsMapped'
            BY <1>1, <2>1, <3>1, <3>2 DEF ReadIsMapped, IsMapped
        <3>4. QED BY <1>1, <2>1, <2>2, <3>1, <3>3
                  DEF ChunkMapSound, ChunksTypeOK, MappingDisjoint, MappedFromItems, GoodVolumeMapped
    <2>5. CASE ~(cursor > Len(chunkItems.tree))
        <3> DEFINE c == chunkItems.tree[cursor]
        <3>1. cursor \in DOMAIN chunkItems.tree
            BY <1>1, <2>3, <2>5
        <3>2. \A i \in DOMAIN chunkItems.tree : i < cursor + 1 => i < cursor \/ i = cursor
            BY <1>1, <2>3
        <3>3. CASE c.key # "chunk"
            <4>1. cursor' = cursor + 1 /\ UNCHANGED <<mapping, cpc>>
                BY <1>4, <2>5, <3>3 DEF btrfs_read_chunk_tree
            <4>2. ReadIsMapped'
                BY <1>1, <2>1, <3>2, <3>3, <4>1 DEF ReadIsMapped, IsMapped
            <4>3. ChunksTypeOK'
                BY <1>1, <2>1, <2>2, <4>1 DEF ChunksTypeOK
            <4>4. QED BY <1>1, <2>1, <4>1, <4>2, <4>3
                      DEF ChunkMapSound, MappingDisjoint, MappedFromItems, GoodVolumeMapped
        <3>4. CASE c.key = "chunk"
            <4>1. read_one_chunk(c, FALSE) /\ c \in ChunkItems
                BY <1>4, <2>5, <3>1, <3>4 DEF btrfs_read_chunk_tree, ChunkItems
            <4> HIDE DEF c
            <4>2. /\ MappingDisjoint' /\ MappedFromItems' /\ mapping \subseteq mapping'
                  /\ \/ /\ cpc' = "failed" /\ UNCHANGED cursor
                        /\ \/ ~btrfs_check_chunk_valid(c, FALSE)
                           \/ \E d \in ChunkItems : d.key = "chunk" /\ c # d /\ Overlap(c, d)
                     \/ cpc' = cpc /\ cursor' = cursor + 1 /\ IsMapped(mapping', c.start)
                BY <2>1, <3>4, <4>1, ReadOneChunk
            <4>3. ChunksTypeOK'
                <5>1. \/ cpc' = "failed" /\ cursor' = cursor
                      \/ cpc' = cpc /\ cursor' = cursor + 1
                    BY <4>2, Zenon
                <5>2. cursor' \in Nat \ {0} /\ cpc' \in {"sys", "tree", "failed"}
                    BY <1>1, <2>1, <5>1
                <5>3. QED BY <2>2, <5>2 DEF ChunksTypeOK
            <4>4. ReadIsMapped'
                <5>1. \A l : IsMapped(mapping, l) => IsMapped(mapping', l)
                    BY <4>2 DEF IsMapped
                <5>2. CASE cpc' = "failed"
                    BY <5>2 DEF ReadIsMapped
                <5>3. CASE cpc' = cpc /\ cursor' = cursor + 1 /\ IsMapped(mapping', c.start)
                    <6>1. \A i \in DOMAIN chunkItems.tree :
                             i < cursor + 1 => (chunkItems.tree[i].key = "chunk" =>
                                                    IsMapped(mapping', chunkItems.tree[i].start))
                        BY <1>1, <2>1, <3>2, <5>1, <5>3 DEF ReadIsMapped, c
                    <6>2. \A i \in DOMAIN chunkItems.sys : IsMapped(mapping', chunkItems.sys[i].start)
                        BY <1>1, <2>1, <5>1 DEF ReadIsMapped
                    <6>3. QED BY <2>1, <5>3, <6>1, <6>2 DEF ReadIsMapped, IsMapped
                <5>4. QED BY <4>2, <5>2, <5>3
            <4>5. GoodVolumeMapped'
                BY <2>1, <3>1, <3>4, <4>1, <4>2 DEF GoodVolumeMapped, c
            <4>6. QED BY <4>2, <4>3, <4>4, <4>5 DEF ChunkMapSound
        <3>5. QED BY <3>3, <3>4
    <2>6. QED BY <2>4, <2>5
<1>5. CASE UNCHANGED chunkVars
    <2>1. UNCHANGED <<chunkItems, mapping, cursor, cpc>>
        BY <1>5 DEF chunkVars
    <2>2. ChunksTypeOK' /\ MappingDisjoint'
        BY <1>1, <2>1 DEF ChunksTypeOK, MappingDisjoint
    <2>3. ChunkItems' = ChunkItems
        BY <2>1 DEF ChunkItems
    <2>4. MappedFromItems' /\ GoodVolumeMapped'
        BY <1>1, <2>1, <2>3 DEF MappedFromItems, GoodVolumeMapped
    <2>5. ReadIsMapped'
        BY <1>1, <2>1 DEF ReadIsMapped
    <2>6. QED BY <2>2, <2>4, <2>5 DEF ChunkMapSound
<1>6. QED BY <1>2, <1>3, <1>4, <1>5 DEF ChunksNext

(* For every volume: at most one chunk of the map holds an address, each   *)
(* chunk read is found at its first address, and opening fails only for an *)
(* item that is invalid or overlaps another one, although the system       *)
(* chunks are read twice.                                                  *)
THEOREM ChunkMapIsSound == BtrfsSpec => []ChunkMapSound
<1>1. BtrfsInit => ChunkMapSound
    BY ChunksInvInit DEF BtrfsInit
<1>2. ChunkMapSound /\ [BtrfsNext]_btrfsVars => ChunkMapSound'
    BY ChunksInvStep, PartsStep
<1>3. QED BY <1>1, <1>2, PTL DEF BtrfsSpec
-----------------------------------------------------------------------------
(* What the references count: the roots a buffer is the node of, recow_ebs *)
(* and the paths left behind.  Only an overlapping request breaks the      *)
(* balance, and only by taking away.                                       *)
NodeOf(rt, b) == {r \in RootNames : rt[r] = b}
HeldBy(rt, rc, kp, b) == Cardinality(NodeOf(rt, b)) + (IF b \in rc THEN 1 ELSE 0) + kp[b]
Counts(rf, rt, rc, kp, ov) ==
    \A b \in Buffers : rf[b] <= HeldBy(rt, rc, kp, b) /\ (ov = 0 => rf[b] = HeldBy(rt, rc, kp, b))
OwnNodes(rt) == \A r \in RootNames : rt[r] \in {"null", "freed", r, "blank"}
NotSetUp(rt, rc, kp, ahead) == \A r \in ahead : rt[r] = "null" /\ r \notin rc /\ kp[r] = 0
NoneFreed(rt, no, ov) == ov = 0 => ~no /\ \A r \in RootNames : rt[r] # "freed"

BufferTypes ==
    /\ refs \in [Buffers -> Nat] /\ roots \in [RootNames -> Buffers \cup {"null", "freed"}]
    /\ recow \subseteq RootNames /\ kept \in [Buffers -> Nat] /\ overlaps \in Nat /\ refused \in BOOLEAN

LEMMA RootNamesFinite == IsFiniteSet(RootNames)
<1>1. RootNames = {"chunk"} \cup {"tree"} \cup {"extent"} \cup {"dev"} \cup {"csum"} \cup {"quota"}
                  \cup {"free_space"} \cup {"log"} \cup {"fs"}
    BY DEF RootNames
<1>2. \A x : IsFiniteSet({x})
    BY FS_Singleton
<1>3. QED BY <1>1, <1>2, FS_Union

LEMMA NodeOfFinite ==
    ASSUME NEW rt, NEW b
    PROVE  IsFiniteSet(NodeOf(rt, b)) /\ Cardinality(NodeOf(rt, b)) \in Nat
<1>1. NodeOf(rt, b) \subseteq RootNames
    BY DEF NodeOf
<1>2. QED BY <1>1, RootNamesFinite, FS_Subset, FS_CardinalityType

(* The words for no node are not buffers.                                  *)
LEMMA WordsAreNoBuffers == {"null", "freed"} \cap Buffers = {} /\ "blank" \notin RootNames /\ RootNames \subseteq Buffers
BY DEF Buffers, RootNames

LEMMA CountsAtFirst ==
    ASSUME NEW ov
    PROVE  /\ Counts(NoRefs, NoRoots, {}, NoRefs, ov) /\ OwnNodes(NoRoots)
           /\ NotSetUp(NoRoots, {}, NoRefs, RootNames) /\ \A r \in RootNames : NoRoots[r] # "freed"
           /\ NoRefs \in [Buffers -> Nat] /\ NoRoots \in [RootNames -> Buffers \cup {"null", "freed"}]
<1>1. ASSUME NEW b \in Buffers PROVE NoRefs[b] = HeldBy(NoRoots, {}, NoRefs, b)
    <2>1. NodeOf(NoRoots, b) = {}
        BY WordsAreNoBuffers DEF NodeOf, NoRoots
    <2>2. QED BY <2>1, FS_EmptySet DEF NoRefs, HeldBy
<1>2. Counts(NoRefs, NoRoots, {}, NoRefs, ov)
    BY <1>1 DEF Counts, NoRefs
<1>3. QED BY <1>2, WordsAreNoBuffers DEF NoRefs, NoRoots, OwnNodes, NotSetUp

(* A step that gives every buffer as many references as holders.           *)
LEMMA CountsGrow ==
    ASSUME BufferTypes, Counts(refs, roots, recow, kept, overlaps), overlaps' = overlaps,
           \A b \in Buffers : \E n \in Nat :
               /\ refs'[b] = refs[b] + n
               /\ HeldBy(roots', recow', kept', b) = HeldBy(roots, recow, kept, b) + n
    PROVE  Counts(refs', roots', recow', kept', overlaps')
<1> SUFFICES ASSUME NEW b \in Buffers
             PROVE  /\ refs'[b] <= HeldBy(roots', recow', kept', b)
                    /\ overlaps' = 0 => refs'[b] = HeldBy(roots', recow', kept', b)
    BY DEF Counts
<1>1. refs[b] \in Nat /\ HeldBy(roots, recow, kept, b) \in Nat
    BY NodeOfFinite DEF BufferTypes, HeldBy
<1>2. refs[b] <= HeldBy(roots, recow, kept, b) /\ (overlaps = 0 => refs[b] = HeldBy(roots, recow, kept, b))
    BY DEF Counts
<1>3. QED BY <1>1, <1>2

(* A root gets a node that was read, with or without a copy on recow_ebs.  *)
LEMMA CountsRead ==
    ASSUME NEW r \in RootNames, BufferTypes, Counts(refs, roots, recow, kept, overlaps), OwnNodes(roots),
           roots[r] = "null", r \notin recow, kept[r] = 0, ReadNode(r), UNCHANGED <<kept, overlaps>>
    PROVE  /\ Counts(refs', roots', recow', kept', overlaps') /\ OwnNodes(roots')
           /\ refs' \in [Buffers -> Nat] /\ roots' \in [RootNames -> Buffers \cup {"null", "freed"}]
           /\ recow' \subseteq RootNames
<1>1. roots' = [roots EXCEPT ![r] = r] /\ r \in Buffers /\ r # "null"
    BY WordsAreNoBuffers DEF ReadNode
<1>2. NodeOf(roots', r) = {r} /\ NodeOf(roots, r) = {}
    <2>1. \A q \in RootNames : roots[q] # r
        BY <1>1 DEF OwnNodes, RootNames
    <2>2. QED BY <1>1, <2>1 DEF NodeOf, BufferTypes
<1>3. ASSUME NEW b \in Buffers, b # r
      PROVE  NodeOf(roots', b) = NodeOf(roots, b)
    BY <1>1, <1>3, WordsAreNoBuffers DEF NodeOf, BufferTypes
<1>4. Cardinality(NodeOf(roots', r)) = 1 /\ Cardinality(NodeOf(roots, r)) = 0
    BY <1>2, FS_Singleton, FS_EmptySet
<1>5. HeldBy(roots, recow, kept, r) = 0 /\ refs[r] = 0
    <2>1. HeldBy(roots, recow, kept, r) = 0
        BY <1>4 DEF HeldBy
    <2>2. refs[r] \in Nat /\ refs[r] <= HeldBy(roots, recow, kept, r)
        BY <1>1 DEF BufferTypes, Counts
    <2>3. QED BY <2>1, <2>2
<1>6. CASE refs' = [refs EXCEPT ![r] = 1] /\ UNCHANGED recow
    <2>1. ASSUME NEW b \in Buffers
          PROVE  \E n \in Nat : /\ refs'[b] = refs[b] + n
                                /\ HeldBy(roots', recow', kept', b) = HeldBy(roots, recow, kept, b) + n
        <3>1. CASE b = r
            <4>1. refs'[b] = refs[b] + 1
                BY <1>1, <1>5, <1>6, <3>1 DEF BufferTypes
            <4>2. HeldBy(roots', recow', kept', b) = 1
                BY <1>4, <1>6, <3>1 DEF HeldBy
            <4>3. QED BY <1>5, <3>1, <4>1, <4>2
        <3>2. CASE b # r
            <4>1. refs'[b] = refs[b] + 0
                BY <1>6, <3>2 DEF BufferTypes
            <4>2. HeldBy(roots', recow', kept', b) = HeldBy(roots, recow, kept, b)
                BY <1>3, <1>6, <3>2 DEF HeldBy
            <4>3. HeldBy(roots, recow, kept, b) \in Nat
                BY NodeOfFinite DEF BufferTypes, HeldBy
            <4>4. QED BY <4>1, <4>2, <4>3
        <3>3. QED BY <3>1, <3>2
    <2>2. QED BY <1>1, <1>6, <2>1, CountsGrow DEF BufferTypes, OwnNodes
<1>7. CASE refs' = [refs EXCEPT ![r] = 2] /\ recow' = recow \cup {r}
    <2>1. ASSUME NEW b \in Buffers
          PROVE  \E n \in Nat : /\ refs'[b] = refs[b] + n
                                /\ HeldBy(roots', recow', kept', b) = HeldBy(roots, recow, kept, b) + n
        <3>1. CASE b = r
            <4>1. refs'[b] = refs[b] + 2
                BY <1>1, <1>5, <1>7, <3>1 DEF BufferTypes
            <4>2. HeldBy(roots', recow', kept', b) = 2
                BY <1>4, <1>7, <3>1 DEF HeldBy
            <4>3. QED BY <1>5, <3>1, <4>1, <4>2
        <3>2. CASE b # r
            <4>1. refs'[b] = refs[b] + 0
                BY <1>7, <3>2 DEF BufferTypes
            <4>2. HeldBy(roots', recow', kept', b) = HeldBy(roots, recow, kept, b)
                BY <1>3, <1>7, <3>2 DEF HeldBy
            <4>3. HeldBy(roots, recow, kept, b) \in Nat
                BY NodeOfFinite DEF BufferTypes, HeldBy
            <4>4. QED BY <4>1, <4>2, <4>3
        <3>3. QED BY <3>1, <3>2
    <2>2. QED BY <1>1, <1>7, <2>1, CountsGrow DEF BufferTypes, OwnNodes
<1>8. QED BY <1>6, <1>7 DEF ReadNode

(* A root that is not set up shares the blank block, or has no node; a     *)
(* path may be left behind.                                                *)
LEMMA CountsBlank ==
    ASSUME NEW r \in RootNames, BufferTypes, Counts(refs, roots, recow, kept, overlaps), OwnNodes(roots),
           roots[r] = "null", NEW left \in [Buffers -> Nat],
           roots' = [roots EXCEPT ![r] = "blank"], refs' = [Plus(refs, left) EXCEPT !["blank"] = @ + 1],
           kept' = Plus(kept, left), UNCHANGED <<recow, overlaps>>
    PROVE  /\ Counts(refs', roots', recow', kept', overlaps') /\ OwnNodes(roots')
           /\ refs' \in [Buffers -> Nat] /\ roots' \in [RootNames -> Buffers \cup {"null", "freed"}]
           /\ kept' \in [Buffers -> Nat]
<1>1. "blank" \in Buffers /\ "blank" \notin recow
    BY WordsAreNoBuffers DEF Buffers, BufferTypes
<1>2. NodeOf(roots', "blank") = NodeOf(roots, "blank") \cup {r} /\ r \notin NodeOf(roots, "blank")
    BY DEF NodeOf, BufferTypes
<1>3. Cardinality(NodeOf(roots', "blank")) = Cardinality(NodeOf(roots, "blank")) + 1
    BY <1>2, NodeOfFinite, FS_AddElement
<1>4. ASSUME NEW b \in Buffers, b # "blank"
      PROVE  NodeOf(roots', b) = NodeOf(roots, b)
    BY <1>4, WordsAreNoBuffers DEF NodeOf, BufferTypes
<1>5. ASSUME NEW b \in Buffers
      PROVE  /\ refs'[b] = refs[b] + left[b] + (IF b = "blank" THEN 1 ELSE 0)
             /\ kept'[b] = kept[b] + left[b]
    BY DEF Plus, BufferTypes
<1>6. Plus(refs, left) \in [Buffers -> Nat] /\ Plus(kept, left) \in [Buffers -> Nat]
    BY DEF Plus, BufferTypes
<1>7. ASSUME NEW b \in Buffers
      PROVE  \E n \in Nat : /\ refs'[b] = refs[b] + n
                            /\ HeldBy(roots', recow', kept', b) = HeldBy(roots, recow, kept, b) + n
    <2>1. /\ refs[b] \in Nat /\ kept[b] \in Nat /\ left[b] \in Nat
          /\ Cardinality(NodeOf(roots, b)) \in Nat /\ Cardinality(NodeOf(roots', b)) \in Nat
        BY NodeOfFinite DEF BufferTypes
    <2>2. CASE b = "blank"
        <3>1. refs'[b] = refs[b] + (left[b] + 1) /\ left[b] + 1 \in Nat
            BY <1>5, <2>1, <2>2
        <3>2. HeldBy(roots', recow', kept', b) = HeldBy(roots, recow, kept, b) + (left[b] + 1)
            BY <1>1, <1>3, <1>5, <2>1, <2>2 DEF HeldBy
        <3>3. QED BY <3>1, <3>2
    <2>3. CASE b # "blank"
        <3>1. refs'[b] = refs[b] + left[b]
            BY <1>5, <2>1, <2>3
        <3>2. HeldBy(roots', recow', kept', b) = HeldBy(roots, recow, kept, b) + left[b]
            <4>1. NodeOf(roots', b) = NodeOf(roots, b) /\ kept'[b] = kept[b] + left[b] /\ recow' = recow
                BY <1>4, <1>5, <2>3
            <4>2. QED BY <2>1, <4>1 DEF HeldBy
        <3>3. QED BY <2>1, <3>1, <3>2
    <2>4. QED BY <2>2, <2>3
<1>8. Counts(refs', roots', recow', kept', overlaps')
    BY <1>7, CountsGrow
<1>9. refs' \in [Buffers -> Nat]
    BY <1>1, <1>6
<1>10. QED BY <1>1, <1>6, <1>8, <1>9 DEF BufferTypes, OwnNodes

LEMMA CountsNone ==
    ASSUME NEW r \in RootNames, BufferTypes, Counts(refs, roots, recow, kept, overlaps), OwnNodes(roots),
           roots[r] = "null", NEW left \in [Buffers -> Nat],
           roots' = [roots EXCEPT ![r] = "null"], refs' = Plus(refs, left),
           kept' = Plus(kept, left), UNCHANGED <<recow, overlaps>>
    PROVE  /\ Counts(refs', roots', recow', kept', overlaps') /\ OwnNodes(roots')
           /\ refs' \in [Buffers -> Nat] /\ roots' \in [RootNames -> Buffers \cup {"null", "freed"}]
           /\ kept' \in [Buffers -> Nat]
<1>1. roots' = roots
    BY DEF BufferTypes
<1>2. refs' \in [Buffers -> Nat] /\ kept' \in [Buffers -> Nat]
    BY DEF Plus, BufferTypes
<1>3. ASSUME NEW b \in Buffers
      PROVE  \E n \in Nat : /\ refs'[b] = refs[b] + n
                            /\ HeldBy(roots', recow', kept', b) = HeldBy(roots, recow, kept, b) + n
    <2>1. /\ refs[b] \in Nat /\ kept[b] \in Nat /\ left[b] \in Nat
          /\ Cardinality(NodeOf(roots, b)) \in Nat
        BY NodeOfFinite DEF BufferTypes
    <2>2. refs'[b] = refs[b] + left[b] /\ kept'[b] = kept[b] + left[b]
        BY DEF Plus
    <2>3. HeldBy(roots', recow', kept', b) = HeldBy(roots, recow, kept, b) + left[b]
        BY <1>1, <2>1, <2>2 DEF HeldBy
    <2>4. QED BY <2>1, <2>2, <2>3
<1>4. Counts(refs', roots', recow', kept', overlaps')
    BY <1>3, CountsGrow
<1>5. QED BY <1>1, <1>2, <1>4 DEF BufferTypes

(* An overlapping request takes a reference of one buffer away, with the   *)
(* last one the buffer.                                                    *)
LEMMA CountsOverlap ==
    ASSUME NEW b \in Buffers, BufferTypes, Counts(refs, roots, recow, kept, overlaps), OwnNodes(roots),
           refs[b] > 0, refs' = [refs EXCEPT ![b] = @ - 1], overlaps' = overlaps + 1,
           IF refs[b] > 1 THEN UNCHANGED <<roots, recow, kept>>
           ELSE /\ roots' = [r \in RootNames |-> IF roots[r] = b THEN "freed" ELSE roots[r]]
                /\ recow' = recow \ {b} /\ kept' = [kept EXCEPT ![b] = 0]
    PROVE  /\ Counts(refs', roots', recow', kept', overlaps') /\ OwnNodes(roots')
           /\ refs' \in [Buffers -> Nat] /\ roots' \in [RootNames -> Buffers \cup {"null", "freed"}]
           /\ kept' \in [Buffers -> Nat] /\ recow' \subseteq recow /\ overlaps' \in Nat /\ overlaps' > 0
           /\ \A r \in RootNames : roots[r] = "null" => roots'[r] = "null"
           /\ \A c \in Buffers : kept[c] = 0 => kept'[c] = 0
<1>1. refs[b] \in Nat /\ refs' \in [Buffers -> Nat] /\ overlaps' \in Nat /\ overlaps' > 0
    BY DEF BufferTypes
<1>2. CASE refs[b] > 1
    <2>1. UNCHANGED <<roots, recow, kept>>
        BY <1>2
    <2>2. \A c \in Buffers : refs'[c] <= refs[c] /\ refs[c] \in Nat /\ refs'[c] \in Nat
        BY <1>1 DEF BufferTypes
    <2>3. ASSUME NEW c \in Buffers PROVE refs'[c] <= HeldBy(roots', recow', kept', c)
        <3>1. refs[c] <= HeldBy(roots, recow, kept, c) /\ HeldBy(roots, recow, kept, c) \in Nat
            BY NodeOfFinite DEF Counts, HeldBy, BufferTypes
        <3>2. QED BY <2>1, <2>2, <3>1
    <2>4. Counts(refs', roots', recow', kept', overlaps')
        BY <1>1, <2>3 DEF Counts
    <2>5. QED BY <1>1, <2>1, <2>4 DEF BufferTypes
<1>3. CASE ~(refs[b] > 1)
    <2>1. /\ roots' = [r \in RootNames |-> IF roots[r] = b THEN "freed" ELSE roots[r]]
          /\ recow' = recow \ {b} /\ kept' = [kept EXCEPT ![b] = 0]
        BY <1>3
    <2>2. refs'[b] = 0
        BY <1>1, <1>3 DEF BufferTypes
    <2>3. kept' \in [Buffers -> Nat] /\ roots' \in [RootNames -> Buffers \cup {"null", "freed"}]
        BY <2>1 DEF BufferTypes
    <2>4. ASSUME NEW c \in Buffers PROVE refs'[c] <= HeldBy(roots', recow', kept', c)
        <3>1. CASE c = b
            <4>1. HeldBy(roots', recow', kept', c) >= 0
                BY <2>3, NodeOfFinite DEF HeldBy
            <4>2. QED BY <2>2, <3>1, <4>1
        <3>2. CASE c # b
            <4>1. NodeOf(roots', c) = NodeOf(roots, c)
                BY <2>1, <3>2, WordsAreNoBuffers DEF NodeOf
            <4>2. refs'[c] = refs[c] /\ kept'[c] = kept[c] /\ (c \in recow' <=> c \in recow)
                BY <2>1, <3>2 DEF BufferTypes
            <4>3. QED BY <4>1, <4>2 DEF Counts, HeldBy
        <3>3. QED BY <3>1, <3>2
    <2>5. Counts(refs', roots', recow', kept', overlaps')
        BY <1>1, <2>4 DEF Counts
    <2>6. OwnNodes(roots') /\ \A r \in RootNames : roots[r] = "null" => roots'[r] = "null"
        BY <2>1, WordsAreNoBuffers DEF OwnNodes
    <2>7. \A c \in Buffers : kept[c] = 0 => kept'[c] = 0
        BY <2>1 DEF BufferTypes
    <2>8. QED BY <1>1, <2>1, <2>3, <2>5, <2>6, <2>7
<1>4. QED BY <1>2, <1>3

(* What the release lets go of is all that the roots and recow_ebs have:   *)
(* what is left over, a path has kept, and what is missing, an overlapping *)
(* request has taken.                                                      *)
LEMMA NothingLeft ==
    ASSUME BufferTypes, Counts(refs, roots, recow, kept, overlaps), NoneFreed(roots, refused, overlaps),
           NEW gone \in SUBSET RootNames, \A r \in RootNames \ gone : roots[r] \notin Buffers,
           NEW left \in [Buffers -> Nat]
    PROVE  /\ ReleasesFreed(gone, Plus(refs, left)) => overlaps > 0
           /\ \A b \in Buffers : Left(gone, b, Plus(refs, left)[b]) > 0 => kept[b] + left[b] > 0
<1>1. ASSUME NEW b \in Buffers
      PROVE  /\ Nodes(gone, b) = Cardinality(NodeOf(roots, b)) /\ Nodes(gone, b) \in Nat
             /\ Plus(refs, left)[b] = refs[b] + left[b]
             /\ refs[b] \in Nat /\ left[b] \in Nat /\ kept[b] \in Nat
    <2>1. {r \in gone : roots[r] = b} = NodeOf(roots, b)
        BY DEF NodeOf
    <2>2. QED BY <2>1, NodeOfFinite DEF Nodes, Plus, BufferTypes
<1>2. ASSUME NEW b \in Buffers, Left(gone, b, Plus(refs, left)[b]) > 0
      PROVE  kept[b] + left[b] > 0
    <2>1. refs[b] <= Nodes(gone, b) + (IF b \in recow THEN 1 ELSE 0) + kept[b]
        BY <1>1 DEF Counts, HeldBy
    <2>2. refs[b] + left[b] - Nodes(gone, b) - (IF b \in recow THEN 1 ELSE 0) > 0
        BY <1>1, <1>2 DEF Left
    <2>3. QED BY <1>1, <2>1, <2>2
<1>3. ASSUME ReleasesFreed(gone, Plus(refs, left)), overlaps = 0 PROVE FALSE
    <2>1. \A r \in RootNames : roots[r] # "freed"
        BY <1>3 DEF NoneFreed
    <2>2. PICK b \in Buffers : Plus(refs, left)[b] < Nodes(gone, b)
        BY <1>3, <2>1 DEF ReleasesFreed
    <2>3. refs[b] = Nodes(gone, b) + (IF b \in recow THEN 1 ELSE 0) + kept[b]
        BY <1>1, <1>3 DEF Counts, HeldBy
    <2>4. QED BY <1>1, <2>2, <2>3
<1>4. overlaps \in Nat
    BY DEF BufferTypes
<1>5. QED BY <1>2, <1>3, <1>4
-----------------------------------------------------------------------------
(* The buffers of an open.                                                 *)
BuffersInv == /\ BufferTypes /\ opc \in Stages \cup {"off", "idle", "dead"}
              /\ AssertNeedsKeptPath /\ FreedNeedsOverlap /\ RefsInv

LEMMA RefsParts ==
    RefsInv <=> (opc # "dead" => /\ why = "" /\ OwnNodes(roots) /\ NotSetUp(roots, recow, kept, Ahead)
                                 /\ Counts(refs, roots, recow, kept, overlaps)
                                 /\ NoneFreed(roots, refused, overlaps))
BY DEF RefsInv, OwnNodes, NotSetUp, Counts, HeldBy, NodeOf, Nodes, NoneFreed

LEMMA RefsPartsNext ==
    RefsInv' <=> (opc' # "dead" => /\ why' = "" /\ OwnNodes(roots') /\ NotSetUp(roots', recow', kept', Ahead')
                                   /\ Counts(refs', roots', recow', kept', overlaps')
                                   /\ NoneFreed(roots', refused', overlaps'))
BY DEF RefsInv, OwnNodes, NotSetUp, Counts, HeldBy, NodeOf, Nodes, NoneFreed

(* How an open may end the daemon.                                         *)
EndExplained ==
    /\ why' = "assert_lru" => \E b \in Buffers : kept'[b] > 0
    /\ why' = "undefined" => overlaps' > 0

(* A step into a state in which no root is set up.                         *)
LEMMA BuffersFresh ==
    ASSUME BuffersInv, opc # "dead",
           opc' \in {"idle", "scan", "closed", "dead"}, opc' = "dead" \/ UNCHANGED why,
           refs' = NoRefs, roots' = NoRoots, recow' = {}, kept' \in [Buffers -> Nat],
           opc' # "dead" => kept' = NoRefs, EndExplained,
           (overlaps' = 0 /\ refused' = FALSE) \/ UNCHANGED <<overlaps, refused>>
    PROVE  BuffersInv'
<1>1. why = "" /\ NoneFreed(roots, refused, overlaps)
    BY RefsParts DEF BuffersInv
<1>2. Ahead' = RootNames \/ opc' = "dead"
    BY DEF Ahead
<1>3. NoneFreed(roots', refused', overlaps')
    BY <1>1, CountsAtFirst DEF NoneFreed
<1>4. RefsInv'
    BY <1>1, <1>2, <1>3, CountsAtFirst, RefsPartsNext
<1>5. BufferTypes'
    <2>1. overlaps' \in Nat /\ refused' \in BOOLEAN
        <3>1. overlaps \in Nat /\ refused \in BOOLEAN
            BY DEF BufferTypes, BuffersInv
        <3>2. CASE overlaps' = 0 /\ refused' = FALSE
            BY <3>2
        <3>3. CASE UNCHANGED <<overlaps, refused>>
            <4>1. overlaps' = overlaps /\ refused' = refused
                BY <3>3
            <4>2. QED BY <3>1, <4>1
        <3>4. QED BY <3>2, <3>3
    <2>2. NoRefs \in [Buffers -> Nat] /\ NoRoots \in [RootNames -> Buffers \cup {"null", "freed"}]
        BY CountsAtFirst
    <2>3. QED BY <2>1, <2>2 DEF BufferTypes
<1>6. opc' \in Stages \cup {"off", "idle", "dead"}
    BY DEF Stages
<1>7. QED BY <1>4, <1>5, <1>6 DEF BuffersInv, AssertNeedsKeptPath, FreedNeedsOverlap, EndExplained

(* A step that leaves the buffers alone, before any root is set up.        *)
LEMMA BuffersKept ==
    ASSUME BuffersInv, opc \in {"off", "idle", "scan", "devices", "closed"},
           opc' \in {"idle", "scan", "devices", "chunk", "dead"},
           (opc' = "dead" /\ why' = "null") \/ UNCHANGED why,
           UNCHANGED <<refs, roots, recow, kept, overlaps, refused>>
    PROVE  BuffersInv'
<1>1. /\ why = "" /\ OwnNodes(roots) /\ Counts(refs, roots, recow, kept, overlaps)
      /\ NotSetUp(roots, recow, kept, Ahead) /\ NoneFreed(roots, refused, overlaps)
    BY RefsParts DEF BuffersInv
<1>2. Ahead = RootNames /\ (Ahead' = RootNames \/ opc' = "dead")
    BY DEF Ahead
<1>3. RefsInv'
    BY <1>1, <1>2, RefsPartsNext
<1>4. BufferTypes'
    BY DEF BuffersInv, BufferTypes
<1>5. opc' \in Stages \cup {"off", "idle", "dead"}
    BY DEF Stages, RootNames
<1>6. QED BY <1>1, <1>3, <1>4, <1>5 DEF BuffersInv, AssertNeedsKeptPath, FreedNeedsOverlap

(* The roots are set up one after the other.                               *)
Follows(r, then) ==
    <<r, then>> \in {<<"chunk", "tree">>, <<"tree", "extent">>, <<"extent", "dev">>, <<"dev", "csum">>,
                    <<"csum", "quota">>, <<"quota", "free_space">>, <<"quota", "log">>,
                    <<"free_space", "log">>, <<"log", "groups">>, <<"fs", "opened">>}

LEMMA Order ==
    ASSUME NEW r, NEW then, Follows(r, then), opc = r
    PROVE  /\ r \in RootNames /\ r \in Ahead /\ "fs" \in Ahead /\ r # "dead" /\ Ahead \subseteq RootNames
           /\ opc' = then => Ahead' \subseteq Ahead \ {r} /\ opc' \in Stages
           /\ then # "dead"
           /\ r \notin {"chunk", "tree"} => "tree" \notin Ahead
<1>1. \/ r = "chunk" /\ then = "tree"
      \/ r = "tree" /\ then = "extent"
      \/ r = "extent" /\ then = "dev"
      \/ r = "dev" /\ then = "csum"
      \/ r = "csum" /\ then = "quota"
      \/ r = "quota" /\ then \in {"free_space", "log"}
      \/ r = "free_space" /\ then = "log"
      \/ r = "log" /\ then = "groups"
      \/ r = "fs" /\ then = "opened"
    BY DEF Follows
<1>2. QED BY <1>1 DEF Ahead, RootNames, Stages

(* A root is set up with a node that was read, with the blank block, or    *)
(* without a node.                                                         *)
LEMMA BuffersSetUp ==
    ASSUME BuffersInv, NEW r, NEW then, Follows(r, then), opc = r,
           \/ opc' = then /\ UNCHANGED why
           \/ opc' = "dead" /\ EndExplained,
           refused' = FALSE \/ UNCHANGED refused, UNCHANGED overlaps,
           NEW left \in [Buffers -> Nat], \A q \in Ahead : left[q] = 0,
           \/ ReadNode(r) /\ UNCHANGED kept
           \/ /\ kept' = Plus(kept, left) /\ UNCHANGED recow
              /\ \/ /\ roots' = [roots EXCEPT ![r] = "blank"]
                    /\ refs' = [Plus(refs, left) EXCEPT !["blank"] = @ + 1]
                 \/ roots' = [roots EXCEPT ![r] = "null"] /\ refs' = Plus(refs, left)
    PROVE  BuffersInv'
<1>1. /\ r \in RootNames /\ r \in Ahead /\ opc # "dead" /\ then # "dead" /\ Ahead \subseteq RootNames
      /\ opc' = then => Ahead' \subseteq Ahead \ {r} /\ opc' \in Stages
    BY Order
<1>2. /\ why = "" /\ OwnNodes(roots) /\ NotSetUp(roots, recow, kept, Ahead)
      /\ Counts(refs, roots, recow, kept, overlaps) /\ NoneFreed(roots, refused, overlaps) /\ BufferTypes
    BY <1>1, RefsParts DEF BuffersInv
<1>3. roots[r] = "null" /\ r \notin recow /\ kept[r] = 0
    BY <1>1, <1>2 DEF NotSetUp
<1>4. /\ Counts(refs', roots', recow', kept', overlaps') /\ OwnNodes(roots')
      /\ refs' \in [Buffers -> Nat] /\ roots' \in [RootNames -> Buffers \cup {"null", "freed"}]
      /\ recow' \subseteq RootNames /\ kept' \in [Buffers -> Nat]
    <2>1. CASE ReadNode(r) /\ UNCHANGED kept
        BY <1>1, <1>2, <1>3, <2>1, CountsRead DEF BufferTypes
    <2>2. CASE /\ kept' = Plus(kept, left) /\ UNCHANGED recow
               /\ roots' = [roots EXCEPT ![r] = "blank"]
               /\ refs' = [Plus(refs, left) EXCEPT !["blank"] = @ + 1]
        BY <1>1, <1>2, <1>3, <2>2, CountsBlank DEF BufferTypes
    <2>3. CASE /\ kept' = Plus(kept, left) /\ UNCHANGED recow
               /\ roots' = [roots EXCEPT ![r] = "null"] /\ refs' = Plus(refs, left)
        BY <1>1, <1>2, <1>3, <2>3, CountsNone DEF BufferTypes
    <2>4. QED BY <2>1, <2>2, <2>3
<1>5. BufferTypes'
    BY <1>2, <1>4 DEF BufferTypes
<1>6. ASSUME NEW q \in RootNames, q # r PROVE roots'[q] = roots[q]
    BY <1>1, <1>2, <1>6 DEF ReadNode, BufferTypes
<1>7. roots'[r] # "freed"
    BY <1>1, <1>2, WordsAreNoBuffers DEF ReadNode, BufferTypes
<1>8. opc' = then => NotSetUp(roots', recow', kept', Ahead')
    <2> SUFFICES ASSUME opc' = then, NEW q \in Ahead'
                 PROVE  roots'[q] = "null" /\ q \notin recow' /\ kept'[q] = 0
        BY DEF NotSetUp
    <2>1. q \in Ahead /\ q # r /\ q \in RootNames /\ q \in Buffers
        BY <1>1, WordsAreNoBuffers
    <2>2. roots[q] = "null" /\ q \notin recow /\ kept[q] = 0
        BY <1>2, <2>1 DEF NotSetUp
    <2>3. roots'[q] = roots[q]
        BY <1>6, <2>1
    <2>4. q \notin recow'
        BY <2>1, <2>2 DEF ReadNode
    <2>5. kept'[q] = 0
        <3>1. CASE UNCHANGED kept
            BY <2>2, <3>1
        <3>2. CASE kept' = Plus(kept, left)
            BY <2>1, <2>2, <3>2 DEF Plus
        <3>3. QED BY <3>1, <3>2
    <2>6. QED BY <2>2, <2>3, <2>4, <2>5
<1>9. NoneFreed(roots', refused', overlaps')
    BY <1>2, <1>6, <1>7 DEF NoneFreed
<1>10. RefsInv'
    BY <1>1, <1>2, <1>4, <1>8, <1>9, RefsPartsNext
<1>11. opc' \in Stages \cup {"off", "idle", "dead"}
    BY <1>1
<1>12. AssertNeedsKeptPath' /\ FreedNeedsOverlap'
    BY <1>2 DEF AssertNeedsKeptPath, FreedNeedsOverlap, EndExplained
<1>13. QED BY <1>5, <1>10, <1>11, <1>12 DEF BuffersInv

(* Leaving by out_chunk meets the assert for a path that was left behind,  *)
(* now or before, and a freed buffer after an overlapping request.         *)
LEMMA CleanupFinds ==
    ASSUME BuffersInv, opc # "dead", "fs" \in Ahead, NEW left \in [Buffers -> Nat],
           out_chunk(Plus(refs, left)), kept' = Plus(kept, left), UNCHANGED overlaps
    PROVE  opc' = "dead" /\ EndExplained
<1>1. /\ BufferTypes /\ Counts(refs, roots, recow, kept, overlaps) /\ NotSetUp(roots, recow, kept, Ahead)
      /\ NoneFreed(roots, refused, overlaps)
    BY RefsParts DEF BuffersInv
<1>2. Released \in SUBSET RootNames /\ \A r \in RootNames \ Released : roots[r] \notin Buffers
    BY <1>1, WordsAreNoBuffers DEF Released, NotSetUp
<1>3. /\ ReleasesFreed(Released, Plus(refs, left)) => overlaps > 0
      /\ \A b \in Buffers : Left(Released, b, Plus(refs, left)[b]) > 0 => kept[b] + left[b] > 0
    BY <1>1, <1>2, NothingLeft
<1>4. \A b \in Buffers : kept'[b] = kept[b] + left[b]
    BY DEF Plus
<1>5. CASE ReleasesFreed(Released, Plus(refs, left))
    <2>1. opc' = "dead" /\ why' = "undefined"
        BY <1>5 DEF out_chunk, Dies
    <2>2. QED BY <1>3, <1>5, <2>1 DEF EndExplained
<1>6. CASE /\ ~ReleasesFreed(Released, Plus(refs, left))
           /\ \E b \in Buffers : Left(Released, b, Plus(refs, left)[b]) > 0
    <2>1. opc' = "dead" /\ why' = "assert_lru"
        BY <1>6 DEF out_chunk, Dies
    <2>2. QED BY <1>3, <1>4, <1>6, <2>1 DEF EndExplained
<1>7. CASE /\ ~ReleasesFreed(Released, Plus(refs, left))
           /\ ~\E b \in Buffers : Left(Released, b, Plus(refs, left)[b]) > 0
    <2>1. opc' = "dead" /\ why' = "null"
        BY <1>7 DEF out_chunk, Dies
    <2>2. QED BY <2>1 DEF EndExplained
<1>8. QED BY <1>5, <1>6, <1>7

(* Nothing is left behind.                                                 *)
LEMMA PlusNothing ==
    ASSUME NEW f \in [Buffers -> Nat]
    PROVE  Plus(f, NoRefs) = f /\ NoRefs \in [Buffers -> Nat] /\ \A b \in Buffers : NoRefs[b] = 0
BY DEF Plus, NoRefs

LEMMA PathsLeft ==
    ASSUME NEW left \in PathLeft
    PROVE  left \in [Buffers -> Nat] /\ \A b \in Buffers \ {"tree", "leaf"} : left[b] = 0
BY DEF PathLeft, NoRefs

LEMMA BuffersEnd ==
    ASSUME BuffersInv, opc # "dead", opc' = "dead", BufferTypes', EndExplained
    PROVE  BuffersInv'
BY DEF BuffersInv, RefsInv, AssertNeedsKeptPath, FreedNeedsOverlap, EndExplained

(* The chunk tree.                                                         *)
LEMMA ChunkBuffers == ASSUME BuffersInv, btrfs_setup_chunk_tree_and_device_map PROVE BuffersInv'
<1>1. opc = "chunk" /\ Follows("chunk", "tree") /\ "fs" \in Ahead /\ opc # "dead" /\ BufferTypes
    BY DEF btrfs_setup_chunk_tree_and_device_map, Follows, Ahead, RootNames, BuffersInv
<1>2. CASE UNCHANGED bufVars /\ (out_chunk(refs) \/ Dies("null"))
    <2>1. Plus(refs, NoRefs) = refs /\ Plus(kept, NoRefs) = kept /\ NoRefs \in [Buffers -> Nat]
        BY <1>1, PlusNothing DEF BufferTypes
    <2>2. opc' = "dead" /\ EndExplained
        <3>1. CASE out_chunk(refs)
            <4>1. kept' = kept /\ overlaps' = overlaps
                BY <1>2 DEF bufVars
            <4>2. QED BY <1>1, <2>1, <3>1, <4>1, CleanupFinds
        <3>2. CASE Dies("null")
            BY <3>2 DEF Dies, EndExplained
        <3>3. QED BY <1>2, <3>1, <3>2
    <2>3. BufferTypes'
        BY <1>1, <1>2 DEF BufferTypes, bufVars
    <2>4. QED BY <1>1, <2>2, <2>3, BuffersEnd
<1>3. CASE /\ ReadNode("chunk") /\ UNCHANGED <<kept, overlaps, refused>>
           /\ (Dies("assert_seed") \/ (opc' = "tree" /\ UNCHANGED why))
    <2>1. (opc' = "dead" /\ EndExplained) \/ (opc' = "tree" /\ UNCHANGED why)
        BY <1>3 DEF Dies, EndExplained
    <2>2. NoRefs \in [Buffers -> Nat] /\ \A q \in Ahead : NoRefs[q] = 0
        <3>1. Ahead \subseteq Buffers
            BY <1>1, Order, WordsAreNoBuffers
        <3>2. QED BY <3>1 DEF NoRefs
    <2>3. QED BY <1>1, <1>3, <2>1, <2>2, BuffersSetUp
<1>4. CASE /\ roots' = [roots EXCEPT !["chunk"] = "chunk"]
           /\ refs' = [refs EXCEPT !["chunk"] = 2] /\ kept' = [kept EXCEPT !["chunk"] = 1]
           /\ UNCHANGED <<recow, overlaps, refused>>
           /\ Dies("assert_lru")
    <2>1. "chunk" \in RootNames /\ "chunk" \in Buffers
        BY DEF RootNames, Buffers
    <2>2. BufferTypes'
        BY <1>1, <1>4, <2>1 DEF BufferTypes
    <2>3. kept'["chunk"] > 0
        BY <1>1, <1>4, <2>1 DEF BufferTypes
    <2>4. opc' = "dead" /\ EndExplained
        BY <1>4, <2>1, <2>3 DEF Dies, EndExplained
    <2>5. QED BY <1>1, <2>2, <2>4, BuffersEnd
<1>5. QED BY <1>2, <1>3, <1>4 DEF btrfs_setup_chunk_tree_and_device_map

(* A root that is read, found missing with or without a path left behind,  *)
(* or not needed.                                                          *)
LEMMA ReadRoot ==
    ASSUME BuffersInv, NEW r, NEW then, Follows(r, then), opc = r, Reads(r), opc' = then,
           refused' = FALSE, UNCHANGED overlaps
    PROVE  BuffersInv'
<1>1. NoRefs \in [Buffers -> Nat] /\ \A q \in Ahead : NoRefs[q] = 0
    <2>1. Ahead \subseteq Buffers
        BY Order, WordsAreNoBuffers
    <2>2. QED BY <2>1 DEF NoRefs
<1>2. QED BY <1>1, BuffersSetUp DEF Reads

LEMMA NoRoot ==
    ASSUME BuffersInv, NEW r, NEW then, Follows(r, then), opc = r, NEW left \in [Buffers -> Nat],
           left = NoRefs \/ (left \in PathLeft /\ r \notin {"chunk", "tree"}),
           roots' = [roots EXCEPT ![r] = "null"], refs' = Plus(refs, left), kept' = Plus(kept, left),
           UNCHANGED <<recow, overlaps>>, refused' = FALSE,
           out_chunk(Plus(refs, left)) \/ (opc' = then /\ UNCHANGED why)
    PROVE  BuffersInv'
<1>1. Ahead \subseteq Buffers /\ opc # "dead" /\ "fs" \in Ahead /\ (left # NoRefs => "tree" \notin Ahead)
    BY Order, WordsAreNoBuffers
<1>2. \A q \in Ahead : left[q] = 0
    <2>1. CASE left = NoRefs
        BY <1>1, <2>1 DEF NoRefs
    <2>2. CASE left # NoRefs
        <3>1. left \in PathLeft /\ "leaf" \notin Ahead
            BY <2>2, Order DEF RootNames
        <3>2. QED BY <1>1, <2>2, <3>1, PathsLeft
    <2>3. QED BY <2>1, <2>2
<1>3. (opc' = "dead" /\ EndExplained) \/ (opc' = then /\ UNCHANGED why)
    BY <1>1, CleanupFinds
<1>4. QED BY <1>2, <1>3, BuffersSetUp

LEMMA BlankRoot ==
    ASSUME BuffersInv, NEW r, NEW then, Follows(r, then), opc = r, NEW left \in PathLeft,
           r \notin {"chunk", "tree"},
           roots' = [roots EXCEPT ![r] = "blank"], refs' = [Plus(refs, left) EXCEPT !["blank"] = @ + 1],
           kept' = Plus(kept, left), UNCHANGED <<recow, overlaps>>, refused' = FALSE,
           opc' = then /\ UNCHANGED why
    PROVE  BuffersInv'
<1>1. left \in [Buffers -> Nat] /\ \A q \in Ahead : left[q] = 0
    <2>1. Ahead \subseteq Buffers /\ "tree" \notin Ahead /\ "leaf" \notin Ahead
        BY Order, WordsAreNoBuffers DEF RootNames
    <2>2. QED BY <2>1, PathsLeft
<1>2. QED BY <1>1, BuffersSetUp

(* A request meets a cached block that it overlaps, or a search starts at  *)
(* a block that was freed.                                                 *)
LEMMA OverlapBuffers == ASSUME BuffersInv, overlapping PROVE BuffersInv'
<1>1. opc \in RootNames \cup {"groups"} /\ overlaps' = overlaps + 1 /\ opc # "dead" /\ BufferTypes
    BY DEF overlapping, RootNames, BuffersInv
<1>2. /\ why = "" /\ OwnNodes(roots) /\ NotSetUp(roots, recow, kept, Ahead)
      /\ Counts(refs, roots, recow, kept, overlaps)
    BY <1>1, RefsParts DEF BuffersInv
<1>3. CASE Dies("undefined") /\ UNCHANGED <<refs, roots, recow, kept, refused>>
    <2>1. BufferTypes' /\ overlaps' > 0
        BY <1>1, <1>3 DEF BufferTypes
    <2>2. opc' = "dead" /\ EndExplained
        BY <1>3, <2>1 DEF Dies, EndExplained
    <2>3. QED BY <1>1, <2>1, <2>2, BuffersEnd
<1>4. ASSUME NEW b \in Buffers, refs[b] > 0, refs' = [refs EXCEPT ![b] = @ - 1],
             IF refs[b] > 1 THEN UNCHANGED <<roots, recow, kept>>
             ELSE /\ roots' = [r \in RootNames |-> IF roots[r] = b THEN "freed" ELSE roots[r]]
                  /\ recow' = recow \ {b} /\ kept' = [kept EXCEPT ![b] = 0],
             refused' \in BOOLEAN, UNCHANGED <<opc, why>>
      PROVE  BuffersInv'
    <2>1. /\ Counts(refs', roots', recow', kept', overlaps') /\ OwnNodes(roots')
          /\ refs' \in [Buffers -> Nat] /\ roots' \in [RootNames -> Buffers \cup {"null", "freed"}]
          /\ kept' \in [Buffers -> Nat] /\ recow' \subseteq recow /\ overlaps' \in Nat /\ overlaps' > 0
          /\ \A r \in RootNames : roots[r] = "null" => roots'[r] = "null"
          /\ \A c \in Buffers : kept[c] = 0 => kept'[c] = 0
        BY <1>1, <1>2, <1>4, CountsOverlap
    <2>2. BufferTypes'
        BY <1>1, <1>4, <2>1 DEF BufferTypes
    <2>3. Ahead' = Ahead /\ Ahead \subseteq RootNames
        BY <1>4 DEF Ahead, RootNames
    <2>4. NotSetUp(roots', recow', kept', Ahead')
        BY <1>2, <2>1, <2>3, WordsAreNoBuffers DEF NotSetUp
    <2>5. NoneFreed(roots', refused', overlaps')
        BY <2>1 DEF NoneFreed
    <2>6. RefsInv'
        BY <1>2, <1>4, <2>1, <2>4, <2>5, RefsPartsNext
    <2>7. AssertNeedsKeptPath' /\ FreedNeedsOverlap'
        BY <1>2, <1>4 DEF AssertNeedsKeptPath, FreedNeedsOverlap
    <2>8. QED BY <1>4, <2>2, <2>6, <2>7 DEF BuffersInv
<1>5. QED BY <1>3, <1>4 DEF overlapping

LEMMA FreedSearch == ASSUME BuffersInv, searchesFreed PROVE BuffersInv'
<1>1. /\ opc # "dead" /\ opc' = "dead" /\ why' = "undefined" /\ UNCHANGED bufVars
      /\ \E r \in RootNames : roots[r] = "freed"
    BY DEF searchesFreed, Dies, RootNames
<1>2. NoneFreed(roots, refused, overlaps) /\ BufferTypes
    BY <1>1, RefsParts DEF BuffersInv
<1>3. overlaps > 0
    BY <1>1, <1>2 DEF NoneFreed, BufferTypes
<1>4. BufferTypes' /\ EndExplained
    BY <1>1, <1>2, <1>3 DEF BufferTypes, EndExplained, bufVars
<1>5. QED BY <1>1, <1>4, BuffersEnd

(* Reading the block groups leaves no reference behind.                    *)
LEMMA GroupBuffers == ASSUME BuffersInv, block_groups PROVE BuffersInv'
<1>1. /\ opc = "groups" /\ opc' = "fs" /\ UNCHANGED <<refs, roots, recow, kept, overlaps, why>>
      /\ refused' = FALSE
    BY DEF block_groups
<1>2. /\ why = "" /\ OwnNodes(roots) /\ NotSetUp(roots, recow, kept, Ahead)
      /\ Counts(refs, roots, recow, kept, overlaps) /\ NoneFreed(roots, refused, overlaps) /\ BufferTypes
    BY <1>1, RefsParts DEF BuffersInv
<1>3. Ahead = {"fs"} /\ Ahead' = {"fs"} /\ opc' \in Stages
    BY <1>1 DEF Ahead, Stages, RootNames
<1>4. RefsInv'
    BY <1>1, <1>2, <1>3, RefsPartsNext DEF NoneFreed
<1>5. BufferTypes'
    BY <1>1, <1>2 DEF BufferTypes
<1>6. QED BY <1>1, <1>2, <1>3, <1>4, <1>5 DEF BuffersInv, AssertNeedsKeptPath, FreedNeedsOverlap

LEMMA RootBuffers == ASSUME BuffersInv, btrfs_setup_all_roots PROVE BuffersInv'
<1>1. /\ \A left \in PathLeft : left \in [Buffers -> Nat]
      /\ NoRefs \in [Buffers -> Nat] /\ Plus(refs, NoRefs) = refs /\ Plus(kept, NoRefs) = kept
    BY PathsLeft, PlusNothing DEF BuffersInv, BufferTypes
<1>2. ASSUME NEW r, NEW then, Follows(r, then), r \notin {"chunk", "tree"}, needed(r, then) PROVE BuffersInv'
    <2>1. opc = r /\ refused' = FALSE /\ UNCHANGED overlaps
        BY <1>2 DEF needed, SearchesTree
    <2>2. CASE Reads(r) /\ opc' = then
        BY <1>2, <2>1, <2>2, ReadRoot
    <2>3. ASSUME NEW left \in PathLeft, notFound(r, left, "null"), refs' = Plus(refs, left),
                 out_chunk(Plus(refs, left))
          PROVE  BuffersInv'
        BY <1>1, <1>2, <2>1, <2>3, NoRoot DEF notFound
    <2>4. QED BY <1>2, <2>2, <2>3 DEF needed
<1>3. ASSUME NEW r, NEW then, Follows(r, then), r \notin {"chunk", "tree"}, setup_root_or_create_block(r, then)
      PROVE  BuffersInv'
    <2>1. opc = r /\ refused' = FALSE /\ UNCHANGED overlaps
        BY <1>3 DEF setup_root_or_create_block, SearchesTree
    <2>2. CASE Reads(r) /\ opc' = then
        BY <1>3, <2>1, <2>2, ReadRoot
    <2>3. ASSUME NEW left \in PathLeft, notFound(r, left, "blank"),
                 refs' = [Plus(refs, left) EXCEPT !["blank"] = @ + 1], opc' = then, UNCHANGED why
          PROVE  BuffersInv'
        BY <1>3, <2>1, <2>3, BlankRoot DEF notFound
    <2>4. CASE notFound(r, NoRefs, "null") /\ UNCHANGED refs /\ out_chunk(refs)
        BY <1>1, <1>3, <2>1, <2>4, NoRoot DEF notFound
    <2>5. QED BY <1>3, <2>2, <2>3, <2>4 DEF setup_root_or_create_block
<1>4. ASSUME NEW then, Follows("quota", then), quota_root(then) PROVE BuffersInv'
    <2>1. opc = "quota" /\ opc' = then /\ refused' = FALSE /\ UNCHANGED overlaps
        BY <1>4 DEF quota_root, SearchesTree
    <2>2. CASE Reads("quota")
        BY <1>4, <2>1, <2>2, ReadRoot
    <2>3. ASSUME NEW left \in PathLeft, notFound("quota", left, "null"), refs' = Plus(refs, left),
                 UNCHANGED why
          PROVE  BuffersInv'
        BY <1>1, <1>4, <2>1, <2>3, NoRoot DEF notFound
    <2>4. QED BY <1>4, <2>2, <2>3 DEF quota_root
<1>5. CASE tree_root
    <2>1. opc = "tree" /\ refused' = FALSE /\ UNCHANGED overlaps /\ Follows("tree", "extent")
        BY <1>5 DEF tree_root, Follows
    <2>2. CASE Reads("tree") /\ opc' = "extent"
        BY <2>1, <2>2, ReadRoot
    <2>3. CASE roots' = [roots EXCEPT !["tree"] = "null"] /\ UNCHANGED <<refs, recow, kept>> /\ out_chunk(refs)
        BY <1>1, <2>1, <2>3, NoRoot
    <2>4. QED BY <1>5, <2>2, <2>3 DEF tree_root
<1>6. CASE log_root
    <2>1. opc = "log" /\ opc' = "groups" /\ refused' = FALSE /\ UNCHANGED overlaps /\ Follows("log", "groups")
        BY <1>6 DEF log_root, Follows
    <2>2. CASE Reads("log")
        BY <2>1, <2>2, ReadRoot
    <2>3. CASE UNCHANGED <<refs, roots, recow, kept, fs_uuids, lost, why>>
        <3>1. "log" \in Ahead /\ opc # "dead" /\ "log" \in RootNames
            BY <2>1, Order
        <3>2. roots["log"] = "null" /\ roots \in [RootNames -> Buffers \cup {"null", "freed"}]
            BY <3>1, RefsParts DEF BuffersInv, NotSetUp, BufferTypes
        <3>3. roots' = [roots EXCEPT !["log"] = "null"]
            BY <2>3, <3>2
        <3>4. QED BY <1>1, <2>1, <2>3, <3>3, NoRoot
    <2>4. QED BY <1>6, <2>2, <2>3 DEF log_root
<1>7. /\ Follows("extent", "dev") /\ Follows("dev", "csum") /\ Follows("csum", "quota")
      /\ Follows("quota", "free_space") /\ Follows("quota", "log") /\ Follows("free_space", "log")
      /\ Follows("fs", "opened")
    BY DEF Follows
<1>8. CASE quota_root(IF super.free_space THEN "free_space" ELSE "log")
    <2>1. CASE super.free_space
        BY <1>4, <1>7, <1>8, <2>1
    <2>2. CASE ~super.free_space
        BY <1>4, <1>7, <1>8, <2>2
    <2>3. QED BY <2>1, <2>2
<1>9. CASE needed("dev", "csum") \/ needed("free_space", "log") \/ needed("fs", "opened")
    BY <1>2, <1>7, <1>9
<1>10. CASE setup_root_or_create_block("extent", "dev") \/ setup_root_or_create_block("csum", "quota")
    BY <1>3, <1>7, <1>10
<1>11. QED BY <1>5, <1>6, <1>8, <1>9, <1>10, GroupBuffers, OverlapBuffers, FreedSearch
           DEF btrfs_setup_all_roots

(* Closing meets the assert only for a path left behind.                   *)
LEMMA CloseBuffers == ASSUME BuffersInv, fs_close PROVE BuffersInv'
<1>1. /\ opc = "opened" /\ refs' = NoRefs /\ roots' = NoRoots /\ recow' = {} /\ UNCHANGED <<overlaps, refused>>
    BY DEF fs_close
<1>2. /\ BufferTypes /\ Counts(refs, roots, recow, kept, overlaps) /\ NoneFreed(roots, refused, overlaps)
      /\ why = ""
    BY <1>1, RefsParts DEF BuffersInv
<1> DEFINE gone == Released \cup {"fs"}
<1>3. gone \in SUBSET RootNames /\ \A r \in RootNames \ gone : roots[r] \notin Buffers
    BY DEF Released, RootNames
<1> HIDE DEF gone
<1>4. Plus(refs, NoRefs) = refs /\ NoRefs \in [Buffers -> Nat] /\ \A b \in Buffers : NoRefs[b] = 0
    BY <1>2, PlusNothing DEF BufferTypes
<1>5. /\ ReleasesFreed(gone, refs) => overlaps > 0
      /\ \A b \in Buffers : Left(gone, b, refs[b]) > 0 => kept[b] + NoRefs[b] > 0
    BY <1>2, <1>3, <1>4, NothingLeft
<1>6. ASSUME NEW b \in Buffers, Left(gone, b, refs[b]) > 0 PROVE kept[b] > 0
    <2>1. kept[b] + NoRefs[b] > 0 /\ NoRefs[b] = 0 /\ kept[b] \in Nat
        BY <1>2, <1>4, <1>5, <1>6 DEF BufferTypes
    <2>2. QED BY <2>1
<1>7. CASE ReleasesFreed(gone, refs)
    <2>1. opc' = "dead" /\ why' = "undefined" /\ UNCHANGED kept
        BY <1>7 DEF fs_close, Dies, gone
    <2>2. EndExplained
        BY <1>1, <1>5, <1>7, <2>1 DEF EndExplained
    <2>3. QED BY <1>1, <1>2, <2>1, <2>2, BuffersFresh DEF BufferTypes
<1>8. CASE ~ReleasesFreed(gone, refs) /\ \E b \in Buffers : Left(gone, b, refs[b]) > 0
    <2>1. opc' = "dead" /\ why' = "assert_lru" /\ UNCHANGED kept
        BY <1>8 DEF fs_close, Dies, gone
    <2>2. EndExplained
        BY <1>6, <1>8, <2>1 DEF EndExplained
    <2>3. QED BY <1>1, <1>2, <2>1, <2>2, BuffersFresh DEF BufferTypes
<1>9. CASE ~ReleasesFreed(gone, refs) /\ ~\E b \in Buffers : Left(gone, b, refs[b]) > 0
    <2>1. opc' = "closed" /\ kept' = NoRefs /\ UNCHANGED why
        BY <1>9 DEF fs_close, gone
    <2>2. EndExplained
        BY <1>2, <2>1 DEF EndExplained
    <2>3. QED BY <1>1, <1>4, <2>1, <2>2, BuffersFresh
<1>10. QED BY <1>7, <1>8, <1>9

(* Every step of an open keeps its buffers counted.                        *)
LEMMA BuffersStep == ASSUME BuffersInv, OpenNext PROVE BuffersInv'
<1> USE DEF openVars, bufVars, jobVars
<1>1. CASE daemonStarts
    BY <1>1, BuffersKept DEF daemonStarts
<1>2. CASE worldChanges
    BY <1>2, BuffersKept DEF worldChanges
<1>3. ASSUME NEW p, NEW st, open_ctree(p, st), opc \in {"idle", "closed"} PROVE BuffersInv'
    <2>1. why = ""
        BY <1>3, RefsParts DEF BuffersInv
    <2>2. (opc' = "scan" /\ UNCHANGED why) \/ (opc' = "dead" /\ why' = "null")
        BY <1>3 DEF open_ctree, Dies
    <2>3. EndExplained
        BY <2>1, <2>2 DEF EndExplained
    <2>4. NoRefs \in [Buffers -> Nat]
        BY DEF NoRefs
    <2>5. QED BY <1>3, <2>2, <2>3, <2>4, BuffersFresh DEF open_ctree
<1>4. CASE startJob
    BY <1>3, <1>4 DEF startJob
<1>5. CASE secondOpen
    BY <1>3, <1>5 DEF secondOpen
<1>6. CASE stopEarly
    BY <1>6, BuffersKept DEF stopEarly
<1>7. CASE btrfs_scan_fs_devices
    BY <1>7, BuffersKept DEF btrfs_scan_fs_devices
<1>8. CASE btrfs_open_devices
    <2>1. opc = "devices" /\ UNCHANGED bufVars
        BY <1>8 DEF btrfs_open_devices
    <2>2. (opc' = "chunk" /\ UNCHANGED why) \/ (opc' = "dead" /\ why' = "null")
        BY <1>8 DEF btrfs_open_devices, Dies
    <2>3. QED BY <2>1, <2>2, BuffersKept
<1>9. CASE leaveOpen
    <2>1. why = "" /\ why' = why
        BY <1>9, RefsParts DEF BuffersInv, leaveOpen
    <2>2. EndExplained
        BY <2>1 DEF EndExplained
    <2>3. NoRefs \in [Buffers -> Nat]
        BY DEF NoRefs
    <2>4. QED BY <1>9, <2>2, <2>3, BuffersFresh DEF leaveOpen
<1>10. QED BY <1>1, <1>2, <1>4, <1>5, <1>6, <1>7, <1>8, <1>9, ChunkBuffers, RootBuffers, CloseBuffers DEF OpenNext
-----------------------------------------------------------------------------
(* Opening volumes.                                                        *)

(* A device list of one volume, whose devices the machine m had.           *)
ListOK(m, f, devs) ==
    /\ devs \subseteq Records
    /\ \A d \in devs : KnownIn(m, f, d) /\ (d.name = "" => d.fd = "closed")
    /\ \A d, e \in devs : d.devid = e.devid => d = e

LEMMA IdsKnown ==
    ASSUME NEW m \in Disks, NEW p \in Paths, IsBtrfs(m[p])
    PROVE  /\ m[p].ids \subseteq DevIds /\ m[p].devid \in m[p].ids /\ m[p].fsid \in Fsids
           /\ IsFiniteSet(m[p].ids) /\ m[p].num = Cardinality(m[p].ids)
           /\ \A q \in Paths : IsBtrfs(m[q]) /\ m[p].fsid = m[q].fsid => m[p].ids = m[q].ids
<1>1. m[p] \in Contents /\ m[p] # Gone
    BY DEF Contents, IsBtrfs
<1>2. m[p].ids \subseteq DevIds
    BY <1>1 DEF DevIds
<1>3. m[p].fsid \in Fsids
    <2>1. m[p].fsid # "none"
        BY <1>1, DisksAssumption
    <2>2. m[p].fsid \in {d[q].fsid : d \in Disks, q \in Paths}
        OBVIOUS
    <2>3. QED BY <2>1, <2>2 DEF Fsids
<1>4. QED BY <1>2, <1>3, DisksAssumption

(* What a probe adds is a device of the machine.                           *)
LEMMA ListAdd ==
    ASSUME NEW m \in Disks, NEW p \in Paths, NEW q \in Paths, disk[p] = m[q], IsBtrfs(m[q]),
           NEW devs, ListOK(m, m[q].fsid, devs)
    PROVE  /\ ListOK(m, m[q].fsid, device_list_add(devs, p))
           /\ Opened(devs) = {} => Opened(device_list_add(devs, p)) = {}
           /\ \E d \in device_list_add(devs, p) : d.devid = disk[p].devid /\ d.name = p
<1> DEFINE f == m[q].fsid
<1>1. m[q].devid \in DevIds /\ p # ""
    BY IdsKnown, DisksAssumption
<1>2. CASE \E d \in devs : d.devid = disk[p].devid
    <2> DEFINE new == [d \in devs |-> IF d.devid = disk[p].devid THEN [d EXCEPT !.name = p] ELSE d]
    <2>1. device_list_add(devs, p) = {new[d] : d \in devs}
        BY <1>2 DEF device_list_add
    <2>2. ASSUME NEW d \in devs
          PROVE  /\ new[d] \in Records /\ new[d].devid = d.devid /\ new[d].fd = d.fd
                 /\ new[d].name = IF d.devid = disk[p].devid THEN p ELSE d.name
        <3>1. d \in Records
            BY DEF ListOK
        <3>2. QED BY <3>1 DEF Records
    <2> HIDE DEF new
    <2>3. ASSUME NEW d \in devs
          PROVE  KnownIn(m, f, new[d]) /\ (new[d].name = "" => new[d].fd = "closed")
        <3>1. KnownIn(m, f, d) /\ (d.name = "" => d.fd = "closed")
            BY DEF ListOK
        <3>2. CASE d.devid = disk[p].devid
            BY <1>1, <2>2, <3>2 DEF KnownIn
        <3>3. CASE d.devid # disk[p].devid
            BY <2>2, <3>1, <3>3 DEF KnownIn
        <3>4. QED BY <3>2, <3>3
    <2>4. ASSUME NEW d \in devs, NEW e \in devs, new[d].devid = new[e].devid
          PROVE  new[d] = new[e]
        <3>1. \A x, y \in devs : x.devid = y.devid => x = y
            BY DEF ListOK
        <3>2. d.devid = e.devid
            BY <2>2, <2>4
        <3>3. d = e
            BY <3>1, <3>2
        <3>4. QED BY <3>3
    <2>5. ListOK(m, f, device_list_add(devs, p))
        <3>1. \A x \in device_list_add(devs, p) : \E d \in devs : x = new[d]
            BY <2>1
        <3>2. device_list_add(devs, p) \subseteq Records
            BY <2>2, <3>1
        <3>3. \A x \in device_list_add(devs, p) : KnownIn(m, f, x) /\ (x.name = "" => x.fd = "closed")
            BY <2>3, <3>1
        <3>4. \A x, y \in device_list_add(devs, p) : x.devid = y.devid => x = y
            BY <2>4, <3>1
        <3>5. QED BY <3>2, <3>3, <3>4 DEF ListOK
    <2>6. Opened(devs) = {} => Opened(device_list_add(devs, p)) = {}
        BY <2>1, <2>2 DEF Opened
    <2>7. \E d \in device_list_add(devs, p) : d.devid = disk[p].devid /\ d.name = p
        BY <1>2, <2>1, <2>2
    <2>8. QED BY <2>5, <2>6, <2>7
<1>3. CASE ~\E d \in devs : d.devid = disk[p].devid
    <2> DEFINE n == [devid |-> disk[p].devid, name |-> p, fd |-> "closed"]
    <2>1. device_list_add(devs, p) = devs \cup {n}
        BY <1>3 DEF device_list_add
    <2>2. n \in Records /\ n.devid = m[q].devid /\ n.name = p /\ n.fd = "closed"
        BY <1>1 DEF Records
    <2> HIDE DEF n
    <2>3. KnownIn(m, f, n)
        BY <1>1, <2>2 DEF KnownIn
    <2>4. ListOK(m, f, devs \cup {n})
        BY <1>3, <2>2, <2>3 DEF ListOK
    <2>5. QED BY <2>1, <2>2, <2>4 DEF Opened
<1>4. QED BY <1>2, <1>3

(* A scan of the machine: every device it sees is listed under a device    *)
(* node of the same volume.                                                *)
LEMMA ListScan ==
    ASSUME NEW m \in Disks, \A p \in Paths : disk[p] \in {Gone} \cup {m[q] : q \in Paths},
           NEW f, NEW devs, ListOK(m, f, devs), NEW last,
           DOMAIN last = {<<disk[p].fsid, disk[p].devid>> : p \in Probed},
           \A i \in DOMAIN last :
               last[i] \in Probed /\ <<disk[last[i]].fsid, disk[last[i]].devid>> = i
    PROVE  /\ ListOK(m, f, Added(f, devs, last))
           /\ Opened(devs) = {} => Opened(Added(f, devs, last)) = {}
           /\ \A p \in Members(f) :
                 \E d \in Added(f, devs, last) : d.devid = disk[p].devid /\ d.name \in Members(f)
<1> DEFINE new == [d \in devs |-> IF <<f, d.devid>> \in DOMAIN last THEN [d EXCEPT !.name = last[<<f, d.devid>>]] ELSE d]
           unknown == {i \in DOMAIN last : i[1] = f /\ \A d \in devs : d.devid # i[2]}
           rec == [i \in unknown |-> [devid |-> i[2], name |-> last[i], fd |-> "closed"]]
<1>1. Added(f, devs, last) = {new[d] : d \in devs} \cup {rec[i] : i \in unknown}
    BY DEF Added
<1>2. ASSUME NEW p \in Probed
      PROVE  /\ p \in Paths /\ p # "" /\ disk[p].devid \in DevIds
             /\ \E q \in Paths : disk[p] = m[q] /\ IsBtrfs(m[q])
    <2>1. p \in Paths /\ IsBtrfs(disk[p]) /\ disk[p] # Gone /\ p # ""
        BY DisksAssumption DEF Probed, IsBtrfs
    <2>2. PICK q \in Paths : disk[p] = m[q]
        BY <2>1
    <2>3. QED BY <2>1, <2>2, IdsKnown
<1>3. ASSUME NEW i \in DOMAIN last, i[1] = f
      PROVE  /\ i = <<f, i[2]>> /\ last[i] \in Members(f) /\ last[i] # "" /\ last[i] \in Paths
             /\ i[2] = disk[last[i]].devid /\ i[2] \in DevIds
             /\ \E q \in Paths : IsBtrfs(m[q]) /\ m[q].fsid = f /\ m[q].devid = i[2]
    <2>1. last[i] \in Probed /\ <<disk[last[i]].fsid, disk[last[i]].devid>> = i
        OBVIOUS
    <2>2. disk[last[i]].fsid = f /\ disk[last[i]].devid = i[2]
        BY <1>3, <2>1
    <2>3. QED BY <1>2, <2>1, <2>2 DEF Members
<1>4. ASSUME NEW d \in devs
      PROVE  /\ new[d] \in Records /\ new[d].devid = d.devid /\ new[d].fd = d.fd
             /\ KnownIn(m, f, new[d]) /\ (new[d].name = "" => new[d].fd = "closed")
             /\ <<f, d.devid>> \in DOMAIN last => new[d].name \in Members(f)
    <2>1. d \in Records /\ KnownIn(m, f, d) /\ (d.name = "" => d.fd = "closed")
        BY DEF ListOK
    <2>2. CASE <<f, d.devid>> \in DOMAIN last
        <3> DEFINE p == last[<<f, d.devid>>]
        <3>1. /\ p \in Members(f) /\ p # "" /\ p \in Paths
              /\ \E q \in Paths : IsBtrfs(m[q]) /\ m[q].fsid = f /\ m[q].devid = d.devid
            BY <1>3, <2>2
        <3>2. new[d] = [d EXCEPT !.name = p]
            BY <2>2
        <3> HIDE DEF new, p
        <3>3. new[d] \in Records /\ new[d].devid = d.devid /\ new[d].fd = d.fd /\ new[d].name = p
            BY <2>1, <3>1, <3>2 DEF Records
        <3>4. QED BY <3>1, <3>3 DEF KnownIn
    <2>3. CASE <<f, d.devid>> \notin DOMAIN last
        BY <2>1, <2>3
    <2>4. QED BY <2>2, <2>3
<1>5. ASSUME NEW i \in unknown
      PROVE  /\ rec[i] \in Records /\ rec[i].devid = i[2] /\ rec[i].fd = "closed"
             /\ rec[i].name = last[i] /\ last[i] \in Members(f)
             /\ KnownIn(m, f, rec[i]) /\ rec[i].name # ""
             /\ i = <<f, i[2]>> /\ \A d \in devs : d.devid # i[2]
    <2>1. i \in DOMAIN last /\ i[1] = f /\ \A d \in devs : d.devid # i[2]
        OBVIOUS
    <2>2. rec[i] \in Records /\ rec[i].devid = i[2] /\ rec[i].fd = "closed" /\ rec[i].name = last[i]
        BY <1>3, <2>1 DEF Records
    <2> HIDE DEF rec, unknown
    <2>3. QED BY <1>3, <2>1, <2>2 DEF KnownIn
<1> DEFINE all == Added(f, devs, last)
<1> HIDE DEF new, rec, unknown, all
<1>6. \A x \in all : (\E d \in devs : x = new[d]) \/ (\E i \in unknown : x = rec[i])
    BY <1>1 DEF all
<1>7. \A d \in devs : new[d].devid = d.devid /\ new[d].fd = d.fd /\ new[d] \in all
    BY <1>1, <1>4 DEF all
<1>8. \A i \in unknown : /\ rec[i].devid = i[2] /\ rec[i].fd = "closed" /\ rec[i] \in all
                       /\ i = <<f, i[2]>> /\ \A d \in devs : d.devid # i[2]
    BY <1>1, <1>5 DEF all
<1>9. ASSUME NEW p \in Members(f)
      PROVE  \E d \in all : d.devid = disk[p].devid /\ d.name \in Members(f)
    <2>1. <<f, disk[p].devid>> \in DOMAIN last
        BY DEF Members
    <2>2. CASE \E d \in devs : d.devid = disk[p].devid
        <3>1. PICK d \in devs : d.devid = disk[p].devid
            BY <2>2
        <3>2. new[d].name \in Members(f)
            BY <1>4, <2>1, <3>1
        <3>3. QED BY <1>7, <3>1, <3>2
    <2>3. CASE \A d \in devs : d.devid # disk[p].devid
        <3>1. PICK i \in unknown : i[2] = disk[p].devid
            <4> DEFINE j == <<f, disk[p].devid>>
            <4>1. j[1] = f /\ j[2] = disk[p].devid
                OBVIOUS
            <4>2. j \in unknown
                BY <2>1, <2>3, <4>1 DEF unknown
            <4>3. QED BY <4>1, <4>2
        <3>2. rec[i].name \in Members(f)
            BY <1>5
        <3>3. QED BY <1>8, <3>1, <3>2
    <2>4. QED BY <2>2, <2>3
<1>10. ListOK(m, f, all)
    <2>1. all \subseteq Records
        <3>1. \A d \in devs : new[d] \in Records
            BY <1>4
        <3>2. \A i \in unknown : rec[i] \in Records
            BY <1>5
        <3>3. QED BY <1>6, <3>1, <3>2
    <2>2. \A x \in all : KnownIn(m, f, x) /\ (x.name = "" => x.fd = "closed")
        <3>1. \A d \in devs : KnownIn(m, f, new[d]) /\ (new[d].name = "" => new[d].fd = "closed")
            BY <1>4
        <3>2. \A i \in unknown : KnownIn(m, f, rec[i]) /\ (rec[i].name = "" => rec[i].fd = "closed")
            BY <1>5
        <3>3. QED BY <1>6, <3>1, <3>2
    <2>3. ASSUME NEW x \in all, NEW y \in all, x.devid = y.devid
          PROVE  x = y
        <3>1. \A d, e \in devs : d.devid = e.devid => d = e
            BY DEF ListOK
        <3>2. CASE \E d, e \in devs : x = new[d] /\ y = new[e]
            BY <1>7, <2>3, <3>1, <3>2
        <3>3. CASE \E i, j \in unknown : x = rec[i] /\ y = rec[j]
            BY <1>8, <2>3, <3>3
        <3>4. CASE \E d \in devs, i \in unknown :
                    (x = new[d] /\ y = rec[i]) \/ (x = rec[i] /\ y = new[d])
            BY <1>7, <1>8, <2>3, <3>4
        <3>5. QED BY <1>6, <3>2, <3>3, <3>4
    <2>4. QED BY <2>1, <2>2, <2>3 DEF ListOK
<1>11. Opened(devs) = {} => Opened(all) = {}
    BY <1>6, <1>7, <1>8 DEF Opened
<1>12. QED BY <1>9, <1>10, <1>11 DEF all

(* Every named device of a list has a descriptor of its own: at most as    *)
(* many as there are device nodes.                                         *)
LEMMA NamedCount ==
    ASSUME NEW m \in Disks, NEW f, NEW devs, ListOK(m, f, devs),
           NEW S \in SUBSET {d \in devs : d.name # ""}
    PROVE  IsFiniteSet(S) /\ Cardinality(S) <= Cardinality(Paths) /\ Cardinality(S) \in Nat
<1> DEFINE node(d) == CHOOSE p \in Paths : IsBtrfs(m[p]) /\ m[p].fsid = f /\ d.devid = m[p].devid
           g == [d \in S |-> node(d)]
<1>1. ASSUME NEW d \in S PROVE g[d] \in Paths /\ d.devid = m[g[d]].devid
    <2>1. \E p \in Paths : IsBtrfs(m[p]) /\ m[p].fsid = f /\ d.devid = m[p].devid
        BY DEF ListOK, KnownIn
    <2>2. node(d) \in Paths /\ d.devid = m[node(d)].devid
        BY <2>1
    <2>3. QED BY <2>2
<1>2. g \in [S -> Paths]
    BY <1>1
<1>3. \A d, e \in devs : d.devid = e.devid => d = e
    BY DEF ListOK
<1> HIDE DEF g
<1>4. ASSUME NEW d \in S, NEW e \in S, g[d] = g[e] PROVE d = e
    <2>1. d.devid = e.devid
        BY <1>1, <1>4
    <2>2. QED BY <1>3, <2>1
<1>5. g \in Injection(S, Paths)
    BY <1>2, <1>4 DEF Injection, IsInjective
<1>6. IsFiniteSet(Paths)
    BY DisksAssumption
<1>7. IsFiniteSet(S) /\ Cardinality(S) <= Cardinality(Paths)
    BY <1>5, <1>6, FS_Injection
<1>8. QED BY <1>7, FS_CardinalityType

(* Opening gives every named device the descriptor of its name.            *)
OpenedUnder(devs) == {IF d.name # "" THEN [d EXCEPT !.fd = d.name] ELSE d : d \in devs}

OpenedRight(m, f, devs) ==
    /\ ListOK(m, f, OpenedUnder(devs))
    /\ \A d \in devs : d.name # "" => \E e \in OpenedUnder(devs) :
           e.devid = d.devid /\ e.fd = d.name
    /\ \A d \in devs : devs = {d} /\ d.name # "" =>
           OpenedUnder(devs) = {[devid |-> d.devid, name |-> d.name, fd |-> d.name]}

LEMMA ListOpen ==
    ASSUME NEW m \in Disks, NEW f, NEW devs, ListOK(m, f, devs)
    PROVE  OpenedRight(m, f, devs)
<1> DEFINE new == [d \in devs |-> IF d.name # "" THEN [d EXCEPT !.fd = d.name] ELSE d]
           all == OpenedUnder(devs)
<1>1. all = {new[d] : d \in devs}
    BY DEF OpenedUnder
<1>2. ASSUME NEW d \in devs
      PROVE  /\ new[d] \in Records /\ new[d].devid = d.devid /\ new[d].name = d.name
             /\ new[d].fd = IF d.name # "" THEN d.name ELSE d.fd
             /\ d.name # "" => new[d] = [devid |-> d.devid, name |-> d.name, fd |-> d.name]
    <2>1. d \in Records
        BY DEF ListOK
    <2>2. QED BY <2>1 DEF Records
<1> HIDE DEF new, all
<1>3. \A x \in all : \E d \in devs : x = new[d]
    BY <1>1
<1>4. \A d \in devs : new[d] \in all
    BY <1>1
<1>5. ListOK(m, f, all)
    <2>1. all \subseteq Records
        BY <1>2, <1>3
    <2>2. ASSUME NEW d \in devs
          PROVE  KnownIn(m, f, new[d]) /\ (new[d].name = "" => new[d].fd = "closed")
        <3>1. KnownIn(m, f, d) /\ (d.name = "" => d.fd = "closed")
            BY DEF ListOK
        <3>2. QED BY <1>2, <3>1 DEF KnownIn
    <2>3. \A x \in all : KnownIn(m, f, x) /\ (x.name = "" => x.fd = "closed")
        BY <1>3, <2>2
    <2>4. \A d, e \in devs : d.devid = e.devid => d = e
        BY DEF ListOK
    <2>5. \A d \in devs : new[d].devid = d.devid
        BY <1>2
    <2>6. ASSUME NEW x \in all, NEW y \in all, x.devid = y.devid
          PROVE  x = y
        <3>1. PICK d \in devs, e \in devs : x = new[d] /\ y = new[e]
            BY <1>3
        <3>2. d.devid = e.devid
            BY <2>5, <2>6, <3>1
        <3>3. d = e
            BY <2>4, <3>2
        <3>4. QED BY <3>1, <3>3
    <2>7. QED BY <2>1, <2>3, <2>6 DEF ListOK
<1>6. \A d \in devs : d.name # "" => \E e \in all : e.devid = d.devid /\ e.fd = d.name
    BY <1>2, <1>4
<1>7. ASSUME NEW d \in devs, devs = {d}, d.name # ""
      PROVE  all = {[devid |-> d.devid, name |-> d.name, fd |-> d.name]}
    <2>1. all = {new[d]}
        BY <1>3, <1>4, <1>7
    <2>2. QED BY <1>2, <1>7, <2>1
<1>8. QED BY <1>5, <1>6, <1>7 DEF all, OpenedRight

(* The chunk tree adds a device without a name for every id that is not    *)
(* there.                                                                  *)
LEMMA ListMissing ==
    ASSUME NEW m \in Disks, NEW q \in Paths, super = m[q], IsBtrfs(m[q]),
           NEW devs, ListOK(m, m[q].fsid, devs)
    PROVE  /\ ListOK(m, m[q].fsid, WithMissing(devs)) /\ devs \subseteq WithMissing(devs)
           /\ m[q].ids = {m[q].devid} /\ (\E d \in devs : d.devid = m[q].devid) => WithMissing(devs) = devs
<1> DEFINE f == m[q].fsid
           absent == super.ids \ {d.devid : d \in devs}
           rec == [i \in absent |-> [devid |-> i, name |-> "", fd |-> "closed"]]
           all == WithMissing(devs)
<1>1. all = devs \cup {rec[i] : i \in absent}
    BY DEF WithMissing
<1>2. m[q].ids \subseteq DevIds
    BY IdsKnown
<1>3. ASSUME NEW i \in absent
      PROVE  /\ rec[i] \in Records /\ rec[i].devid = i /\ rec[i].name = "" /\ rec[i].fd = "closed"
             /\ KnownIn(m, f, rec[i])
    <2>1. i \in m[q].ids /\ i \in DevIds
        BY <1>2
    <2>2. rec[i] \in Records /\ rec[i].devid = i /\ rec[i].name = "" /\ rec[i].fd = "closed"
        BY <2>1 DEF Records
    <2> HIDE DEF rec, absent
    <2>3. QED BY <2>1, <2>2 DEF KnownIn
<1>4. \A i \in absent, d \in devs : i # d.devid
    OBVIOUS
<1>5. \A x \in all : x \in devs \/ \E i \in absent : x = rec[i]
    BY <1>1
<1> HIDE DEF rec, all
<1>6. ListOK(m, f, all)
    <2>1. devs \subseteq Records
        BY DEF ListOK
    <2>2. \A d \in devs : KnownIn(m, f, d) /\ (d.name = "" => d.fd = "closed")
        BY DEF ListOK
    <2>3. \A d, e \in devs : d.devid = e.devid => d = e
        BY DEF ListOK
    <2>4. \A i \in absent : rec[i].devid = i
        BY <1>3
    <2>5. \A i \in absent : rec[i] \in Records
        BY <1>3
    <2>6. \A i \in absent : KnownIn(m, f, rec[i]) /\ (rec[i].name = "" => rec[i].fd = "closed")
        BY <1>3
    <2> HIDE DEF absent, f
    <2>7. all \subseteq Records
        BY <1>5, <2>1, <2>5
    <2>8. \A x \in all : KnownIn(m, f, x) /\ (x.name = "" => x.fd = "closed")
        BY <1>5, <2>2, <2>6
    <2>9. ASSUME NEW x \in all, NEW y \in all, x.devid = y.devid
          PROVE  x = y
        <3>1. CASE x \in devs /\ y \in devs
            BY <2>3, <2>9, <3>1
        <3>2. CASE \E i, j \in absent : x = rec[i] /\ y = rec[j]
            BY <2>4, <2>9, <3>2
        <3>3. CASE x \in devs /\ \E i \in absent : y = rec[i]
            BY <1>4, <2>4, <2>9, <3>3
        <3>4. CASE y \in devs /\ \E i \in absent : x = rec[i]
            BY <1>4, <2>4, <2>9, <3>4
        <3>5. QED BY <1>5, <3>1, <3>2, <3>3, <3>4
    <2>10. QED BY <2>7, <2>8, <2>9 DEF ListOK
<1>7. devs \subseteq all
    BY <1>1
<1>8. m[q].ids = {m[q].devid} /\ (\E d \in devs : d.devid = m[q].devid) => all = devs
    BY <1>1
<1>9. QED BY <1>6, <1>7, <1>8 DEF all
-----------------------------------------------------------------------------
(* The device nodes of the machine m and the lists of what was on them.    *)
DisksOf(m) == disk \in [Paths -> Contents] /\ \A p \in Paths : disk[p] \in {Gone} \cup {m[q] : q \in Paths}
ListsOf(m) == fs_uuids \in [Fsids -> SUBSET Records] /\ \A f \in Fsids : ListOK(m, f, fs_uuids[f])
OneMachine == \E m \in Disks : DisksOf(m) /\ ListsOf(m)

Flags    == scan_done \in BOOLEAN /\ scanned \in BOOLEAN
Counters == lost \in Nat /\ runs \in Nat /\ world \in Nat
JobTypes == path_ \in Paths /\ stage \in {"super", "bitmap"}

LEMMA MachineIs ==
    ASSUME OneMachine, opc # "off"
    PROVE  Origin /\ ListInv
<1>1. PICK m \in Disks : DisksOf(m) /\ ListsOf(m)
    BY DEF OneMachine
<1>2. \A f \in Fsids : ListOK(m, f, fs_uuids[f])
    BY <1>1 DEF ListsOf
<1>3. \A f \in Fsids : \A d \in fs_uuids[f] : KnownIn(m, f, d)
    BY <1>2 DEF ListOK
<1>4. Origin
    BY <1>1, <1>3 DEF Origin, DisksOf
<1>5. ListInv
    <2> SUFFICES ASSUME NEW f \in Fsids, NEW d \in fs_uuids[f]
                 PROVE  /\ \A e \in fs_uuids[f] : d.devid = e.devid => d = e
                        /\ d.name = "" => d.fd = "closed"
        BY DEF ListInv
    <2>1. QED BY <1>2 DEF ListOK
<1>6. QED BY <1>4, <1>5

(* One list is replaced by another.                                        *)
LEMMA ListReplaced ==
    ASSUME NEW m \in Disks, DisksOf(m), ListsOf(m), UNCHANGED disk, NEW f \in Fsids,
           NEW devs, ListOK(m, f, devs), fs_uuids' = [fs_uuids EXCEPT ![f] = devs]
    PROVE  OneMachine' /\ fs_uuids'[f] = devs /\ \A g \in Fsids : g # f => fs_uuids'[g] = fs_uuids[g]
<1>1. devs \subseteq Records
    BY DEF ListOK
<1>2. fs_uuids' \in [Fsids -> SUBSET Records]
    BY <1>1 DEF ListsOf
<1>3. fs_uuids'[f] = devs /\ \A g \in Fsids : g # f => fs_uuids'[g] = fs_uuids[g]
    BY DEF ListsOf
<1>4. \A g \in Fsids : ListOK(m, g, fs_uuids'[g])
    BY <1>3 DEF ListsOf
<1>5. QED BY <1>2, <1>3, <1>4 DEF OneMachine, DisksOf, ListsOf

LEMMA NoList == ASSUME NEW m, NEW f PROVE ListOK(m, f, {})
BY DEF ListOK

(* The volume of the job.                                                  *)
LEMMA VolumeOf ==
    ASSUME NEW m \in Disks, DisksOf(m), ListsOf(m), path_ \in Paths, IsBtrfs(super)
    PROVE  /\ super = disk[path_] /\ super.fsid \in Fsids /\ super.ids \subseteq DevIds
           /\ super.devid \in super.ids
           /\ \E q \in Paths : super = m[q] /\ IsBtrfs(m[q])
           /\ ListOK(m, super.fsid, fs_uuids[super.fsid])
           /\ super.num = 1 => super.ids = {super.devid}
<1>1. super = disk[path_] /\ super # Gone
    BY DEF super, IsBtrfs
<1>2. PICK q \in Paths : super = m[q]
    BY <1>1 DEF DisksOf
<1>3. super.fsid \in Fsids /\ super.ids \subseteq DevIds /\ super.devid \in super.ids
      /\ IsFiniteSet(super.ids) /\ super.num = Cardinality(super.ids)
    BY <1>2, IdsKnown
<1>4. super.num = 1 => super.ids = {super.devid}
    <2> DEFINE S == super.ids
    <2>1. IsFiniteSet(S) /\ super.num = Cardinality(S) /\ super.devid \in S
        BY <1>3
    <2>2. super.num = 1 => \E x : S = {x}
        BY <2>1, FS_Singleton
    <2>3. QED BY <2>1, <2>2
<1>5. QED BY <1>1, <1>2, <1>3, <1>4 DEF ListsOf

(* A volume on one device has one device in its list at most.              *)
LEMMA OneDevice ==
    ASSUME NEW m \in Disks, NEW q \in Paths, IsBtrfs(m[q]), m[q].ids = {m[q].devid},
           NEW devs, ListOK(m, m[q].fsid, devs), NEW d \in devs
    PROVE  devs = {d} /\ d.devid = m[q].devid
<1>1. ASSUME NEW x \in devs PROVE x.devid = m[q].devid
    <2>1. PICK p \in Paths : /\ IsBtrfs(m[p]) /\ m[p].fsid = m[q].fsid
                             /\ IF x.name = "" THEN x.devid \in m[p].ids ELSE x.devid = m[p].devid
        BY DEF ListOK, KnownIn
    <2>2. m[p].ids = m[q].ids /\ m[p].devid \in m[p].ids
        BY <2>1, IdsKnown
    <2>3. x.devid \in m[q].ids
        BY <2>1, <2>2
    <2>4. QED BY <2>3
<1>2. ASSUME NEW x \in devs PROVE x = d
    <2>1. x.devid = d.devid
        BY <1>1
    <2>2. QED BY <2>1 DEF ListOK
<1>3. QED BY <1>1, <1>2
-----------------------------------------------------------------------------
(* The devices of an open: the machine they come from, the job that uses   *)
(* them and the descriptors they have.                                     *)
DevicesInv ==
    /\ JobTypes /\ Flags /\ Counters /\ opc \in Stages \cup {"off", "idle", "dead"}
    /\ IF opc = "off"
       THEN /\ disk \in [Paths -> Contents] /\ fs_uuids \in [Fsids -> SUBSET Records]
            /\ \A f \in Fsids : fs_uuids[f] = {}
       ELSE OneMachine
    /\ JobInv /\ LostInv

LEMMA PathsCounted == Cardinality(Paths) \in Nat
BY DisksAssumption, FS_CardinalityType

(* More jobs, more lost descriptors allowed.                               *)
LEMMA MoreAllowed ==
    ASSUME NEW n \in Nat, NEW a \in Nat, NEW b \in Nat, a <= b
    PROVE  n * a <= n * b
<1>1. PICK k \in Nat : b = a + k
    <2>1. b - a \in Nat /\ b = a + (b - a)
        OBVIOUS
    <2>2. QED BY <2>1
<1>2. n * (a + k) = n * a + n * k
    OBVIOUS
<1>3. n * k \in Nat /\ n * a \in Nat
    OBVIOUS
<1>4. QED BY <1>1, <1>2, <1>3

(* The jobs that have opened their devices.                                *)
Begun == IF Beginning /\ stage = "super" THEN runs - 1 ELSE runs
Allowed(begun) == Cardinality(Paths) * (IF begun > 0 THEN begun - 1 ELSE 0)
NoneOpen == \A f \in Fsids : Opened(fs_uuids[f]) = {}

LEMMA LostParts == LostInv <=> lost <= Allowed(Begun) /\ (Begun = 0 => NoneOpen)
BY DEF LostInv, Begun, Allowed, NoneOpen

LEMMA LostPartsNext == LostInv' <=> lost' <= Allowed(Begun') /\ (Begun' = 0 => NoneOpen')
BY DEF LostInv, Begun, Allowed, NoneOpen

LEMMA AllowedGrows ==
    ASSUME NEW a \in Nat, NEW b \in Nat, a <= b
    PROVE  /\ Allowed(a) <= Allowed(b) /\ Allowed(a) \in Nat /\ Allowed(b) \in Nat
           /\ a > 0 => Allowed(a) + Cardinality(Paths) = Allowed(a + 1)
<1> DEFINE n == Cardinality(Paths)
           less(i) == IF i > 0 THEN i - 1 ELSE 0
<1>1. n \in Nat
    BY PathsCounted
<1>2. less(a) \in Nat /\ less(b) \in Nat /\ less(a) <= less(b)
    OBVIOUS
<1> HIDE DEF n
<1>3. n * less(a) <= n * less(b)
    <2> HIDE DEF less
    <2>1. QED BY <1>1, <1>2, MoreAllowed
<1>4. n * less(a) \in Nat /\ n * less(b) \in Nat
    <2> HIDE DEF less
    <2>1. QED BY <1>1, <1>2
<1>5. a > 0 => n * less(a) + n = n * less(a + 1)
    <2> SUFFICES ASSUME a > 0 PROVE n * less(a) + n = n * less(a + 1)
        OBVIOUS
    <2>1. less(a) = a - 1 /\ less(a + 1) = a
        OBVIOUS
    <2>2. n * (a - 1) + n = n * a
        BY <1>1
    <2>3. QED BY <2>1, <2>2
<1>6. Allowed(a) = n * less(a) /\ Allowed(b) = n * less(b) /\ Allowed(a + 1) = n * less(a + 1)
    BY DEF Allowed, n
<1> HIDE DEF less
<1>7. QED BY <1>3, <1>4, <1>5, <1>6 DEF n

(* An open of the devices loses what the list had open, which is nothing   *)
(* or, after a job that has begun, at most a descriptor for every node.    *)
LEMMA LostBound ==
    ASSUME NEW l \in Nat, NEW c \in Nat, NEW a \in Nat, NEW b \in Nat, l <= Allowed(a),
           c <= Cardinality(Paths), a <= b, c = 0 \/ (a > 0 /\ b = a + 1)
    PROVE  l + c <= Allowed(b)
<1>1. Allowed(a) <= Allowed(b) /\ Allowed(a) \in Nat /\ Allowed(b) \in Nat /\ Cardinality(Paths) \in Nat
    BY AllowedGrows, PathsCounted
<1>2. CASE c = 0
    BY <1>1, <1>2
<1>3. CASE a > 0 /\ b = a + 1
    <2>1. Allowed(a) + Cardinality(Paths) = Allowed(b)
        BY <1>3, AllowedGrows
    <2>2. QED BY <1>1, <2>1
<1>4. QED BY <1>2, <1>3

(* Steps that lose nothing and open nothing.                               *)
LEMMA LostKept ==
    ASSUME LostInv, Counters, UNCHANGED lost, Begun \in Nat, Begun' \in Nat, Begun <= Begun',
           NoneOpen => NoneOpen'
    PROVE  LostInv'
<1>1. lost <= Allowed(Begun) /\ (Begun = 0 => NoneOpen)
    BY LostParts
<1>2. Allowed(Begun) <= Allowed(Begun') /\ Allowed(Begun) \in Nat /\ Allowed(Begun') \in Nat
    BY AllowedGrows
<1>3. Begun' = 0 => Begun = 0
    OBVIOUS
<1>4. lost' <= Allowed(Begun')
    BY <1>1, <1>2 DEF Counters
<1>5. QED BY <1>1, <1>3, <1>4, LostPartsNext

LEMMA BegunIs ==
    ASSUME JobInv, Counters
    PROVE  /\ Begun \in Nat
           /\ opc \in {"idle", "closed", "opened", "off"} \cup RootNames => Begun = runs
           /\ opc \in {"scan", "devices"} => Begun = IF stage = "super" THEN runs - 1 ELSE runs
<1>1. opc \in {"scan", "devices"} => runs > 0
    BY DEF JobInv, Stages
<1>2. QED BY <1>1 DEF Begun, Beginning, Counters, RootNames

(* Nothing is read from the list after a job has ended.                    *)
LEMMA JobOver == ASSUME opc' \in {"off", "idle", "dead"} PROVE JobInv'
<1>1. opc' \notin Stages /\ ~Beginning' /\ opc' \notin Through /\ opc' \notin {"scan", "devices", "closed"}
    BY DEF Stages, Through, Beginning, RootNames
<1>2. QED BY <1>1 DEF JobInv

(* The lists stay as they are, or the job's is dropped.                    *)
LEMMA ListsKept ==
    ASSUME OneMachine, UNCHANGED disk, path_ \in Paths,
           UNCHANGED fs_uuids \/ (IsBtrfs(super) /\ fs_uuids' = [fs_uuids EXCEPT ![super.fsid] = {}])
    PROVE  /\ OneMachine' /\ (NoneOpen => NoneOpen')
           /\ fs_uuids' = [fs_uuids EXCEPT ![super.fsid] = {}] /\ IsBtrfs(super) => fs_uuids'[super.fsid] = {}
<1>1. PICK m \in Disks : DisksOf(m) /\ ListsOf(m)
    BY DEF OneMachine
<1>2. CASE IsBtrfs(super) /\ fs_uuids' = [fs_uuids EXCEPT ![super.fsid] = {}]
    <2>1. super.fsid \in Fsids
        BY <1>1, <1>2, VolumeOf
    <2>2. OneMachine' /\ fs_uuids'[super.fsid] = {} /\ \A g \in Fsids : g # super.fsid => fs_uuids'[g] = fs_uuids[g]
        BY <1>1, <1>2, <2>1, NoList, ListReplaced
    <2>3. QED BY <2>2 DEF NoneOpen, Opened
<1>3. CASE UNCHANGED fs_uuids /\ ~(IsBtrfs(super) /\ fs_uuids' = [fs_uuids EXCEPT ![super.fsid] = {}])
    BY <1>1, <1>3 DEF OneMachine, DisksOf, ListsOf, NoneOpen
<1>4. QED BY <1>2, <1>3
-----------------------------------------------------------------------------
LEMMA StartStep == ASSUME DevicesInv, daemonStarts PROVE DevicesInv'
<1>1. opc = "off" /\ opc' = "idle" /\ disk' \in Disks
      /\ UNCHANGED <<fs_uuids, scan_done, lost, path_, stage, scanned, runs, world>>
    BY DEF daemonStarts, bufVars
<1>2. JobTypes' /\ Flags' /\ Counters' /\ opc' \in Stages \cup {"off", "idle", "dead"}
    BY <1>1 DEF DevicesInv, JobTypes, Flags, Counters
<1>3. OneMachine'
    <2>1. PICK m \in Disks : disk' = m
        BY <1>1
    <2>2. m \in [Paths -> Contents]
        <3>1. m \in [Paths -> {m[p] : p \in Paths}]
            BY DisksAssumption
        <3>2. \A p \in Paths : m[p] \in Contents
            BY DEF Contents
        <3>3. QED BY <3>1, <3>2
    <2>3. ListsOf(m)'
        <3>1. fs_uuids' \in [Fsids -> SUBSET Records] /\ \A f \in Fsids : fs_uuids'[f] = {}
            <4>1. fs_uuids \in [Fsids -> SUBSET Records] /\ \A f \in Fsids : fs_uuids[f] = {}
                <5>1. opc = "off"
                    BY <1>1
                <5>2. QED BY <5>1 DEF DevicesInv
            <4>2. UNCHANGED fs_uuids
                BY <1>1
            <4>3. QED BY <4>1, <4>2
        <3>2. \A f \in Fsids : ListOK(m, f, fs_uuids'[f])
            BY <3>1 DEF ListOK
        <3>3. QED BY <3>1, <3>2 DEF ListsOf
    <2>4. DisksOf(m)'
        BY <2>1, <2>2 DEF DisksOf
    <2>5. QED BY <2>3, <2>4 DEF OneMachine
<1>4. JobInv'
    BY <1>1, JobOver
<1>5. LostInv'
    <2>1. Begun = runs /\ Begun' = runs'
        BY <1>1 DEF Begun, Beginning
    <2>2. LostInv /\ Counters
        BY DEF DevicesInv
    <2>3. NoneOpen => NoneOpen'
        BY <1>1 DEF NoneOpen
    <2>4. QED BY <1>1, <2>1, <2>2, <2>3, LostKept DEF Counters
<1>6. QED BY <1>1, <1>2, <1>3, <1>4, <1>5 DEF DevicesInv

LEMMA WorldStep == ASSUME DevicesInv, worldChanges PROVE DevicesInv'
<1>1. opc = "idle" /\ opc' = "idle" /\ world' = world + 1
      /\ UNCHANGED <<fs_uuids, scan_done, lost, path_, stage, scanned, runs>>
    BY DEF worldChanges, bufVars
<1>2. JobTypes' /\ Flags' /\ opc' \in Stages \cup {"off", "idle", "dead"}
    BY <1>1 DEF DevicesInv, JobTypes, Flags
<1>3. Counters'
    BY <1>1 DEF DevicesInv, Counters
<1>4. OneMachine'
    <2>1. PICK m \in Disks : DisksOf(m) /\ ListsOf(m)
        BY <1>1 DEF DevicesInv, OneMachine
    <2>2. PICK p \in Paths : \/ \E q \in Paths : disk' = [disk EXCEPT ![p] = disk[q]]
                             \/ disk' = [disk EXCEPT ![p] = Gone]
        BY DEF worldChanges
    <2>3. Gone \in Contents
        BY DEF Contents
    <2>4. DisksOf(m)'
        BY <2>1, <2>2, <2>3 DEF DisksOf
    <2>5. ListsOf(m)'
        BY <1>1, <2>1 DEF ListsOf
    <2>6. QED BY <2>4, <2>5 DEF OneMachine
<1>5. JobInv'
    BY <1>1, JobOver
<1>6. LostInv'
    <2>1. Begun = runs /\ Begun' = runs'
        BY <1>1 DEF Begun, Beginning
    <2>2. LostInv /\ Counters
        BY DEF DevicesInv
    <2>3. NoneOpen => NoneOpen'
        BY <1>1 DEF NoneOpen
    <2>4. QED BY <1>1, <2>1, <2>2, <2>3, LostKept DEF Counters
<1>7. QED BY <1>1, <1>2, <1>3, <1>4, <1>5, <1>6 DEF DevicesInv

(* An open begins: of a new job, or of one that has closed the volume.     *)
LEMMA OpenStep ==
    ASSUME DevicesInv, NEW p \in Paths, NEW st, open_ctree(p, st),
           \/ opc = "idle" /\ st = "super" /\ runs' = runs + 1
           \/ opc = "closed" /\ st = "bitmap" /\ p = path_ /\ UNCHANGED runs
    PROVE  DevicesInv'
<1>1. /\ path_' = p /\ stage' = st /\ scanned' = FALSE
      /\ UNCHANGED <<disk, fs_uuids, scan_done, lost, world>>
      /\ (IsBtrfs(disk[p]) /\ opc' = "scan") \/ opc' = "dead"
    BY DEF open_ctree, Dies
<1>2. OneMachine /\ LostInv /\ JobInv /\ Counters /\ opc # "off"
    BY DEF DevicesInv
<1>3. JobTypes' /\ opc' \in Stages \cup {"off", "idle", "dead"}
    BY <1>1 DEF DevicesInv, JobTypes, Stages
<1>4. Flags'
    BY <1>1 DEF DevicesInv, Flags
<1>5. Counters'
    BY <1>1, <1>2 DEF Counters
<1>6. OneMachine'
    BY <1>1, <1>2 DEF OneMachine, DisksOf, ListsOf
<1>7. JobInv'
    <2>1. CASE opc' = "dead"
        BY <2>1, JobOver
    <2>2. CASE opc' = "scan"
        <3>1. IsBtrfs(super)' /\ runs' > 0
            <4>1. super' = disk[p] /\ IsBtrfs(disk[p])
                BY <1>1, <2>2 DEF super
            <4>2. runs' > 0
                BY <1>2 DEF JobInv, Stages, Counters
            <4>3. QED BY <4>1, <4>2 DEF IsBtrfs
        <3>2. stage' = "bitmap" => Opened(Devices)' = {}
            <4> SUFFICES ASSUME stage' = "bitmap" PROVE Opened(Devices)' = {}
                OBVIOUS
            <4>1. opc = "closed" /\ path_' = path_
                BY <1>1
            <4>2. Opened(Devices) = {}
                BY <1>2, <4>1 DEF JobInv
            <4>3. Devices' = Devices
                BY <1>1, <4>1 DEF Devices, super
            <4>4. QED BY <4>2, <4>3 DEF Opened
        <3>3. opc' \notin Through /\ opc' # "devices" /\ opc' # "closed"
            BY <2>2 DEF Through, RootNames
        <3>4. QED BY <1>1, <2>2, <3>1, <3>2, <3>3 DEF JobInv
    <2>3. QED BY <1>1, <2>1, <2>2
<1>8. LostInv'
    <2>1. Begun = runs
        BY DEF Begun, Beginning
    <2>2. Begun' \in Nat /\ Begun <= Begun'
        BY <1>1, <1>2, <2>1 DEF Begun, Beginning, Counters
    <2>3. NoneOpen => NoneOpen'
        BY <1>1 DEF NoneOpen
    <2>4. QED BY <1>1, <1>2, <2>1, <2>2, <2>3, LostKept DEF Counters
<1>9. QED BY <1>1, <1>3, <1>4, <1>5, <1>6, <1>7, <1>8 DEF DevicesInv
-----------------------------------------------------------------------------
(* What a step inside an open leaves alone.                                *)
LEMMA InsideTypes ==
    ASSUME DevicesInv, opc \in Stages, UNCHANGED <<jobVars, scan_done>>, scanned' \in BOOLEAN,
           lost' \in Nat
    PROVE  JobTypes' /\ Flags' /\ Counters' /\ super' = super
BY DEF DevicesInv, JobTypes, Flags, Counters, jobVars, super

(* btrfs_scan_fs_devices.                                                  *)
LEMMA ScanStep == ASSUME DevicesInv, btrfs_scan_fs_devices PROVE DevicesInv'
<1>1. /\ opc = "scan" /\ opc' = "devices"
      /\ UNCHANGED <<disk, path_, stage, runs, world, lost>>
    BY DEF btrfs_scan_fs_devices, jobVars, bufVars
<1>2. OneMachine /\ LostInv /\ JobInv /\ Counters /\ Flags /\ JobTypes /\ opc \in Stages
    BY <1>1 DEF DevicesInv, Stages
<1>3. IsBtrfs(super) /\ runs > 0 /\ ~scanned
    BY <1>1, <1>2 DEF JobInv
<1>4. PICK m \in Disks : DisksOf(m) /\ ListsOf(m)
    BY <1>2 DEF OneMachine
<1> DEFINE f == super.fsid
           given == [fs_uuids EXCEPT ![super.fsid] = device_list_add(@, path_)]
           ids == {<<disk[p].fsid, disk[p].devid>> : p \in Probed}
<1>5. PICK q \in Paths : super = m[q] /\ IsBtrfs(m[q])
    BY <1>2, <1>3, <1>4, VolumeOf DEF JobTypes
<1>6. /\ super = disk[path_] /\ f \in Fsids /\ super.devid \in super.ids
      /\ ListOK(m, f, fs_uuids[f]) /\ (super.num = 1 => super.ids = {super.devid})
    BY <1>2, <1>3, <1>4, VolumeOf DEF JobTypes
<1>7. /\ ListOK(m, f, device_list_add(fs_uuids[f], path_))
      /\ Opened(fs_uuids[f]) = {} => Opened(device_list_add(fs_uuids[f], path_)) = {}
      /\ \E d \in device_list_add(fs_uuids[f], path_) : d.devid = super.devid /\ d.name = path_
    <2>1. path_ \in Paths /\ disk[path_] = m[q] /\ f = m[q].fsid
        BY <1>2, <1>5, <1>6 DEF JobTypes
    <2> DEFINE devs == fs_uuids[f]
    <2>2. ListOK(m, m[q].fsid, devs)
        BY <1>6, <2>1
    <2> HIDE DEF devs
    <2>3. /\ ListOK(m, m[q].fsid, device_list_add(devs, path_))
          /\ Opened(devs) = {} => Opened(device_list_add(devs, path_)) = {}
          /\ \E d \in device_list_add(devs, path_) : d.devid = disk[path_].devid /\ d.name = path_
        BY <1>5, <2>1, <2>2, ListAdd
    <2>4. QED BY <1>6, <2>1, <2>3 DEF devs
<1>8. /\ given[f] = device_list_add(fs_uuids[f], path_)
      /\ \A g \in Fsids : g # f => given[g] = fs_uuids[g]
    BY <1>4, <1>6 DEF ListsOf
<1>9. \A g \in Fsids : ListOK(m, g, given[g]) /\ (Opened(fs_uuids[g]) = {} => Opened(given[g]) = {})
    BY <1>4, <1>7, <1>8 DEF ListsOf
<1>10. Members(f)' = Members(f) /\ super' = super
    BY <1>1 DEF Members, Probed, super
<1> HIDE DEF given
<1>11. /\ OneMachine'
       /\ \A g \in Fsids : Opened(fs_uuids[g]) = {} => Opened(fs_uuids'[g]) = {}
       /\ scanned' => \A p \in Members(f) : \E d \in fs_uuids'[f] :
                         d.devid = disk[p].devid /\ d.name \in Members(f)
       /\ super.num = 1 => fs_uuids'[f] = given[f]
       /\ scan_done' \in BOOLEAN /\ scanned' \in BOOLEAN
    <2>1. CASE (super.num = 1 \/ scan_done) /\ fs_uuids' = given /\ UNCHANGED <<scan_done, scanned>>
        <3>1. fs_uuids' = [fs_uuids EXCEPT ![f] = device_list_add(fs_uuids[f], path_)]
            BY <2>1 DEF given
        <3>2. OneMachine'
            BY <1>1, <1>4, <1>6, <1>7, <3>1, ListReplaced
        <3>3. QED BY <1>2, <1>3, <1>9, <2>1, <3>2 DEF Flags
    <2>2. CASE /\ super.num # 1 /\ scan_done' = TRUE /\ scanned' = TRUE
               /\ \E last \in [ids -> Probed] :
                     /\ \A i \in ids : <<disk[last[i]].fsid, disk[last[i]].devid>> = i
                     /\ fs_uuids' = [g \in Fsids |-> Added(g, given[g], last)]
        <3>1. PICK last \in [ids -> Probed] :
                     /\ \A i \in ids : <<disk[last[i]].fsid, disk[last[i]].devid>> = i
                     /\ fs_uuids' = [g \in Fsids |-> Added(g, given[g], last)]
            BY <2>2
        <3>2. /\ DOMAIN last = ids
              /\ \A i \in DOMAIN last : last[i] \in Probed /\ <<disk[last[i]].fsid, disk[last[i]].devid>> = i
            BY <3>1
        <3>3. \A p \in Paths : disk[p] \in {Gone} \cup {m[x] : x \in Paths}
            BY <1>4 DEF DisksOf
        <3>4. ASSUME NEW g \in Fsids
              PROVE  /\ ListOK(m, g, Added(g, given[g], last))
                     /\ Opened(given[g]) = {} => Opened(Added(g, given[g], last)) = {}
                     /\ \A p \in Members(g) :
                           \E d \in Added(g, given[g], last) : d.devid = disk[p].devid /\ d.name \in Members(g)
            BY <1>9, <3>2, <3>3, ListScan
        <3>5. \A g \in Fsids : fs_uuids'[g] = Added(g, given[g], last)
            BY <3>1
        <3>6. \A g \in Fsids : ListOK(m, g, fs_uuids'[g])
            BY <3>4, <3>5
        <3>7. ListsOf(m)'
            <4>1. \A g \in Fsids : fs_uuids'[g] \subseteq Records
                BY <3>6 DEF ListOK
            <4>2. fs_uuids' \in [Fsids -> SUBSET Records]
                BY <3>1, <3>5, <4>1
            <4>3. QED BY <3>6, <4>2 DEF ListsOf
        <3>8. OneMachine'
            BY <1>1, <1>4, <3>7 DEF OneMachine, DisksOf
        <3>9. \A g \in Fsids : Opened(fs_uuids[g]) = {} => Opened(fs_uuids'[g]) = {}
            BY <1>9, <3>4, <3>5
        <3>10. \A p \in Members(f) : \E d \in fs_uuids'[f] : d.devid = disk[p].devid /\ d.name \in Members(f)
            BY <1>6, <3>4, <3>5
        <3>11. QED BY <2>2, <3>8, <3>9, <3>10
    <2>3. QED BY <2>1, <2>2 DEF btrfs_scan_fs_devices, given
<1>12. JobTypes' /\ Flags' /\ Counters' /\ opc' \in Stages \cup {"off", "idle", "dead"}
    BY <1>1, <1>2, <1>11 DEF JobTypes, Flags, Counters, Stages
<1>13. Devices' = fs_uuids'[f]
    BY <1>10 DEF Devices
<1>14. JobInv'
    <2>1. IsBtrfs(super)' /\ runs' > 0
        BY <1>1, <1>3, <1>10 DEF IsBtrfs
    <2>2. stage' = "bitmap" => Opened(Devices)' = {}
        <3>1. stage = "bitmap" => Opened(Devices) = {}
            BY <1>1, <1>2 DEF JobInv, Beginning
        <3>2. QED BY <1>1, <1>6, <1>11, <1>13, <3>1 DEF Devices, Opened
    <2>3. super.num = 1 => \E d \in fs_uuids'[f] : fs_uuids'[f] = {d} /\ d.devid = super.devid /\ d.name = path_
        <3> SUFFICES ASSUME super.num = 1
                     PROVE  \E d \in fs_uuids'[f] : fs_uuids'[f] = {d} /\ d.devid = super.devid /\ d.name = path_
            OBVIOUS
        <3>1. fs_uuids'[f] = given[f] /\ ListOK(m, f, given[f])
            BY <1>6, <1>9, <1>11
        <3>2. PICK d \in given[f] : d.devid = super.devid /\ d.name = path_
            BY <1>7, <1>8
        <3>3. f = m[q].fsid /\ m[q].ids = {m[q].devid}
            BY <1>5, <1>6
        <3>4. given[f] = {d}
            <4>1. ListOK(m, m[q].fsid, given[f])
                BY <3>1, <3>3
            <4> HIDE DEF f
            <4>2. QED BY <1>5, <3>2, <3>3, <4>1, OneDevice
        <3>5. QED BY <3>1, <3>2, <3>4
    <2>4. opc' # "scan" /\ opc' # "closed" /\ opc' \notin Through /\ path_' = path_
        BY <1>1 DEF Through, RootNames
    <2>5. scanned' => \A p \in Members(f)' : \E d \in Devices' : d.devid = disk'[p].devid /\ d.name \in Members(f)'
        BY <1>1, <1>10, <1>11, <1>13
    <2>6. QED BY <1>10, <1>13, <2>1, <2>2, <2>3, <2>4, <2>5 DEF JobInv
<1>15. LostInv'
    <2>1. Begun = (IF stage = "super" THEN runs - 1 ELSE runs) /\ Begun' = Begun
        BY <1>1 DEF Begun, Beginning
    <2>2. Begun \in Nat
        BY <1>2, BegunIs
    <2>3. NoneOpen => NoneOpen'
        BY <1>11 DEF NoneOpen
    <2>4. QED BY <1>1, <1>2, <2>1, <2>2, <2>3, LostKept
<1>16. QED BY <1>1, <1>11, <1>12, <1>14, <1>15 DEF DevicesInv
-----------------------------------------------------------------------------
(* btrfs_open_devices.                                                     *)
LEMMA OpenDevicesStep == ASSUME DevicesInv, btrfs_open_devices PROVE DevicesInv'
<1>1. /\ opc = "devices" /\ UNCHANGED <<disk, path_, stage, runs, world, scan_done, scanned>>
    BY DEF btrfs_open_devices, jobVars, bufVars
<1>2. OneMachine /\ LostInv /\ JobInv /\ Counters /\ Flags /\ JobTypes /\ opc \in Stages
    BY <1>1 DEF DevicesInv, Stages
<1>3. IsBtrfs(super) /\ runs > 0
    BY <1>2 DEF JobInv
<1>4. PICK m \in Disks : DisksOf(m) /\ ListsOf(m)
    BY <1>2 DEF OneMachine
<1> DEFINE f == super.fsid
           named == {d \in Devices : d.name # ""}
<1>5. f \in Fsids /\ ListOK(m, f, Devices) /\ Devices = fs_uuids[f]
    BY <1>2, <1>3, <1>4, VolumeOf DEF JobTypes, Devices
<1>6. super' = super
    BY <1>1 DEF super
<1>7. ASSUME NEW S \in SUBSET named
      PROVE  /\ Cardinality(Opened(S)) \in Nat /\ Cardinality(Opened(S)) <= Cardinality(Paths)
             /\ (stage = "bitmap" \/ NoneOpen) => Cardinality(Opened(S)) = 0
    <2>1. Opened(S) \in SUBSET named
        BY DEF Opened
    <2>2. Opened(Devices) = {} => Opened(S) = {}
        BY DEF Opened
    <2>3. (stage = "bitmap" \/ NoneOpen) => Opened(Devices) = {}
        BY <1>1, <1>2, <1>5 DEF NoneOpen, JobInv, Beginning
    <2>4. Cardinality({}) = 0
        BY FS_EmptySet
    <2>5. QED BY <1>5, <2>1, <2>2, <2>3, <2>4, NamedCount
<1> HIDE DEF named
<1>8. ASSUME NEW S \in SUBSET named, lost' = lost + Cardinality(Opened(S)), opc' \in {"chunk", "dead"}
      PROVE  LostInv' /\ lost' \in Nat
    <2>1. Begun = (IF stage = "super" THEN runs - 1 ELSE runs) /\ Begun \in Nat
        BY <1>1, <1>2, BegunIs
    <2>2. Begun' = runs
        BY <1>1, <1>8 DEF Begun, Beginning
    <2>3. runs \in Nat /\ lost \in Nat /\ (stage = "super" \/ stage = "bitmap")
        BY <1>2 DEF Counters, JobTypes
    <2>4. Begun' \in Nat /\ Begun' > 0 /\ Begun <= Begun' /\ (stage = "super" => Begun' = Begun + 1)
        BY <1>3, <2>1, <2>2, <2>3
    <2>5. lost <= Allowed(Begun) /\ (Begun = 0 => NoneOpen)
        BY <1>2, LostParts
    <2> DEFINE c == Cardinality(Opened(S))
    <2>6. c \in Nat /\ c <= Cardinality(Paths)
        BY <1>7
    <2>7. (stage = "bitmap" \/ NoneOpen) => c = 0
        BY <1>7
    <2>8. lost' = lost + c
        BY <1>8
    <2> HIDE DEF c
    <2>9. c = 0 \/ (Begun > 0 /\ Begun' = Begun + 1)
        <3>1. CASE stage = "bitmap" \/ NoneOpen
            BY <2>7, <3>1
        <3>2. CASE stage = "super" /\ ~NoneOpen
            <4>1. Begun # 0
                BY <2>5, <3>2
            <4>2. Begun \in Nat
                BY <2>1
            <4>3. Begun > 0
                BY <4>1, <4>2
            <4>4. Begun' = Begun + 1
                BY <2>4, <3>2
            <4>5. QED BY <4>3, <4>4
        <3>3. QED BY <2>3, <3>1, <3>2
    <2>10. lost + c <= Allowed(Begun')
        BY <2>1, <2>3, <2>4, <2>5, <2>6, <2>9, LostBound
    <2>11. lost' \in Nat
        BY <2>3, <2>6, <2>8
    <2>12. Begun' # 0
        BY <2>4
    <2>13. QED BY <2>8, <2>10, <2>11, <2>12, LostPartsNext
<1>9. JobTypes' /\ (lost' \in Nat => Counters') /\ Flags'
    BY <1>1, <1>2 DEF JobTypes, Flags, Counters
<1>10. CASE \E before \in SUBSET named :
               /\ lost' = lost + Cardinality(Opened(before))
               /\ fs_uuids' = [fs_uuids EXCEPT ![super.fsid] = {}] /\ Dies("null")
    <2>1. opc' = "dead" /\ LostInv' /\ lost' \in Nat
        BY <1>8, <1>10 DEF Dies
    <2>2. OneMachine'
        BY <1>1, <1>2, <1>3, <1>10, ListsKept DEF JobTypes
    <2>3. QED BY <1>9, <2>1, <2>2, JobOver DEF DevicesInv
<1>11. CASE /\ fs_uuids' = [fs_uuids EXCEPT ![super.fsid] =
                               {IF d \in named THEN [d EXCEPT !.fd = d.name] ELSE d : d \in @}]
            /\ lost' = lost + Cardinality(Opened(named)) /\ opc' = "chunk"
    <2>1. LostInv' /\ lost' \in Nat
        BY <1>8, <1>11
    <2> DEFINE devs == fs_uuids[f]
    <2>2. {IF d \in named THEN [d EXCEPT !.fd = d.name] ELSE d : d \in devs} = OpenedUnder(devs)
        BY <1>5 DEF OpenedUnder, named
    <2>3. fs_uuids' = [fs_uuids EXCEPT ![f] = OpenedUnder(devs)]
        BY <1>11, <2>2
    <2>4. ListOK(m, f, devs)
        BY <1>5
    <2> HIDE DEF devs, f
    <2>5. OpenedRight(m, f, devs)
        BY <2>4, ListOpen
    <2>6. OneMachine' /\ fs_uuids'[f] = OpenedUnder(devs)
        BY <1>1, <1>4, <1>5, <2>3, <2>5, ListReplaced DEF OpenedRight
    <2>7. Devices' = OpenedUnder(devs) /\ Devices = devs /\ Members(super.fsid)' = Members(super.fsid)
        BY <1>1, <1>5, <1>6, <2>6 DEF Devices, Members, Probed, devs, f
    <2>8. super.num = 1 => OpenedUnder(devs) = {[devid |-> super.devid, name |-> path_, fd |-> path_]}
        <3> SUFFICES ASSUME super.num = 1
                     PROVE  OpenedUnder(devs) = {[devid |-> super.devid, name |-> path_, fd |-> path_]}
            OBVIOUS
        <3>1. PICK d \in devs : devs = {d} /\ d.devid = super.devid /\ d.name = path_
            BY <1>1, <1>2, <2>7 DEF JobInv
        <3>2. path_ # ""
            BY <1>2, DisksAssumption DEF JobTypes
        <3>3. QED BY <2>5, <3>1, <3>2 DEF OpenedRight
    <2>9. scanned => \A p \in Members(super.fsid) :
              \E d \in OpenedUnder(devs) : d.devid = disk[p].devid /\ d.fd \in Members(super.fsid)
        <3> SUFFICES ASSUME scanned, NEW p \in Members(super.fsid)
                     PROVE  \E d \in OpenedUnder(devs) : d.devid = disk[p].devid /\ d.fd \in Members(super.fsid)
            OBVIOUS
        <3>1. PICK d \in devs : d.devid = disk[p].devid /\ d.name \in Members(super.fsid)
            BY <1>1, <1>2, <2>7 DEF JobInv
        <3>2. d.name # ""
            BY <3>1, DisksAssumption DEF Members, Probed
        <3>3. QED BY <2>5, <3>1, <3>2 DEF OpenedRight
    <2>10. JobInv'
        <3>1. IsBtrfs(super)' /\ runs' > 0
            BY <1>1, <1>3, <1>6 DEF IsBtrfs
        <3>2. opc' # "scan" /\ opc' # "closed" /\ opc' # "devices" /\ ~Beginning'
            BY <1>11 DEF Beginning
        <3>3. super.num' = super.num /\ super.devid' = super.devid /\ super.fsid' = super.fsid
            BY <1>6
        <3>4. QED BY <1>1, <1>6, <2>7, <2>8, <2>9, <3>1, <3>2 DEF JobInv
    <2>11. opc' \in Stages /\ opc' # "off"
        BY <1>11 DEF Stages, RootNames
    <2>12. QED BY <1>9, <2>1, <2>6, <2>10, <2>11 DEF DevicesInv
<1>12. QED BY <1>10, <1>11 DEF btrfs_open_devices, named
-----------------------------------------------------------------------------
Reading == opc \in Through /\ UNCHANGED <<disk, path_, stage, runs, world, scan_done, scanned, lost>>

(* A step after the devices are open.                                      *)
LEMMA ReadingParts ==
    ASSUME DevicesInv, Reading,
           UNCHANGED fs_uuids \/ fs_uuids' = [fs_uuids EXCEPT ![super.fsid] = {}],
           opc' \in Through \cup {"dead", "idle", "closed"}
    PROVE  /\ JobTypes' /\ Flags' /\ Counters' /\ OneMachine' /\ LostInv' /\ super' = super
           /\ Members(super.fsid)' = Members(super.fsid)
           /\ IsBtrfs(super) /\ runs > 0 /\ JobInv
           /\ fs_uuids' = [fs_uuids EXCEPT ![super.fsid] = {}] => Devices' = {}
<1>1. OneMachine /\ LostInv /\ JobInv /\ Counters /\ Flags /\ JobTypes /\ opc \in Stages
    BY DEF DevicesInv, Reading, Through, Stages, RootNames
<1>2. IsBtrfs(super) /\ runs > 0
    BY <1>1 DEF JobInv
<1>3. JobTypes' /\ Flags' /\ Counters' /\ super' = super
    BY <1>1 DEF Reading, JobTypes, Flags, Counters, super
<1>4. OneMachine' /\ (NoneOpen => NoneOpen')
      /\ (fs_uuids' = [fs_uuids EXCEPT ![super.fsid] = {}] => fs_uuids'[super.fsid] = {})
    BY <1>1, <1>2, ListsKept DEF Reading, JobTypes
<1>5. LostInv'
    <2>1. Begun = runs /\ Begun' = runs
        BY DEF Begun, Beginning, Reading, Through, RootNames
    <2>2. Begun \in Nat /\ Begun' \in Nat /\ Begun <= Begun' /\ UNCHANGED lost
        BY <1>1, <2>1 DEF Counters, Reading
    <2>3. QED BY <1>1, <1>4, <2>2, LostKept
<1>6. fs_uuids' = [fs_uuids EXCEPT ![super.fsid] = {}] => Devices' = {}
    BY <1>3, <1>4 DEF Devices
<1>7. Members(super.fsid)' = Members(super.fsid)
    BY <1>3 DEF Reading, Members, Probed
<1>8. QED BY <1>1, <1>2, <1>3, <1>4, <1>5, <1>6, <1>7

(* ... that ends the open.                                                 *)
LEMMA ReadingEnds ==
    ASSUME DevicesInv, Reading,
           UNCHANGED fs_uuids \/ fs_uuids' = [fs_uuids EXCEPT ![super.fsid] = {}],
           opc' \in {"dead", "idle"}
    PROVE  DevicesInv'
<1>1. JobTypes' /\ Flags' /\ Counters' /\ OneMachine' /\ LostInv'
    BY ReadingParts
<1>2. JobInv'
    BY JobOver
<1>3. opc' # "off" /\ opc' \in Stages \cup {"off", "idle", "dead"}
    OBVIOUS
<1>4. QED BY <1>1, <1>2, <1>3 DEF DevicesInv

(* ... that goes on with the devices it has.                               *)
LEMMA ReadingGoesOn ==
    ASSUME DevicesInv, Reading, UNCHANGED fs_uuids, opc' \in Through
    PROVE  DevicesInv'
<1>1. /\ JobTypes' /\ Flags' /\ Counters' /\ OneMachine' /\ LostInv' /\ super' = super
      /\ Members(super.fsid)' = Members(super.fsid) /\ IsBtrfs(super) /\ runs > 0 /\ JobInv
    BY ReadingParts
<1>2. Devices' = Devices /\ UNCHANGED <<disk, path_, scanned, runs>>
    BY <1>1 DEF Devices, Reading
<1>3. opc' \in Stages /\ opc' \notin {"scan", "devices", "closed", "off"} /\ opc \in Through
    BY DEF Through, Stages, RootNames, Reading
<1>4. IsBtrfs(super)'
    BY <1>1 DEF IsBtrfs
<1>5. JobInv'
    BY <1>1, <1>2, <1>3, <1>4 DEF JobInv, Beginning
<1>6. QED BY <1>1, <1>3, <1>5 DEF DevicesInv

(* The chunk tree read: what the devices lack is added.                    *)
LEMMA ChunkTreeRead ==
    ASSUME DevicesInv, Reading,
           fs_uuids' = [fs_uuids EXCEPT ![super.fsid] = WithMissing(@)], opc' = "tree"
    PROVE  DevicesInv'
<1>1. OneMachine /\ LostInv /\ JobInv /\ Counters /\ Flags /\ JobTypes /\ opc \in Stages
    BY DEF DevicesInv, Reading, Through, Stages, RootNames
<1>2. IsBtrfs(super) /\ runs > 0
    BY <1>1 DEF JobInv
<1>3. PICK m \in Disks : DisksOf(m) /\ ListsOf(m)
    BY <1>1 DEF OneMachine
<1> DEFINE f == super.fsid
           devs == fs_uuids[super.fsid]
<1>4. PICK q \in Paths : super = m[q] /\ IsBtrfs(m[q])
    BY <1>1, <1>2, <1>3, VolumeOf DEF JobTypes
<1>5. f \in Fsids /\ ListOK(m, f, devs) /\ (super.num = 1 => super.ids = {super.devid}) /\ f = m[q].fsid
    BY <1>1, <1>2, <1>3, <1>4, VolumeOf DEF JobTypes
<1>6. fs_uuids' = [fs_uuids EXCEPT ![f] = WithMissing(devs)] /\ Devices = devs
    BY DEF Devices
<1>7. super' = super
    BY DEF Reading, super
<1> HIDE DEF f, devs
<1>8. /\ ListOK(m, f, WithMissing(devs)) /\ devs \subseteq WithMissing(devs)
      /\ m[q].ids = {m[q].devid} /\ (\E d \in devs : d.devid = m[q].devid) => WithMissing(devs) = devs
    <2>1. ListOK(m, m[q].fsid, devs)
        BY <1>5
    <2>2. QED BY <1>4, <1>5, <2>1, ListMissing
<1>9. OneMachine' /\ fs_uuids'[f] = WithMissing(devs)
    <2>1. UNCHANGED disk
        BY DEF Reading
    <2>2. QED BY <1>3, <1>5, <1>6, <1>8, <2>1, ListReplaced
<1>10. Devices' = WithMissing(devs)
    BY <1>7, <1>9 DEF Devices, f
<1>11. JobTypes' /\ Flags' /\ Counters'
    BY <1>1 DEF JobTypes, Flags, Counters, Reading
<1>12. LostInv'
    <2>1. Begun = runs /\ Begun' = runs
        BY DEF Begun, Beginning, Reading, Through, RootNames
    <2>2. Begun \in Nat /\ Begun' \in Nat /\ Begun <= Begun' /\ UNCHANGED lost
        BY <1>1, <2>1 DEF Counters, Reading
    <2>3. Begun # 0
        BY <1>1, <1>2, <2>1 DEF Counters
    <2>4. lost <= Allowed(Begun)
        BY <1>1, LostParts
    <2>5. QED BY <2>1, <2>2, <2>3, <2>4, LostPartsNext
<1>13. JobInv'
    <2>1. opc \in Through /\ path_' = path_ /\ scanned' = scanned /\ runs' = runs
        BY DEF Reading
    <2>2. super.num = 1 => WithMissing(devs) = {[devid |-> super.devid, name |-> path_, fd |-> path_]}
        <3> SUFFICES ASSUME super.num = 1
                     PROVE  WithMissing(devs) = {[devid |-> super.devid, name |-> path_, fd |-> path_]}
            OBVIOUS
        <3>1. devs = {[devid |-> super.devid, name |-> path_, fd |-> path_]}
            BY <1>1, <1>6, <2>1 DEF JobInv
        <3>2. \E d \in devs : d.devid = m[q].devid
            BY <1>4, <3>1
        <3>3. m[q].ids = {m[q].devid}
            BY <1>4, <1>5
        <3>4. QED BY <1>8, <3>1, <3>2, <3>3
    <2>3. scanned => \A p \in Members(super.fsid) :
              \E d \in WithMissing(devs) : d.devid = disk[p].devid /\ d.fd \in Members(super.fsid)
        <3>1. scanned => \A p \in Members(super.fsid) :
                  \E d \in devs : d.devid = disk[p].devid /\ d.fd \in Members(super.fsid)
            BY <1>1, <1>6, <2>1 DEF JobInv
        <3>2. QED BY <1>8, <3>1
    <2>4. Members(super.fsid)' = Members(super.fsid) /\ disk' = disk
        BY <1>7 DEF Members, Probed, Reading
    <2>5. IsBtrfs(super)'
        BY <1>2, <1>7 DEF IsBtrfs
    <2>6. opc' \notin {"scan", "devices", "closed"} /\ ~Beginning'
        BY DEF Beginning
    <2>7. QED BY <1>2, <1>7, <1>10, <2>1, <2>2, <2>3, <2>4, <2>5, <2>6 DEF JobInv
<1>14. opc' \in Stages /\ opc' # "off"
    BY DEF Stages, RootNames
<1>15. QED BY <1>9, <1>11, <1>12, <1>13, <1>14 DEF DevicesInv
-----------------------------------------------------------------------------
(* __open_ctree_fd is left by out_chunk.                                   *)
LEMMA LeftOpen ==
    ASSUME DevicesInv, opc \in Through, \E refs_ : out_chunk(refs_),
           UNCHANGED <<disk, path_, stage, runs, world, scan_done, scanned>>
    PROVE  DevicesInv'
<1>1. PICK refs_ : out_chunk(refs_)
    OBVIOUS
<1>2. /\ opc' = "dead" /\ UNCHANGED lost
      /\ UNCHANGED fs_uuids \/ fs_uuids' = [fs_uuids EXCEPT ![super.fsid] = {}]
    BY <1>1 DEF out_chunk, Dies, btrfs_close_devices
<1>3. QED BY <1>2, ReadingEnds DEF Reading

LEMMA ChunkStep ==
    ASSUME DevicesInv, btrfs_setup_chunk_tree_and_device_map
    PROVE  DevicesInv'
<1>1. opc = "chunk" /\ UNCHANGED <<disk, path_, stage, runs, world, scan_done, scanned>>
    BY DEF btrfs_setup_chunk_tree_and_device_map, jobVars
<1>2. opc \in Through
    BY <1>1 DEF Through, RootNames
<1>3. CASE UNCHANGED bufVars /\ Dies("null") /\ btrfs_close_devices
    BY <1>1, <1>2, <1>3, ReadingEnds DEF Reading, bufVars, Dies, btrfs_close_devices
<1>4. CASE UNCHANGED bufVars /\ out_chunk(refs)
    BY <1>1, <1>2, <1>4, LeftOpen
<1>5. CASE UNCHANGED lost /\ Dies("assert_seed") /\ UNCHANGED fs_uuids
    BY <1>1, <1>2, <1>5, ReadingEnds DEF Reading, Dies
<1>6. CASE /\ UNCHANGED lost /\ opc' = "tree"
           /\ fs_uuids' = [fs_uuids EXCEPT ![super.fsid] = WithMissing(@)]
    BY <1>1, <1>2, <1>6, ChunkTreeRead DEF Reading
<1>7. CASE UNCHANGED <<fs_uuids, lost>> /\ Dies("assert_lru")
    BY <1>1, <1>2, <1>7, ReadingEnds DEF Reading, Dies
<1>8. QED BY <1>3, <1>4, <1>5, <1>6, <1>7 DEF btrfs_setup_chunk_tree_and_device_map

(* A step of the roots leaves by out_chunk, or the daemon dies, or it goes *)
(* on; the devices stay what they are, or are closed on the way out.       *)
LEMMA RootsStep == ASSUME DevicesInv, btrfs_setup_all_roots PROVE DevicesInv'
<1> DEFINE quiet == UNCHANGED <<fs_uuids, lost>>
           ends(then) == (\E refs_ : out_chunk(refs_)) \/ (quiet /\ opc' = then)
<1>1. ASSUME NEW then \in Through \cup {"dead"}, opc \in Through, ends(then),
             UNCHANGED <<jobVars, scan_done, scanned>>
      PROVE  DevicesInv'
    <2>1. UNCHANGED <<disk, path_, stage, runs, world, scan_done, scanned>>
        BY <1>1 DEF jobVars
    <2>2. CASE \E refs_ : out_chunk(refs_)
        BY <1>1, <2>1, <2>2, LeftOpen
    <2>3. CASE quiet /\ opc' = "dead"
        BY <1>1, <2>1, <2>3, ReadingEnds DEF Reading
    <2>4. CASE quiet /\ opc' = then /\ then \in Through
        BY <1>1, <2>1, <2>4, ReadingGoesOn DEF Reading
    <2>5. QED BY <1>1, <2>2, <2>3, <2>4
<1>2. RootNames \cup {"groups", "opened"} \subseteq Through
      /\ {"tree", "extent", "dev", "csum", "quota", "free_space", "log", "fs"} \subseteq RootNames
    BY DEF Through, RootNames
<1>3. ASSUME NEW rt \in RootNames, NEW then \in Through, needed(rt, then) PROVE DevicesInv'
    <2>1. opc = rt /\ UNCHANGED <<jobVars, scan_done, scanned>>
        BY <1>3 DEF needed, SearchesTree
    <2>2. ends(then)
        <3>1. CASE Reads(rt) /\ opc' = then
            BY <3>1 DEF Reads
        <3>2. CASE \E left \in PathLeft : out_chunk(Plus(refs, left))
            BY <3>2
        <3>3. QED BY <1>3, <3>1, <3>2 DEF needed
    <2>3. QED BY <1>1, <1>2, <2>1, <2>2
<1>4. ASSUME NEW rt \in RootNames, NEW then \in Through, setup_root_or_create_block(rt, then)
      PROVE  DevicesInv'
    <2>1. opc = rt /\ UNCHANGED <<jobVars, scan_done, scanned>>
        BY <1>4 DEF setup_root_or_create_block, SearchesTree
    <2>2. ends(then)
        <3>1. CASE Reads(rt) /\ opc' = then
            BY <3>1 DEF Reads
        <3>2. CASE out_chunk(refs)
            BY <3>2
        <3>3. CASE opc' = then /\ UNCHANGED <<fs_uuids, lost, why>>
            BY <3>3
        <3>4. QED BY <1>4, <3>1, <3>2, <3>3 DEF setup_root_or_create_block
    <2>3. QED BY <1>1, <1>2, <2>1, <2>2
<1>5. ASSUME NEW then \in Through, quota_root(then) PROVE DevicesInv'
    <2>1. opc = "quota" /\ opc' = then /\ quiet /\ UNCHANGED <<jobVars, scan_done, scanned>>
        BY <1>5 DEF quota_root, SearchesTree, Reads
    <2>2. QED BY <1>1, <1>2, <2>1
<1>6. CASE tree_root
    <2>1. opc = "tree" /\ UNCHANGED <<jobVars, scan_done, scanned>>
        BY <1>6 DEF tree_root
    <2>2. ends("extent")
        BY <1>6 DEF tree_root, Reads
    <2>3. QED BY <1>1, <1>2, <2>1, <2>2
<1>7. CASE log_root
    <2>1. opc = "log" /\ opc' = "groups" /\ quiet /\ UNCHANGED <<jobVars, scan_done, scanned>>
        BY <1>7 DEF log_root, Reads
    <2>2. QED BY <1>1, <1>2, <2>1
<1>8. CASE block_groups
    <2>1. opc = "groups" /\ opc' = "fs" /\ quiet /\ UNCHANGED <<jobVars, scan_done, scanned>>
        BY <1>8 DEF block_groups
    <2>2. QED BY <1>1, <1>2, <2>1
<1>9. CASE overlapping
    <2>1. opc \in Through /\ quiet /\ UNCHANGED <<jobVars, scan_done, scanned>>
        BY <1>2, <1>9 DEF overlapping
    <2>2. opc' = "dead" \/ opc' = opc
        BY <1>9 DEF overlapping, Dies
    <2>3. QED BY <1>1, <2>1, <2>2
<1>10. CASE searchesFreed
    <2>1. opc \in Through /\ opc' = "dead" /\ quiet /\ UNCHANGED <<jobVars, scan_done, scanned>>
        BY <1>2, <1>10 DEF searchesFreed, Dies
    <2>2. QED BY <1>1, <2>1
<1>11. (IF super.free_space THEN "free_space" ELSE "log") \in Through
    BY <1>2
<1>12. QED
    BY <1>2, <1>3, <1>4, <1>5, <1>6, <1>7, <1>8, <1>9, <1>10, <1>11 DEF btrfs_setup_all_roots

LEMMA CloseStep == ASSUME DevicesInv, fs_close PROVE DevicesInv'
<1>1. /\ opc = "opened" /\ (opc' = "closed" \/ opc' = "dead")
      /\ fs_uuids' = [fs_uuids EXCEPT ![super.fsid] = {}]
      /\ UNCHANGED <<disk, path_, stage, runs, world, lost, scan_done, scanned>>
    BY DEF fs_close, Dies, btrfs_close_devices, jobVars
<1>2. Reading
    BY <1>1 DEF DevicesInv, Flags, Reading, Through
<1>3. CASE opc' = "dead"
    BY <1>1, <1>2, <1>3, ReadingEnds
<1>4. CASE opc' = "closed"
    <2>1. /\ JobTypes' /\ Flags' /\ Counters' /\ OneMachine' /\ LostInv' /\ super' = super
          /\ IsBtrfs(super) /\ runs > 0 /\ Devices' = {}
        BY <1>1, <1>2, <1>4, ReadingParts
    <2>2. IsBtrfs(super)' /\ runs' > 0
        BY <1>1, <2>1 DEF IsBtrfs
    <2>3. opc' \notin {"scan", "devices"} /\ ~Beginning' /\ opc' \notin Through
        BY <1>4 DEF Beginning, Through, RootNames
    <2>4. JobInv'
        BY <2>1, <2>2, <2>3 DEF JobInv, Opened
    <2>5. opc' \in Stages /\ opc' # "off"
        BY <1>4 DEF Stages
    <2>6. QED BY <2>1, <2>4, <2>5 DEF DevicesInv
<1>5. QED BY <1>1, <1>3, <1>4

LEMMA LeaveStep == ASSUME DevicesInv, leaveOpen PROVE DevicesInv'
<1>1. /\ opc = "opened" /\ opc' = "idle"
      /\ UNCHANGED <<disk, path_, stage, runs, world, fs_uuids, lost, scan_done, scanned>>
    BY DEF leaveOpen, jobVars
<1>2. Reading
    BY <1>1 DEF DevicesInv, Flags, Reading, Through
<1>3. QED BY <1>1, <1>2, ReadingEnds

LEMMA StopStep == ASSUME DevicesInv, stopEarly PROVE DevicesInv'
<1>1. /\ opc = "closed" /\ opc' = "idle"
      /\ UNCHANGED <<disk, path_, stage, runs, world, fs_uuids, lost, scan_done, scanned>>
    BY DEF stopEarly, jobVars, bufVars
<1>2. OneMachine /\ LostInv /\ Counters /\ Flags /\ JobTypes
    BY <1>1 DEF DevicesInv
<1>3. JobTypes' /\ Flags' /\ Counters' /\ OneMachine'
    BY <1>1, <1>2 DEF JobTypes, Flags, Counters, OneMachine, DisksOf, ListsOf
<1>4. LostInv'
    <2>1. Begun = runs /\ Begun' = runs
        BY <1>1 DEF Begun, Beginning
    <2>2. Begun \in Nat /\ Begun' \in Nat /\ Begun <= Begun'
        BY <1>2, <2>1 DEF Counters
    <2>3. NoneOpen => NoneOpen'
        BY <1>1 DEF NoneOpen
    <2>4. QED BY <1>1, <1>2, <2>2, <2>3, LostKept
<1>5. JobInv'
    BY <1>1, JobOver
<1>6. QED BY <1>1, <1>3, <1>4, <1>5 DEF DevicesInv

LEMMA DevicesStep == ASSUME DevicesInv, OpenNext PROVE DevicesInv'
<1>1. CASE startJob
    <2>1. PICK p \in Paths : opc = "idle" /\ runs' = runs + 1 /\ open_ctree(p, "super")
        BY <1>1 DEF startJob
    <2>2. QED BY <2>1, OpenStep
<1>2. CASE secondOpen
    <2>1. opc = "closed" /\ open_ctree(path_, "bitmap") /\ UNCHANGED runs /\ path_ \in Paths
        BY <1>2 DEF secondOpen, DevicesInv, JobTypes
    <2>2. QED BY <2>1, OpenStep
<1>3. QED BY <1>1, <1>2, StartStep, WorldStep, StopStep, ScanStep, OpenDevicesStep, ChunkStep, RootsStep,
             CloseStep, LeaveStep DEF OpenNext

LEMMA DevicesInit == ASSUME OpenInit PROVE DevicesInv
<1>1. path_ \in Paths
    BY DisksAssumption DEF OpenInit
<1>2. JobTypes /\ Flags /\ Counters
    BY <1>1 DEF OpenInit, JobTypes, Flags, Counters
<1>3. opc = "off"
    BY DEF OpenInit
<1>4. disk \in [Paths -> Contents] /\ fs_uuids \in [Fsids -> SUBSET Records] /\ \A f \in Fsids : fs_uuids[f] = {}
    <2>1. Gone \in Contents
        BY DEF Contents
    <2>2. disk \in [Paths -> Contents]
        BY <2>1 DEF OpenInit
    <2>3. fs_uuids = [f \in Fsids |-> {}]
        BY DEF OpenInit
    <2>4. QED BY <2>2, <2>3
<1>5. JobInv
    BY <1>3 DEF JobInv, Stages, Beginning, Through, RootNames
<1>6. LostInv
    <2>1. Begun = 0 /\ lost = 0
        BY DEF OpenInit, Begun, Beginning
    <2>2. NoneOpen
        BY <1>4 DEF NoneOpen, Opened
    <2>3. Allowed(Begun) \in Nat
        BY <2>1, AllowedGrows
    <2>4. QED BY <2>1, <2>2, <2>3, LostParts
<1>7. QED BY <1>2, <1>3, <1>4, <1>5, <1>6 DEF DevicesInv

(* The parts of the invariant the run checks.                              *)
LEMMA DevicesParts ==
    ASSUME DevicesInv
    PROVE  DevicesFollowJob /\ ReadsGivenDevice
<1>1. JobInv /\ LostInv /\ Counters
    BY DEF DevicesInv
<1>2. ReadsGivenDevice /\ ScanOpensMembers
    BY <1>1 DEF ReadsGivenDevice, ScanOpensMembers, JobInv, Through
<1>3. LostPerJob
    <2>1. Begun \in Nat /\ Begun <= runs
        BY <1>1, BegunIs DEF Begun, Counters
    <2>2. lost <= Allowed(Begun) /\ Allowed(Begun) <= Allowed(runs)
        BY <1>1, <2>1, LostParts, AllowedGrows DEF Counters
    <2>3. lost <= Allowed(runs)
        <3>1. Allowed(Begun) \in Nat /\ Allowed(runs) \in Nat
            BY <1>1, <2>1, AllowedGrows DEF Counters
        <3>2. QED BY <1>1, <2>2, <3>1 DEF Counters
    <2>4. QED BY <2>3 DEF LostPerJob, Allowed
<1>4. Origin /\ ListInv
    <2>1. CASE opc = "off"
        <3>1. \A f \in Fsids : fs_uuids[f] = {}
            BY <2>1 DEF DevicesInv
        <3>2. QED BY <2>1, <3>1 DEF Origin, ListInv
    <2>2. CASE opc # "off"
        BY <2>2, MachineIs DEF DevicesInv
    <2>3. QED BY <2>1, <2>2
<1>5. QED BY <1>1, <1>2, <1>3, <1>4 DEF DevicesFollowJob

LEMMA TypesOf ==
    ASSUME DevicesInv
    PROVE  /\ disk \in [Paths -> Contents] /\ fs_uuids \in [Fsids -> SUBSET Records]
           /\ path_ \in Paths /\ stage \in {"super", "bitmap"}
           /\ {scan_done, scanned} \subseteq BOOLEAN /\ {lost, runs, world} \subseteq Nat
<1>1. disk \in [Paths -> Contents] /\ fs_uuids \in [Fsids -> SUBSET Records]
    BY DEF DevicesInv, OneMachine, DisksOf, ListsOf
<1>2. {scan_done, scanned} \subseteq BOOLEAN
    BY DEF DevicesInv, Flags
<1>3. {lost, runs, world} \subseteq Nat
    BY DEF DevicesInv, Counters
<1>4. QED BY <1>1, <1>2, <1>3 DEF DevicesInv, JobTypes

(* What every open keeps, whichever part of the library moves.             *)
OpenInvariant == BuffersInv /\ DevicesInv

LEMMA OpenInvariantInit == OpenInit => OpenInvariant
<1> SUFFICES ASSUME OpenInit PROVE OpenInvariant
    OBVIOUS
<1>1. /\ refs = NoRefs /\ roots = NoRoots /\ recow = {} /\ why = "" /\ opc = "off"
      /\ kept = NoRefs /\ overlaps = 0 /\ refused = FALSE
    BY DEF OpenInit
<1>2. BufferTypes
    BY <1>1, CountsAtFirst DEF BufferTypes
<1>3. RefsInv
    <2>1. Ahead = RootNames
        BY <1>1 DEF Ahead
    <2>2. NotSetUp(roots, recow, kept, Ahead) /\ OwnNodes(roots) /\ Counts(refs, roots, recow, kept, overlaps)
        BY <1>1, <2>1, CountsAtFirst
    <2>3. NoneFreed(roots, refused, overlaps)
        BY <1>1, CountsAtFirst DEF NoneFreed
    <2>4. QED BY <1>1, <2>2, <2>3, RefsParts
<1>4. BuffersInv
    BY <1>1, <1>2, <1>3 DEF BuffersInv, AssertNeedsKeptPath, FreedNeedsOverlap
<1>5. QED BY <1>4, DevicesInit DEF OpenInvariant

LEMMA OpenInvariantStep == OpenInvariant /\ [OpenNext]_openVars => OpenInvariant'
<1> SUFFICES ASSUME OpenInvariant, [OpenNext]_openVars PROVE OpenInvariant'
    OBVIOUS
<1>1. CASE OpenNext
    BY <1>1, BuffersStep, DevicesStep DEF OpenInvariant
<1>2. CASE UNCHANGED openVars
    <2>1. BuffersInv'
        BY <1>2 DEF OpenInvariant, BuffersInv, BufferTypes, AssertNeedsKeptPath, FreedNeedsOverlap,
                    RefsInv, Nodes, Ahead, openVars
    <2>2. super' = super /\ Devices' = Devices /\ \A f : Members(f)' = Members(f)
        BY <1>2 DEF super, Devices, Members, Probed, openVars
    <2>3. JobTypes' /\ Flags' /\ Counters' /\ LostInv'
        BY <1>2 DEF OpenInvariant, DevicesInv, JobTypes, Flags, Counters, LostInv, Beginning, openVars
    <2>4. JobInv'
        BY <1>2, <2>2 DEF OpenInvariant, DevicesInv, JobInv, Beginning, IsBtrfs, openVars
    <2>5. OneMachine => OneMachine'
        BY <1>2 DEF OneMachine, DisksOf, ListsOf, openVars
    <2>6. QED BY <1>2, <2>1, <2>3, <2>4, <2>5 DEF OpenInvariant, DevicesInv, openVars
<1>3. QED BY <1>1, <1>2

LEMMA OpenInvariantHolds == BtrfsSpec => []OpenInvariant
<1>1. BtrfsInit => OpenInvariant
    BY OpenInvariantInit DEF BtrfsInit
<1>2. OpenInvariant /\ [BtrfsNext]_btrfsVars => OpenInvariant'
    BY OpenInvariantStep, PartsStep
<1>3. QED BY <1>1, <1>2, PTL DEF BtrfsSpec

(* For every set of volumes and device nodes, whatever happens to them     *)
(* between the jobs: the release of the roots and of recow_ebs gives back  *)
(* every reference but those of paths that were left behind, so that the   *)
(* assert of the cleanup is met only after a refused chunk item or a root  *)
(* item of the offset -1; and no freed buffer is used in an open that met  *)
(* no request for a block overlapping a cached one.                        *)
THEOREM CleanupIsClean == BtrfsSpec => []CleanupFindsNothing
<1>1. OpenInvariant => CleanupFindsNothing
    BY TypesOf DEF OpenInvariant, BuffersInv, BufferTypes, CleanupFindsNothing, OpenTypeOK
<1>2. QED BY <1>1, OpenInvariantHolds, PTL

(* ... a volume on one device is read from the device node of the job, an  *)
(* open that scans opens every member, a job loses at most the descriptors *)
(* that an earlier bitmap left open, and a device is in the list once.     *)
THEOREM DevicesAreFollowed == BtrfsSpec => []DevicesFollowJob
<1>1. OpenInvariant => DevicesFollowJob
    BY DevicesParts DEF OpenInvariant
<1>2. QED BY <1>1, OpenInvariantHolds, PTL
=============================================================================
