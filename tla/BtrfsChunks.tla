----------------------------- MODULE BtrfsChunks -----------------------------
(***************************************************************************)
(* The logical address space of a btrfs volume.  Opening a volume fills    *)
(* the mapping tree with chunks, first from the array in the superblock    *)
(* (read_sys_array), then from the chunk tree (read_chunk_tree);           *)
(* btrfs_map_block then says where a copy of a logical address is.         *)
(* Addresses and lengths count sectors.  The program only reads, and never *)
(* asks for a raid map, so the branches for writing are not here.          *)
(***************************************************************************)
EXTENDS Integers, Sequences, FiniteSets

CONSTANTS
    ChunkVolumes, \* volumes: the items of the superblock's array and of the chunk tree
    STRIPE_LEN    \* BTRFS_STRIPE_LEN

ASSUME ChunksAssumption == STRIPE_LEN \in Nat \ {0}

(* An item is a chunk or something else; a chunk starts somewhere and has  *)
(* a length.                                                               *)
ASSUME ChunkVolumesAssumption ==
    \A v \in ChunkVolumes : \A items \in {v.sys, v.tree} :
        /\ Len(items) \in Nat /\ DOMAIN items = 1 .. Len(items)
        /\ \A i \in DOMAIN items : items[i].key = "chunk" => items[i].start \in Nat /\ items[i].size \in Nat

VARIABLES
    chunkItems, \* the items of the volume
    mapping,    \* the mapping tree: a set of chunks
    cursor,     \* the item looked at
    cpc

chunkVars == <<chunkItems, mapping, cursor, cpc>>

ChunksInit == chunkItems = [sys |-> <<>>, tree |-> <<>>] /\ mapping = {} /\ cursor = 1 /\ cpc = "new"
-----------------------------------------------------------------------------
LastOf(c) == c.start + c.size - 1

(* comp_range takes two ranges that share an address for equal.            *)
Overlap(c, d) == c.start <= LastOf(d) /\ d.start <= LastOf(c)

(* The chunk that holds an address, or else the first one behind it.       *)
search_cache_extent(map, logical) ==
    {c \in map : LastOf(c) >= logical /\ \A d \in map : LastOf(d) >= logical => c.start <= d.start}

insert_cache_extent(map, c) == \A d \in map : ~Overlap(c, d)

nr_parity_stripes(c) == CASE c.type = "raid5" -> 1 [] c.type = "raid6" -> 2 [] OTHER -> 0
nr_data_stripes(c)   == c.num_stripes - nr_parity_stripes(c)

(* The checks on an item; sector says that its start, its length and its   *)
(* sector size agree with the sector size of the superblock.               *)
btrfs_check_chunk_valid(c, inSuper) ==
    /\ c.sector
    /\ c.size > 0
    /\ c.stripe_len = STRIPE_LEN
    /\ inSuper => c.system
    /\ c.num_stripes >= 1
    /\ c.type = "raid10" => c.sub_stripes # 0
    /\ c.type = "raid5" => c.num_stripes >= 2
    /\ c.type = "raid6" => c.num_stripes >= 3
    /\ c.type = "dup" => c.num_stripes <= 2
    /\ c.type = "single" => c.num_stripes = 1

AlreadyMapped(c) ==
    \E d \in search_cache_extent(mapping, c.start) : d.start <= c.start /\ LastOf(d) >= c.start

(* Mutant: a chunk that is mapped already is put in again.                 *)
ReadChunkTwice(c, inSuper) ==
    IF ~btrfs_check_chunk_valid(c, inSuper) \/ ~insert_cache_extent(mapping, c)
    THEN cpc' = "failed" /\ UNCHANGED <<mapping, cursor>>
    ELSE mapping' = mapping \cup {c} /\ cursor' = cursor + 1 /\ UNCHANGED cpc

read_one_chunk(c, inSuper) ==
    IF ~btrfs_check_chunk_valid(c, inSuper)
    THEN cpc' = "failed" /\ UNCHANGED <<mapping, cursor>>
    ELSE IF AlreadyMapped(c)
    THEN cursor' = cursor + 1 /\ UNCHANGED <<mapping, cpc>>
    ELSE IF ~insert_cache_extent(mapping, c)
    THEN cpc' = "failed" /\ UNCHANGED <<mapping, cursor>>
    ELSE mapping' = mapping \cup {c} /\ cursor' = cursor + 1 /\ UNCHANGED cpc

(* btrfs_setup_chunk_tree_and_device_map of some volume.                   *)
setupChunks ==
    /\ cpc = "new" /\ cpc' = "sys"
    /\ chunkItems' \in ChunkVolumes
    /\ UNCHANGED <<mapping, cursor>>

(* An item of the array in the superblock; one that the end of the array   *)
(* cuts off, or that is no chunk, or has no stripe, ends the open.         *)
btrfs_read_sys_array ==
    /\ cpc = "sys"
    /\ IF cursor > Len(chunkItems.sys)
       THEN cpc' = "tree" /\ cursor' = 1 /\ UNCHANGED mapping
       ELSE LET c == chunkItems.sys[cursor]
            IN IF c.key # "chunk" \/ c.cut \/ c.num_stripes = 0
               THEN cpc' = "failed" /\ UNCHANGED <<mapping, cursor>>
               ELSE read_one_chunk(c, TRUE)
    /\ UNCHANGED chunkItems

(* An item of the chunk tree; devices and unknown items change no mapping. *)
btrfs_read_chunk_tree ==
    /\ cpc = "tree"
    /\ IF cursor > Len(chunkItems.tree)
       THEN cpc' = "mapped" /\ UNCHANGED <<mapping, cursor>>
       ELSE LET c == chunkItems.tree[cursor]
            IN IF c.key # "chunk"
               THEN cursor' = cursor + 1 /\ UNCHANGED <<mapping, cpc>>
               ELSE read_one_chunk(c, FALSE)
    /\ UNCHANGED chunkItems

ChunksNext == setupChunks \/ btrfs_read_sys_array \/ btrfs_read_chunk_tree
-----------------------------------------------------------------------------
(* btrfs_num_copies.                                                       *)
btrfs_num_copies(map, logical) ==
    LET found == {c \in search_cache_extent(map, logical) : c.start <= logical}
    IN IF found = {} THEN 1
       ELSE LET c == CHOOSE c \in found : TRUE
            IN CASE c.type \in {"dup", "raid1"} -> c.num_stripes
                 [] c.type = "raid10" -> c.sub_stripes
                 [] c.type = "raid5" -> 2
                 [] c.type = "raid6" -> 3
                 [] OTHER -> 1

(* Which stripe of the chunk, counted from 0, and how many stripes into it *)
(* a copy of stripe nr is.                                                 *)
StripeIndex(c, nr, mirror) ==
    CASE c.type = "raid1"  -> IF mirror > 0 THEN mirror - 1 ELSE nr % c.num_stripes
      [] c.type = "raid10" ->
            (nr % (c.num_stripes \div c.sub_stripes)) * c.sub_stripes
                + (IF mirror > 0 THEN mirror - 1 ELSE 0)
      [] c.type = "dup"    -> IF mirror > 0 THEN mirror - 1 ELSE 0
      [] c.type \in {"raid5", "raid6"} ->
            (nr \div nr_data_stripes(c)
                + (IF mirror > 1 THEN nr_data_stripes(c) + mirror - 2 ELSE nr % nr_data_stripes(c)))
            % c.num_stripes
      [] OTHER -> nr % c.num_stripes

(* Mutant: the stripes of all devices are counted on each.                 *)
StripeNotDivided(c, nr) == nr

StripeNumber(c, nr) ==
    CASE c.type \in {"raid1", "dup"}      -> nr
      [] c.type = "raid10"                -> nr \div (c.num_stripes \div c.sub_stripes)
      [] c.type \in {"raid5", "raid6"}    -> nr \div nr_data_stripes(c)
      [] OTHER                            -> nr \div c.num_stripes

(* How much behind the offset can be transferred in one piece.             *)
MapLength(c, offset) ==
    LET rest == c.size - offset
        inStripe == c.stripe_len - (offset % c.stripe_len)
    IN IF c.type = "single" \/ rest <= inStripe THEN rest ELSE inStripe

Unmapped == [ok |-> FALSE]

btrfs_map_block(map, logical, mirror) ==
    LET found == {c \in search_cache_extent(map, logical) : c.start <= logical}
    IN IF found = {} THEN Unmapped
       ELSE LET c      == CHOOSE c \in found : TRUE
                offset == logical - c.start
                nr     == offset \div c.stripe_len
                index  == StripeIndex(c, nr, mirror)
            IN IF index >= c.num_stripes THEN Unmapped
               ELSE [ok       |-> TRUE,
                     dev      |-> c.stripes[index + 1].dev,
                     physical |-> c.stripes[index + 1].physical + (offset % c.stripe_len)
                                    + StripeNumber(c, nr) * c.stripe_len,
                     length   |-> MapLength(c, offset)]
-----------------------------------------------------------------------------
Mapped == UNION {c.start .. LastOf(c) : c \in mapping}

Place(logical, mirror) ==
    LET m == btrfs_map_block(mapping, logical, mirror) IN <<m.dev, m.physical>>

(* The copies that hold the data itself, not a parity.                     *)
DataCopies(logical) ==
    IF \E c \in mapping : logical \in c.start .. LastOf(c) /\ nr_parity_stripes(c) > 0
    THEN {1} ELSE 1 .. btrfs_num_copies(mapping, logical)

(* At most one chunk holds an address: the array in the superblock and the *)
(* chunk tree name the same system chunks, and an overlap ends the open.   *)
MappingDisjoint == \A c, d \in mapping : c # d => ~Overlap(c, d)

(* The items of the volume, wherever they are read from.                   *)
ChunkItems ==
    {chunkItems.sys[i] : i \in DOMAIN chunkItems.sys} \cup
    {chunkItems.tree[i] : i \in DOMAIN chunkItems.tree}

(* Every volume whose items are valid and name each address once opens,    *)
(* although its system chunks are read twice.                              *)
GoodVolumeMapped ==
    cpc = "failed" =>
        \/ \E i \in DOMAIN chunkItems.sys :
              LET c == chunkItems.sys[i]
              IN c.key # "chunk" \/ c.cut \/ ~btrfs_check_chunk_valid(c, TRUE)
        \/ \E i \in DOMAIN chunkItems.tree :
              LET c == chunkItems.tree[i]
              IN c.key = "chunk" /\ ~btrfs_check_chunk_valid(c, FALSE)
        \/ \E c, d \in ChunkItems :
              c.key = "chunk" /\ d.key = "chunk" /\ c # d /\ Overlap(c, d)

(* The map has chunks of the volume only.                                  *)
MappedFromItems ==
    \A c \in mapping : c \in ChunkItems /\ c.key = "chunk" /\ c.start \in Nat /\ c.size \in Nat \ {0}

(* An address is mapped when some chunk in the map holds it.               *)
IsMapped(map, logical) == \E c \in map : c.start <= logical /\ logical <= LastOf(c)

(* A chunk item that has been read has its first address in the map: the   *)
(* ones of the array, and those of the tree up to the cursor.              *)
ReadIsMapped ==
    /\ \A i \in DOMAIN chunkItems.sys :
          (cpc \in {"tree", "mapped"} \/ (cpc = "sys" /\ i < cursor)) => IsMapped(mapping, chunkItems.sys[i].start)
    /\ \A i \in DOMAIN chunkItems.tree :
          (cpc = "mapped" \/ (cpc = "tree" /\ i < cursor)) =>
              (chunkItems.tree[i].key = "chunk" => IsMapped(mapping, chunkItems.tree[i].start))

ChunksTypeOK ==
    /\ cpc \in {"new", "sys", "tree", "mapped", "failed"}
    /\ cursor \in Nat \ {0}
    /\ IF cpc = "new" THEN chunkItems = [sys |-> <<>>, tree |-> <<>>] /\ mapping = {} /\ cursor = 1
                      ELSE chunkItems \in ChunkVolumes

(* Two copies of an address are in two places, the copy read first is one  *)
(* of them, and no two addresses share a place: what map_block says can be *)
(* told apart on the disks.                                                *)
CopiesApart ==
    cpc = "mapped" =>
        /\ \A l \in Mapped :
              /\ \A i, j \in 1 .. btrfs_num_copies(mapping, l) : i # j => Place(l, i) # Place(l, j)
              /\ \E i \in DataCopies(l) : Place(l, 0) = Place(l, i)
        /\ \A l, k \in Mapped : l # k =>
              \A i \in DataCopies(l), j \in DataCopies(k) : Place(l, i) # Place(k, j)

(* The length that map_block returns is contiguous on its device: a reader *)
(* that transfers it in one piece gets the addresses it asked for.         *)
LengthInOnePiece ==
    cpc = "mapped" =>
        \A l \in Mapped : \A mirror \in {0} \cup DataCopies(l) :
            LET m == btrfs_map_block(mapping, l, mirror)
            IN \A i \in 0 .. m.length - 1 :
                  l + i \in Mapped /\ Place(l + i, mirror) = <<m.dev, m.physical + i>>

(* The map is a function of the address, every chunk that was read is in   *)
(* it, and good volumes have one.                                          *)
ChunkMapSound ==
    /\ ChunksTypeOK
    /\ MappingDisjoint /\ MappedFromItems /\ ReadIsMapped /\ GoodVolumeMapped

(* map_block names the place and the length of every copy rightly.         *)
MapBlockExact == CopiesApart /\ LengthInOnePiece
=============================================================================
