------------------------------ MODULE XfsCache -------------------------------
(***************************************************************************)
(* The buffer cache of the bundled XFS library, as the bitmap reader uses  *)
(* it.  libxfs_mount reads the last sector and puts its buffer back; the   *)
(* scan reads blocks and never puts them back.  Every fs_open makes a new  *)
(* cache and forgets the old one with its buffers; the list of free        *)
(* buffers is global and stays.                                            *)
(*                                                                         *)
(* A lookup is a loop: search, allocate below the limit, else shake one    *)
(* priority after the other, then double the limit.                        *)
(***************************************************************************)
EXTENDS Integers, Sequences, SequencesExt, FiniteSets

CONSTANTS
    Keys,        \* what is read: records [blk, len]
    LastSector,  \* the key libxfs_mount reads
    MaxCount,    \* limit of a new cache
    ShakeCount,  \* buffers released by one shake
    MaxPriority, \* highest priority of a buffer
    MaxOpens,    \* bound on the caches made
    MaxGets      \* bound on the blocks asked for

ASSUME CacheAssumption ==
    /\ LastSector \in Keys
    /\ MaxCount \in Nat \ {0} /\ ShakeCount \in Nat \ {0}
    /\ MaxPriority \in Nat /\ MaxOpens \in Nat /\ MaxGets \in Nat

VARIABLES
    bufs,       \* all buffers ever allocated: sequence of records
    hashed,     \* the buffers of the cache
    mrus,       \* mrus[p]: unused buffers of priority p, the latest first
    freelist,   \* buffers for another use, the latest first
    c_count,
    c_maxcount,
    lookup,     \* the key being looked up and what to do with it, or NoLookup
    opens,
    gets

cacheVars == <<bufs, hashed, mrus, freelist, c_count, c_maxcount, lookup, opens, gets>>

NoLookup == [at |-> "idle"]
Zeros    == [blk |-> -1, len |-> 0]  \* contents of a buffer that was not read

CacheInit ==
    /\ bufs = <<>> /\ hashed = {} /\ freelist = <<>>
    /\ mrus = [p \in 0..MaxPriority |-> <<>>]
    /\ c_count = 0 /\ c_maxcount = MaxCount
    /\ lookup = NoLookup /\ opens = 0 /\ gets = 0
-----------------------------------------------------------------------------
(* cache_init, for every libxfs_init; libxfs_mount then reads and puts.    *)
cache_init ==
    /\ lookup = NoLookup /\ opens < MaxOpens
    /\ opens' = opens + 1
    /\ hashed' = {} /\ mrus' = [p \in 0..MaxPriority |-> <<>>]
    /\ c_count' = 0 /\ c_maxcount' = MaxCount
    /\ lookup' = [at |-> "search", key |-> LastSector, priority |-> 0, put |-> TRUE]
    /\ UNCHANGED <<bufs, freelist, gets>>

(* The scan asks for a block.                                              *)
libxfs_getbuf_flags ==
    /\ lookup = NoLookup /\ opens > 0 /\ gets < MaxGets
    /\ gets' = gets + 1
    /\ \E k \in Keys : lookup' = [at |-> "search", key |-> k, priority |-> 0, put |-> FALSE]
    /\ UNCHANGED <<bufs, hashed, mrus, freelist, c_count, c_maxcount, opens>>

(* A buffer of the same block and another length is left alone, since the  *)
(* cache has no flag to purge it.                                          *)
libxfs_bcompare(b, key) == bufs[b].key = key

Hits(key) == {b \in hashed : libxfs_bcompare(b, key)}

Got(b) == lookup' = [at |-> "read", buf |-> b, key |-> lookup.key, put |-> lookup.put]

(* Every use lowers the priority by that of a prefetch; none is above 0.   *)
Lowered(p) == IF p > 8 THEN p - 8 ELSE 0

PlaceOf(b, list) == CHOOSE i \in DOMAIN list : list[i] = b

OffList(b) ==
    IF bufs[b].count = 0 THEN [mrus EXCEPT ![bufs[b].priority] = RemoveAt(@, PlaceOf(b, @))]
                         ELSE mrus

CacheHit ==
    /\ lookup.at = "search" /\ Hits(lookup.key) # {}
    /\ \E b \in Hits(lookup.key) :
          /\ mrus' = OffList(b)
          /\ bufs' = [bufs EXCEPT ![b].count = @ + 1, ![b].priority = Lowered(@)]
          /\ Got(b)
    /\ UNCHANGED <<hashed, freelist, c_count, c_maxcount, opens, gets>>

(* Mutant: a buffer taken from the free list keeps its data and flags.     *)
KeepsContent(old, key) == [old EXCEPT !.key = key, !.count = 1, !.priority = 0]

(* __initbuf: zeros, no flags.                                             *)
initbuf(old, key) ==
    [key |-> key, len |-> key.len, content |-> Zeros, uptodate |-> FALSE, count |-> 1, priority |-> 0]

(* A free buffer of the right length, or the first one with new memory, or *)
(* a new buffer.                                                           *)
FreeBuffer(i) ==
    LET fit == {j \in DOMAIN freelist : bufs[freelist[j]].len = lookup.key.len}
    IN  IF fit # {} THEN i \in fit /\ \A j \in fit : i <= j ELSE i = 1

NewBuffer ==
    [key |-> lookup.key, len |-> lookup.key.len, content |-> Zeros,
     uptodate |-> FALSE, count |-> 0, priority |-> 0]

CacheMiss == lookup.at = "search" /\ Hits(lookup.key) = {}

Taken(b) == hashed' = hashed \cup {b} /\ Got(b)

Allocate ==
    /\ CacheMiss /\ c_count < c_maxcount
    /\ c_count' = c_count + 1
    /\ \/ /\ freelist = <<>> /\ freelist' = freelist
          /\ bufs' = Append(bufs, initbuf(NewBuffer, lookup.key))
          /\ Taken(Len(bufs) + 1)
       \/ \E i \in DOMAIN freelist :
             /\ FreeBuffer(i)
             /\ bufs' = [bufs EXCEPT ![freelist[i]] = initbuf(@, lookup.key)]
             /\ freelist' = RemoveAt(freelist, i)
             /\ Taken(freelist[i])
    /\ UNCHANGED <<mrus, c_maxcount, opens, gets>>

CountAfterShake(n) == c_count - n

(* Mutant: the limit stays.                                                *)
NotExpanded == c_maxcount

(* cache_expand.                                                           *)
Expanded == c_maxcount * 2

(* libxfs_bulkrelse of what was shaken.  (None is dirty and none on a list *)
(* has an error, so that flush never fails.)                               *)
Released(gone) == gone \o freelist

(* The oldest buffers of one priority go to the free list.                 *)
cache_shake ==
    /\ CacheMiss /\ c_count >= c_maxcount
    /\ LET p    == lookup.priority
           n    == IF Len(mrus[p]) < ShakeCount THEN Len(mrus[p]) ELSE ShakeCount
           kept == SubSeq(mrus[p], 1, Len(mrus[p]) - n)
           gone == SubSeq(mrus[p], Len(mrus[p]) - n + 1, Len(mrus[p]))
           next == IF n = ShakeCount THEN p ELSE p + 1
       IN  /\ mrus' = [mrus EXCEPT ![p] = kept]
           /\ hashed' = hashed \ ToSet(gone)
           /\ freelist' = Released(gone)
           /\ c_count' = CountAfterShake(n)
           /\ IF next > MaxPriority
              THEN c_maxcount' = Expanded /\ lookup' = [lookup EXCEPT !.priority = 0]
              ELSE c_maxcount' = c_maxcount /\ lookup' = [lookup EXCEPT !.priority = next]
    /\ UNCHANGED <<bufs, opens, gets>>

(* libxfs_readbuf: a buffer that is up to date is not read again; one that *)
(* could not be read holds zeros or part of its block, and nobody is told. *)
libxfs_readbuf ==
    /\ lookup.at = "read"
    /\ LET b == lookup.buf
       IN  \/ bufs[b].uptodate /\ bufs' = bufs
           \/ /\ ~bufs[b].uptodate
              /\ bufs' = [bufs EXCEPT ![b].content = lookup.key, ![b].uptodate = TRUE]
           \/ /\ ~bufs[b].uptodate
              /\ \E c \in {bufs[b].content, lookup.key} : bufs' = [bufs EXCEPT ![b].content = c]
    /\ lookup' = IF lookup.put THEN [lookup EXCEPT !.at = "put"] ELSE NoLookup
    /\ UNCHANGED <<hashed, mrus, freelist, c_count, c_maxcount, opens, gets>>

(* The last user puts the buffer on the list of its priority.              *)
cache_node_put(b) ==
    /\ bufs' = [bufs EXCEPT ![b].count = @ - 1]
    /\ mrus' = IF bufs[b].count = 1 THEN [mrus EXCEPT ![bufs[b].priority] = <<b>> \o @] ELSE mrus

libxfs_putbuf ==
    /\ lookup.at = "put"
    /\ cache_node_put(lookup.buf)
    /\ lookup' = NoLookup
    /\ UNCHANGED <<hashed, freelist, c_count, c_maxcount, opens, gets>>

Lookup == CacheHit \/ Allocate \/ cache_shake \/ libxfs_readbuf \/ libxfs_putbuf

CacheNext == cache_init \/ libxfs_getbuf_flags \/ Lookup

CacheSpec == CacheInit /\ [][CacheNext]_cacheVars /\ WF_cacheVars(Lookup)
-----------------------------------------------------------------------------
Buffers ==
    [key : Keys, len : {k.len : k \in Keys}, content : Keys \cup {Zeros},
     uptodate : BOOLEAN, count : Nat, priority : 0 .. MaxPriority]

CacheTypeOK ==
    /\ bufs \in Seq(Buffers)
    /\ hashed \subseteq DOMAIN bufs /\ IsFiniteSet(hashed)
    /\ mrus \in [0 .. MaxPriority -> Seq(hashed)]
    /\ freelist \in Seq(DOMAIN bufs)
    /\ c_count \in Nat /\ c_maxcount \in Nat
    /\ \/ lookup = NoLookup
       \/ lookup \in [at : {"search"}, key : Keys, priority : 0 .. MaxPriority, put : BOOLEAN]
       \/ lookup \in [at : {"read", "put"}, buf : hashed, key : Keys, put : BOOLEAN]
    /\ opens \in 0 .. MaxOpens /\ gets \in 0 .. MaxGets

(* The cache is what its parts say: the count is the number of buffers in  *)
(* it, a buffer nobody uses is on the list of its priority and on no       *)
(* other, and no buffer of the cache is on the free list, so that memory   *)
(* the scan looks at is never given to another block.                      *)
CacheConsistent ==
    /\ c_count = Cardinality(hashed)
    /\ hashed \cap ToSet(freelist) = {}
    /\ \A p \in 0..MaxPriority :
          ToSet(mrus[p]) = {b \in hashed : bufs[b].count = 0 /\ bufs[b].priority = p}
    /\ IsInjective(freelist)
    /\ \A p \in 0..MaxPriority : IsInjective(mrus[p])

(* The buffer of a lookup that found one is the one asked for, and is in   *)
(* use.                                                                    *)
LookupHolds ==
    lookup.at \in {"read", "put"} =>
        bufs[lookup.buf].key = lookup.key /\ bufs[lookup.buf].count > 0

(* One buffer per block and length.                                        *)
OneBufferPerKey == \A b, c \in hashed : bufs[b].key = bufs[c].key => b = c

(* A buffer holds its own block, at least one that counts as up to date;   *)
(* or zeros when the read failed: never what it held before it was         *)
(* released.                                                               *)
NoForeignData ==
    \A b \in hashed :
        /\ bufs[b].content \in {Zeros, bufs[b].key}
        /\ bufs[b].uptodate => bufs[b].content = bufs[b].key

(* A lookup ends although the scan never releases a buffer: the limit is   *)
(* doubled when nothing can be shaken.                                     *)
LookupEnds == (lookup # NoLookup) ~> (lookup = NoLookup)

(* What the cache promises at every step, shaken and expanded or not.      *)
CacheInvariant ==
    CacheTypeOK /\ CacheConsistent /\ LookupHolds /\ OneBufferPerKey /\ NoForeignData
=============================================================================
