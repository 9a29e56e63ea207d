------------------------------ MODULE BtrfsBlock -----------------------------
(***************************************************************************)
(* read_tree_block: a tree block is looked for in the extent cache and, if *)
(* it is not there, read from one copy after the other until one has the   *)
(* right checksum, a sane header and the generation its parent names.  If  *)
(* none has, the best copy is tried once more with the generation ignored. *)
(* One block is followed through several reads and releases, next to one   *)
(* of another start or size that overlaps it: a pointer of a damaged tree  *)
(* may ask for either, and a request for one takes a reference away from   *)
(* the other, whoever holds it.                                            *)
(***************************************************************************)
EXTENDS Integers, FiniteSets

CONSTANTS
    MaxCopies, \* the most copies a block has
    MaxGen,    \* generations are 1..MaxGen, 0 asks for none
    MaxReads   \* bound on the calls of read_tree_block

ASSUME BlockAssumption == MaxCopies \in Nat \ {0} /\ MaxGen \in Nat \ {0} /\ MaxReads \in Nat

Generations == 1 .. MaxGen

(* A copy: what a read of it gives ("part": the first piece only), whether *)
(* its checksum and its header are right, and the generation in it.        *)
Copies ==
    {c \in [read : {"whole", "part", "error"}, csum : BOOLEAN, head : BOOLEAN, gen : Generations] :
        /\ c.read # "whole" => ~c.csum /\ ~c.head
        /\ c.read = "error" => c.gen = 1}

NoContent == [read |-> "error", csum |-> FALSE, head |-> FALSE, gen |-> 0]

VARIABLES
    copies, \* the copies of the block, by mirror number
    first,  \* the copy that mirror 0 stands for
    eb,     \* the extent buffer: references, uptodate, EXTENT_BAD_TRANSID, on recow_ebs, content
    held,   \* how many callers hold the buffer
    want,   \* parent_transid of the call
    tryOf,  \* mirror_num, good_mirror, best_transid and ignore of the call
    fresh,  \* the buffer was not uptodate when the call began
    near,   \* the overlapping buffer: its references, and how many callers hold it
    dangling,   \* pointers of callers to buffers that were freed under them
    overlapped, \* a request has met a cached block that it overlaps
    reads,
    bpc

nearVars  == <<near, dangling, overlapped>>
blockVars == <<copies, first, eb, held, want, tryOf, fresh, nearVars, reads, bpc>>

NoBuffer == [refs |-> 0, uptodate |-> FALSE, bad |-> FALSE, recow |-> FALSE, content |-> NoContent]
Nobody   == [refs |-> 0, held |-> 0]
NoTry    == [mirror |-> 0, good |-> 0, best |-> 0, ignore |-> FALSE]

BlockInit ==
    /\ copies = <<>> /\ first = 1
    /\ eb = NoBuffer /\ held = 0 /\ want = 0 /\ tryOf = NoTry /\ fresh = FALSE
    /\ near = Nobody /\ dangling = 0 /\ overlapped = FALSE
    /\ reads = 0 /\ bpc = "new"

(* The block that is followed, on some disks.                              *)
someBlock ==
    /\ bpc = "new" /\ bpc' = "idle"
    /\ \E n \in 1 .. MaxCopies : copies' \in [1 .. n -> Copies] /\ first' \in 1 .. n
    /\ UNCHANGED <<eb, held, want, tryOf, fresh, nearVars, reads>>

num_copies == Cardinality(DOMAIN copies)
-----------------------------------------------------------------------------
(* free_extent_buffer: the last reference takes it out of the cache.       *)
Freed(b) == IF b.refs = 1 THEN NoBuffer ELSE [b EXCEPT !.refs = @ - 1]

(* free_extent_buffer while n callers hold the buffer: with its last       *)
(* reference gone, their pointers dangle.                                  *)
letGo(n) ==
    /\ eb' = Freed(eb)
    /\ IF eb.refs = 1 THEN held' = 0 /\ dangling' = dangling + n
       ELSE held' = n /\ UNCHANGED dangling

letGoNear(n) ==
    IF near.refs = 1 THEN near' = Nobody /\ dangling' = dangling + n
    ELSE near' = [refs |-> near.refs - 1, held |-> n] /\ UNCHANGED dangling

(* verify_parent_transid and what it does to the buffer.                   *)
verify_parent_transid(b, transid, ignore) ==
    IF transid = 0 \/ b.content.gen = transid
    THEN [ok |-> TRUE, b |-> b]
    ELSE IF ignore
    THEN [ok |-> TRUE, b |-> [b EXCEPT !.bad = TRUE]]
    ELSE [ok |-> FALSE, b |-> [b EXCEPT !.uptodate = FALSE]]

(* The buffer as the caller gets it: found uptodate, or still to be read.  *)
foundOrMade(b, transid) ==
    /\ IF b.uptodate
       THEN eb' = verify_parent_transid(b, transid, TRUE).b /\ held' = held + 1 /\ bpc' = "idle" /\ fresh' = FALSE
       ELSE eb' = b /\ bpc' = "reading" /\ fresh' = TRUE /\ UNCHANGED held
    /\ want' = transid /\ tryOf' = NoTry

(* alloc_extent_buffer finds another block in the way: it lets go of it    *)
(* and, if that was the last reference, goes on.                           *)
refusedByNear == near.refs > 1 /\ bpc' = "refused" /\ fresh' = FALSE /\ UNCHANGED <<eb, held, want, tryOf>>

(* Mutant: a buffer found in the cache is given out uncounted.             *)
find_createUncounted(transid) ==
    /\ bpc = "idle" /\ reads < MaxReads /\ reads' = reads + 1
    /\ IF near.refs = 0 THEN UNCHANGED nearVars ELSE letGoNear(near.held) /\ overlapped' = TRUE
    /\ \/ refusedByNear
       \/ near.refs <= 1 /\ foundOrMade(IF eb.refs = 0 THEN [eb EXCEPT !.refs = 1] ELSE eb, transid)
    /\ UNCHANGED <<copies, first>>

(* read_tree_block enters: alloc_extent_buffer finds the buffer or makes   *)
(* one; an uptodate buffer is returned whatever its generation.            *)
find_create(transid) ==
    /\ bpc = "idle" /\ reads < MaxReads /\ reads' = reads + 1
    /\ IF near.refs = 0 THEN UNCHANGED nearVars ELSE letGoNear(near.held) /\ overlapped' = TRUE
    /\ \/ refusedByNear
       \/ near.refs <= 1 /\ foundOrMade([eb EXCEPT !.refs = @ + 1], transid)
    /\ UNCHANGED <<copies, first>>

(* read_tree_block for the overlapping block, which may be unreadable.     *)
read_near ==
    /\ bpc = "idle" /\ reads < MaxReads /\ reads' = reads + 1
    /\ IF eb.refs = 0 THEN UNCHANGED <<eb, held, dangling, overlapped>> ELSE letGo(held) /\ overlapped' = TRUE
    /\ \/ near.refs > 0 /\ near' = [refs |-> near.refs + 1, held |-> near.held + 1]
       \/ near.refs = 0 /\ eb.refs <= 1 /\ near' \in {[refs |-> 1, held |-> 1], Nobody}
       \/ near.refs = 0 /\ eb.refs > 1 /\ UNCHANGED near
    /\ fresh' = FALSE
    /\ UNCHANGED <<copies, first, want, tryOf, bpc>>

(* A failed read leaves what the buffer held, or the first piece of the    *)
(* copy.                                                                   *)
read_extent_from_disk(c) ==
    IF c.read = "error" THEN [eb.content EXCEPT !.read = "error"] ELSE c

read_whole_eb == read_extent_from_disk(copies[IF tryOf.mirror = 0 THEN first ELSE tryOf.mirror])

csum_tree_block(c)  == c.csum
check_tree_block(c) == c.head

Sane(c) == c.read = "whole" /\ csum_tree_block(c) /\ check_tree_block(c)

(* Mutant: the copy to ignore the generation of is taken without a retry.  *)
NextTryHasty(gen) ==
    [tryOf EXCEPT !.ignore = TRUE]

(* Mutant: the first copy is read again for ever.                          *)
NextTryStuck(gen) ==
    IF num_copies = 1 THEN [tryOf EXCEPT !.ignore = TRUE] ELSE tryOf

NextTry(gen) ==
    IF num_copies = 1
    THEN [tryOf EXCEPT !.ignore = TRUE]
    ELSE LET better == gen > tryOf.best /\ tryOf.mirror # 0
             good   == IF better THEN tryOf.mirror ELSE tryOf.good
             best   == IF better THEN gen ELSE tryOf.best
         IN IF tryOf.mirror + 1 > num_copies
            THEN [mirror |-> good, good |-> good, best |-> best, ignore |-> TRUE]
            ELSE [mirror |-> tryOf.mirror + 1, good |-> good, best |-> best, ignore |-> FALSE]

(* One turn of the loop of read_tree_block_fs_info.                        *)
attempt ==
    /\ bpc = "reading"
    /\ LET b == [eb EXCEPT !.content = read_whole_eb]
           v == verify_parent_transid(b, want, tryOf.ignore)
           onList == v.b.bad /\ ~v.b.recow
       IN IF Sane(b.content) /\ v.ok
          THEN /\ eb' = [v.b EXCEPT !.uptodate = TRUE, !.recow = @ \/ onList,
                                    !.refs = IF onList THEN @ + 1 ELSE @]
               /\ held' = held + 1 /\ bpc' = "idle" /\ UNCHANGED tryOf
          ELSE LET e == IF Sane(b.content) THEN v.b ELSE b
               IN IF tryOf.ignore
                  THEN eb' = Freed(e) /\ bpc' = "failed" /\ UNCHANGED <<held, tryOf>>
                  ELSE eb' = e /\ tryOf' = NextTry(b.content.gen) /\ UNCHANGED <<held, bpc>>
    /\ UNCHANGED <<copies, first, want, fresh, nearVars, reads>>

(* The caller of a failed read goes on with something else.                *)
giveUp ==
    /\ bpc \in {"failed", "refused"} /\ bpc' = "idle"
    /\ UNCHANGED <<copies, first, eb, held, want, tryOf, fresh, nearVars, reads>>

(* A caller lets go of the buffer, or of the overlapping one.              *)
release ==
    /\ bpc = "idle" /\ fresh' = FALSE
    /\ \/ held > 0 /\ letGo(held - 1) /\ UNCHANGED near
       \/ near.held > 0 /\ letGoNear(near.held - 1) /\ UNCHANGED <<eb, held>>
    /\ UNCHANGED <<copies, first, want, tryOf, overlapped, reads, bpc>>

(* A caller reads, or lets go of, a buffer that was freed under it.        *)
useFreed ==
    /\ bpc = "idle" /\ dangling > 0 /\ bpc' = "undefined"
    /\ UNCHANGED <<copies, first, eb, held, want, tryOf, fresh, nearVars, reads>>

(* btrfs_cleanup_all_caches empties recow_ebs.                             *)
dropRecow ==
    /\ bpc = "idle" /\ eb.recow /\ fresh' = FALSE
    /\ eb' = Freed([eb EXCEPT !.recow = FALSE])
    /\ IF eb.refs = 1 THEN held' = 0 /\ dangling' = dangling + held ELSE UNCHANGED <<held, dangling>>
    /\ UNCHANGED <<copies, first, want, tryOf, near, overlapped, reads, bpc>>

BlockNext ==
    \/ someBlock
    \/ \E transid \in {0} \cup Generations : find_create(transid)
    \/ read_near \/ attempt \/ giveUp \/ release \/ useFreed \/ dropRecow
-----------------------------------------------------------------------------
Good(c) == Sane(c) /\ (want = 0 \/ c.gen = want)

(* A buffer that is uptodate holds one whole copy with a right checksum    *)
(* and a sane header, however many copies were tried for it.               *)
UptodateIsSane ==
    eb.uptodate =>
        /\ eb.content.read = "whole" /\ eb.content.csum /\ eb.content.head
        /\ \E m \in DOMAIN copies : eb.content = copies[m]

(* A read from disk finds the right copy whenever there is one: it neither *)
(* fails nor settles for another generation while a good copy is left.     *)
RightCopyWins ==
    (\E m \in DOMAIN copies : Good(copies[m])) =>
        /\ bpc # "failed"
        /\ (bpc = "idle" /\ fresh) => Good(eb.content)

(* A buffer of a wrong generation that a caller was given carries the mark *)
(* EXTENT_BAD_TRANSID.                                                     *)
WrongGenerationMarked ==
    (bpc = "idle" /\ held > 0 /\ want # 0 /\ eb.content.gen # want) => eb.bad

(* Who has a reference: the callers, recow_ebs and a read under way.       *)
Holders == held + (IF eb.recow THEN 1 ELSE 0) + (IF bpc = "reading" THEN 1 ELSE 0)

(* A buffer is in the cache exactly while somebody holds it, the callers   *)
(* and the list recow_ebs, and no caller is left with a freed one, as long *)
(* as no request met a block that it overlaps.  After such a request there *)
(* may be fewer references than holders, but never more: nothing stays in  *)
(* the cache that nobody holds, nor do both blocks.                        *)
ReferencesHeld ==
    /\ eb.refs <= Holders /\ near.refs <= near.held
    /\ eb.refs = 0 \/ near.refs = 0
    /\ eb.refs = 0 => Holders = 0
    /\ near.refs = 0 => near.held = 0
    /\ ~overlapped => eb.refs = Holders /\ near.refs = near.held /\ dangling = 0 /\ bpc # "undefined"

(* A call of read_tree_block ends.                                         *)
ReadEnds == (bpc = "reading") ~> (bpc # "reading")

ExtentBuffers ==
    [refs : Nat, uptodate : BOOLEAN, bad : BOOLEAN, recow : BOOLEAN,
     content : [read : {"whole", "part", "error"}, csum : BOOLEAN, head : BOOLEAN, gen : 0 .. MaxGen]]

Tries == [mirror : 0 .. MaxCopies, good : 0 .. MaxCopies, best : 0 .. MaxGen, ignore : BOOLEAN]

NearTypeOK == near \in [refs : Nat, held : Nat] /\ dangling \in Nat /\ overlapped \in BOOLEAN

BlockTypeOK ==
    /\ bpc \in {"new", "idle", "reading", "failed", "refused", "undefined"}
    /\ bpc # "new" => \E n \in 1 .. MaxCopies : copies \in [1 .. n -> Copies] /\ first \in 1 .. n
    /\ eb \in ExtentBuffers /\ tryOf \in Tries
    /\ held \in Nat /\ want \in 0 .. MaxGen /\ reads \in 0 .. MaxReads
    /\ fresh \in BOOLEAN /\ NearTypeOK

(* Nobody but the call under way has a buffer that is not uptodate, and    *)
(* before the first call, or when a call is refused, nothing has been read *)
(* and nobody has the buffer.                                              *)
StaleIsUnshared ==
    /\ ~eb.uptodate => held = 0 /\ ~eb.recow
    /\ bpc \in {"new", "reading", "failed"} => ~eb.uptodate
    /\ bpc \in {"new", "refused"} => ~fresh /\ held = 0

(* The mirrors before the one that is to be tried hold no good copy, and   *)
(* the generation is ignored only when no mirror does.                     *)
TriedInVain ==
    bpc = "reading" =>
        /\ tryOf.mirror \in {0} \cup DOMAIN copies /\ tryOf.good \in {0} \cup DOMAIN copies
        /\ \A m \in 1 .. tryOf.mirror - 1 : tryOf.ignore \/ ~Good(copies[m])
        /\ tryOf.ignore => \A m \in DOMAIN copies : ~Good(copies[m])

(* What a caller of read_tree_block may rely on, with what the loop over   *)
(* the mirrors needs for it.                                               *)
BufferSound ==
    /\ BlockTypeOK
    /\ UptodateIsSane /\ WrongGenerationMarked /\ ReferencesHeld
    /\ StaleIsUnshared /\ TriedInVain
=============================================================================
