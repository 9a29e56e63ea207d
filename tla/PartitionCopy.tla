--------------------------- MODULE PartitionCopy ---------------------------
(***************************************************************************)
(* The handlers that copy a partition to a partition                       *)
(* (gdbus_sysbak_extfs_ptp and its fatfs, btrfs and xfsfs copies).  One    *)
(* invocation, from the call to the last signal.  Every step that can fail *)
(* may fail; the failed write of a chunk leaves any part of it on the      *)
(* target.                                                                 *)
(***************************************************************************)
EXTENDS DataPlane, FiniteSets

CONSTANTS
    Source,       \* the contents of the source partition, block by block
    TargetSizes,  \* the sizes, in blocks, the target partition may have
    OldContents   \* what a block of the target may hold beforehand

ASSUME SourceAssumption      == Source \in [Blocks -> Contents]
ASSUME TargetSizesAssumption == TargetSizes \subseteq Nat

VARIABLES
    pc,           \* the next step of the handler
    e_code,       \* index of the error message, -1 before there is one
    replies,      \* how often the invocation has been completed
    bitmap,       \* the used blocks, as read_bitmap_info delivers them
    usedblocks,   \* the superblock's count of used blocks
    size,         \* number of blocks of the target partition
    block_id,     \* next block of the copy loop
    blocks_read,  \* length of the chunk in the buffer
    buffer,       \* contents of the chunk in the buffer
    target,       \* contents of the target partition
    percent       \* last percentage signalled, 0 before there is one

vars == <<pc, e_code, replies, bitmap, usedblocks, size, block_id,
          blocks_read, buffer, target, percent>>

fs   == <<bitmap, usedblocks, size>>
loop == <<block_id, blocks_read, buffer, target, percent>>

Steps == {"open_source", "open_target", "read_super_blocks", "check_memory",
          "read_bitmap", "check_space", "reply", "read", "write", "sync",
          "error", "finished", "failed"}

Init ==
    /\ pc = "open_source"
    /\ e_code = -1
    /\ replies = 0
    /\ bitmap \in SUBSET Blocks
    /\ usedblocks \in 0 .. TotalBlocks
    /\ size \in TargetSizes
    /\ block_id = 0
    /\ blocks_read = 0
    /\ buffer = <<>>
    /\ target \in [0 .. size - 1 -> OldContents]
    /\ percent = 0

Goto(step) == pc' = step /\ e_code' = e_code

Fail(code) == pc' = "error" /\ e_code' = code

(* One of the steps before the copy: it succeeds or ends the invocation    *)
(* with its own error code.                                                *)
Prepare(step, next, code) ==
    /\ pc = step
    /\ Goto(next) \/ Fail(code)
    /\ UNCHANGED <<replies, fs, loop>>

OpenSource      == Prepare("open_source", "open_target", 1)
OpenTarget      == Prepare("open_target", "read_super_blocks", 2)
ReadSuperBlocks == Prepare("read_super_blocks", "check_memory", 3)
CheckMemory     == Prepare("check_memory", "read_bitmap", 4)
ReadBitmap      == Prepare("read_bitmap", "check_space", 5)

(* Mutant: the size of the target is not looked at.                        *)
CheckSpaceSkipped ==
    /\ pc = "check_space"
    /\ Goto("reply")
    /\ UNCHANGED <<replies, fs, loop>>

(* get_partition_free_space is the size of the target device.              *)
CheckSpace ==
    /\ pc = "check_space"
    /\ IF size < TotalBlocks THEN Fail(6) ELSE Goto("reply")
    /\ UNCHANGED <<replies, fs, loop>>

Reply ==
    /\ pc = "reply"
    /\ Goto("read")
    /\ replies' = replies + 1
    /\ UNCHANGED <<fs, loop>>

ReadChunk ==
    /\ pc = "read"
    /\ \E start \in block_id .. TotalBlocks, n \in 1 .. BufferCapacity :
          /\ get_read_blocks_size(block_id, bitmap, start, n)
          /\ block_id' = start
          /\ blocks_read' = n
          /\ buffer' = [i \in 0 .. n - 1 |-> Source[start + i]]
    /\ Goto("write")
    /\ UNCHANGED <<replies, fs, target, percent>>

ReadFails ==
    /\ pc = "read"
    /\ ~NothingLeft(block_id, bitmap)
    /\ Fail(8)
    /\ UNCHANGED <<replies, fs, loop>>

(* The target after the first n blocks of the buffer were written at block_id. *)
Written(n) ==
    [b \in DOMAIN target |->
        IF b \in block_id .. block_id + n - 1 THEN buffer[b - block_id]
                                              ELSE target[b]]

WriteChunk ==
    /\ pc = "write"
    /\ block_id + blocks_read =< size
    /\ target' = Written(blocks_read)
    /\ block_id' = block_id + blocks_read
    /\ percent' = progress_update(block_id', usedblocks)
    /\ Goto("read")
    /\ UNCHANGED <<replies, fs, blocks_read, buffer>>

(* Mutant: a short write is taken for a whole one.                         *)
WriteFailsUnnoticed ==
    /\ pc = "write"
    /\ \E n \in 0 .. blocks_read - 1 : target' = Written(n)
    /\ block_id' = block_id + blocks_read
    /\ Goto("read")
    /\ UNCHANGED <<replies, fs, blocks_read, buffer, percent>>

WriteFails ==
    /\ pc = "write"
    /\ \E n \in 0 .. blocks_read - 1 : target' = Written(n)
    /\ Fail(8)
    /\ UNCHANGED <<replies, fs, block_id, blocks_read, buffer, percent>>

(* Mutant: the loop does not leave when nothing is left.                   *)
EndOfDataMissed == pc = "read" /\ NothingLeft(block_id, bitmap) /\ UNCHANGED vars

EndOfData ==
    /\ pc = "read"
    /\ NothingLeft(block_id, bitmap)
    /\ Goto("sync")
    /\ UNCHANGED <<replies, fs, loop>>

(* fsync and close, then the finished signal.                              *)
EmitFinished ==
    /\ pc = "sync"
    /\ Goto("finished")
    /\ UNCHANGED <<replies, fs, loop>>

(* The ERROR label: the invocation is completed, again when the copy had   *)
(* begun, and the error signal follows.                                    *)
EmitError ==
    /\ pc = "error"
    /\ Goto("failed")
    /\ replies' = replies + 1
    /\ UNCHANGED <<fs, loop>>

(* The handler has returned to the main loop.                              *)
Done == pc \in {"finished", "failed"} /\ UNCHANGED vars

Next == \/ OpenSource \/ OpenTarget \/ ReadSuperBlocks \/ CheckMemory
        \/ ReadBitmap \/ CheckSpace \/ Reply
        \/ ReadChunk \/ ReadFails \/ WriteChunk \/ WriteFails \/ EndOfData
        \/ EmitFinished \/ EmitError \/ Done

Spec == Init /\ [][Next]_vars

(* The handler runs to its end on the main loop: nothing else has to happen *)
(* for it to take its next step.                                           *)
FairSpec == Spec /\ WF_vars(Next)
-----------------------------------------------------------------------------
TypeOK ==
    /\ pc \in Steps
    /\ e_code \in {-1} \cup 1 .. 8
    /\ replies \in 0 .. 2
    /\ bitmap \in SUBSET Blocks
    /\ usedblocks \in 0 .. TotalBlocks
    /\ size \in TargetSizes
    /\ block_id \in 0 .. TotalBlocks
    /\ blocks_read \in 0 .. BufferCapacity
    /\ pc = "write" => buffer \in [0 .. blocks_read - 1 -> Contents]
    /\ target \in [0 .. size - 1 -> Contents \cup OldContents]
    /\ percent \in 0 .. 100

(* What "finished" promises: every block the bitmap marks as used has been *)
(* copied.  Chunks cut short at the buffer's end, at a gap and at the last *)
(* block all have to join up (the loop of read_write_data_ptp).            *)
FinishedIsComplete ==
    pc = "finished" => \A b \in bitmap : target[b] = Source[b]

(* No write of the copy loop reaches past the end of the target: the one   *)
(* check of the target's size, made before the loop, covers all of them.   *)
WriteInsideTarget ==
    pc = "write" => block_id + blocks_read =< size

(* A block the bitmap does not mark is never written, whatever fails.      *)
UnusedBlocksKept ==
    [][\A b \in DOMAIN target : b \notin bitmap => target'[b] = target[b]]_vars

(* Every invocation ends with the finished or with the error signal.       *)
EveryCallEnds == <>(pc \in {"finished", "failed"})

(* The handler implements the abstract copy: used blocks get their         *)
(* contents in some order, nothing else changes, and success is announced  *)
(* only when all of them are there.                                        *)
status == IF pc \in {"finished", "failed"} THEN pc ELSE "running"

Abstract == INSTANCE AbstractCopy WITH used <- bitmap, device <- target

ImplementsAbstractCopy == Abstract!AbstractSpec
-----------------------------------------------------------------------------
Copying == {"read", "write", "sync", "finished"}

(* The completions of the invocation, step by step.                        *)
RepliesInv ==
    /\ e_code = -1 <=> pc \notin {"error", "failed"}
    /\ replies = (IF pc \in Copying \/ e_code = 8 THEN 1 ELSE 0)
                 + (IF pc = "failed" THEN 1 ELSE 0)

(* The chunk in the buffer is a run of used blocks, read from the source.  *)
ChunkInv ==
    pc = "write" =>
        /\ block_id + blocks_read =< TotalBlocks
        /\ \A b \in block_id .. block_id + blocks_read - 1 :
              b \in bitmap /\ buffer[b - block_id] = Source[b]

(* Behind block_id all used blocks are in place; at the end none is ahead. *)
PrefixInv ==
    /\ \A b \in bitmap : b < block_id => target[b] = Source[b]
    /\ pc \in {"sync", "finished"} => NothingLeft(block_id, bitmap)

(* The inductive invariant behind FinishedIsComplete and WriteInsideTarget: *)
(* it ties the loop's position to the target's contents, and every step of *)
(* the loop to the size check made before it.                              *)
CopyLoopInvariant ==
    /\ RepliesInv
    /\ pc \in Copying \cup {"reply"} => TotalBlocks =< size
    /\ pc \notin Copying \cup {"error", "failed"} => block_id = 0
    /\ ChunkInv
    /\ PrefixInv
=============================================================================
