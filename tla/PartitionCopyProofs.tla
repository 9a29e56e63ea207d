------------------------ MODULE PartitionCopyProofs ------------------------
(***************************************************************************)
(* PartitionCopy for every partition, bitmap, buffer capacity and target:  *)
(* its type invariant, that "finished" means every used block is in place, *)
(* that no write leaves the target, that unused blocks are kept, and that  *)
(* the handler implements AbstractCopy.                                    *)
(***************************************************************************)
EXTENDS PartitionCopy, TLAPS

USE TotalBlocksAssumption, BufferCapacityAssumption

(* The percentage computed by progress_update is a number from 0 to 100.   *)
LEMMA ProgressType ==
    ASSUME NEW copied \in Nat, NEW stop \in Nat
    PROVE  progress_update(copied, stop) \in 0 .. 100
<1>1. CASE copied >= stop
    BY <1>1 DEF progress_update
<1>2. CASE copied < stop
    <2>1. stop > 0 /\ 100 * copied \in Nat /\ 100 * copied < 100 * stop
        BY <1>2
    <2>2. (100 * copied) \div stop \in 0 .. 100
        BY <2>1, SMTT(30)
    <2>3. QED BY <1>2, <2>2 DEF progress_update
<1>3. QED BY <1>1, <1>2

(* Writing the head of a well-typed buffer keeps the target well typed.    *)
LEMMA WrittenType ==
    ASSUME TypeOK, pc = "write", NEW n \in 0 .. blocks_read
    PROVE  Written(n) \in [0 .. size - 1 -> Contents \cup OldContents]
<1>1. /\ buffer \in [0 .. blocks_read - 1 -> Contents]
      /\ target \in [0 .. size - 1 -> Contents \cup OldContents]
      /\ blocks_read \in Nat /\ block_id \in Nat
    BY DEF TypeOK
<1>2. ASSUME NEW b \in 0 .. size - 1, b \in block_id .. block_id + n - 1
      PROVE  buffer[b - block_id] \in Contents
    <2>1. b - block_id \in 0 .. blocks_read - 1
        BY <1>1, <1>2
    <2>2. QED BY <1>1, <2>1
<1>3. QED BY <1>1, <1>2 DEF Written

(* Initially nothing has been copied and nothing has been answered.        *)
LEMMA InvInit == Init => TypeOK /\ CopyLoopInvariant
<1> SUFFICES ASSUME Init PROVE TypeOK /\ CopyLoopInvariant
    OBVIOUS
<1>1. target \in [0 .. size - 1 -> Contents \cup OldContents]
    BY DEF Init
<1>2. TypeOK
    BY <1>1 DEF Init, TypeOK, Steps
<1>3. CopyLoopInvariant
    BY DEF Init, CopyLoopInvariant, RepliesInv, Copying, ChunkInv, PrefixInv, Blocks
<1>4. QED BY <1>2, <1>3

(* Every step keeps every variable's type and the loop invariant, whether  *)
(* it succeeds or fails.                                                   *)
LEMMA InvStep ==
    TypeOK /\ CopyLoopInvariant /\ [Next]_vars => TypeOK' /\ CopyLoopInvariant'
<1> SUFFICES ASSUME TypeOK, CopyLoopInvariant, [Next]_vars
             PROVE  TypeOK' /\ CopyLoopInvariant'
    OBVIOUS
<1> USE DEF CopyLoopInvariant, RepliesInv, Copying, ChunkInv, PrefixInv,
            TypeOK, Steps, Goto, Fail, fs, loop
<1>1. CASE OpenSource \/ OpenTarget \/ ReadSuperBlocks \/ CheckMemory \/ ReadBitmap
    <2>1. PICK step \in {"open_source", "open_target", "read_super_blocks",
                         "check_memory", "read_bitmap"},
               next \in {"open_target", "read_super_blocks", "check_memory",
                         "read_bitmap", "check_space"},
               code \in 1 .. 5 : Prepare(step, next, code)
        BY <1>1 DEF OpenSource, OpenTarget, ReadSuperBlocks, CheckMemory, ReadBitmap
    <2>2. QED BY <2>1 DEF Prepare
<1>2. CASE CheckSpace
    BY <1>2, TargetSizesAssumption DEF CheckSpace
<1>3. CASE Reply
    BY <1>3 DEF Reply
<1>4. CASE ReadChunk
    <2>1. PICK start \in block_id .. TotalBlocks, n \in 1 .. BufferCapacity :
             /\ get_read_blocks_size(block_id, bitmap, start, n)
             /\ block_id' = start
             /\ blocks_read' = n
             /\ buffer' = [i \in 0 .. n - 1 |-> Source[start + i]]
        BY <1>4 DEF ReadChunk
    <2>2. pc' = "write" /\ UNCHANGED <<e_code, replies, bitmap, usedblocks, size, target, percent>>
        BY <1>4 DEF ReadChunk
    <2>3. start + n =< TotalBlocks
        BY <2>1 DEF get_read_blocks_size, UsedRun
    <2>4. \A i \in 0 .. n - 1 : start + i \in Blocks
        BY <2>3 DEF Blocks
    <2>5. TypeOK'
        <3>1. buffer' \in [0 .. n - 1 -> Contents]
            BY <2>1, <2>4, SourceAssumption
        <3>2. block_id' \in 0 .. TotalBlocks /\ blocks_read' \in 0 .. BufferCapacity
            BY <2>1
        <3>3. QED BY <2>1, <2>2, <3>1, <3>2
    <2>6. ChunkInv'
        <3>1. \A b \in start .. start + n - 1 : b \in bitmap
            BY <2>1, <2>3 DEF get_read_blocks_size, UsedRun, pc_test_bit
        <3>2. \A b \in start .. start + n - 1 : buffer'[b - start] = Source[b]
            BY <2>1
        <3>3. QED BY <2>1, <2>2, <2>3, <3>1, <3>2
    <2>7. PrefixInv'
        BY <1>4, <2>1, <2>2 DEF get_read_blocks_size, UsedRun, pc_test_bit, ReadChunk, Blocks
    <2>8. QED BY <1>4, <2>2, <2>5, <2>6, <2>7 DEF ReadChunk
<1>5. CASE ReadFails \/ EmitFinished
    <2>1. NothingLeft(block_id, bitmap) => NothingLeft(block_id, bitmap)'
        BY <1>5 DEF ReadFails, EmitFinished, NothingLeft, pc_test_bit
    <2>2. CASE ReadFails
        BY <2>2 DEF ReadFails
    <2>3. CASE EmitFinished
        BY <2>1, <2>3 DEF EmitFinished
    <2>4. QED BY <1>5, <2>2, <2>3
<1>6. CASE EndOfData
    BY <1>6 DEF EndOfData, NothingLeft, pc_test_bit
<1>7. CASE WriteChunk
    <2>1. pc = "write" /\ pc' = "read" /\ target' = Written(blocks_read)
          /\ block_id' = block_id + blocks_read
        BY <1>7 DEF WriteChunk
    <2>2. target' \in [0 .. size - 1 -> Contents \cup OldContents]
        BY <2>1, WrittenType
    <2>3. percent' \in 0 .. 100
        <3>1. block_id' \in Nat /\ usedblocks \in Nat
            BY <2>1
        <3>2. percent' = progress_update(block_id', usedblocks)
            BY <1>7 DEF WriteChunk
        <3>3. QED BY <3>1, <3>2, ProgressType
    <2>4. TypeOK'
        BY <1>7, <2>1, <2>2, <2>3 DEF WriteChunk
    <2>5. ASSUME NEW b \in bitmap, b < block_id + blocks_read
          PROVE  Written(blocks_read)[b] = Source[b]
        BY <2>1, <2>5, TargetSizesAssumption DEF Written, Blocks
    <2>6. QED BY <1>7, <2>1, <2>4, <2>5 DEF WriteChunk
<1>8. CASE WriteFails
    <2>1. PICK n \in 0 .. blocks_read - 1 : target' = Written(n)
        BY <1>8 DEF WriteFails
    <2>2. target' \in [0 .. size - 1 -> Contents \cup OldContents]
        BY <1>8, <2>1, WrittenType DEF WriteFails
    <2>3. ASSUME NEW b \in bitmap, b < block_id
          PROVE  target'[b] = Source[b]
        BY <1>8, <2>1, <2>3, TargetSizesAssumption DEF WriteFails, Written, Blocks
    <2>4. QED BY <1>8, <2>2, <2>3 DEF WriteFails
<1>9. CASE EmitError
    BY <1>9 DEF EmitError
<1>10. CASE Done \/ UNCHANGED vars
    <2>1. UNCHANGED vars
        BY <1>10 DEF Done
    <2>2. NothingLeft(block_id, bitmap) => NothingLeft(block_id, bitmap)'
        BY <2>1 DEF vars, NothingLeft, pc_test_bit
    <2>3. TypeOK'
        BY <2>1 DEF vars
    <2>4. CopyLoopInvariant'
        BY <2>1, <2>2 DEF vars
    <2>5. QED BY <2>3, <2>4
<1>11. QED
    BY <1>1, <1>2, <1>3, <1>4, <1>5, <1>6, <1>7, <1>8, <1>9, <1>10 DEF Next
(* The type invariant and the loop invariant hold throughout.              *)
THEOREM TypeAndLoop == Spec => [](TypeOK /\ CopyLoopInvariant)
<1>1. QED BY InvInit, InvStep, PTL DEF Spec

(* An invocation announces "finished" only when every block its bitmap     *)
(* marks as used is on the target, for every partition and buffer size.    *)
THEOREM FinishedComplete == Spec => []FinishedIsComplete
<1>1. TypeOK /\ CopyLoopInvariant => FinishedIsComplete
    BY DEF TypeOK, CopyLoopInvariant, PrefixInv, NothingLeft, pc_test_bit,
           FinishedIsComplete, Blocks
<1>2. QED BY <1>1, TypeAndLoop, PTL

(* No write of the copy loop reaches past the end of the target.           *)
THEOREM WritesInside == Spec => []WriteInsideTarget
<1>1. TypeOK /\ CopyLoopInvariant => WriteInsideTarget
    BY TargetSizesAssumption
       DEF TypeOK, CopyLoopInvariant, ChunkInv, Copying, WriteInsideTarget
<1>2. QED BY <1>1, TypeAndLoop, PTL

(* A block the bitmap does not mark keeps its contents in every step.      *)
THEOREM UnusedKept == Spec => UnusedBlocksKept
<1> DEFINE Kept == \A b \in DOMAIN target : b \notin bitmap => target'[b] = target[b]
<1>1. TypeOK /\ CopyLoopInvariant /\ [Next]_vars => [Kept]_vars
    <2> SUFFICES ASSUME TypeOK, CopyLoopInvariant, Next, NEW b \in DOMAIN target,
                        b \notin bitmap
                 PROVE  target'[b] = target[b]
        OBVIOUS
    <2>1. ASSUME NEW n \in 0 .. blocks_read, pc = "write", target' = Written(n)
          PROVE  target'[b] = target[b]
        BY <2>1 DEF Written, CopyLoopInvariant, ChunkInv, TypeOK
    <2>2. CASE WriteChunk
        BY <2>1, <2>2 DEF WriteChunk, TypeOK
    <2>3. CASE WriteFails
        BY <2>1, <2>3 DEF WriteFails, TypeOK
    <2>4. CASE UNCHANGED target
        BY <2>4
    <2>5. QED
        BY <2>2, <2>3, <2>4
           DEF Next, OpenSource, OpenTarget, ReadSuperBlocks, CheckMemory,
               ReadBitmap, Prepare, CheckSpace, Reply, ReadChunk, ReadFails,
               EndOfData, EmitFinished, EmitError, Done, loop, vars
<1>2. QED BY <1>1, TypeAndLoop, PTL DEF Spec, UnusedBlocksKept
(* The handler implements the abstract copy: each step copies some used    *)
(* blocks, announces a complete copy, gives up, or changes nothing the     *)
(* abstract copy can see.                                                  *)
THEOREM CopyRefinement == Spec => ImplementsAbstractCopy
<1>1. Init => Abstract!AbstractInit
    BY DEF Init, Abstract!AbstractInit, status
<1>2. TypeOK /\ CopyLoopInvariant /\ [Next]_vars
          => [Abstract!AbstractNext]_(Abstract!avars)
    <2> SUFFICES ASSUME TypeOK, CopyLoopInvariant, [Next]_vars
                 PROVE  Abstract!AbstractNext \/ UNCHANGED <<bitmap, target, status>>
        BY DEF Abstract!avars
    <2>1. ASSUME NEW n \in 0 .. blocks_read, pc = "write", target' = Written(n),
                 UNCHANGED bitmap, pc' \in {"read", "error"}
          PROVE  Abstract!CopySome
        <3> DEFINE S == block_id .. block_id + n - 1
        <3>1. /\ block_id \in Nat /\ blocks_read \in Nat
              /\ \A b \in S : b \in bitmap /\ buffer[b - block_id] = Source[b]
              /\ block_id + n =< TotalBlocks /\ TotalBlocks =< size
              /\ DOMAIN target = 0 .. size - 1
            BY <2>1, TargetSizesAssumption
               DEF TypeOK, CopyLoopInvariant, ChunkInv, Copying
        <3>2. S \in SUBSET (bitmap \cap DOMAIN target)
            BY <3>1, TargetSizesAssumption DEF TypeOK
        <3>3. target' = [b \in DOMAIN target |->
                            IF b \in S THEN Source[b] ELSE target[b]]
            BY <2>1, <3>1 DEF Written
        <3>4. status = "running" /\ status' = "running"
            BY <2>1 DEF status
        <3>5. QED BY <2>1, <3>2, <3>3, <3>4 DEF Abstract!CopySome
    <2>2. CASE WriteChunk
        BY <2>1, <2>2 DEF WriteChunk, Goto, TypeOK, fs, Abstract!AbstractNext
    <2>3. CASE WriteFails
        BY <2>1, <2>3 DEF WriteFails, Fail, TypeOK, fs, Abstract!AbstractNext
    <2>4. CASE EmitFinished
        <3>1. \A b \in bitmap : b \in DOMAIN target /\ target[b] = Source[b]
            BY <2>4, TargetSizesAssumption
               DEF EmitFinished, TypeOK, CopyLoopInvariant, PrefixInv, Copying,
                   NothingLeft, pc_test_bit, Blocks
        <3>2. QED BY <2>4, <3>1 DEF EmitFinished, Goto, fs, loop, status,
                                    Abstract!AbstractNext, Abstract!Finish
    <2>5. CASE EmitError
        BY <2>5 DEF EmitError, Goto, fs, loop, status,
                    Abstract!AbstractNext, Abstract!Abort
    <2>6. CASE OpenSource \/ OpenTarget \/ ReadSuperBlocks \/ CheckMemory \/ ReadBitmap
        BY <2>6 DEF OpenSource, OpenTarget, ReadSuperBlocks, CheckMemory,
                    ReadBitmap, Prepare, Goto, Fail, fs, loop, status
    <2>7. CASE CheckSpace \/ Reply \/ ReadChunk \/ ReadFails \/ EndOfData
        BY <2>7 DEF CheckSpace, Reply, ReadChunk, ReadFails, EndOfData,
                    Goto, Fail, fs, loop, status
    <2>8. CASE Done \/ UNCHANGED vars
        BY <2>8 DEF Done, vars, status
    <2>9. QED BY <2>2, <2>3, <2>4, <2>5, <2>6, <2>7, <2>8 DEF Next
<1>3. QED BY <1>1, <1>2, TypeAndLoop, PTL
             DEF Spec, ImplementsAbstractCopy, Abstract!AbstractSpec
=============================================================================
