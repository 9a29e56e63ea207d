-------------------------- MODULE RoundTripProofs --------------------------
(***************************************************************************)
(* Proofs about backups to an image file, first as calls of their own:     *)
(* what holds at every step of a call, that a backup announced as finished *)
(* is complete and on disk, and that files are kept.  Then with restores   *)
(* between them: what is proved of a restore in RestoreImageProofs is used *)
(* for one that reads whatever the backups left in the file.               *)
(***************************************************************************)
EXTENDS RoundTrip, ImageFormatProofs

USE TotalBlocksAssumption, BufferCapacityAssumption,
    MaxAttemptsAssumption, UsedCountsAssumption, BackupSourceAssumption

(* The cells a backup writes.                                              *)
LEMMA CellTypes ==
    /\ Torn \in Cells /\ Foreign \in Cells
    /\ \A u \in UsedCounts : Desc(u) \in Cells
    /\ \A B \in SUBSET Blocks : Bits(B) \in Cells /\ BitsCrc(B) \in Cells
    /\ \A c \in Contents : Block(c) \in Cells
    /\ \A s \in Seq(Contents) : Len(s) \in 1 .. BufferCapacity => Checksum(s) \in Cells
<1> DEFINE maps == UNION {{Bits(B), BitsCrc(B)} : B \in SUBSET Blocks}
           covered == UNION {[1 .. n -> Contents] : n \in 1 .. BufferCapacity}
           sums == {Checksum(s) : s \in covered}
           descs == {Desc(u) : u \in UsedCounts}
           blocks == {Block(c) : c \in Contents}
<1>1. Cells = {Torn, Foreign} \cup descs \cup maps \cup blocks \cup sums
    BY DEF Cells
<1>2. ASSUME NEW B \in SUBSET Blocks
      PROVE  Bits(B) \in maps /\ BitsCrc(B) \in maps
    <2>1. Bits(B) \in {Bits(B), BitsCrc(B)} /\ BitsCrc(B) \in {Bits(B), BitsCrc(B)}
        OBVIOUS
    <2>2. {Bits(B), BitsCrc(B)} \in {{Bits(A), BitsCrc(A)} : A \in SUBSET Blocks}
        BY SMTT(60)
    <2>3. QED BY <2>1, <2>2, Zenon
<1>3. ASSUME NEW s \in Seq(Contents), Len(s) \in 1 .. BufferCapacity
      PROVE  Checksum(s) \in sums
    <2>1. s \in [1 .. Len(s) -> Contents]
        BY LenProperties
    <2>2. s \in covered
        BY <1>3, <2>1
    <2>3. QED BY <2>2, Zenon
<1>4. \A u \in UsedCounts : Desc(u) \in descs
    OBVIOUS
<1>5. \A c \in Contents : Block(c) \in blocks
    OBVIOUS
<1> HIDE DEF maps, covered, sums, descs, blocks
<1>6. QED BY <1>1, <1>2, <1>3, <1>4, <1>5

(* The constants of a call do not change while the call runs.              *)
LEMMA SameHeaders == UNCHANGED call => Headers' = Headers
BY DEF call, Headers

(* The steps that change nothing but where the handler is, what it has     *)
(* answered and the error it reports.                                      *)
LEMMA ControlStep ==
    ASSUME BackupInvariant, UNCHANGED <<call, disk, chunk, count>>,
           \/ OpenSource \/ ReadSuperBlocks \/ CheckMemory \/ ReadBitmap \/ CheckSpace
           \/ OpenTargetFails \/ ReadFails \/ EndOfData \/ EmitError
    PROVE  BackupInvariant'
<1>1. /\ UNCHANGED <<attempt, family, bitmap, usedblocks, file, synced, sync_failed>>
      /\ UNCHANGED <<i, blocks_in_cs, checksum, write_buffer, cs_added>>
      /\ UNCHANGED <<block_id, blocks_read, copied_count, percent>>
    BY DEF call, disk, chunk, count
<1>2. UNCHANGED overwrite
    BY DEF call
<1>3. TypeOK /\ RepliesInv /\ CallInv /\ RepliesMatchOutcome
    BY DEF BackupInvariant
<1>4. \/ /\ pc' = "error" /\ e_code' \in 1 .. 6 /\ UNCHANGED replies
         /\ pc \in {"open_source", "open_target", "read_super_blocks", "check_memory",
                    "read_bitmap", "check_space"}
      \/ /\ UNCHANGED <<e_code, replies>>
         /\ \/ pc = "open_source" /\ pc' = "open_target"
            \/ pc = "read_super_blocks" /\ pc' = "check_memory"
            \/ pc = "check_memory" /\ pc' = "read_bitmap"
            \/ pc = "read_bitmap" /\ pc' = "check_space"
            \/ pc = "check_space" /\ pc' = "write_desc"
      \/ pc = "read" /\ pc' = "error" /\ e_code' = 8 /\ UNCHANGED replies
      \/ pc = "read" /\ pc' = "trailer" /\ UNCHANGED <<e_code, replies>> /\ NothingLeft(block_id, bitmap)
      \/ pc = "error" /\ pc' = "failed" /\ UNCHANGED e_code /\ replies' = replies + 1
    BY DEF OpenSource, ReadSuperBlocks, CheckMemory, ReadBitmap, CheckSpace, OpenTargetFails,
           ReadFails, EndOfData, EmitError, Prepare, Goto, Fail
<1>5. RepliesInv' /\ RepliesMatchOutcome'
    BY <1>1, <1>3, <1>4, SMTT(60) DEF RepliesInv, RepliesMatchOutcome, ReplyFirst, TypeOK, Preparing
<1>6. TypeOK'
    <2>1. e_code' \in {-1} \cup 1 .. 8
        BY <1>3, <1>4, SMTT(60) DEF TypeOK
    <2>2. replies' \in 0 .. 2
        <3>1. replies \in 0 .. 2 /\ (pc = "error" => replies =< 1)
            BY <1>3 DEF TypeOK, RepliesInv, Preparing
        <3>2. replies' = replies \/ (pc = "error" /\ replies' = replies + 1)
            BY <1>4
        <3>3. QED BY <3>1, <3>2
    <2>3. QED BY <1>1, <1>2, <1>3, <2>1, <2>2 DEF TypeOK, Cells
<1>7. WriteBufferBound' /\ ChunkInv'
    BY <1>1, <1>4 DEF BackupInvariant, WriteBufferBound, ChunkInv
<1>8. CallInv'
    BY <1>1, <1>3, <1>4 DEF CallInv, Preparing
<1>9. CountInv' /\ HundredAtTheEnd'
    BY <1>1, <1>4 DEF BackupInvariant, CountInv, HundredAtTheEnd, NothingLeft, pc_test_bit
<1>10. SyncInv'
    BY <1>1, <1>4 DEF BackupInvariant, SyncInv, SyncEachChunk
<1>11. ImageInv'
    <2>1. Headers' = Headers
        BY SameHeaders
    <2>2. ImageInv
        BY DEF BackupInvariant
    <2>3. QED BY <1>1, <1>4, <2>1, <2>2 DEF ImageInv, Done
<1>12. QED BY <1>5, <1>6, <1>7, <1>8, <1>9, <1>10, <1>11 DEF BackupInvariant

(* What a failed write leaves is a file that begins like the one before.   *)
LEMMA PartlyWrittenType ==
    ASSUME file \in Seq(Cells), NEW s \in Seq(Cells), NEW f \in PartlyWritten(s)
    PROVE  f \in Seq(Cells) /\ Len(file) =< Len(f)
<1>1. PICK k \in 0 .. Len(s) - 1 : f \in {file \o SubSeq(s, 1, k), Append(file \o SubSeq(s, 1, k), Torn)}
    BY DEF PartlyWritten
<1>2. Len(s) \in Nat /\ Len(file) \in Nat /\ \A p \in 1 .. k : s[p] \in Cells
    BY LenProperties, ElementOfSeq
<1>3. SubSeq(s, 1, k) \in Seq(Cells) /\ Len(SubSeq(s, 1, k)) \in Nat
    BY <1>2, SubSeqProperties, LenProperties
<1>4. /\ file \o SubSeq(s, 1, k) \in Seq(Cells)
      /\ Len(file \o SubSeq(s, 1, k)) = Len(file) + Len(SubSeq(s, 1, k))
    BY <1>3, ConcatProperties
<1>5. /\ Append(file \o SubSeq(s, 1, k), Torn) \in Seq(Cells)
      /\ Len(Append(file \o SubSeq(s, 1, k), Torn)) = Len(file \o SubSeq(s, 1, k)) + 1
    BY <1>4, CellTypes, AppendProperties
<1>6. CASE f = file \o SubSeq(s, 1, k)
    BY <1>2, <1>3, <1>4, <1>6
<1>7. CASE f = Append(file \o SubSeq(s, 1, k), Torn)
    BY <1>2, <1>3, <1>4, <1>5, <1>7
<1>8. QED BY <1>1, <1>6, <1>7

(* A call begins, or the daemon or the machine has stopped.                *)
LEMMA RestartStep ==
    ASSUME BackupInvariant, NEW step \in {"idle", "open_source"}, Restart(step),
           attempt' \in 0 .. MaxAttempts, family' \in Families, overwrite' \in BOOLEAN,
           bitmap' \in SUBSET Blocks, usedblocks' \in UsedCounts \cup {0},
           step = "open_source" => attempt' \in 1 .. MaxAttempts /\ usedblocks' \in UsedCounts,
           file' = NoFile \/ file' \in Seq(Cells), synced' \in Nat, synced' =< Len(file')
    PROVE  BackupInvariant'
<1>1. /\ pc' = step /\ e_code' = -1 /\ replies' = 0
      /\ block_id' = 0 /\ blocks_read' = 0 /\ copied_count' = 0 /\ percent' = 0
      /\ i' = 0 /\ blocks_in_cs' = 0 /\ cs_added' = 0 /\ sync_failed' \in BOOLEAN
    BY DEF Restart
<1>2. /\ checksum' = <<>> /\ checksum' \in Seq(Contents) /\ Len(checksum') = 0
      /\ write_buffer' = <<>> /\ write_buffer' \in Seq(Cells) /\ Len(write_buffer') = 0
    BY EmptySeq DEF Restart
<1>3. BufferCapacity \in Nat \ {0} /\ blocks_per_checksum = BufferCapacity
    BY DEF blocks_per_checksum
<1>4. TypeOK'
    BY <1>1, <1>2, <1>3 DEF TypeOK, Cells
<1>5. WriteBufferBound'
    BY <1>1, <1>2, <1>3, BufferCells DEF WriteBufferBound
<1>6. RepliesMatchOutcome' /\ RepliesInv' /\ SyncInv' /\ CallInv'
    BY <1>1 DEF RepliesMatchOutcome, RepliesInv, SyncInv, CallInv, Preparing
<1>7. ChunkInv'
    BY <1>1, <1>2 DEF ChunkInv
<1>8. CountInv' /\ HundredAtTheEnd'
    <2>1. Below(bitmap', 0) = {}
        <3>1. \A u \in bitmap' : ~(u < 0)
            BY DEF Blocks
        <3>2. QED BY <3>1 DEF Below
    <2>2. Cardinality(Below(bitmap', 0)) = 0
        BY <2>1, FS_EmptySet
    <2>3. QED BY <1>1, <2>2 DEF CountInv, HundredAtTheEnd
<1>9. ImageInv'
    BY <1>1 DEF ImageInv
<1>10. QED BY <1>4, <1>5, <1>6, <1>7, <1>8, <1>9 DEF BackupInvariant

(* The three ways in which nothing of an earlier call is left.             *)
LEMMA ResetSteps ==
    ASSUME BackupInvariant, Request \/ DaemonDies \/ PowerLoss
    PROVE  BackupInvariant'
<1>1. /\ attempt \in 0 .. MaxAttempts /\ family \in Families
      /\ bitmap \in SUBSET Blocks /\ usedblocks \in UsedCounts \cup {0}
      /\ file = NoFile \/ file \in Seq(Cells)
      /\ synced \in Nat /\ synced =< Len(file)
    BY DEF BackupInvariant, TypeOK, CallInv
<1>2. overwrite \in BOOLEAN
    BY DEF BackupInvariant, TypeOK
<1>3. CASE Request
    <2>1. /\ attempt' = attempt + 1 /\ attempt < MaxAttempts /\ family' \in Families
          /\ bitmap' \in SUBSET Blocks /\ usedblocks' \in UsedCounts
          /\ Restart("open_source") /\ file' = file /\ synced' = synced
        BY <1>3 DEF Request, disk
    <2>2. overwrite' \in BOOLEAN
        BY <1>3 DEF Request
    <2>3. attempt' \in 1 .. MaxAttempts
        BY <1>1, <2>1
    <2>4. QED BY <1>1, <2>1, <2>2, <2>3, RestartStep
<1>4. CASE DaemonDies
    <2>1. /\ Restart("idle") /\ file' = file /\ synced' = synced
          /\ attempt' = attempt /\ family' = family /\ bitmap' = bitmap /\ usedblocks' = usedblocks
        BY <1>4 DEF DaemonDies, call, disk
    <2>2. overwrite' = overwrite
        BY <1>4 DEF DaemonDies, call
    <2>3. QED BY <1>1, <1>2, <2>1, <2>2, RestartStep
<1>5. CASE PowerLoss
    <2>1. /\ Restart("idle") /\ file # NoFile /\ synced' = Len(file')
          /\ attempt' = attempt /\ family' = family /\ bitmap' = bitmap /\ usedblocks' = usedblocks
        BY <1>5 DEF PowerLoss, call
    <2>2. overwrite' = overwrite
        BY <1>5 DEF PowerLoss, call
    <2>3. PICK k \in synced .. Len(file) : \E lost \in SUBSET (synced + 1 .. k) :
             file' = [p \in 1 .. k |-> IF p \in lost THEN Torn ELSE file[p]]
        BY <1>5 DEF PowerLoss
    <2>4. file \in Seq(Cells) /\ Len(file) \in Nat /\ k \in Nat
        BY <1>1, <2>1, LenProperties
    <2>5. file' \in [1 .. k -> Cells]
        BY <2>3, <2>4, CellTypes, ElementOfSeq
    <2>6. file' \in Seq(Cells)
        BY <2>4, <2>5, SeqDef
    <2>7. synced' \in Nat /\ synced' =< Len(file')
        BY <2>1, <2>6, LenProperties
    <2>8. QED BY <1>1, <1>2, <2>1, <2>2, <2>6, <2>7, RestartStep
<1>6. QED BY <1>3, <1>4, <1>5

(* Before the first block: the file is emptied, then the header written.   *)
LEMMA HeaderSteps ==
    ASSUME BackupInvariant, OpenTarget \/ WriteDesc \/ WriteBitmap
    PROVE  BackupInvariant'
<1>1. /\ UNCHANGED <<attempt, family, bitmap, usedblocks>>
      /\ UNCHANGED <<i, blocks_in_cs, checksum, write_buffer, cs_added>>
      /\ UNCHANGED <<block_id, blocks_read, copied_count, percent>>
    BY DEF OpenTarget, WriteDesc, WriteBitmap, call, chunk, count
<1>2. overwrite' \in BOOLEAN /\ sync_failed' \in BOOLEAN
    BY DEF OpenTarget, WriteDesc, WriteBitmap, call, BackupInvariant, TypeOK
<1>3. TypeOK /\ CallInv /\ RepliesInv /\ ChunkInv /\ CountInv
    BY DEF BackupInvariant
<1>4. /\ pc \in Preparing /\ copied_count = 0 /\ blocks_in_cs = 0 /\ Len(checksum) = 0
      /\ replies = 0 /\ attempt \in 1 .. MaxAttempts /\ usedblocks \in UsedCounts
      /\ bitmap \in SUBSET Blocks
    BY <1>3 DEF OpenTarget, WriteDesc, WriteBitmap, CallInv, RepliesInv, ChunkInv, Preparing, TypeOK
<1>5. WriteBufferBound' /\ ChunkInv'
    BY <1>1, <1>3 DEF BackupInvariant, WriteBufferBound, ChunkInv, OpenTarget, WriteDesc,
                      WriteBitmap, Goto, Fail
<1>6. CountInv' /\ HundredAtTheEnd'
    BY <1>1, <1>3 DEF BackupInvariant, CountInv, HundredAtTheEnd, OpenTarget, WriteDesc,
                      WriteBitmap, Goto, Fail
<1>7. SyncInv'
    BY <1>1, <1>4 DEF SyncInv
<1>8. Headers' = Headers
    BY <1>1 DEF Headers
<1> DEFINE desc == <<Desc(usedblocks)>>
<1>9. desc \in Seq(Cells) /\ Len(desc) = 1 /\ desc[1] = Desc(usedblocks)
    BY <1>4, CellTypes
<1>10. CASE OpenTarget
    <2>1. /\ file' = <<>> /\ synced' = 0 /\ pc = "open_target" /\ pc' = "read_super_blocks"
          /\ UNCHANGED <<e_code, replies>>
        BY <1>10 DEF OpenTarget, Goto
    <2>2. file' \in Seq(Cells) /\ Len(file') = 0
        BY <2>1, EmptySeq
    <2>3. TypeOK'
        BY <1>1, <1>2, <1>3, <2>1, <2>2 DEF TypeOK, Cells
    <2>4. CallInv' /\ RepliesInv' /\ RepliesMatchOutcome' /\ ImageInv'
        BY <1>1, <1>3, <1>4, <2>1, <2>2
           DEF CallInv, RepliesInv, RepliesMatchOutcome, ImageInv, Preparing
    <2>5. QED BY <1>5, <1>6, <1>7, <2>3, <2>4 DEF BackupInvariant
<1>11. CASE WriteDesc
    <2>1. /\ pc = "write_desc" /\ file = <<>> /\ synced' = synced /\ synced = 0 /\ UNCHANGED replies
          /\ \/ file' = Append(file, Desc(usedblocks)) /\ pc' = "write_bitmap" /\ UNCHANGED e_code
             \/ file' \in PartlyWritten(desc) /\ pc' = "error" /\ e_code' = 7
        <3>1. pc = "write_desc" /\ file = <<>> /\ synced =< Len(file) /\ synced \in Nat
            BY <1>3, <1>11 DEF WriteDesc, CallInv, TypeOK
        <3>2. QED BY <1>11, <3>1, EmptySeq DEF WriteDesc, Goto, Fail
    <2>2. file \in Seq(Cells) /\ Len(file) = 0
        BY <2>1, EmptySeq
    <2>3. CASE file' = Append(file, Desc(usedblocks)) /\ pc' = "write_bitmap" /\ UNCHANGED e_code
        <3>1. file' = desc
            BY <2>1, <2>3
        <3>2. TypeOK'
            BY <1>1, <1>2, <1>3, <1>9, <2>1, <2>3, <3>1 DEF TypeOK, Cells
        <3>3. CallInv'
            BY <1>1, <1>4, <1>9, <2>1, <2>3, <3>1, <1>3 DEF CallInv, Preparing
        <3>4. RepliesInv' /\ RepliesMatchOutcome' /\ ImageInv'
            BY <1>1, <1>3, <1>4, <2>1, <2>3
               DEF RepliesInv, RepliesMatchOutcome, ImageInv, Preparing
        <3>5. QED BY <1>5, <1>6, <1>7, <3>2, <3>3, <3>4 DEF BackupInvariant
    <2>4. CASE file' \in PartlyWritten(desc) /\ pc' = "error" /\ e_code' = 7
        <3>1. file' \in Seq(Cells) /\ Len(file) =< Len(file')
            BY <1>9, <2>2, <2>4, PartlyWrittenType
        <3>2. TypeOK'
            BY <1>1, <1>2, <1>3, <2>1, <2>4, <3>1 DEF TypeOK, Cells
        <3>3. CallInv'
            BY <1>1, <1>4, <2>1, <2>2, <2>4, <3>1 DEF CallInv, Preparing
        <3>4. RepliesInv' /\ RepliesMatchOutcome' /\ ImageInv'
            BY <1>1, <1>3, <1>4, <2>1, <2>4
               DEF RepliesInv, RepliesMatchOutcome, ImageInv, Preparing
        <3>5. QED BY <1>5, <1>6, <1>7, <3>2, <3>3, <3>4 DEF BackupInvariant
    <2>5. QED BY <2>1, <2>3, <2>4
<1>12. CASE WriteBitmap
    <2> DEFINE bits == Bits(bitmap)
               crc == BitsCrc(bitmap)
    <2>1. /\ pc = "write_bitmap" /\ pc' = "read" /\ file = desc /\ synced' = synced /\ UNCHANGED e_code
          /\ replies' = IF ReplyFirst THEN replies + 1 ELSE replies
          /\ file' \in {file \o <<bits, crc>>} \cup PartlyWritten(<<bits, crc>>)
        BY <1>3, <1>12 DEF WriteBitmap, CallInv, Goto
    <2>2. bits \in Cells /\ crc \in Cells /\ Torn \in Cells
        BY <1>4, CellTypes
    <2> DEFINE cells == <<bits, crc>>
               torn  == <<bits, Torn>>
               first == <<bits>>
               cut   == <<Torn>>
    <2>3. /\ cells \in Seq(Cells) /\ Len(cells) = 2 /\ SubSeq(cells, 1, 1) = first
          /\ torn \in Seq(Cells) /\ first \o cut = torn
          /\ first \in Seq(Cells) /\ cut \in Seq(Cells)
        BY <2>2, PairTuples
    <2> HIDE DEF bits, crc, desc
    <2> HIDE DEF cells, torn, first, cut
    <2>4. PICK m \in {cells, torn, first, cut, <<>>} : file' = desc \o m
        <3>1. file' \in {file \o cells} \cup PartlyWritten(cells)
            BY <2>1 DEF cells
        <3>2. CASE file' \in PartlyWritten(cells)
            <4>1. PICK k \in 0 .. 1 :
                     file' \in {file \o SubSeq(cells, 1, k), Append(file \o SubSeq(cells, 1, k), Torn)}
                BY <2>3, <3>2, SMTT(60) DEF PartlyWritten
            <4>2. CASE k = 0
                <5>1. SubSeq(cells, 1, k) = <<>>
                    BY <4>2, SubSeqEmpty
                <5>2. desc \o <<>> = desc /\ Append(desc, Torn) = desc \o cut
                    BY <1>9, <2>2, ConcatEmptySeq, AppendIsConcat DEF cut
                <5>3. QED BY <2>1, <4>1, <5>1, <5>2
            <4>3. CASE k = 1
                <5>1. Append(desc \o first, Torn) = (desc \o first) \o cut
                    BY <1>9, <2>2, <2>3, ConcatProperties, AppendIsConcat DEF cut
                <5>2. (desc \o first) \o cut = desc \o (first \o cut)
                    <6>1. desc \in Seq(Cells) /\ first \in Seq(Cells) /\ cut \in Seq(Cells)
                        BY <1>9, <2>3
                    <6>2. QED BY <6>1, ConcatAssociative, SMTT(60)
                <5>3. SubSeq(cells, 1, k) = first /\ first \o cut = torn
                    BY <2>3, <4>3
                <5>4. file' = desc \o first \/ file' = desc \o torn
                    BY <2>1, <4>1, <5>1, <5>2, <5>3, Zenon
                <5>5. QED BY <5>4, Zenon
            <4>4. k = 0 \/ k = 1
                OBVIOUS
            <4>5. QED BY <4>2, <4>3, <4>4, Zenon
        <3>3. QED BY <2>1, <3>1, <3>2
    <2>5. m \in Seq(Cells)
        BY <2>3, EmptySeq
    <2>6. /\ file' \in Seq(Cells) /\ Len(file') = 1 + Len(m) /\ file'[1] = Desc(usedblocks)
          /\ Len(m) \in Nat
        <3>1. Len(m) \in Nat
            BY <2>5, LenProperties
        <3>2. /\ desc \o m \in Seq(Cells) /\ Len(desc \o m) = Len(desc) + Len(m)
              /\ \A k \in 1 .. Len(desc) + Len(m) :
                    (desc \o m)[k] = IF k =< Len(desc) THEN desc[k] ELSE m[k - Len(desc)]
            <4>1. desc \in Seq(Cells) /\ m \in Seq(Cells)
                BY <1>9, <2>5
            <4>2. QED BY <4>1, ConcatProperties
        <3>3. QED BY <1>9, <2>4, <3>1, <3>2
    <2>7. file' \in Headers
        BY <2>4 DEF Headers, HeadersOf, bits, crc, desc, cells, torn, first, cut
    <2>8. TypeOK'
        BY <1>1, <1>2, <1>3, <1>4, <2>1, <2>6 DEF TypeOK, Cells
    <2>9. CallInv'
        <3>1. synced \in Nat /\ synced =< Len(file) /\ Len(file) = 1
            BY <1>3, <1>9, <2>1 DEF CallInv, TypeOK
        <3>2. synced' =< Len(file')
            BY <2>1, <2>6, <3>1
        <3>3. file' \in Seq(Cells') /\ Cells' = Cells
            BY <2>6 DEF Cells
        <3>4. QED BY <1>1, <1>4, <2>1, <2>6, <3>2, <3>3 DEF CallInv, Preparing
    <2>10. RepliesInv' /\ RepliesMatchOutcome'
        BY <1>1, <1>4, <2>1 DEF RepliesInv, RepliesMatchOutcome, Preparing, ReplyFirst
    <2>11. ImageInv'
        <3>1. Done' = 0 /\ CellsOf(0) = 0 /\ 0 % blocks_per_checksum = 0
            BY <1>1, <1>4, <2>1, CellsGrow, DivModUnique DEF Done, CellsOf, blocks_per_checksum
        <3>2. checksum' = [k \in 1 .. 0 |-> Source[attempt'][KthUsed(bitmap', Done' - blocks_in_cs' + k)]]
            BY <1>1, <1>3, <1>4, EmptySeq DEF TypeOK
        <3>3. file' = file' \o SubSeq(ImageData(bitmap', Source[attempt']), 1, CellsOf(copied_count'))
            <4>1. SubSeq(ImageData(bitmap', Source[attempt']), 1, 0) = <<>>
                BY SubSeqEmpty
            <4>2. QED BY <1>1, <1>4, <2>6, <3>1, <4>1, ConcatEmptySeq
        <3>4. QED BY <1>1, <1>4, <1>8, <2>1, <2>7, <3>1, <3>2, <3>3 DEF ImageInv
    <2>12. QED BY <1>5, <1>6, <1>7, <2>8, <2>9, <2>10, <2>11 DEF BackupInvariant
<1>13. QED BY <1>10, <1>11, <1>12

(* The next chunk: a run of used blocks behind a gap.                      *)
LEMMA ReadStep ==
    ASSUME BackupInvariant, ReadChunk
    PROVE  BackupInvariant'
<1>1. /\ UNCHANGED <<attempt, family, bitmap, usedblocks, file, synced, sync_failed>>
      /\ UNCHANGED <<blocks_in_cs, checksum, copied_count, percent, replies, e_code>>
      /\ pc = "read" /\ pc' = "copy" /\ i' = 0 /\ write_buffer' = <<>> /\ cs_added' = 0
    BY DEF ReadChunk, Goto, call, disk
<1>2. overwrite' \in BOOLEAN
    BY DEF ReadChunk, call, BackupInvariant, TypeOK
<1>3. TypeOK /\ CallInv /\ RepliesInv /\ ChunkInv /\ CountInv /\ HundredAtTheEnd /\ SyncInv /\ ImageInv
    BY DEF BackupInvariant
<1>4. block_id \in 0 .. TotalBlocks /\ bitmap \in SUBSET Blocks /\ copied_count \in Nat
    BY <1>3 DEF TypeOK
<1>5. /\ block_id' \in block_id .. TotalBlocks /\ blocks_read' \in 1 .. BufferCapacity
      /\ \A b \in block_id .. block_id' - 1 : b \notin bitmap
      /\ block_id' \in bitmap /\ block_id' + blocks_read' =< TotalBlocks
      /\ block_id' .. block_id' + blocks_read' - 1 \subseteq bitmap
    BY <1>4 DEF ReadChunk, get_read_blocks_size, UsedRun, pc_test_bit
<1>6. /\ block_id \in Nat /\ block_id' \in Nat /\ block_id =< block_id' /\ block_id' < TotalBlocks
      /\ blocks_read' \in Nat /\ blocks_read' > 0
    BY <1>4, <1>5 DEF Blocks
<1>7. write_buffer' \in Seq(Cells) /\ Len(write_buffer') = 0
    BY <1>1, EmptySeq
<1>8. TypeOK'
    BY <1>1, <1>2, <1>3, <1>4, <1>5, <1>7 DEF TypeOK, Cells
<1>9. WriteBufferBound'
    BY <1>1, <1>7, BufferCells DEF WriteBufferBound
<1>10. CallInv' /\ RepliesInv' /\ RepliesMatchOutcome' /\ SyncInv'
    BY <1>1, <1>3 DEF CallInv, RepliesInv, RepliesMatchOutcome, SyncInv, Preparing, ReplyFirst,
                      SyncEachChunk, Cells
<1>11. ChunkInv'
    <2>1. Len(checksum') = blocks_in_cs'
        BY <1>1, <1>3 DEF ChunkInv
    <2>2. cs_added' \in {0, 1} /\ (cs_added' = 1 => blocks_in_cs' < i')
        BY <1>1
    <2>3. /\ blocks_read' > 0 /\ block_id' + blocks_read' =< TotalBlocks
          /\ block_id' .. block_id' + blocks_read' - 1 \subseteq bitmap'
        BY <1>1, <1>5, <1>6, Zenon
    <2>4. QED BY <2>1, <2>2, <2>3, Zenon DEF ChunkInv
<1>12. ~NothingLeft(block_id, bitmap)
    <2>1. block_id' \in block_id .. TotalBlocks - 1 /\ pc_test_bit(block_id', bitmap)
        BY <1>5, <1>6 DEF pc_test_bit
    <2>2. QED BY <2>1 DEF NothingLeft
<1>13. CountInv' /\ HundredAtTheEnd'
    <2>1. Below(bitmap', block_id') = Below(bitmap, block_id)
        <3>1. \A u \in block_id .. block_id' - 1 : u \notin bitmap
            BY <1>5
        <3>2. Below(bitmap, block_id') = Below(bitmap, block_id)
            BY <1>4, <1>6, <3>1, BelowSkip
        <3>3. QED BY <1>1, <3>2
    <2>2. QED BY <1>1, <1>3, <1>12, <2>1 DEF CountInv, HundredAtTheEnd
<1>14. ImageInv'
    <2> DEFINE data == ImageData(bitmap, Source[attempt])
    <2>1. Headers' = Headers
        BY <1>1 DEF Headers
    <2>2. CellsOf(copied_count) \in Nat /\ copied_count + 0 = copied_count
        BY <1>4, CellsGrow
    <2>3. SubSeq(data, CellsOf(copied_count) + 1, CellsOf(copied_count)) = <<>>
        BY <2>2, SubSeqEmpty
    <2>4. Done = copied_count /\ Done' = copied_count
        BY <1>1, <1>4 DEF Done
    <2>5. QED BY <1>1, <1>3, <2>1, <2>2, <2>3, <2>4 DEF ImageInv
<1>15. QED BY <1>8, <1>9, <1>10, <1>11, <1>13, <1>14 DEF BackupInvariant

(* The block at hand is the one behind those that are done; the blocks of  *)
(* its group so far are what the running checksum covers.                  *)
LEMMA CopyFacts ==
    ASSUME BackupInvariant, pc = "copy", i < blocks_read
    PROVE  LET b       == block_id + i
               m       == copied_count + i
               content == Source[attempt][b]
               covered == Append(checksum, content)
           IN  /\ m \in Nat /\ m = Cardinality(Below(bitmap, b)) /\ b \in bitmap
               /\ content \in Contents /\ covered \in Seq(Contents)
               /\ Len(covered) = blocks_in_cs + 1
               /\ covered = [k \in 1 .. blocks_in_cs + 1 |->
                               Source[attempt][KthUsed(bitmap, m - blocks_in_cs + k)]]
<1> DEFINE b       == block_id + i
           m       == copied_count + i
           content == Source[attempt][b]
           covered == Append(checksum, content)
           group   == [k \in 1 .. blocks_in_cs + 1 |->
                         Source[attempt][KthUsed(bitmap, m - blocks_in_cs + k)]]
<1>1. TypeOK /\ CallInv /\ ChunkInv /\ CountInv /\ ImageInv
    BY DEF BackupInvariant
<1>2. /\ block_id \in Nat /\ i \in Nat /\ copied_count \in Nat /\ bitmap \in SUBSET Blocks
      /\ blocks_in_cs \in Nat /\ blocks_read \in Nat
    BY <1>1 DEF TypeOK, blocks_per_checksum
<1>3. block_id .. block_id + blocks_read - 1 \subseteq bitmap /\ copied_count = Cardinality(Below(bitmap, block_id))
    BY <1>1 DEF ChunkInv, CountInv
<1>4. b \in bitmap /\ block_id .. block_id + i - 1 \subseteq bitmap
    <2>1. b \in block_id .. block_id + blocks_read - 1
        BY <1>2
    <2>2. block_id .. block_id + i - 1 \subseteq block_id .. block_id + blocks_read - 1
        BY <1>2
    <2> HIDE DEF b
    <2>3. QED BY <1>3, <2>1, <2>2
<1>5. m \in Nat /\ m = Cardinality(Below(bitmap, b))
    BY <1>2, <1>3, <1>4, BelowRun
<1>6. content \in Contents
    <2>1. attempt \in 1 .. MaxAttempts /\ b \in Blocks
        BY <1>1, <1>2, <1>4 DEF CallInv
    <2> HIDE DEF b
    <2>2. QED BY <2>1
<1>7. checksum \in Seq(Contents) /\ Len(checksum) = blocks_in_cs
    BY <1>1 DEF TypeOK, ChunkInv
<1>8. checksum = [k \in 1 .. blocks_in_cs |-> Source[attempt][KthUsed(bitmap, m - blocks_in_cs + k)]]
    BY <1>1 DEF ImageInv, Done
<1>9. content = Source[attempt][KthUsed(bitmap, m + 1)] /\ m - blocks_in_cs + (blocks_in_cs + 1) = m + 1
    <2>1. KthUsed(bitmap, m + 1) = b
        <3> HIDE DEF b, m
        <3>1. KthUsed(bitmap, Cardinality(Below(bitmap, b)) + 1) = b
            BY <1>2, <1>4, KthUsedIs
        <3>2. QED BY <1>5, <3>1
    <2> HIDE DEF m, b
    <2>2. QED BY <1>2, <1>5, <2>1
<1> HIDE DEF b, m, content
<1>10. /\ covered \in Seq(Contents) /\ Len(covered) = blocks_in_cs + 1
       /\ \A k \in 1 .. blocks_in_cs : covered[k] = checksum[k]
       /\ covered[blocks_in_cs + 1] = content
    BY <1>6, <1>7, AppendProperties
<1> HIDE DEF covered
<1>11. covered = group
    <2>1. covered \in [1 .. blocks_in_cs + 1 -> Contents]
        BY <1>10, LenProperties
    <2>2. ASSUME NEW k \in 1 .. blocks_in_cs + 1
          PROVE  covered[k] = group[k]
        <3>1. CASE k \in 1 .. blocks_in_cs
            BY <1>8, <1>10, <3>1
        <3>2. CASE k = blocks_in_cs + 1
            BY <1>9, <1>10, <3>2
        <3>3. QED BY <1>2, <3>1, <3>2
    <2>3. DOMAIN group = 1 .. blocks_in_cs + 1 /\ group = [k \in DOMAIN group |-> group[k]]
        OBVIOUS
    <2> HIDE DEF group
    <2>4. QED BY <2>1, <2>2, <2>3
<1>12. QED BY <1>4, <1>5, <1>6, <1>10, <1>11 DEF b, m, content, covered

(* One block goes to the write buffer, with the checksum it completes.     *)
LEMMA CopyStep ==
    ASSUME BackupInvariant, CopyBlock
    PROVE  BackupInvariant'
<1> DEFINE b       == block_id + i
           m       == copied_count + i
           content == Source[attempt][b]
           covered == Append(checksum, content)
           full    == blocks_in_cs + 1 = blocks_per_checksum
           data    == ImageData(bitmap, Source[attempt])
           run(n)  == CellRun(bitmap, Source[attempt], copied_count, n)
           one     == <<Block(content)>>
           two     == <<Block(content), Checksum(covered)>>
<1>1. /\ UNCHANGED <<attempt, family, bitmap, usedblocks, file, synced, sync_failed>>
      /\ UNCHANGED <<block_id, blocks_read, copied_count, percent, replies, e_code>>
      /\ pc = "copy" /\ pc' = "copy" /\ i < blocks_read /\ i' = i + 1
    BY DEF CopyBlock, call, disk, count
<1>2. /\ full => /\ write_buffer' = write_buffer \o two /\ cs_added' = cs_added + 1
                 /\ blocks_in_cs' = 0 /\ checksum' = <<>>
      /\ ~full => /\ write_buffer' = write_buffer \o one /\ cs_added' = cs_added
                  /\ blocks_in_cs' = blocks_in_cs + 1 /\ checksum' = covered
    BY DEF CopyBlock
<1>3. overwrite' \in BOOLEAN
    BY DEF CopyBlock, call, BackupInvariant, TypeOK
<1>4. TypeOK /\ CallInv /\ RepliesInv /\ ChunkInv /\ CountInv /\ HundredAtTheEnd /\ SyncInv /\ ImageInv
      /\ WriteBufferBound /\ RepliesMatchOutcome
    BY DEF BackupInvariant
<1>5. /\ m \in Nat /\ m = Cardinality(Below(bitmap, b)) /\ b \in bitmap
      /\ content \in Contents /\ covered \in Seq(Contents)
      /\ Len(covered) = blocks_in_cs + 1
      /\ covered = [k \in 1 .. blocks_in_cs + 1 |->
                      Source[attempt][KthUsed(bitmap, m - blocks_in_cs + k)]]
    BY <1>1, CopyFacts
<1>6. /\ copied_count \in Nat /\ copied_count \in 0 .. m /\ bitmap \in SUBSET Blocks /\ i \in Nat
      /\ blocks_in_cs \in 0 .. blocks_per_checksum - 1 /\ blocks_per_checksum = BufferCapacity
      /\ write_buffer \in Seq(Cells) /\ cs_added \in Nat /\ blocks_read \in 0 .. BufferCapacity
    BY <1>4 DEF TypeOK, blocks_per_checksum
<1>7. blocks_in_cs = m % blocks_per_checksum
    BY <1>1, <1>4 DEF ImageInv, Done
<1>8. /\ full <=> (m + 1) % blocks_per_checksum = 0
      /\ ~full => (m + 1) % blocks_per_checksum = blocks_in_cs + 1
    <2> HIDE DEF m
    <2>1. m + 1 \in Nat /\ blocks_per_checksum \in Nat \ {0}
        BY <1>5, <1>6
    <2>2. (m + 1) % blocks_per_checksum \in 0 .. blocks_per_checksum - 1
        BY <2>1, DivModSplit
    <2>3. /\ (m + 1) % blocks_per_checksum = 0 => m % blocks_per_checksum = blocks_per_checksum - 1
          /\ (m + 1) % blocks_per_checksum # 0 =>
                (m + 1) % blocks_per_checksum = (m % blocks_per_checksum) + 1
        BY <1>5, CellsGrow
    <2>4. QED BY <1>6, <1>7, <2>1, <2>2, <2>3
<1>9. /\ (m + 1) % blocks_per_checksum = 0 =>
            run(m + 1) = run(m) \o <<Block(content), GroupSum(bitmap, Source[attempt], m + 1)>>
      /\ (m + 1) % blocks_per_checksum # 0 => run(m + 1) = run(m) \o one
    <2> HIDE DEF m, b, one
    <2>1. /\ bitmap \in SUBSET Blocks /\ b \in bitmap /\ m \in Nat
          /\ m = Cardinality(Below(bitmap, b)) /\ copied_count \in 0 .. m
        BY <1>5, <1>6
    <2>2. RunGrows(bitmap, Source[attempt], b, copied_count, m)
        BY <2>1, NextCells
    <2>3. QED BY <2>2 DEF RunGrows, one
<1>10. write_buffer = run(m)
    BY <1>1, <1>4 DEF ImageInv, CellRun
<1>11. full => Checksum(covered) = GroupSum(bitmap, Source[attempt], m + 1)
    <2>1. SUFFICES ASSUME full PROVE Checksum(covered) = GroupSum(bitmap, Source[attempt], m + 1)
        OBVIOUS
    <2>2. m - blocks_in_cs = (m + 1) - blocks_per_checksum
        BY <1>5, <1>6, <2>1
    <2> HIDE DEF m, covered
    <2>3. covered = [k \in 1 .. blocks_per_checksum |->
                       Source[attempt][KthUsed(bitmap, (m + 1) - blocks_per_checksum + k)]]
        BY <1>5, <2>1, <2>2
    <2>4. QED BY <2>3 DEF GroupSum
<1>12. one \in Seq(Cells) /\ Len(one) = 1
    <2>1. Block(content) \in Cells
        BY <1>5, CellTypes
    <2>2. QED BY <2>1, PairTuples
<1>13. full => two \in Seq(Cells) /\ Len(two) = 2
    <2>1. SUFFICES ASSUME full PROVE two \in Seq(Cells) /\ Len(two) = 2
        OBVIOUS
    <2> HIDE DEF content, covered
    <2>2. Len(covered) \in 1 .. BufferCapacity
        BY <1>5, <1>6, <2>1
    <2>3. Block(content) \in Cells /\ Checksum(covered) \in Cells
        BY <1>5, <2>2, CellTypes
    <2>4. QED BY <2>3, PairTuples
<1> HIDE DEF b, m, content, covered, one, two, data, run
<1>14. /\ write_buffer' \in Seq(Cells)
       /\ full => Len(write_buffer') = Len(write_buffer) + 2
       /\ ~full => Len(write_buffer') = Len(write_buffer) + 1
    <2>1. CASE full
        <3>1. write_buffer' = write_buffer \o two /\ two \in Seq(Cells) /\ Len(two) = 2
            BY <1>2, <1>13, <2>1, Zenon
        <3> HIDE DEF full
        <3>2. write_buffer' \in Seq(Cells) /\ Len(write_buffer') = Len(write_buffer) + Len(two)
            BY <1>6, <3>1, ConcatProperties
        <3>3. QED BY <2>1, <3>1, <3>2
    <2>2. CASE ~full
        <3>1. write_buffer' = write_buffer \o one
            BY <1>2, <2>2, Zenon
        <3> HIDE DEF full
        <3>2. write_buffer' \in Seq(Cells) /\ Len(write_buffer') = Len(write_buffer) + Len(one)
            BY <1>6, <1>12, <3>1, ConcatProperties
        <3>3. QED BY <1>12, <2>2, <3>1, <3>2
    <2>3. QED BY <2>1, <2>2, Zenon
<1>15. /\ checksum' \in Seq(Contents) /\ Len(checksum') = blocks_in_cs'
       /\ blocks_in_cs' \in 0 .. blocks_per_checksum - 1 /\ cs_added' \in Nat
    <2>1. CASE full
        <3>1. checksum' = <<>> /\ blocks_in_cs' = 0 /\ cs_added' = cs_added + 1
            BY <1>2, <2>1, Zenon
        <3>2. checksum' \in Seq(Contents) /\ Len(checksum') = 0
            BY <3>1, EmptySeq
        <3>3. QED BY <1>6, <3>1, <3>2
    <2>2. CASE ~full
        <3>1. checksum' = covered /\ blocks_in_cs' = blocks_in_cs + 1 /\ cs_added' = cs_added
            BY <1>2, <2>2, Zenon
        <3>2. checksum' \in Seq(Contents) /\ Len(checksum') = blocks_in_cs + 1
            BY <1>5, <3>1
        <3>3. blocks_in_cs + 1 \in 0 .. blocks_per_checksum - 1
            BY <1>6, <2>2
        <3>4. QED BY <1>6, <3>1, <3>2, <3>3
    <2>3. QED BY <2>1, <2>2, Zenon
<1>16. TypeOK'
    <2>1. i' \in 0 .. blocks_read'
        BY <1>1, <1>6
    <2>2. QED BY <1>1, <1>3, <1>4, <1>14, <1>15, <2>1 DEF TypeOK, Cells
<1>17. cs_added' \in {0, 1} /\ (cs_added' = 1 => blocks_in_cs' < i')
    BY <1>1, <1>2, <1>4, <1>6 DEF ChunkInv
<1>18. WriteBufferBound'
    <2>1. Len(write_buffer) = i + cs_added
        BY <1>4 DEF WriteBufferBound
    <2>2. Len(write_buffer') = i' + cs_added'
        <3>1. CASE full
            <4>1. cs_added' = cs_added + 1 /\ Len(write_buffer') = Len(write_buffer) + 2
                BY <1>2, <1>14, <3>1, Zenon
            <4>2. QED BY <1>1, <1>6, <2>1, <4>1
        <3>2. CASE ~full
            <4>1. cs_added' = cs_added /\ Len(write_buffer') = Len(write_buffer) + 1
                BY <1>2, <1>14, <3>2, Zenon
            <4>2. QED BY <1>1, <1>6, <2>1, <4>1
        <3>3. QED BY <3>1, <3>2, Zenon
    <2>3. QED BY <1>1, <1>6, <1>17, <2>2, BufferCells DEF WriteBufferBound
<1>19. ChunkInv'
    <2>1. /\ blocks_read' > 0 /\ block_id' + blocks_read' =< TotalBlocks
          /\ block_id' .. block_id' + blocks_read' - 1 \subseteq bitmap'
        BY <1>1, <1>4 DEF ChunkInv
    <2>2. QED BY <1>15, <1>17, <2>1, Zenon DEF ChunkInv
<1>20. CallInv' /\ RepliesInv' /\ RepliesMatchOutcome' /\ SyncInv'
    BY <1>1, <1>4 DEF CallInv, RepliesInv, RepliesMatchOutcome, SyncInv, Preparing, ReplyFirst,
                      SyncEachChunk, Cells
<1>21. CountInv' /\ HundredAtTheEnd'
    BY <1>1, <1>4 DEF CountInv, HundredAtTheEnd
<1>22. ImageInv'
    <2>1. Headers' = Headers
        BY <1>1 DEF Headers
    <2>2. Done' = m + 1 /\ Done' = copied_count' + i'
        BY <1>1, <1>6 DEF Done, m
    <2>3. blocks_in_cs' = (m + 1) % blocks_per_checksum
        BY <1>2, <1>8
    <2>4. checksum' = [k \in 1 .. blocks_in_cs' |->
                         Source[attempt'][KthUsed(bitmap', Done' - blocks_in_cs' + k)]]
        <3>1. CASE full
            BY <1>2, <3>1
        <3>2. CASE ~full
            <4>1. (m + 1) - (blocks_in_cs + 1) = m - blocks_in_cs
                BY <1>5, <1>6
            <4>2. QED BY <1>1, <1>2, <1>5, <2>2, <3>2, <4>1
        <3>3. QED BY <3>1, <3>2
    <2>5. write_buffer' = SubSeq(data, CellsOf(copied_count) + 1, CellsOf(m + 1))
        <3>1. CASE full
            <4>1. write_buffer' = run(m) \o two /\ (m + 1) % blocks_per_checksum = 0
                BY <1>2, <1>8, <1>10, <3>1, Zenon
            <4>2. two = <<Block(content), GroupSum(bitmap, Source[attempt], m + 1)>>
                BY <1>11, <3>1 DEF two
            <4>3. QED BY <1>9, <4>1, <4>2 DEF run, data, CellRun
        <3>2. CASE ~full
            <4>1. write_buffer' = run(m) \o one /\ (m + 1) % blocks_per_checksum # 0
                BY <1>2, <1>8, <1>10, <3>2, Zenon
            <4>2. QED BY <1>9, <4>1 DEF run, data, CellRun
        <3>3. QED BY <3>1, <3>2
    <2>6. \E h \in Headers' : file' = h \o SubSeq(data, 1, CellsOf(copied_count'))
        BY <1>1, <1>4, <2>1 DEF ImageInv, data
    <2>7. data = ImageData(bitmap', Source[attempt'])
        BY <1>1 DEF data
    <2>8. QED BY <1>1, <2>2, <2>3, <2>4, <2>5, <2>6, <2>7 DEF ImageInv
<1>23. QED BY <1>16, <1>18, <1>19, <1>20, <1>21, <1>22 DEF BackupInvariant

(* Every header is a sequence of cells that begins with the description.   *)
LEMMA HeaderCells ==
    ASSUME BackupInvariant, pc # "idle", NEW h \in Headers
    PROVE  h \in Seq(Cells)
<1> DEFINE bits == Bits(bitmap)
           crc  == BitsCrc(bitmap)
           desc == <<Desc(usedblocks)>>
           maps == {<<bits, crc>>, <<bits, Torn>>, <<bits>>, <<Torn>>, <<>>}
<1>1. usedblocks \in UsedCounts /\ bitmap \in SUBSET Blocks
    BY DEF BackupInvariant, TypeOK, CallInv
<1>2. Desc(usedblocks) \in Cells /\ bits \in Cells /\ crc \in Cells /\ Torn \in Cells
    BY <1>1, CellTypes
<1>3. PICK m \in maps : h = desc \o m
    BY DEF Headers, HeadersOf
<1> HIDE DEF bits, crc
<1>4. desc \in Seq(Cells)
    BY <1>2, PairTuples
<1>5. m \in Seq(Cells)
    <2>1. <<bits, crc>> \in Seq(Cells) /\ <<bits, Torn>> \in Seq(Cells)
        BY <1>2, PairTuples
    <2>2. <<bits>> \in Seq(Cells) /\ <<Torn>> \in Seq(Cells) /\ <<>> \in Seq(Cells)
        BY <1>2, PairTuples, EmptySeq
    <2>3. QED BY <2>1, <2>2
<1> HIDE DEF desc, maps
<1>6. QED BY <1>3, <1>4, <1>5, ConcatProperties

(* The blocks that are written when nothing is left are all used blocks.   *)
LEMMA AllCounted ==
    ASSUME BackupInvariant, NEW b \in 0 .. TotalBlocks
    PROVE  /\ NothingLeft(b, bitmap) <=> Below(bitmap, b) = bitmap
           /\ NothingLeft(b, bitmap) <=> Cardinality(Below(bitmap, b)) >= Cardinality(bitmap)
           /\ Cardinality(bitmap) \in Nat
<1>1. bitmap \in SUBSET Blocks
    BY DEF BackupInvariant, TypeOK
<1>2. NothingLeft(b, bitmap) <=> \A u \in bitmap : u < b
    BY <1>1 DEF NothingLeft, pc_test_bit, Blocks
<1>3. NothingLeft(b, bitmap) <=> Below(bitmap, b) = bitmap
    BY <1>1, <1>2 DEF Below
<1>4. /\ Cardinality(bitmap) \in Nat /\ Cardinality(Below(bitmap, b)) \in Nat
      /\ Cardinality(Below(bitmap, b)) =< Cardinality(bitmap)
      /\ Cardinality(Below(bitmap, b)) = Cardinality(bitmap) => Below(bitmap, b) = bitmap
    <2>1. b \in Int
        OBVIOUS
    <2>2. QED BY <1>1, <2>1, BitmapFinite
<1>5. CASE Below(bitmap, b) = bitmap
    BY <1>3, <1>4, <1>5
<1>6. CASE Below(bitmap, b) # bitmap
    BY <1>3, <1>4, <1>6
<1>7. QED BY <1>5, <1>6

(* The chunk is written and counted.                                       *)
LEMMA WriteStep ==
    ASSUME BackupInvariant, WriteChunk
    PROVE  BackupInvariant'
<1> DEFINE data == ImageData(bitmap, Source[attempt])
           c    == copied_count
           n    == Cardinality(bitmap)
<1>1. /\ UNCHANGED <<attempt, family, bitmap, usedblocks, blocks_read, replies, e_code>>
      /\ UNCHANGED <<i, blocks_in_cs, checksum, write_buffer, cs_added>>
      /\ pc = "copy" /\ pc' = "read" /\ i = blocks_read /\ file' = file \o write_buffer
      /\ block_id' = block_id + blocks_read /\ copied_count' = c + blocks_read
      /\ percent' = progress_update(copied_count', usedblocks)
    BY DEF WriteChunk, call, chunk, Goto
<1>2. /\ ~SyncEachChunk => UNCHANGED <<synced, sync_failed>>
      /\ SyncEachChunk => synced' = Len(file') \/ synced' = synced
      /\ SyncEachChunk /\ ~sync_failed' => synced' = Len(file')
      /\ sync_failed' \in BOOLEAN
    BY DEF WriteChunk, fsync, BackupInvariant, TypeOK
<1>3. overwrite' \in BOOLEAN
    BY DEF WriteChunk, call, BackupInvariant, TypeOK
<1>4. TypeOK /\ CallInv /\ RepliesInv /\ ChunkInv /\ CountInv /\ HundredAtTheEnd /\ ImageInv
      /\ WriteBufferBound /\ RepliesMatchOutcome
    BY DEF BackupInvariant
<1>5. /\ block_id \in Nat /\ blocks_read \in Nat \ {0} /\ bitmap \in SUBSET Blocks /\ c \in Nat
      /\ block_id + blocks_read =< TotalBlocks
      /\ block_id .. block_id + blocks_read - 1 \subseteq bitmap
      /\ c = Cardinality(Below(bitmap, block_id))
    <2>1. /\ block_id \in 0 .. TotalBlocks /\ blocks_read \in 0 .. BufferCapacity
          /\ bitmap \in SUBSET Blocks /\ c \in Nat
        BY <1>4 DEF TypeOK
    <2>2. /\ blocks_read > 0 /\ block_id + blocks_read =< TotalBlocks
          /\ block_id .. block_id + blocks_read - 1 \subseteq bitmap
        BY <1>1, <1>4 DEF ChunkInv
    <2>3. c = Cardinality(Below(bitmap, block_id))
        BY <1>4 DEF CountInv
    <2>4. QED BY <2>1, <2>2, <2>3
<1>6. /\ usedblocks \in Nat /\ write_buffer \in Seq(Cells) /\ file \in Seq(Cells) /\ Len(file) > 0
      /\ file[1] = Desc(usedblocks) /\ synced \in Nat /\ synced =< Len(file)
    BY <1>1, <1>4 DEF TypeOK, CallInv
<1>7. block_id' \in 0 .. TotalBlocks /\ copied_count' \in Nat /\ copied_count' > 0
    BY <1>1, <1>5
<1>8. copied_count' = Cardinality(Below(bitmap, block_id'))
    BY <1>1, <1>5, BelowRun, ZenonT(60)
<1>9. /\ n \in Nat /\ copied_count' =< n
      /\ copied_count' >= n => NothingLeft(block_id', bitmap)
    <2>1. block_id' \in Int
        BY <1>7
    <2>2. QED BY <1>5, <1>7, <1>8, <2>1, BitmapFinite, AllCounted
<1>10. /\ percent' \in 0 .. 100
       /\ percent' = 100 <=> copied_count' >= usedblocks
    <2>1. /\ percent' = progress_update(copied_count', usedblocks)
          /\ usedblocks \in Nat /\ copied_count' \in Nat
        BY <1>1, <1>6, <1>7
    <2>2. QED BY <2>1, ProgressHundred
<1>11. /\ file' \in Seq(Cells) /\ Len(file') = Len(file) + Len(write_buffer)
       /\ Len(file) \in Nat /\ Len(write_buffer) \in Nat /\ file'[1] = Desc(usedblocks)
    <2>1. Len(file) \in Nat /\ Len(write_buffer) \in Nat
        BY <1>6, LenProperties
    <2>2. /\ file \o write_buffer \in Seq(Cells)
          /\ Len(file \o write_buffer) = Len(file) + Len(write_buffer)
          /\ \A k \in 1 .. Len(file) + Len(write_buffer) : (file \o write_buffer)[k]
                = IF k =< Len(file) THEN file[k] ELSE write_buffer[k - Len(file)]
        BY <1>6, ConcatProperties
    <2>3. QED BY <1>1, <1>6, <2>1, <2>2
<1>12. synced' \in Nat /\ synced' =< Len(file')
    BY <1>2, <1>6, <1>11
<1>13. TypeOK'
    BY <1>1, <1>2, <1>3, <1>4, <1>7, <1>10, <1>11, <1>12 DEF TypeOK, Cells
<1>14. WriteBufferBound' /\ ChunkInv'
    BY <1>1, <1>4 DEF WriteBufferBound, ChunkInv
<1>15. CallInv'
    <2>1. file' \in Seq(Cells') /\ Len(file') > 0
        BY <1>6, <1>11 DEF Cells
    <2>2. QED BY <1>1, <1>4, <1>11, <1>12, <2>1 DEF CallInv, Preparing
<1>16. RepliesInv' /\ RepliesMatchOutcome'
    BY <1>1, <1>4 DEF RepliesInv, RepliesMatchOutcome, Preparing, ReplyFirst
<1>17. CountInv'
    BY <1>1, <1>7, <1>8 DEF CountInv
<1>18. HundredAtTheEnd'
    BY <1>1, <1>9, <1>10 DEF HundredAtTheEnd
<1>19. SyncInv'
    BY <1>1, <1>2 DEF SyncInv, SyncEachChunk
<1>20. ImageInv'
    <2>1. Headers' = Headers
        BY <1>1 DEF Headers
    <2>2. Done' = Done /\ Done' = copied_count' /\ Done = c + i
        BY <1>1, <1>5 DEF Done
    <2>3. PICK h \in Headers : file = h \o SubSeq(data, 1, CellsOf(c))
        BY <1>1, <1>4 DEF ImageInv
    <2>4. h \in Seq(Cells)
        BY <1>1, <2>3, HeaderCells
    <2>5. write_buffer = CellRun(bitmap, Source[attempt], c, c + blocks_read)
        BY <1>1, <1>4 DEF ImageInv, CellRun
    <2>6. file' = h \o SubSeq(data, 1, CellsOf(copied_count'))
        <3>1. c =< copied_count' /\ copied_count' \in Nat /\ copied_count' =< Cardinality(bitmap)
            BY <1>1, <1>5, <1>7, <1>9
        <3>2. Stored(h, bitmap, Source[attempt], c) \o CellRun(bitmap, Source[attempt], c, copied_count')
                = Stored(h, bitmap, Source[attempt], copied_count')
            BY <1>5, <2>4, <3>1, FileGrows
        <3>3. QED BY <1>1, <2>3, <2>5, <3>2 DEF Stored
    <2>7. data = ImageData(bitmap', Source[attempt'])
        BY <1>1
    <2>8. /\ blocks_in_cs' = Done' % blocks_per_checksum
          /\ checksum' = [k \in 1 .. blocks_in_cs' |->
                            Source[attempt'][KthUsed(bitmap', Done' - blocks_in_cs' + k)]]
        BY <1>1, <1>4, <2>2 DEF ImageInv
    <2>9. \E g \in Headers' : file' = g \o SubSeq(ImageData(bitmap', Source[attempt']), 1, CellsOf(copied_count'))
        BY <2>1, <2>3, <2>6, <2>7
    <2>10. QED BY <1>1, <2>8, <2>9 DEF ImageInv
<1>21. QED BY <1>13, <1>14, <1>15, <1>16, <1>17, <1>18, <1>19, <1>20 DEF BackupInvariant

(* The chunk could not be written whole.                                   *)
LEMMA WriteFailsStep ==
    ASSUME BackupInvariant, WriteFails
    PROVE  BackupInvariant'
<1>1. /\ UNCHANGED <<attempt, family, bitmap, usedblocks, synced, sync_failed, replies>>
      /\ UNCHANGED <<i, blocks_in_cs, checksum, write_buffer, cs_added>>
      /\ UNCHANGED <<block_id, blocks_read, copied_count, percent>>
      /\ pc = "copy" /\ pc' = "error" /\ e_code' = 8 /\ file' \in PartlyWritten(write_buffer)
    BY DEF WriteFails, call, chunk, count, Fail
<1>2. overwrite' \in BOOLEAN
    BY DEF WriteFails, call, BackupInvariant, TypeOK
<1>3. TypeOK /\ CallInv /\ RepliesInv /\ ChunkInv /\ CountInv /\ HundredAtTheEnd
      /\ WriteBufferBound
    BY DEF BackupInvariant
<1>4. write_buffer \in Seq(Cells) /\ file \in Seq(Cells) /\ synced \in Nat /\ synced =< Len(file)
    BY <1>1, <1>3 DEF TypeOK, CallInv
<1>5. file' \in Seq(Cells) /\ synced' =< Len(file')
    <2>1. file' \in Seq(Cells) /\ Len(file) =< Len(file')
        BY <1>1, <1>4, PartlyWrittenType
    <2>2. Len(file) \in Nat /\ Len(file') \in Nat
        BY <1>4, <2>1, LenProperties
    <2>3. QED BY <1>1, <1>4, <2>1, <2>2
<1>6. TypeOK'
    BY <1>1, <1>2, <1>3, <1>5 DEF TypeOK, Cells
<1>7. WriteBufferBound' /\ ChunkInv' /\ CountInv' /\ HundredAtTheEnd'
    BY <1>1, <1>3 DEF WriteBufferBound, ChunkInv, CountInv, HundredAtTheEnd
<1>8. CallInv' /\ RepliesInv' /\ RepliesMatchOutcome'
    BY <1>1, <1>3, <1>5 DEF CallInv, RepliesInv, RepliesMatchOutcome, Preparing, ReplyFirst
<1>9. SyncInv' /\ ImageInv'
    BY <1>1 DEF SyncInv, ImageInv
<1>10. QED BY <1>6, <1>7, <1>8, <1>9 DEF BackupInvariant

(* What is in the file when nothing is left: all used blocks, and what the *)
(* running checksum covers is the rest.                                    *)
LEMMA AtTheEnd ==
    ASSUME BackupInvariant, pc = "trailer"
    PROVE  /\ copied_count = Cardinality(bitmap)
           /\ blocks_in_cs = 0 => \E h \in Headers : file = h \o ImageData(bitmap, Source[attempt])
           /\ blocks_in_cs > 0 => \E h \in Headers :
                 Append(file, Checksum(checksum)) = h \o ImageData(bitmap, Source[attempt])
<1> DEFINE contents == Source[attempt]
           n        == Cardinality(bitmap)
<1>1. TypeOK /\ CallInv /\ CountInv /\ ChunkInv /\ ImageInv
    BY DEF BackupInvariant
<1>2. bitmap \in SUBSET Blocks /\ block_id \in 0 .. TotalBlocks /\ blocks_in_cs \in Nat
    BY <1>1 DEF TypeOK, blocks_per_checksum
<1>3. copied_count = n /\ n \in Nat
    <2>1. NothingLeft(block_id, bitmap) /\ copied_count = Cardinality(Below(bitmap, block_id))
        BY <1>1 DEF CountInv
    <2>2. Below(bitmap, block_id) = bitmap /\ Cardinality(bitmap) \in Nat
        BY <1>2, <2>1, AllCounted
    <2>3. QED BY <2>1, <2>2
<1>4. Done = n
    BY <1>3 DEF Done
<1>5. /\ blocks_in_cs = n % blocks_per_checksum
      /\ checksum = [k \in 1 .. blocks_in_cs |-> contents[KthUsed(bitmap, n - blocks_in_cs + k)]]
    BY <1>1, <1>4 DEF ImageInv
<1>6. PICK h \in Headers : file = Stored(h, bitmap, contents, n)
    BY <1>1, <1>3 DEF ImageInv, Stored
<1>7. h \in Seq(Cells)
    BY <1>6, HeaderCells
<1> HIDE DEF contents
<1>8. /\ n % blocks_per_checksum = 0 =>
            Stored(h, bitmap, contents, n) = h \o ImageData(bitmap, contents)
      /\ n % blocks_per_checksum # 0 =>
            Stored(h, bitmap, contents, n) \o <<CellAt(bitmap, contents, DataLength(n))>>
              = h \o ImageData(bitmap, contents)
    <2> HIDE DEF n
    <2>1. n = Cardinality(bitmap) /\ bitmap \in SUBSET Blocks
        BY <1>2 DEF n
    <2>2. Completes(h, bitmap, contents, n)
        BY <1>7, <2>1, FileComplete
    <2>3. QED BY <2>2 DEF Completes
<1>9. blocks_in_cs = 0 => file = h \o ImageData(bitmap, contents)
    BY <1>5, <1>6, <1>8
<1>10. ASSUME blocks_in_cs > 0
       PROVE  Append(file, Checksum(checksum)) = h \o ImageData(bitmap, contents)
    <2>1. n % blocks_per_checksum # 0
        BY <1>5, <1>10
    <2>2. CellAt(bitmap, contents, DataLength(n)) = Checksum(checksum)
        <3>1. CellAt(bitmap, contents, DataLength(Cardinality(bitmap)))
                = Checksum([k \in 1 .. Cardinality(bitmap) % blocks_per_checksum |->
                              contents[KthUsed(bitmap, Cardinality(bitmap)
                                                 - (Cardinality(bitmap) % blocks_per_checksum) + k)]])
            BY <1>3, <2>1, TrailerCell
        <3>2. QED BY <1>5, <3>1
    <2>3. file \in Seq(Cells) /\ Checksum(checksum) \in Cells
        <3>1. file \in Seq(Cells)
            BY <1>1 DEF CallInv
        <3>2. checksum \in Seq(Contents) /\ Len(checksum) \in 1 .. BufferCapacity
            BY <1>1, <1>2, <1>10 DEF TypeOK, ChunkInv, blocks_per_checksum
        <3>3. QED BY <3>1, <3>2, CellTypes
    <2>4. Append(file, Checksum(checksum)) = file \o <<Checksum(checksum)>>
        BY <2>3, AppendIsConcat
    <2>5. QED BY <1>6, <1>8, <2>1, <2>2, <2>4
<1>11. QED BY <1>3, <1>9, <1>10, Zenon DEF contents

(* The checksum of the rest.                                               *)
LEMMA TrailerStep ==
    ASSUME BackupInvariant, WriteTrailer
    PROVE  BackupInvariant'
<1>1. /\ UNCHANGED <<attempt, family, bitmap, usedblocks, synced, sync_failed, replies>>
      /\ UNCHANGED <<i, blocks_in_cs, checksum, write_buffer, cs_added>>
      /\ UNCHANGED <<block_id, blocks_read, copied_count, percent>>
      /\ pc = "trailer"
    BY DEF WriteTrailer, call, chunk, count
<1>2. \/ blocks_in_cs = 0 /\ pc' = "sync" /\ UNCHANGED e_code /\ file' = file
      \/ blocks_in_cs > 0 /\ pc' = "sync" /\ UNCHANGED e_code /\ file' = Append(file, Checksum(checksum))
      \/ blocks_in_cs > 0 /\ pc' = "error" /\ e_code' = 8 /\ file' \in PartlyWritten(<<Checksum(checksum)>>)
    BY DEF WriteTrailer, Goto, Fail
<1>3. overwrite' \in BOOLEAN
    BY DEF WriteTrailer, call, BackupInvariant, TypeOK
<1>4. TypeOK /\ CallInv /\ RepliesInv /\ ChunkInv /\ CountInv /\ HundredAtTheEnd /\ SyncInv
      /\ WriteBufferBound
    BY DEF BackupInvariant
<1>5. /\ file \in Seq(Cells) /\ synced \in Nat /\ synced =< Len(file) /\ Len(file) > 0
      /\ file[1] = Desc(usedblocks) /\ checksum \in Seq(Contents) /\ Len(checksum) = blocks_in_cs
      /\ blocks_in_cs \in Nat /\ blocks_in_cs =< BufferCapacity
    BY <1>1, <1>4 DEF TypeOK, CallInv, ChunkInv, blocks_per_checksum
<1>6. Len(file) \in Nat /\ (blocks_in_cs > 0 => Checksum(checksum) \in Cells)
    BY <1>5, LenProperties, CellTypes
<1>7. /\ file' \in Seq(Cells) /\ Len(file') \in Nat /\ Len(file) =< Len(file')
      /\ pc' = "sync" => Len(file') = Len(file) + (IF blocks_in_cs > 0 THEN 1 ELSE 0)
      /\ pc' = "sync" => file'[1] = Desc(usedblocks)
    <2>1. CASE blocks_in_cs = 0
        BY <1>2, <1>5, <1>6, <2>1
    <2>2. CASE blocks_in_cs > 0 /\ pc' = "sync" /\ file' = Append(file, Checksum(checksum))
        <3>1. /\ file' \in Seq(Cells) /\ Len(file') = Len(file) + 1
              /\ \A k \in 1 .. Len(file) : file'[k] = file[k]
            BY <1>5, <1>6, <2>2, AppendProperties
        <3>2. QED BY <1>5, <1>6, <2>2, <3>1
    <2>3. CASE blocks_in_cs > 0 /\ pc' = "error" /\ file' \in PartlyWritten(<<Checksum(checksum)>>)
        <3>1. <<Checksum(checksum)>> \in Seq(Cells)
            BY <1>6, <2>3, PairTuples
        <3>2. file' \in Seq(Cells) /\ Len(file) =< Len(file')
            BY <1>5, <2>3, <3>1, PartlyWrittenType
        <3>3. QED BY <2>3, <3>2, LenProperties
    <2>4. QED BY <1>2, <1>5, <2>1, <2>2, <2>3
<1>8. TypeOK'
    <2>1. e_code' \in {-1} \cup 1 .. 8
        BY <1>2, <1>4, SMTT(60) DEF TypeOK
    <2>2. QED BY <1>1, <1>3, <1>4, <1>7, <2>1 DEF TypeOK, Cells
<1>9. pc' \in {"sync", "error"} /\ (pc' = "error" => e_code' = 8)
    BY <1>2
<1>10. WriteBufferBound' /\ ChunkInv' /\ CountInv' /\ HundredAtTheEnd'
    BY <1>1, <1>4, <1>9 DEF WriteBufferBound, ChunkInv, CountInv, HundredAtTheEnd
<1>11. CallInv'
    <2>1. synced' =< Len(file') /\ Len(file') > 0 /\ file' \in Seq(Cells')
        BY <1>1, <1>5, <1>6, <1>7 DEF Cells
    <2>2. QED BY <1>1, <1>4, <1>7, <1>9, <2>1 DEF CallInv, Preparing
<1>12. RepliesInv' /\ RepliesMatchOutcome'
    BY <1>1, <1>4, <1>9 DEF RepliesInv, RepliesMatchOutcome, Preparing, ReplyFirst
<1>13. SyncInv'
    <2>1. SUFFICES ASSUME SyncEachChunk, copied_count > 0, ~sync_failed, pc' = "sync"
                   PROVE  synced' = Len(file') - IF Len(checksum') > 0 THEN 1 ELSE 0
        BY <1>1, <1>9 DEF SyncInv, SyncEachChunk
    <2>2. synced = Len(file)
        BY <1>1, <1>4, <2>1 DEF SyncInv
    <2>3. QED BY <1>1, <1>5, <1>6, <1>7, <2>1, <2>2
<1>14. ImageInv'
    <2>1. Headers' = Headers
        BY <1>1 DEF Headers
    <2>2. pc' = "sync" => \E h \in Headers' : file' = h \o ImageData(bitmap', Source[attempt'])
        BY <1>1, <1>2, <2>1, AtTheEnd
    <2>3. QED BY <1>9, <2>2 DEF ImageInv
<1>15. QED BY <1>8, <1>10, <1>11, <1>12, <1>13, <1>14 DEF BackupInvariant

(* The backup ends, and is announced.                                      *)
LEMMA FinishStep ==
    ASSUME BackupInvariant, EmitFinished
    PROVE  BackupInvariant' /\ FinishedImageIsComplete' /\ DurableWhenFinished'
<1>1. /\ UNCHANGED <<attempt, family, bitmap, usedblocks, file, e_code>>
      /\ UNCHANGED <<i, blocks_in_cs, checksum, write_buffer, cs_added>>
      /\ UNCHANGED <<block_id, blocks_read, copied_count, percent>>
      /\ pc = "sync" /\ pc' = "finished"
      /\ replies' = IF ReplyFirst THEN replies ELSE replies + 1
    BY DEF EmitFinished, call, chunk, count, Goto
<1>2. overwrite' \in BOOLEAN
    BY DEF EmitFinished, call, BackupInvariant, TypeOK
<1>3. TypeOK /\ CallInv /\ RepliesInv /\ ChunkInv /\ CountInv /\ HundredAtTheEnd /\ SyncInv /\ ImageInv
      /\ WriteBufferBound
    BY DEF BackupInvariant
<1>4. file \in Seq(Cells) /\ Len(file) \in Nat /\ synced \in Nat /\ synced =< Len(file)
    BY <1>1, <1>3, LenProperties DEF TypeOK, CallInv
<1> DEFINE written == /\ ~SyncAtEnd => UNCHANGED <<synced, sync_failed>>
                      /\ SyncAtEnd => synced' = Len(file) \/ synced' = synced
                      /\ SyncAtEnd /\ ~sync_failed' => synced' = Len(file)
                      /\ sync_failed' \in BOOLEAN
<1>0. written
    BY <1>1, <1>3 DEF EmitFinished, fsync, TypeOK
<1>5. replies' = 1
    BY <1>1, <1>3 DEF RepliesInv
<1>6. TypeOK' /\ RepliesInv' /\ RepliesMatchOutcome'
    <2>1. synced' \in Nat
        BY <1>0, <1>4
    <2>2. QED BY <1>0, <1>1, <1>2, <1>3, <1>4, <1>5, <2>1
              DEF TypeOK, Cells, RepliesInv, RepliesMatchOutcome, Preparing
<1>7. WriteBufferBound' /\ ChunkInv' /\ CountInv'
    BY <1>1, <1>3 DEF WriteBufferBound, ChunkInv, CountInv
<1>8. CallInv'
    <2>1. synced' =< Len(file')
        BY <1>0, <1>1, <1>4
    <2>2. QED BY <1>1, <1>3, <2>1 DEF CallInv, Preparing
<1>9. copied_count = Cardinality(bitmap) /\ copied_count \in Nat
    <2>1. NothingLeft(block_id, bitmap) /\ copied_count = Cardinality(Below(bitmap, block_id))
        BY <1>1, <1>3 DEF CountInv
    <2>2. block_id \in 0 .. TotalBlocks
        BY <1>3 DEF TypeOK
    <2>3. Below(bitmap, block_id) = bitmap /\ Cardinality(bitmap) \in Nat
        BY <2>1, <2>2, AllCounted
    <2>4. QED BY <2>1, <2>3
<1>10. bitmap # {} => copied_count > 0
    <2>1. IsFiniteSet(bitmap)
        BY <1>3, BitmapFinite DEF TypeOK
    <2>2. QED BY <1>9, <2>1, FS_EmptySet
<1>11. HundredAtTheEnd'
    <2>1. SUFFICES ASSUME usedblocks = Cardinality(bitmap), bitmap # {}
                   PROVE  percent = 100
        BY <1>1, <1>3 DEF HundredAtTheEnd
    <2>2. percent = progress_update(copied_count, usedblocks)
        BY <1>3, <1>10, <2>1 DEF CountInv
    <2>3. QED BY <1>9, <2>1, <2>2 DEF progress_update
<1>12. SyncInv' /\ ImageInv'
    BY <1>1 DEF SyncInv, ImageInv
<1>13. FinishedImageIsComplete'
    <2>1. Headers' = Headers
        BY <1>1 DEF Headers
    <2>2. \E h \in Headers : file = h \o ImageData(bitmap, Source[attempt])
        BY <1>1, <1>3 DEF ImageInv
    <2>3. QED BY <1>1, <2>1, <2>2 DEF FinishedImageIsComplete
<1>14. DurableWhenFinished'
    <2>1. CASE SyncAtEnd
        BY <1>0, <1>1, <2>1 DEF DurableWhenFinished, SyncAtEnd
    <2>2. CASE ~SyncAtEnd
        <3>1. SyncEachChunk
            BY <1>3, <2>2 DEF SyncAtEnd, SyncEachChunk, TypeOK, Families
        <3>2. bitmap # {} /\ ~sync_failed =>
                  synced = Len(file) - IF Len(checksum) > 0 THEN 1 ELSE 0
            BY <1>1, <1>3, <1>10, <3>1 DEF SyncInv
        <3>3. QED BY <1>0, <1>1, <2>2, <3>2 DEF DurableWhenFinished, SyncAtEnd
    <2>3. QED BY <2>1, <2>2
<1>15. QED BY <1>6, <1>7, <1>8, <1>11, <1>12, <1>13, <1>14 DEF BackupInvariant

(* Before the first call.                                                  *)
LEMMA BackupInit == Init => BackupInvariant /\ FinishedImageIsComplete /\ DurableWhenFinished
<1> SUFFICES ASSUME Init
             PROVE  BackupInvariant /\ FinishedImageIsComplete /\ DurableWhenFinished
    OBVIOUS
<1>1. /\ pc = "idle" /\ attempt = 0 /\ family = "extfs" /\ e_code = -1 /\ replies = 0
      /\ bitmap = {} /\ usedblocks = 0 /\ synced = 0 /\ sync_failed \in BOOLEAN
      /\ block_id = 0 /\ blocks_read = 0 /\ copied_count = 0 /\ percent = 0
      /\ i = 0 /\ blocks_in_cs = 0 /\ cs_added = 0
    BY DEF Init
<1>2. overwrite \in BOOLEAN
    BY DEF Init
<1>3. /\ checksum \in Seq(Contents) /\ Len(checksum) = 0
      /\ write_buffer \in Seq(Cells) /\ Len(write_buffer) = 0
    BY EmptySeq DEF Init
<1>4. (file = NoFile \/ file \in Seq(Cells)) /\ 0 =< Len(file)
    <2>1. <<Foreign>> \in Seq(Cells) /\ <<>> \in Seq(Cells) /\ Len(<<Foreign>>) = 1 /\ Len(<<>>) = 0
        BY CellTypes, PairTuples, EmptySeq
    <2>2. Len(NoFile) = 1
        BY DEF NoFile
    <2>3. file = NoFile \/ file = <<>> \/ file = <<Foreign>>
        BY DEF Init
    <2>4. CASE file = NoFile
        BY <2>2, <2>4
    <2>5. CASE file = <<>>
        <3>1. Len(file) = 0
            BY <2>1, <2>5
        <3>2. QED BY <2>1, <2>5, <3>1
    <2>6. CASE file = <<Foreign>>
        <3>1. Len(file) = 1
            BY <2>1, <2>6
        <3>2. QED BY <2>1, <2>6, <3>1
    <2>7. QED BY <2>3, <2>4, <2>5, <2>6
<1>5. TypeOK
    BY <1>1, <1>2, <1>3, <1>4 DEF TypeOK, Families, blocks_per_checksum
<1>6. WriteBufferBound
    BY <1>1, <1>3, BufferCells DEF WriteBufferBound
<1>7. RepliesMatchOutcome /\ RepliesInv /\ SyncInv /\ ImageInv
    BY <1>1 DEF RepliesMatchOutcome, RepliesInv, SyncInv, ImageInv, Preparing
<1>8. CallInv /\ ChunkInv
    BY <1>1, <1>3, <1>4 DEF CallInv, ChunkInv, Preparing
<1>9. CountInv /\ HundredAtTheEnd
    <2>1. Below({}, 0) = {}
        BY DEF Below
    <2>2. Cardinality(Below({}, 0)) = 0
        BY <2>1, FS_EmptySet
    <2>3. QED BY <1>1, <2>2 DEF CountInv, HundredAtTheEnd
<1>10. FinishedImageIsComplete /\ DurableWhenFinished
    BY <1>1 DEF FinishedImageIsComplete, DurableWhenFinished
<1>11. QED BY <1>5, <1>6, <1>7, <1>8, <1>9, <1>10 DEF BackupInvariant

(* Nothing depends on anything but the variables.                          *)
LEMMA BackupStutter ==
    ASSUME BackupInvariant, UNCHANGED vars
    PROVE  BackupInvariant'
<1>1. /\ UNCHANGED <<pc, e_code, replies, attempt, family, bitmap, usedblocks>>
      /\ UNCHANGED <<file, synced, sync_failed>>
      /\ UNCHANGED <<i, blocks_in_cs, checksum, write_buffer, cs_added>>
      /\ UNCHANGED <<block_id, blocks_read, copied_count, percent>>
    BY DEF vars, call, disk, chunk, count
<1>2. UNCHANGED overwrite
    BY DEF vars, call
<1>3. TypeOK'
    BY <1>1, <1>2 DEF BackupInvariant, TypeOK, Cells
<1>4. WriteBufferBound' /\ ChunkInv' /\ CountInv' /\ HundredAtTheEnd'
    BY <1>1 DEF BackupInvariant, WriteBufferBound, ChunkInv, CountInv, HundredAtTheEnd
<1>5. CallInv' /\ RepliesInv' /\ RepliesMatchOutcome'
    BY <1>1 DEF BackupInvariant, CallInv, RepliesInv, RepliesMatchOutcome, ReplyFirst, Cells
<1>6. SyncInv' /\ ImageInv'
    <2>1. Headers' = Headers /\ Done' = Done
        BY <1>1 DEF Headers, Done
    <2>2. SyncInv /\ ImageInv
        BY DEF BackupInvariant
    <2>3. QED BY <1>1, <2>1, <2>2 DEF SyncInv, SyncEachChunk, ImageInv
<1>7. QED BY <1>3, <1>4, <1>5, <1>6 DEF BackupInvariant

(* The steps of a call, one by one.                                        *)
LEMMA HandlerCases ==
    ASSUME Next
    PROVE  \/ Request \/ DaemonDies \/ PowerLoss
           \/ OpenTarget \/ WriteDesc \/ WriteBitmap
           \/ ReadChunk \/ CopyBlock \/ WriteChunk \/ WriteFails \/ WriteTrailer \/ EmitFinished
           \/ /\ UNCHANGED <<call, disk, chunk, count>>
              /\ \/ OpenSource \/ ReadSuperBlocks \/ CheckMemory \/ ReadBitmap \/ CheckSpace
                 \/ OpenTargetFails \/ ReadFails \/ EndOfData \/ EmitError
<1>1. Handler \/ Request \/ DaemonDies \/ PowerLoss
    BY DEF Next, gdbus_sysbak_extfs_ptf, gdbus_sysbak_fatfs_ptf, gdbus_sysbak_btrfs_ptf,
           gdbus_sysbak_xfsfs_ptf
<1>2. ASSUME \/ OpenSource \/ ReadSuperBlocks \/ CheckMemory \/ ReadBitmap \/ CheckSpace
             \/ OpenTargetFails \/ ReadFails \/ EndOfData \/ EmitError
      PROVE  UNCHANGED <<call, disk, chunk, count>>
    BY <1>2 DEF OpenSource, ReadSuperBlocks, CheckMemory, ReadBitmap, CheckSpace, Prepare,
                OpenTargetFails, ReadFails, EndOfData, EmitError
<1>3. QED BY <1>1, <1>2, Zenon DEF Handler

(* Every step keeps the invariant.                                         *)
LEMMA CallStep ==
    ASSUME BackupInvariant, [Next]_vars
    PROVE  BackupInvariant'
<1>1. CASE Next
    BY <1>1, HandlerCases, ControlStep, ResetSteps, HeaderSteps, ReadStep, CopyStep, WriteStep,
       WriteFailsStep, TrailerStep, FinishStep, Zenon
<1>2. CASE UNCHANGED vars
    BY <1>2, BackupStutter
<1>3. QED BY <1>1, <1>2

(* The types, the bound of the write buffer, the number of completions and *)
(* the percentages of the four backup handlers, at every step.             *)
THEOREM BackupIsInvariant == Spec => []BackupInvariant
<1>1. Init => BackupInvariant
    BY BackupInit
<1>2. BackupInvariant /\ [Next]_vars => BackupInvariant'
    BY CallStep
<1>3. QED BY <1>1, <1>2, PTL DEF Spec

(* Only EmitFinished announces the end of a backup.                        *)
LEMMA FinishedBy ==
    ASSUME BackupInvariant, [Next]_vars, pc' = "finished"
    PROVE  EmitFinished \/ UNCHANGED vars
<1>1. SUFFICES ASSUME Next, ~EmitFinished
               PROVE  pc' # "finished"
    OBVIOUS
<1>2. CASE Request \/ DaemonDies \/ PowerLoss
    BY <1>2 DEF Request, DaemonDies, PowerLoss, Restart
<1>3. CASE OpenTarget \/ WriteDesc \/ WriteBitmap
    BY <1>3 DEF OpenTarget, WriteDesc, WriteBitmap, Goto, Fail
<1>4. CASE ReadChunk \/ CopyBlock \/ WriteChunk \/ WriteFails \/ WriteTrailer
    BY <1>4 DEF ReadChunk, CopyBlock, WriteChunk, WriteFails, WriteTrailer, Goto, Fail
<1>5. CASE \/ OpenSource \/ ReadSuperBlocks \/ CheckMemory \/ ReadBitmap \/ CheckSpace
           \/ OpenTargetFails \/ ReadFails \/ EndOfData \/ EmitError
    BY <1>5 DEF OpenSource, ReadSuperBlocks, CheckMemory, ReadBitmap, CheckSpace, Prepare,
                OpenTargetFails, ReadFails, EndOfData, EmitError, Goto, Fail
<1>6. QED BY <1>1, <1>2, <1>3, <1>4, <1>5, HandlerCases, Zenon

(* What holds when a backup has been announced stays true until the next   *)
(* call, a crash or a power failure.                                       *)
LEMMA FinishedKept ==
    ASSUME BackupInvariant, FinishedImageIsComplete, DurableWhenFinished, [Next]_vars
    PROVE  FinishedImageIsComplete' /\ DurableWhenFinished'
<1>1. CASE pc' # "finished"
    BY <1>1 DEF FinishedImageIsComplete, DurableWhenFinished
<1>2. CASE EmitFinished
    BY <1>2, FinishStep
<1>3. CASE UNCHANGED vars
    <2>1. UNCHANGED <<pc, attempt, family, bitmap, usedblocks, file, synced, sync_failed, checksum>>
        BY <1>3 DEF vars, call, disk, chunk
    <2>2. Headers' = Headers
        BY <2>1 DEF Headers
    <2>3. QED BY <2>1, <2>2 DEF FinishedImageIsComplete, DurableWhenFinished, SyncAtEnd
<1>4. QED BY <1>1, <1>2, <1>3, FinishedBy

(* A backup that is announced as finished holds every used block of the    *)
(* partition once and in order, with a checksum behind every full group    *)
(* and behind the rest: for every partition, bitmap and buffer capacity,   *)
(* whatever failed in earlier calls.                                       *)
THEOREM FinishedIsComplete == Spec => []FinishedImageIsComplete
<1>1. Init => BackupInvariant /\ FinishedImageIsComplete /\ DurableWhenFinished
    BY BackupInit
<1>2. /\ BackupInvariant /\ FinishedImageIsComplete /\ DurableWhenFinished
      /\ [Next]_vars
      => (BackupInvariant /\ FinishedImageIsComplete /\ DurableWhenFinished)'
    BY CallStep, FinishedKept
<1>3. QED BY <1>1, <1>2, PTL DEF Spec

(* What of a finished backup is on disk while none of its fsyncs has       *)
(* failed: all of it, or all but the last checksum where the handler does  *)
(* not call fsync again.  A failed fsync stops no handler and is reported  *)
(* by none, so that nothing is promised after one.                         *)
THEOREM FinishedIsDurable == Spec => []DurableWhenFinished
<1>1. Init => BackupInvariant /\ FinishedImageIsComplete /\ DurableWhenFinished
    BY BackupInit
<1>2. /\ BackupInvariant /\ FinishedImageIsComplete /\ DurableWhenFinished
      /\ [Next]_vars
      => (BackupInvariant /\ FinishedImageIsComplete /\ DurableWhenFinished)'
    BY CallStep, FinishedKept
<1>3. QED BY <1>1, <1>2, PTL DEF Spec

(* A file that begins with a description is an image.                      *)
LEMMA NotForeign ==
    ASSUME NEW u, file # <<>>, file[1] = Desc(u) \/ file[1][1] = "desc"
    PROVE  file # <<Foreign>>
<1>1. Desc(u)[1] = "desc" /\ <<Foreign>>[1] = Foreign
    BY DEF Desc
<1>2. QED BY <1>1, ForeignAssumption

(* No step of any call touches a file that is not an image; an image is    *)
(* changed by the call that created it, by a power failure, or by a call   *)
(* with overwrite.                                                         *)
THEOREM FilesAreKept == Spec => FilesKept
<1> DEFINE Kept == file' # file /\ file \notin {NoFile, <<>>} =>
                     /\ file # <<Foreign>>
                     /\ \/ pc \in {"write_bitmap", "copy", "trailer"}
                        \/ pc' = "idle" /\ synced < Len(file)
                        \/ overwrite /\ file[1][1] = "desc"
<1>1. ASSUME BackupInvariant, [Next]_vars
      PROVE  [Kept]_vars
    <2> SUFFICES ASSUME Next, file' # file, file # NoFile, file # <<>>
                 PROVE  /\ file # <<Foreign>>
                        /\ \/ pc \in {"write_bitmap", "copy", "trailer"}
                           \/ pc' = "idle" /\ synced < Len(file)
                           \/ overwrite /\ file[1][1] = "desc"
        BY <1>1
    <2>1. CallInv
        BY <1>1 DEF BackupInvariant
    <2>2. CASE OpenTarget
        <3>1. overwrite /\ file[1][1] = "desc"
            BY <2>2 DEF OpenTarget, check_file_type
        <3>2. QED BY <3>1, NotForeign, Zenon
    <2>3. CASE WriteDesc
        BY <2>1, <2>3 DEF WriteDesc, CallInv
    <2>4. CASE WriteBitmap
        <3>1. pc = "write_bitmap" /\ file[1] = Desc(usedblocks)
            BY <2>1, <2>4 DEF WriteBitmap, CallInv
        <3>2. QED BY <3>1, NotForeign
    <2>5. CASE WriteChunk \/ WriteFails \/ WriteTrailer
        <3>1. pc \in {"copy", "trailer"}
            BY <2>5 DEF WriteChunk, WriteFails, WriteTrailer
        <3>2. file[1] = Desc(usedblocks)
            BY <2>1, <3>1 DEF CallInv
        <3>3. QED BY <3>1, <3>2, NotForeign
    <2>6. CASE PowerLoss
        BY <2>6 DEF PowerLoss, Restart
    <2>7. CASE Request \/ DaemonDies
        BY <2>7 DEF Request, DaemonDies, disk
    <2>8. CASE ReadChunk \/ CopyBlock \/ EmitFinished
        BY <2>8 DEF ReadChunk, CopyBlock, EmitFinished, disk
    <2>9. CASE UNCHANGED <<call, disk, chunk, count>>
        BY <2>9 DEF disk
    <2>10. QED BY <2>2, <2>3, <2>4, <2>5, <2>6, <2>7, <2>8, <2>9, HandlerCases, Zenon
<1>2. Spec => []BackupInvariant
    BY BackupIsInvariant
<1>3. BackupInvariant /\ [Next]_vars => [Kept]_vars
    BY <1>1
<1>4. QED BY <1>2, <1>3, PTL DEF Spec, FilesKept
-----------------------------------------------------------------------------
-----------------------------------------------------------------------------
(* R again, with its theorems: the restore of RoundTrip, whose source is   *)
(* left open by every lemma that is cited here.                            *)
RP == INSTANCE RestoreImageProofs WITH
        pc <- rpc, e_code <- r_code, replies <- r_replies, image <- file,
        usedblocks <- r_usedblocks, bitmap <- r_bitmap,
        copied_count <- r_copied, block_id <- r_block_id,
        blocks_read <- r_blocks_read, i <- r_i, blocks_in_cs <- r_in_cs,
        checksum <- r_checksum, write_buffer <- r_write_buffer,
        percent <- r_percent,
        Images <- {}, Source <- Source[1]

(* What the restore's module assumes of its constants.                     *)
LEMMA RestoreAssumptions ==
    /\ RP!TotalBlocksAssumption /\ RP!BufferCapacityAssumption
    /\ RP!RestoreSourceAssumption /\ RP!RestoreSizesAssumption /\ RP!RestoreCountsAssumption
    /\ RP!RestoresAssumption /\ RP!RestoreContentsAssumption /\ RP!RestoreImagesAssumption
<1>1. Source[1] \in [Blocks -> Contents]
    BY RoundTripAssumption, BackupSourceAssumption, MaxAttemptsAssumption
<1>2. RP!Blocks = Blocks
    BY DEF RP!Blocks, Blocks
<1>3. Torn[2] \notin Contents
    BY RoundTripAssumption
<1>4. RP!TotalBlocksAssumption /\ RP!BufferCapacityAssumption
    BY TotalBlocksAssumption, BufferCapacityAssumption
       DEF RP!TotalBlocksAssumption, RP!BufferCapacityAssumption
<1>5. RP!RestoreSourceAssumption
    BY <1>1, <1>2 DEF RP!RestoreSourceAssumption
<1>6. RP!RestoreSizesAssumption /\ RP!RestoreCountsAssumption /\ RP!RestoresAssumption
    BY RoundTripAssumption, UsedCountsAssumption
       DEF RP!RestoreSizesAssumption, RP!RestoreCountsAssumption, RP!RestoresAssumption
<1>7. RP!RestoreContentsAssumption
    BY <1>3 DEF RP!RestoreContentsAssumption, RP!Torn, Torn
<1>8. RP!RestoreImagesAssumption
    BY DEF RP!RestoreImagesAssumption
<1>9. QED BY <1>4, <1>5, <1>6, <1>7, <1>8

(* RP's copies of the library and of ImageFormat are this module's.        *)
LEMMA SameCardinality == \A S : RP!Cardinality(S) = Cardinality(S)
BY DEF RP!Cardinality, Cardinality

(* The cells of an image, ...                                              *)
LEMMA SameCells ==
    /\ RP!Blocks = Blocks /\ RP!Torn = Torn
    /\ \A x : /\ RP!Desc(x) = Desc(x) /\ RP!Bits(x) = Bits(x) /\ RP!BitsCrc(x) = BitsCrc(x)
              /\ RP!Block(x) = Block(x) /\ RP!Checksum(x) = Checksum(x)
BY DEF RP!Blocks, Blocks, RP!Torn, Torn, RP!Desc, Desc, RP!Bits, Bits, RP!BitsCrc, BitsCrc,
       RP!Block, Block, RP!Checksum, Checksum

(* ... and the complete image.                                             *)
LEMMA SameImage == \A u, B, c : RP!CompleteImage(u, B, c) = CompleteImage(u, B, c)
<1>1. \A B, b : RP!Below(B, b) = Below(B, b)
    BY DEF RP!Below, Below
<1>2. \A B, k : RP!KthUsed(B, k) = KthUsed(B, k)
    BY <1>1, SameCardinality DEF RP!KthUsed, KthUsed
<1>3. RP!blocks_per_checksum = blocks_per_checksum
    BY DEF RP!blocks_per_checksum, blocks_per_checksum
<1>4. \A B, c, g : RP!Group(B, c, g) = Group(B, c, g)
    BY <1>2, <1>3, SameCardinality DEF RP!Group, Group
<1>5. \A B, c, p : RP!CellAt(B, c, p) = CellAt(B, c, p)
    BY <1>3, <1>4, SameCells DEF RP!CellAt, CellAt
<1>6. \A n : RP!DataLength(n) = DataLength(n)
    BY <1>3 DEF RP!DataLength, DataLength, RP!CellsOf, CellsOf
<1>7. \A B, c : RP!ImageData(B, c) = ImageData(B, c)
    BY <1>5, <1>6, SameCardinality DEF RP!ImageData, ImageData
<1>8. QED BY <1>7, SameCells DEF RP!CompleteImage, CompleteImage

(* The restore that R and RP instantiate is the same one: its helpers, ... *)
LEMMA SameHelpers ==
    /\ R!Ended = RP!Ended /\ R!header = RP!header /\ R!given = RP!given
    /\ R!verify = RP!verify /\ R!write = RP!write
    /\ R!blocks_per_checksum = RP!blocks_per_checksum
    /\ \A B, b : R!pc_test_bit(b, B) <=> RP!pc_test_bit(b, B)
    /\ \A x, y : R!progress_update(x, y) = RP!progress_update(x, y)
    /\ \A x : R!ContentOf(x) = RP!ContentOf(x) /\ R!Checksum(x) = RP!Checksum(x)
    /\ \A x : R!SeekTo(x) = RP!SeekTo(x)
BY DEF R!Ended, RP!Ended, R!header, RP!header, R!given, RP!given,
       R!verify, RP!verify, R!write, RP!write,
       R!blocks_per_checksum, RP!blocks_per_checksum, R!pc_test_bit, RP!pc_test_bit,
       R!progress_update, RP!progress_update, R!ContentOf, RP!ContentOf,
       R!Torn, RP!Torn, R!Checksum, RP!Checksum, R!SeekTo, RP!SeekTo

(* ... what a run writes, ...                                              *)
LEMMA SameWritten == \A x, y : R!Written(x, y) = RP!Written(x, y)
BY DEF R!Written, RP!Written

(* ... the size of a chunk, ...                                            *)
LEMMA SameChunk ==
    /\ R!NextChunk = RP!NextChunk
    /\ \A n : R!ReadSize(n) = RP!ReadSize(n) /\ (R!ShortChunk(n) <=> RP!ShortChunk(n))
<1>1. \A S : R!Cardinality(S) = RP!Cardinality(S)
    BY DEF R!Cardinality, RP!Cardinality
<1>2. R!get_blocks_used = RP!get_blocks_used
    BY <1>1 DEF R!get_blocks_used, RP!get_blocks_used, R!Blocks, RP!Blocks,
       R!pc_test_bit, RP!pc_test_bit
<1>3. R!NextChunk = RP!NextChunk
    BY <1>2 DEF R!NextChunk, RP!NextChunk
<1>4. \A n : R!ShortChunk(n) <=> RP!ShortChunk(n)
    BY SameHelpers DEF R!ShortChunk, RP!ShortChunk
<1>5. \A x, y, z : R!convert_blocks_to_bytes(x, y, z) = RP!convert_blocks_to_bytes(x, y, z)
    BY DEF R!convert_blocks_to_bytes, RP!convert_blocks_to_bytes,
       R!get_checksum_count, RP!get_checksum_count
<1>6. \A n : R!ReadSize(n) = RP!ReadSize(n)
    BY <1>2, <1>4, <1>5, SameHelpers DEF R!ReadSize, RP!ReadSize
<1>7. QED BY <1>3, <1>4, <1>6

(* ... the runs of used blocks, ...                                        *)
LEMMA SameRun == \A x, B, l, y, n : R!UsedRun(x, B, l, y, n) <=> RP!UsedRun(x, B, l, y, n)
BY DEF R!UsedRun, RP!UsedRun, R!pc_test_bit, RP!pc_test_bit

(* ... its actions, ...                                                    *)
LEMMA SameActions == R!Next <=> RP!Next
<1>1. R!Request <=> RP!Request
    BY DEF R!Request, RP!Request, R!Restart, RP!Restart
<1>2. R!OpenSource <=> RP!OpenSource
    BY DEF R!OpenSource, RP!OpenSource, R!Prepare, RP!Prepare, R!Goto, RP!Goto,
       R!Fail, RP!Fail, R!header, RP!header, R!given, RP!given, R!verify, RP!verify,
       R!write, RP!write
<1>3. R!OpenTarget <=> RP!OpenTarget
    BY DEF R!OpenTarget, RP!OpenTarget, R!Prepare, RP!Prepare, R!Goto, RP!Goto,
       R!Fail, RP!Fail, R!header, RP!header, R!given, RP!given, R!verify, RP!verify,
       R!write, RP!write
<1>4. R!CheckMemory <=> RP!CheckMemory
    BY DEF R!CheckMemory, RP!CheckMemory, R!Prepare, RP!Prepare, R!Goto, RP!Goto,
       R!Fail, RP!Fail, R!header, RP!header, R!given, RP!given, R!verify, RP!verify,
       R!write, RP!write
<1>5. R!ReadImageDesc <=> RP!ReadImageDesc
    BY DEF R!ReadImageDesc, RP!ReadImageDesc, R!Goto, RP!Goto, R!Fail, RP!Fail,
       R!given, RP!given, R!write, RP!write
<1>6. R!LoadBitmap <=> RP!LoadBitmap
    BY DEF R!LoadBitmap, RP!LoadBitmap, R!Goto, RP!Goto, R!Fail, RP!Fail,
       R!given, RP!given, R!write, RP!write, R!BitsCrc, RP!BitsCrc
<1>7. R!CheckSpace <=> RP!CheckSpace
    BY DEF R!CheckSpace, RP!CheckSpace, R!Goto, RP!Goto, R!Fail, RP!Fail,
       R!header, RP!header, R!given, RP!given, R!verify, RP!verify,
       R!write, RP!write
<1>8. R!ReadChunk <=> RP!ReadChunk
    BY SameChunk DEF R!ReadChunk, RP!ReadChunk, R!Goto, RP!Goto, R!header, RP!header,
       R!given, RP!given, R!write, RP!write
<1>9. R!ReadFails <=> RP!ReadFails
    BY SameChunk DEF R!ReadFails, RP!ReadFails, R!Fail, RP!Fail, R!header, RP!header,
       R!given, RP!given, R!verify, RP!verify, R!write, RP!write
<1>10. R!VerifyBlock <=> RP!VerifyBlock
    BY SameHelpers DEF R!VerifyBlock, RP!VerifyBlock, R!ChecksumMatches, RP!ChecksumMatches,
       R!Goto, RP!Goto, R!Fail, RP!Fail, R!header, RP!header, R!given, RP!given,
       R!write, RP!write
<1>11. R!VerifyRest <=> RP!VerifyRest
    BY SameChunk, SameHelpers DEF R!VerifyRest, RP!VerifyRest, R!ChecksumMatches, RP!ChecksumMatches,
       R!Goto, RP!Goto, R!Fail, RP!Fail, R!header, RP!header, R!given, RP!given,
       R!verify, RP!verify
<1>12. R!WriteRun <=> RP!WriteRun
    BY SameHelpers, SameRun, SameWritten DEF R!WriteRun, RP!WriteRun, R!Goto, RP!Goto, R!header, RP!header,
       R!given, RP!given, R!verify, RP!verify
<1>13. R!WriteFails <=> RP!WriteFails
    BY SameHelpers, SameRun, SameWritten DEF R!WriteFails, RP!WriteFails, R!Fail, RP!Fail, R!header, RP!header,
       R!given, RP!given, R!verify, RP!verify
<1>14. R!EmitFinished <=> RP!EmitFinished
    BY SameChunk DEF R!EmitFinished, RP!EmitFinished, R!Goto, RP!Goto, R!header, RP!header,
       R!given, RP!given, R!verify, RP!verify, R!write, RP!write
<1>15. R!EmitError <=> RP!EmitError
    BY DEF R!EmitError, RP!EmitError, R!Goto, RP!Goto, R!header, RP!header,
       R!given, RP!given, R!verify, RP!verify, R!write, RP!write
<1>16. R!DaemonDies <=> RP!DaemonDies
    BY DEF R!DaemonDies, RP!DaemonDies, R!Ended, RP!Ended, R!Restart, RP!Restart,
       R!given, RP!given
<1>17. QED BY <1>1, <1>2, <1>3, <1>4, <1>5, <1>6, <1>7, <1>8, <1>9, <1>10, <1>11, <1>12, <1>13,
              <1>14, <1>15, <1>16 DEF R!Next, RP!Next, R!Handler, RP!Handler

(* ... the data of an image ...                                            *)
LEMMA SameData ==
    /\ R!blocks_per_checksum = RP!blocks_per_checksum
    /\ \A S : R!Cardinality(S) = RP!Cardinality(S)
    /\ \A B, b : R!Below(B, b) = RP!Below(B, b)
    /\ \A B, k : R!KthUsed(B, k) = RP!KthUsed(B, k)
    /\ \A n : R!CellsOf(n) = RP!CellsOf(n) /\ R!DataLength(n) = RP!DataLength(n)
    /\ \A u, B, c : R!CompleteImage(u, B, c) = RP!CompleteImage(u, B, c)
<1>1. R!blocks_per_checksum = RP!blocks_per_checksum
    BY SameHelpers
<1>2. \A S : R!Cardinality(S) = RP!Cardinality(S)
    BY DEF R!Cardinality, RP!Cardinality
<1>3. \A B, b : R!Below(B, b) = RP!Below(B, b)
    BY DEF R!Below, RP!Below
<1>4. \A B, k : R!KthUsed(B, k) = RP!KthUsed(B, k)
    BY <1>2, <1>3 DEF R!KthUsed, RP!KthUsed
<1>5. \A n : R!CellsOf(n) = RP!CellsOf(n) /\ R!DataLength(n) = RP!DataLength(n)
    BY <1>1 DEF R!CellsOf, RP!CellsOf, R!DataLength, RP!DataLength
<1>6. \A B, c, g : R!Group(B, c, g) = RP!Group(B, c, g)
    BY <1>1, <1>2, <1>4 DEF R!Group, RP!Group
<1>7. \A B, c, p : R!CellAt(B, c, p) = RP!CellAt(B, c, p)
    BY <1>1, <1>6 DEF R!CellAt, RP!CellAt, R!Block, RP!Block, R!Checksum, RP!Checksum
<1>8. \A B, c : R!ImageData(B, c) = RP!ImageData(B, c)
    BY <1>2, <1>5, <1>7 DEF R!ImageData, RP!ImageData
<1>9. \A u, B, c : R!CompleteImage(u, B, c) = RP!CompleteImage(u, B, c)
    BY <1>8 DEF R!CompleteImage, RP!CompleteImage, R!Desc, RP!Desc, R!Bits, RP!Bits,
       R!BitsCrc, RP!BitsCrc
<1>10. QED BY <1>1, <1>2, <1>3, <1>4, <1>5, <1>9

(* ... and what its loops keep.                                            *)
LEMMA SameInvariant == \A src : R!LoopInv(src) <=> RP!LoopInv(src)
<1>1. R!TypeOK <=> RP!TypeOK
    BY SameHelpers DEF R!TypeOK, RP!TypeOK, R!Blocks, RP!Blocks, R!Torn, RP!Torn
<1>2. R!ReadBufferBound <=> RP!ReadBufferBound
    BY SameHelpers DEF R!ReadBufferBound, RP!ReadBufferBound,
       R!convert_blocks_to_bytes, RP!convert_blocks_to_bytes,
       R!get_checksum_count, RP!get_checksum_count
<1>3. R!PositionFollowsLoop <=> RP!PositionFollowsLoop
    BY DEF R!PositionFollowsLoop, RP!PositionFollowsLoop
<1>4. R!RepliesMatchOutcome <=> RP!RepliesMatchOutcome
    BY DEF R!RepliesMatchOutcome, RP!RepliesMatchOutcome
<1>5. R!GivenInv <=> RP!GivenInv
    BY DEF R!GivenInv, RP!GivenInv, R!Preparing, RP!Preparing, R!Desc, RP!Desc,
       R!Bits, RP!Bits, R!BitsCrc, RP!BitsCrc
<1>6. R!RepliesInv <=> RP!RepliesInv
    BY DEF R!RepliesInv, RP!RepliesInv, R!Preparing, RP!Preparing,
       R!Copying, RP!Copying
<1>7. \A src : R!PrefixInv(src) <=> RP!PrefixInv(src)
    BY SameData DEF R!PrefixInv, RP!PrefixInv, R!Copying, RP!Copying
<1>8. \A src, n : R!GoodUpTo(src, n) <=> RP!GoodUpTo(src, n)
    BY SameData DEF R!GoodUpTo, RP!GoodUpTo
<1>9. \A src : R!ReadInv(src) <=> RP!ReadInv(src)
    BY <1>8, SameData DEF R!ReadInv, RP!ReadInv
<1>10. R!Base = RP!Base
    BY DEF R!Base, RP!Base
<1>11. \A src : R!ChunkInv(src) <=> RP!ChunkInv(src)
    BY <1>8, <1>10, SameData, SameHelpers DEF R!ChunkInv, RP!ChunkInv
<1>12. QED BY <1>1, <1>2, <1>3, <1>4, <1>5, <1>6, <1>7, <1>9, <1>11 DEF R!LoopInv, RP!LoopInv
-----------------------------------------------------------------------------
(* A file that is a part of what was to be written follows it, ...         *)
LEMMA FollowsItself ==
    ASSUME NEW f, Len(f) \in Nat
    PROVE  Follows(f, f)
BY DEF Follows

(* ... in the middle of the loop, ...                                      *)
LEMMA StoredFollows ==
    ASSUME NEW S, NEW h \in Seq(S), NEW B \in SUBSET Blocks, NEW contents,
           NEW m \in Nat, m =< Cardinality(B)
    PROVE  Follows(Stored(h, B, contents, m), h \o ImageData(B, contents))
<1> DEFINE D     == {CellAt(B, contents, p) : p \in 1 .. DataLength(Cardinality(B))}
           T     == S \cup D
           data  == ImageData(B, contents)
           first == SubSeq(data, 1, CellsOf(m))
<1>1. Cardinality(B) \in Nat
    BY BitmapFinite
<1>2. data \in Seq(D) /\ Len(data) \in Nat /\ CellsOf(Cardinality(B)) =< Len(data)
    BY DataCells
<1>3. CellsOf(m) \in Nat /\ CellsOf(Cardinality(B)) \in Nat /\ CellsOf(m) =< CellsOf(Cardinality(B))
    BY <1>1, CellsGrow, CellsMonotone
<1> HIDE DEF D, data
<1>4. h \in Seq(T) /\ data \in Seq(T) /\ Len(h) \in Nat
    BY <1>2, SeqWiden
<1> HIDE DEF T
<1>5. /\ first \in Seq(T) /\ Len(first) = CellsOf(m)
      /\ \A p \in 1 .. CellsOf(m) : first[p] = data[p]
    <2>1. \A p \in 1 .. CellsOf(m) : data[p] \in T
        BY <1>2, <1>3, <1>4, ElementOfSeq
    <2>2. QED BY <1>3, <2>1, SubSeqProperties
<1> HIDE DEF first
<1>6. /\ Len(h \o first) = Len(h) + Len(first)
      /\ \A p \in 1 .. Len(h) + Len(first) :
            (h \o first)[p] = IF p =< Len(h) THEN h[p] ELSE first[p - Len(h)]
    BY <1>4, <1>5, ConcatProperties
<1>7. /\ Len(h \o data) = Len(h) + Len(data)
      /\ \A p \in 1 .. Len(h) + Len(data) :
            (h \o data)[p] = IF p =< Len(h) THEN h[p] ELSE data[p - Len(h)]
    BY <1>4, ConcatProperties
<1>8. ASSUME NEW p \in 1 .. Len(h) + Len(first)
      PROVE  (h \o first)[p] = (h \o data)[p]
    <2>1. p \in 1 .. Len(h) + Len(data) /\ CellsOf(m) =< Len(data)
        BY <1>2, <1>3, <1>4, <1>5
    <2>2. CASE p =< Len(h)
        BY <1>6, <1>7, <2>1, <2>2
    <2>3. CASE ~(p =< Len(h))
        <3>1. p - Len(h) \in 1 .. CellsOf(m)
            BY <1>3, <1>4, <1>5, <2>3
        <3>2. QED BY <1>5, <1>6, <1>7, <2>1, <2>3, <3>1
    <2>4. QED BY <2>2, <2>3
<1>9. Follows(h \o first, h \o data)
    BY <1>2, <1>3, <1>4, <1>5, <1>6, <1>7, <1>8 DEF Follows
<1>10. QED BY <1>9 DEF Stored, first, data

(* ... and goes on following it when a write fails ...                     *)
LEMMA FollowsPart ==
    ASSUME NEW S, Torn \in S, NEW f \in Seq(S), NEW s \in Seq(S),
           NEW whole, Len(whole) \in Nat, Follows(f \o s, whole), NEW k \in 0 .. Len(s) - 1
    PROVE  Follows(f \o SubSeq(s, 1, k), whole) /\ Follows(Append(f \o SubSeq(s, 1, k), Torn), whole)
<1> DEFINE part == SubSeq(s, 1, k)
           g    == f \o part
<1>1. Len(f) \in Nat /\ Len(s) \in Nat /\ k \in Nat /\ k < Len(s)
    BY LenProperties
<1>2. part \in Seq(S) /\ Len(part) = k /\ \A p \in 1 .. k : part[p] = s[p]
    <2>1. \A p \in 1 .. k : s[p] \in S
        BY <1>1, ElementOfSeq
    <2>2. QED BY <1>1, <2>1, SubSeqProperties
<1> HIDE DEF part
<1>3. /\ g \in Seq(S) /\ Len(g) = Len(f) + k
      /\ \A p \in 1 .. Len(f) + k : g[p] = IF p =< Len(f) THEN f[p] ELSE part[p - Len(f)]
    BY <1>2, ConcatProperties
<1>4. /\ Len(f \o s) = Len(f) + Len(s)
      /\ \A p \in 1 .. Len(f) + Len(s) : (f \o s)[p] = IF p =< Len(f) THEN f[p] ELSE s[p - Len(f)]
    BY ConcatProperties
<1>5. \A p \in 1 .. Len(f) + k : g[p] = (f \o s)[p]
    BY <1>1, <1>2, <1>3, <1>4
<1>6. Len(f) + Len(s) =< Len(whole) /\ \A p \in 1 .. Len(f) + Len(s) : (f \o s)[p] \in {whole[p], Torn}
    BY <1>4 DEF Follows
<1> HIDE DEF g
<1>7. Follows(g, whole)
    <2>1. Len(g) =< Len(whole)
        BY <1>1, <1>3, <1>6
    <2>2. ASSUME NEW p \in 1 .. Len(g)
          PROVE  g[p] \in {whole[p], Torn}
        <3>1. p \in 1 .. Len(f) + k /\ p \in 1 .. Len(f) + Len(s)
            BY <1>1, <1>3
        <3>2. QED BY <1>5, <1>6, <3>1
    <2>3. QED BY <2>1, <2>2 DEF Follows
<1>8. /\ Len(Append(g, Torn)) = Len(g) + 1
      /\ \A p \in 1 .. Len(g) : Append(g, Torn)[p] = g[p]
      /\ Append(g, Torn)[Len(g) + 1] = Torn
    <2>1. g \in Seq(S) /\ Torn \in S
        BY <1>3
    <2>2. ASSUME NEW T, NEW x \in Seq(T), NEW e \in T
          PROVE  /\ Len(Append(x, e)) = Len(x) + 1
                 /\ \A p \in 1 .. Len(x) : Append(x, e)[p] = x[p]
                 /\ Append(x, e)[Len(x) + 1] = e
        BY AppendProperties
    <2>3. QED BY <2>1, <2>2, Zenon
<1>9. \A p \in 1 .. Len(g) + 1 : p \in 1 .. Len(g) \/ p = Len(g) + 1
    <2>1. \A n \in Nat : \A p \in 1 .. n + 1 : p \in 1 .. n \/ p = n + 1
        OBVIOUS
    <2>2. Len(g) \in Nat
        BY <1>1, <1>3
    <2>3. QED BY <2>1, <2>2, Zenon
<1>10. Len(g) + 1 =< Len(whole)
    BY <1>1, <1>3, <1>6
<1>11. Follows(Append(g, Torn), whole)
    BY <1>7, <1>8, <1>9, <1>10 DEF Follows
<1>12. QED BY <1>7, <1>11 DEF g, part

(* ... or when the machine goes down.                                      *)
LEMMA FollowsCut ==
    ASSUME NEW f, NEW whole, Len(f) \in Nat, Len(whole) \in Nat, Follows(f, whole),
           NEW k \in 0 .. Len(f), NEW lost
    PROVE  Follows([p \in 1 .. k |-> IF p \in lost THEN Torn ELSE f[p]], whole)
<1> DEFINE g == [p \in 1 .. k |-> IF p \in lost THEN Torn ELSE f[p]]
           S == {f[p] : p \in 1 .. k} \cup {Torn}
<1>1. g \in [1 .. k -> S]
    OBVIOUS
<1>2. k \in Nat
    OBVIOUS
<1> HIDE DEF S
<1>3. Len(g) = k
    BY <1>1, <1>2
<1>4. \A p \in 1 .. k : g[p] \in {f[p], Torn}
    OBVIOUS
<1> HIDE DEF g
<1>5. k =< Len(whole) /\ \A p \in 1 .. k : f[p] \in {whole[p], Torn}
    BY <1>2 DEF Follows
<1>6. ASSUME NEW p \in 1 .. k
      PROVE  g[p] \in {whole[p], Torn}
    BY <1>4, <1>5
<1>7. Follows(g, whole)
    BY <1>3, <1>5, <1>6 DEF Follows
<1>8. QED BY <1>7 DEF g

(* A header is one to three cells, the description, the bitmap and its     *)
(* CRC, of which the last two may be torn or missing.                      *)
HeaderShape(h, u, B) ==
    /\ h \in Seq({Desc(u), Bits(B), BitsCrc(B), Torn})
    /\ Len(h) \in 1 .. 3 /\ h[1] = Desc(u)
    /\ Len(h) >= 2 => h[2] \in {Bits(B), Torn}
    /\ Len(h) = 3 => h[3] \in {BitsCrc(B), Torn}
    /\ Len(h) = 3 /\ h[3] # Torn => h = <<Desc(u), Bits(B), BitsCrc(B)>>

LEMMA HeaderIs ==
    ASSUME NEW u, NEW B, NEW h \in HeadersOf(u, B)
    PROVE  HeaderShape(h, u, B)
<1> DEFINE x == Desc(u)  y == Bits(B)  z == BitsCrc(B)  t == Torn
           S == {x, y, z, t}
<1>1. PICK m \in {<<y, z>>, <<y, t>>, <<y>>, <<t>>, <<>>} : h = <<x>> \o m
    BY DEF HeadersOf
<1> HIDE DEF x, y, z, t
<1>2. <<x>> \in Seq(S) /\ Len(<<x>>) = 1 /\ <<x>>[1] = x
    OBVIOUS
<1>3. /\ m \in Seq(S) /\ Len(m) \in 0 .. 2
      /\ Len(m) >= 1 => m[1] \in {y, t}
      /\ Len(m) = 2 => m[1] = y /\ m[2] \in {z, t}
    <2>1. CASE m = <<y, z>>
        BY <2>1
    <2>2. CASE m = <<y, t>>
        BY <2>2
    <2>3. CASE m = <<y>>
        BY <2>3
    <2>4. CASE m = <<t>>
        BY <2>4
    <2>5. CASE m = <<>>
        BY <2>5, EmptySeq
    <2>6. QED BY <1>1, <2>1, <2>2, <2>3, <2>4, <2>5
<1> HIDE DEF S
<1>4. /\ h \in Seq(S) /\ Len(h) = 1 + Len(m)
      /\ \A p \in 1 .. 1 + Len(m) : h[p] = IF p =< 1 THEN <<x>>[p] ELSE m[p - 1]
    BY <1>1, <1>2, <1>3, ConcatProperties
<1>5. /\ Len(h) \in 1 .. 3 /\ h[1] = x
      /\ Len(h) >= 2 => h[2] \in {y, t}
      /\ Len(h) = 3 => h[2] = y /\ h[3] \in {z, t}
    BY <1>2, <1>3, <1>4
<1>6. ASSUME Len(h) = 3, h[3] # t
      PROVE  h = <<x, y, z>>
    <2> DEFINE g == <<x, y, z>>
    <2>1. g \in Seq(S) /\ Len(g) = 3 /\ g[1] = x /\ g[2] = y /\ g[3] = z
        BY DEF S
    <2> HIDE DEF g
    <2>2. \A p \in 1 .. Len(h) : h[p] = g[p]
        BY <1>5, <1>6, <2>1
    <2>3. h = g
        BY <1>4, <1>6, <2>1, <2>2, SeqEqual
    <2>4. QED BY <2>3 DEF g
<1>7. QED BY <1>4, <1>5, <1>6 DEF HeaderShape, S, x, y, z, t

(* The cells behind the header.                                            *)
DataShape(whole, h, B, contents) ==
    LET n == DataLength(Cardinality(B))
    IN  /\ Len(h) \in 1 .. 3 /\ n \in Nat
        /\ Len(whole) = Len(h) + n
        /\ \A p \in 1 .. Len(h) : whole[p] = h[p]
        /\ \A p \in 1 .. n : whole[Len(h) + p] = CellAt(B, contents, p)

LEMMA DataFollows ==
    ASSUME NEW u, NEW B \in SUBSET Blocks, NEW contents, NEW h \in HeadersOf(u, B)
    PROVE  DataShape(h \o ImageData(B, contents), h, B, contents)
<1> DEFINE D     == {CellAt(B, contents, p) : p \in 1 .. DataLength(Cardinality(B))}
           H     == {Desc(u), Bits(B), BitsCrc(B), Torn}
           T     == H \cup D
           data  == ImageData(B, contents)
           whole == h \o data
<1>1. /\ data \in Seq(D) /\ Len(data) = DataLength(Cardinality(B)) /\ Len(data) \in Nat
      /\ \A p \in 1 .. Len(data) : data[p] = CellAt(B, contents, p)
    BY DataCells
<1>2. h \in Seq(H) /\ Len(h) \in 1 .. 3
    BY HeaderIs DEF HeaderShape
<1> HIDE DEF D, H, data
<1>3. h \in Seq(T) /\ data \in Seq(T)
    BY <1>1, <1>2, SeqWiden
<1> HIDE DEF T
<1>4. /\ Len(whole) = Len(h) + Len(data)
      /\ \A p \in 1 .. Len(h) + Len(data) : whole[p] = IF p =< Len(h) THEN h[p] ELSE data[p - Len(h)]
    BY <1>3, ConcatProperties
<1> HIDE DEF whole
<1>5. \A p \in 1 .. Len(h) : whole[p] = h[p]
    BY <1>1, <1>2, <1>4
<1>6. ASSUME NEW p \in 1 .. Len(data)
      PROVE  whole[Len(h) + p] = CellAt(B, contents, p)
    <2>1. Len(h) + p \in 1 .. Len(h) + Len(data) /\ ~(Len(h) + p =< Len(h)) /\ (Len(h) + p) - Len(h) = p
        BY <1>1, <1>2
    <2>2. whole[Len(h) + p] = data[p]
        BY <1>4, <2>1
    <2>3. QED BY <1>1, <2>2
<1>7. QED BY <1>1, <1>2, <1>4, <1>5, <1>6 DEF DataShape, whole, data

(* A cell of the data is a checksum, or a block with contents that the     *)
(* partition had.                                                          *)
LEMMA DataCellIs ==
    ASSUME NEW B \in SUBSET Blocks, NEW src \in [Blocks -> Contents],
           NEW p \in 1 .. DataLength(Cardinality(B))
    PROVE  \/ CellAt(B, src, p)[1] = "checksum"
           \/ CellAt(B, src, p)[1] = "block" /\ CellAt(B, src, p)[2] \in Contents
<1> DEFINE n  == Cardinality(B)
           C  == blocks_per_checksum
           q  == (p - 1) \div (C + 1)
           r  == (p - 1) % (C + 1)
           Q  == n \div C
           Rn == n % C
           len == IF (q + 1) * C =< n THEN C ELSE Rn
           group == Group(B, src, q + 1)
<1>1. n \in Nat /\ C \in Nat \ {0} /\ C + 1 \in Nat \ {0}
    BY BitmapFinite, BufferCapacityAssumption DEF blocks_per_checksum
<1>2. Q \in Nat /\ Rn \in 0 .. C - 1 /\ n = Q * C + Rn
    BY <1>1, DivModSplit
<1>3. DataLength(n) = (n + Q) + (IF Rn = 0 THEN 0 ELSE 1)
    BY DEF DataLength, CellsOf
<1>4. p - 1 \in Nat /\ p - 1 =< n + Q /\ (Rn = 0 => p - 1 < n + Q)
    <2>1. p \in 1 .. DataLength(n)
        OBVIOUS
    <2> HIDE DEF Q, Rn, n
    <2>2. QED BY <1>1, <1>2, <1>3, <2>1
<1>5. q \in Nat /\ r \in 0 .. C /\ p - 1 = q * (C + 1) + r
    <2> DEFINE d == C + 1  x == p - 1
    <2>1. d \in Nat \ {0} /\ x \in Nat
        BY <1>1, <1>4
    <2> HIDE DEF d, x
    <2>2. x \div d \in Nat /\ x % d \in 0 .. d - 1 /\ x = (x \div d) * d + (x % d)
        BY <2>1, DivModSplit
    <2>3. q = x \div d /\ r = x % d
        BY DEF d, x
    <2> HIDE DEF q, r
    <2>4. d - 1 = C
        BY <1>1 DEF d
    <2>5. QED BY <2>2, <2>3, <2>4 DEF d, x
<1> HIDE DEF q, r, Q, Rn, n, C
<1>6. ASSUME r + 1 =< len
      PROVE  q * C + (r + 1) \in 1 .. n
    <2>1. q * C \in Nat /\ (q + 1) * C = q * C + C /\ q * (C + 1) = q * C + q
        BY <1>1, <1>5
    <2>2. CASE (q + 1) * C =< n
        BY <1>1, <1>5, <1>6, <2>1, <2>2
    <2>3. CASE ~((q + 1) * C =< n)
        <3>1. q =< Q
            <4>1. SUFFICES ASSUME q >= Q + 1 PROVE FALSE
                BY <1>2, <1>5
            <4>2. q * C >= (Q + 1) * C
                BY <1>1, <1>2, <1>5, <4>1
            <4>3. (Q + 1) * C = Q * C + C /\ Q * C \in Nat
                BY <1>1, <1>2
            <4>4. QED BY <1>1, <1>2, <1>4, <1>5, <2>1, <4>1, <4>2, <4>3
        <3>2. q * C =< Q * C
            BY <1>1, <1>2, <1>5, <3>1
        <3>3. Q * C \in Nat
            BY <1>1, <1>2
        <3>4. QED BY <1>2, <1>5, <1>6, <2>1, <2>3, <3>2, <3>3
    <2>4. QED BY <2>2, <2>3
<1>7. group = [k \in 1 .. len |-> src[KthUsed(B, q * C + k)]] /\ len \in Nat
    <2>1. ((q + 1) - 1) * C = q * C
        BY <1>5
    <2>2. QED BY <1>1, <1>2, <2>1 DEF Group, n, C, Rn
<1>8. Len(group) = len
    <2> HIDE DEF len
    <2> DEFINE S == {src[KthUsed(B, q * C + k)] : k \in 1 .. len}
    <2>1. group \in [1 .. len -> S]
        BY <1>7
    <2> HIDE DEF S, group
    <2>2. QED BY <1>7, <2>1
<1>9. CASE r + 1 =< len
    <2>1. KthUsed(B, q * C + (r + 1)) \in B
        BY <1>6, <1>9, KthUsedExists DEF n
    <2>2. group[r + 1] = src[KthUsed(B, q * C + (r + 1))]
        BY <1>5, <1>7, <1>9
    <2>3. group[r + 1] \in Contents
        BY <2>1, <2>2
    <2>4. CellAt(B, src, p) = Block(group[r + 1])
        BY <1>8, <1>9 DEF CellAt, q, r, C
    <2>5. QED BY <2>3, <2>4 DEF Block
<1>10. CASE ~(r + 1 =< len)
    <2>1. CellAt(B, src, p) = Checksum(group)
        BY <1>8, <1>10 DEF CellAt, q, r, C
    <2>2. QED BY <2>1 DEF Checksum
<1>11. QED BY <1>9, <1>10

(* The header of what a backup left, when it is whole, names the bitmap of *)
(* that backup.                                                            *)
LEMMA LeftNames ==
    ASSUME NEW f, Len(f) \in Nat, NEW B \in SUBSET Blocks, NEW src \in [Blocks -> Contents],
           LeftOf(f, B, src), Len(f) >= 3, f[2][1] = "bits", f[3] = BitsCrc(f[2][2])
    PROVE  f[2] = Bits(B) /\ \E u \in UsedCounts : Follows(f, CompleteImage(u, B, src))
<1> DEFINE data == ImageData(B, src)
<1>1. PICK u \in UsedCounts : \E h \in HeadersOf(u, B) : Follows(f, h \o data)
    BY DEF LeftOf
<1>2. PICK h \in HeadersOf(u, B) : Follows(f, h \o data)
    BY <1>1
<1> DEFINE whole == h \o data
<1>3. Len(f) =< Len(whole) /\ \A p \in 1 .. Len(f) : f[p] \in {whole[p], Torn}
    BY <1>2 DEF Follows
<1>4. DataShape(whole, h, B, src) /\ HeaderShape(h, u, B)
    BY DataFollows, HeaderIs
<1> HIDE DEF data, whole
<1> DEFINE n == DataLength(Cardinality(B))
<1>5. /\ Len(h) \in 1 .. 3 /\ n \in Nat /\ Len(whole) = Len(h) + n
      /\ \A p \in 1 .. Len(h) : whole[p] = h[p]
      /\ \A p \in 1 .. n : whole[Len(h) + p] = CellAt(B, src, p)
    BY <1>4 DEF DataShape
<1>6. /\ Len(h) >= 2 => h[2] \in {Bits(B), Torn}
      /\ Len(h) = 3 => h[3] \in {BitsCrc(B), Torn}
      /\ Len(h) = 3 /\ h[3] # Torn => h = <<Desc(u), Bits(B), BitsCrc(B)>>
    BY <1>4 DEF HeaderShape
<1>7. f[3][1] = "crc" /\ Torn[1] = "torn"
    BY DEF BitsCrc, Torn
<1>8. f[3] = whole[3] /\ f[2] = whole[2]
    <2>1. f[2] # Torn /\ f[3] # Torn
        BY <1>7
    <2>2. QED BY <1>3, <2>1
<1>9. Len(h) = 3
    <2> HIDE DEF n
    <2>1. SUFFICES ASSUME Len(h) < 3 PROVE FALSE
        BY <1>5
    <2>2. 3 - Len(h) \in 1 .. n /\ Len(h) + (3 - Len(h)) = 3
        BY <1>3, <1>5, <2>1
    <2>3. whole[3] = CellAt(B, src, 3 - Len(h))
        BY <1>5, <2>2
    <2>4. whole[3][1] = "checksum" \/ whole[3][1] = "block"
        BY <2>2, <2>3, DataCellIs DEF n
    <2>5. QED BY <1>7, <1>8, <2>4
<1>10. f[3] = h[3] /\ f[2] = h[2]
    BY <1>5, <1>8, <1>9
<1>11. h = <<Desc(u), Bits(B), BitsCrc(B)>>
    BY <1>6, <1>7, <1>9, <1>10
<1>12. f[2] = Bits(B)
    BY <1>6, <1>7, <1>9, <1>10
<1>13. whole = CompleteImage(u, B, src)
    BY <1>11 DEF CompleteImage, whole, data
<1>14. QED BY <1>2, <1>12, <1>13 DEF whole

(* What a restore needs of its file: all it may be given is what one       *)
(* backup left, or no image.                                               *)
LEMMA LeftGiven ==
    ASSUME NEW f, Len(f) \in Nat, f \in Seq({f[p] : p \in DOMAIN f}),
           NEW B \in SUBSET Blocks, NEW src \in [Blocks -> Contents], LeftOf(f, B, src)
    PROVE  RP!Given(f, src)
<1> DEFINE data == ImageData(B, src)
<1>1. PICK u \in UsedCounts : \E h \in HeadersOf(u, B) : Follows(f, h \o data)
    BY DEF LeftOf
<1>2. PICK h \in HeadersOf(u, B) : Follows(f, h \o data)
    BY <1>1
<1>3. ASSUME Len(f) >= 1, f[1][1] = "desc"
      PROVE  f[1] = Desc(u)
    <2>1. f[1] \in {(h \o data)[1], Torn}
        BY <1>2, <1>3 DEF Follows
    <2>2. DataShape(h \o data, h, B, src) /\ HeaderShape(h, u, B)
        BY DataFollows, HeaderIs
    <2>3. (h \o data)[1] = h[1] /\ h[1] = Desc(u)
        <3> DEFINE whole == h \o data
        <3> HIDE DEF whole
        <3>1. Len(h) \in 1 .. 3
            BY <2>2 DEF DataShape
        <3>2. \A p \in 1 .. Len(h) : whole[p] = h[p]
            BY <2>2 DEF DataShape, whole
        <3>3. whole[1] = h[1]
            BY <3>1, <3>2
        <3>4. h[1] = Desc(u)
            BY <2>2 DEF HeaderShape
        <3>5. QED BY <3>3, <3>4 DEF whole
    <2>4. QED BY <1>3, <2>1, <2>3 DEF Torn
<1>4. ASSUME Len(f) >= 3, f[2][1] = "bits", f[3] = BitsCrc(f[2][2])
      PROVE  \E n \in UsedCounts : RP!ImageOf(src, f, n, B)
    <2>1. PICK n \in UsedCounts : Follows(f, CompleteImage(n, B, src))
        BY <1>4, LeftNames
    <2> DEFINE whole == CompleteImage(n, B, src)
    <2>2. Len(f) =< Len(whole) /\ \A p \in 1 .. Len(f) : f[p] \in {whole[p], Torn}
        BY <2>1 DEF Follows
    <2>3. IsWhole(whole, n, B, src)
        BY WholeCells
    <2>4. /\ DataLength(Cardinality(B)) \in Nat /\ Len(whole) = 3 + DataLength(Cardinality(B))
          /\ whole[1] = Desc(n) /\ whole[2] = Bits(B) /\ whole[3] = BitsCrc(B)
          /\ \A p \in 1 .. DataLength(Cardinality(B)) : whole[3 + p] = CellAt(B, src, p)
        BY <2>3 DEF IsWhole
    <2> HIDE DEF whole
    <2>5. ASSUME NEW p \in 1 .. Len(f)
          PROVE  f[p][1] = "block" => f[p][2] \in Contents
        <3>1. f[p] \in {whole[p], Torn} /\ p \in 1 .. 3 + DataLength(Cardinality(B))
            BY <2>2, <2>4
        <3>2. CASE p =< 3
            <4>1. p = 1 \/ p = 2 \/ p = 3
                BY <3>2
            <4>2. QED BY <2>4, <3>1, <4>1 DEF Desc, Bits, BitsCrc, Torn
        <3>3. CASE p > 3
            <4>1. p - 3 \in 1 .. DataLength(Cardinality(B)) /\ 3 + (p - 3) = p
                BY <2>4, <3>1, <3>3
            <4>2. whole[p] = CellAt(B, src, p - 3)
                BY <2>4, <4>1
            <4>3. whole[p][1] = "checksum" \/ (whole[p][1] = "block" /\ whole[p][2] \in Contents)
                BY <4>1, <4>2, DataCellIs
            <4>4. QED BY <3>1, <4>3 DEF Torn
        <3>4. QED BY <3>2, <3>3, <3>1
    <2>6. \A p \in 1 .. Len(f) : RP!Fate(f[p], whole[p])
        BY <2>2, <2>5, SameCells DEF RP!Fate
    <2>7. QED BY <2>2, <2>6, SameImage, SameCells DEF RP!ImageOf, whole
<1>5. \E n \in UsedCounts : Len(f) >= 1 /\ f[1][1] = "desc" => f[1] = RP!Desc(n)
    BY <1>3, SameCells
<1>6. Len(f) >= 3 /\ f[2][1] = "bits" /\ f[3] = RP!BitsCrc(f[2][2]) =>
          \E n \in UsedCounts, used \in SUBSET RP!Blocks : RP!ImageOf(src, f, n, used)
    BY <1>4, SameCells
<1>7. QED BY <1>5, <1>6 DEF RP!Given

(* A file that is no image is refused by its first cell.                   *)
LEMMA NoImageGiven ==
    ASSUME NoImage, NEW src
    PROVE  RP!Given(file, src) /\ Len(file) \in Nat /\ Len(file) < 2
<1>1. PICK x : file = <<>> \/ (file = <<x>> /\ x[1] # "desc")
    <2>1. CASE file = NoFile
        <3>1. NoFile = <<<<"no file", -1>>>> /\ <<"no file", -1>>[1] # "desc"
            BY DEF NoFile
        <3>2. QED BY <2>1, <3>1
    <2>2. CASE file = <<Foreign>>
        BY <2>2, ForeignAssumption
    <2>3. CASE file = <<>>
        BY <2>3
    <2>4. QED BY <2>1, <2>2, <2>3 DEF NoImage
<1>2. file \in Seq({file[p] : p \in DOMAIN file}) /\ Len(file) \in Nat /\ Len(file) < 2
    <2>1. CASE file = <<>>
        BY <2>1, EmptySeq
    <2>2. CASE file = <<x>> /\ x[1] # "desc"
        BY <2>2
    <2>3. QED BY <1>1, <2>1, <2>2
<1>3. ~(Len(file) >= 1 /\ file[1][1] = "desc") /\ ~(Len(file) >= 3)
    BY <1>1, <1>2
<1>4. QED BY <1>2, <1>3 DEF RP!Given

(* A failed write leaves part of what the backup has to write.             *)
LEMMA PartlyLeft ==
    ASSUME file \in Seq(Cells), NEW s \in Seq(Cells), NEW f \in PartlyWritten(s),
           NEW B \in SUBSET Blocks, NEW src, NEW u \in UsedCounts, NEW h \in HeadersOf(u, B),
           Follows(file \o s, h \o ImageData(B, src))
    PROVE  LeftOf(f, B, src)
<1> DEFINE whole == h \o ImageData(B, src)
<1>1. PICK k \in 0 .. Len(s) - 1 : f = file \o SubSeq(s, 1, k) \/ f = Append(file \o SubSeq(s, 1, k), Torn)
    BY DEF PartlyWritten
<1>2. Len(whole) \in Nat
    BY DataFollows DEF DataShape
<1>3. Follows(f, whole)
    <2> HIDE DEF whole
    <2>1. Follows(file \o s, whole) /\ Torn \in Cells
        BY CellTypes DEF whole
    <2>2. Follows(file \o SubSeq(s, 1, k), whole) /\ Follows(Append(file \o SubSeq(s, 1, k), Torn), whole)
        BY <1>2, <2>1, FollowsPart
    <2>3. QED BY <1>1, <2>2
<1>4. QED BY <1>3 DEF LeftOf

(* In the loop the file holds the beginning of the image.                  *)
LEMMA LoopLeft ==
    ASSUME BackupInvariant, pc \in {"read", "copy", "trailer", "sync"}
    PROVE  LeftOf(file, bitmap, Source[attempt])
<1> DEFINE data == ImageData(bitmap, Source[attempt])
<1>1. TypeOK /\ CallInv /\ CountInv /\ ImageInv
    BY DEF BackupInvariant
<1>2. bitmap \in SUBSET Blocks /\ usedblocks \in UsedCounts /\ file \in Seq(Cells)
    BY <1>1 DEF TypeOK, CallInv
<1>3. PICK h \in Headers : file = Stored(h, bitmap, Source[attempt], copied_count) \/ file = h \o data
    BY <1>1 DEF ImageInv, Stored
<1>4. h \in Seq(Cells)
    BY <1>3, HeaderCells
<1>5. copied_count \in Nat /\ copied_count =< Cardinality(bitmap)
    <2>1. copied_count \in Nat /\ block_id \in Int /\ copied_count = Cardinality(Below(bitmap, block_id))
        BY <1>1 DEF TypeOK, CountInv
    <2>2. QED BY <1>2, <2>1, BitmapFinite
<1>6. Follows(file, h \o data)
    <2>1. CASE file = Stored(h, bitmap, Source[attempt], copied_count)
        BY <1>2, <1>4, <1>5, <2>1, StoredFollows
    <2>2. CASE file = h \o data
        <3>1. Len(file) \in Nat
            BY <1>2, LenProperties
        <3>2. QED BY <2>2, <3>1, FollowsItself
    <2>3. QED BY <1>3, <2>1, <2>2
<1>7. QED BY <1>2, <1>6 DEF LeftOf, Headers

(* The same in the state after a step.                                     *)
LEMMA LoopLeftNext ==
    BackupInvariant' /\ (pc \in {"read", "copy", "trailer", "sync"})'
        => LeftOf(file, bitmap, Source[attempt])'
<1>1. BackupInvariant /\ pc \in {"read", "copy", "trailer", "sync"} => LeftOf(file, bitmap, Source[attempt])
    BY LoopLeft
<1>2. QED BY <1>1, PTL

(* A chunk that cannot be written whole.                                   *)
LEMMA ChunkLeft ==
    ASSUME BackupInvariant, pc = "copy", i = blocks_read, NEW f \in PartlyWritten(write_buffer)
    PROVE  LeftOf(f, bitmap, Source[attempt])
<1> DEFINE src == Source[attempt]
           c   == copied_count
<1>1. TypeOK /\ CallInv /\ CountInv /\ ChunkInv /\ ImageInv
    BY DEF BackupInvariant
<1>2. /\ bitmap \in SUBSET Blocks /\ usedblocks \in UsedCounts /\ file \in Seq(Cells)
      /\ write_buffer \in Seq(Cells) /\ c \in Nat /\ block_id \in Nat /\ blocks_read \in Nat
    BY <1>1 DEF TypeOK, CallInv
<1>3. PICK h \in Headers : file = Stored(h, bitmap, src, c)
    BY <1>1 DEF ImageInv, Stored
<1>4. h \in Seq(Cells)
    BY <1>3, HeaderCells
<1>5. c + blocks_read =< Cardinality(bitmap)
    <2>1. block_id .. block_id + blocks_read - 1 \subseteq bitmap /\ c = Cardinality(Below(bitmap, block_id))
        BY <1>1 DEF ChunkInv, CountInv
    <2>2. Cardinality(Below(bitmap, block_id + blocks_read)) = c + blocks_read
        BY <1>2, <2>1, BelowRun
    <2>3. block_id + blocks_read \in Int
        BY <1>2
    <2>4. QED BY <1>2, <2>2, <2>3, BitmapFinite
<1>6. write_buffer = CellRun(bitmap, src, c, c + blocks_read)
    BY <1>1 DEF ImageInv, CellRun
<1> HIDE DEF src, c
<1>7. file \o write_buffer = Stored(h, bitmap, src, c + blocks_read)
    <2>1. c + blocks_read \in Nat /\ c =< c + blocks_read
        BY <1>2
    <2>2. QED BY <1>2, <1>3, <1>4, <1>5, <1>6, <2>1, FileGrows
<1>8. Follows(file \o write_buffer, h \o ImageData(bitmap, src))
    <2>1. c + blocks_read \in Nat
        BY <1>2
    <2>2. QED BY <1>2, <1>4, <1>5, <1>7, <2>1, StoredFollows
<1>9. h \in HeadersOf(usedblocks, bitmap)
    BY DEF Headers
<1>10. LeftOf(f, bitmap, src)
    BY <1>2, <1>8, <1>9, PartlyLeft
<1>11. QED BY <1>10 DEF src

(* The checksum of the rest that cannot be written.                        *)
LEMMA TrailerLeft ==
    ASSUME BackupInvariant, pc = "trailer", blocks_in_cs > 0,
           NEW f \in PartlyWritten(<<Checksum(checksum)>>)
    PROVE  LeftOf(f, bitmap, Source[attempt])
<1> DEFINE src == Source[attempt]
           s   == <<Checksum(checksum)>>
<1>1. TypeOK /\ CallInv /\ ChunkInv
    BY DEF BackupInvariant
<1>2. /\ bitmap \in SUBSET Blocks /\ usedblocks \in UsedCounts /\ file \in Seq(Cells)
      /\ checksum \in Seq(Contents) /\ Len(checksum) \in 1 .. BufferCapacity
    BY <1>1, BufferCapacityAssumption DEF TypeOK, CallInv, ChunkInv, blocks_per_checksum
<1>3. Checksum(checksum) \in Cells
    BY <1>2, CellTypes
<1>4. s \in Seq(Cells) /\ file \o s = Append(file, Checksum(checksum))
    BY <1>2, <1>3, PairTuples, AppendIsConcat
<1>5. PICK h \in Headers : Append(file, Checksum(checksum)) = h \o ImageData(bitmap, src)
    BY AtTheEnd
<1>6. Len(file \o s) \in Nat
    BY <1>2, <1>4, ConcatProperties, LenProperties
<1>7. Follows(file \o s, h \o ImageData(bitmap, src))
    BY <1>4, <1>5, <1>6, FollowsItself
<1>8. h \in HeadersOf(usedblocks, bitmap)
    BY DEF Headers
<1> HIDE DEF s, src
<1>9. f \in PartlyWritten(s)
    BY DEF s
<1>10. LeftOf(f, bitmap, src)
    BY <1>2, <1>4, <1>7, <1>8, <1>9, PartlyLeft
<1>11. QED BY <1>10 DEF src

(* The description, whole or not.                                          *)
LEMMA DescLeft ==
    ASSUME BackupInvariant, pc = "write_desc",
           NEW f \in {Append(file, Desc(usedblocks))} \cup PartlyWritten(<<Desc(usedblocks)>>)
    PROVE  LeftOf(f, bitmap, Source[attempt])
<1> DEFINE src == Source[attempt]
           s   == <<Desc(usedblocks)>>
<1>1. TypeOK /\ CallInv
    BY DEF BackupInvariant
<1>2. bitmap \in SUBSET Blocks /\ usedblocks \in UsedCounts /\ file = <<>>
    BY <1>1 DEF TypeOK, CallInv
<1>3. Desc(usedblocks) \in Cells
    BY <1>2, CellTypes
<1>4. s \in Seq(Cells) /\ file \in Seq(Cells)
    BY <1>2, <1>3, PairTuples, EmptySeq
<1>5. file \o s = s /\ Append(file, Desc(usedblocks)) = s
    BY <1>2, <1>3
<1>6. s \in HeadersOf(usedblocks, bitmap)
    <2>1. s \o <<>> = s
        BY <1>4, ConcatEmptySeq
    <2>2. QED BY <2>1 DEF HeadersOf
<1>7. Follows(s, s \o ImageData(bitmap, src))
    <2>1. DataShape(s \o ImageData(bitmap, src), s, bitmap, src)
        BY <1>2, <1>6, DataFollows
    <2> HIDE DEF s, src
    <2>2. QED BY <2>1 DEF DataShape, Follows
<1> HIDE DEF s, src
<1>8. CASE f = Append(file, Desc(usedblocks))
    BY <1>2, <1>5, <1>6, <1>7, <1>8 DEF LeftOf, src
<1>9. CASE f \in PartlyWritten(<<Desc(usedblocks)>>)
    <2>1. f \in PartlyWritten(s) /\ Follows(file \o s, s \o ImageData(bitmap, src))
        BY <1>5, <1>7, <1>9 DEF s
    <2>2. LeftOf(f, bitmap, src)
        BY <1>2, <1>4, <1>6, <2>1, PartlyLeft
    <2>3. QED BY <2>2 DEF src
<1>10. QED BY <1>8, <1>9
-----------------------------------------------------------------------------
(* The part of BackupStep that records the calls.                          *)
TakenStep == taken' = IF attempt' # attempt THEN Append(taken, bitmap') ELSE taken

(* What one step of a backup makes of the image file: nothing, ...         *)
LEMMA SameFile ==
    ASSUME FileInv, UNCHANGED <<attempt, bitmap, taken, file>>
    PROVE  FileInv'
<1>1. NoImage' <=> NoImage
    BY DEF NoImage
<1>2. \A a : LeftBy(a)' <=> LeftBy(a)
    BY DEF LeftBy
<1>3. QED BY <1>1, <1>2 DEF FileInv

(* ... part of the image of the call that is running, ...                  *)
LEMMA LeftNow ==
    ASSUME FileInv, UNCHANGED <<attempt, bitmap, taken>>, attempt \in 1 .. MaxAttempts,
           LeftOf(file', bitmap, Source[attempt])
    PROVE  FileInv'
<1>1. taken[attempt] = bitmap /\ attempt \in 1 .. attempt
    BY MaxAttemptsAssumption DEF FileInv
<1>2. LeftBy(attempt)'
    BY <1>1 DEF LeftBy
<1>3. \E a \in 1 .. attempt' : LeftBy(a)'
    <2>1. LeftOf(file', taken'[attempt], Source[attempt])
        BY <1>1
    <2>2. QED BY <1>1, <2>1 DEF LeftBy
<1>4. QED BY <1>3 DEF FileInv

(* ... at a new call the old file, ...                                     *)
LEMMA RequestFile ==
    ASSUME FileInv, Request, TakenStep, TypeOK
    PROVE  FileInv'
<1>1. /\ attempt' = attempt + 1 /\ attempt \in Nat /\ file' = file
      /\ bitmap' \in SUBSET Blocks /\ taken' = Append(taken, bitmap')
    BY MaxAttemptsAssumption DEF Request, disk, TakenStep, TypeOK
<1>2. taken \in Seq(SUBSET Blocks) /\ Len(taken) = attempt
    BY DEF FileInv
<1>3. /\ taken' \in Seq(SUBSET Blocks) /\ Len(taken') = attempt'
      /\ taken'[attempt'] = bitmap'
      /\ \A a \in 1 .. attempt : taken'[a] = taken[a]
    <2> DEFINE S == SUBSET Blocks
    <2>1. taken \in Seq(S) /\ bitmap' \in S
        BY <1>1, <1>2
    <2> HIDE DEF S
    <2>2. /\ Append(taken, bitmap') \in Seq(S) /\ Len(Append(taken, bitmap')) = Len(taken) + 1
          /\ \A p \in 1 .. Len(taken) : Append(taken, bitmap')[p] = taken[p]
          /\ Append(taken, bitmap')[Len(taken) + 1] = bitmap'
        BY <2>1, AppendProperties
    <2>3. QED BY <1>1, <1>2, <2>2 DEF S
<1>4. \A a \in 1 .. attempt : LeftBy(a) => LeftBy(a)'
    <2>1. TAKE a \in 1 .. attempt
    <2>2. LeftOf(file, taken[a], Source[a]) => LeftOf(file', taken'[a], Source[a])
        BY <1>1, <1>3
    <2>3. QED BY <2>2 DEF LeftBy
<1>5. NoImage => NoImage'
    BY <1>1 DEF NoImage
<1>6. NoImage' \/ \E a \in 1 .. attempt' : LeftBy(a)'
    <2>1. \A a \in 1 .. attempt : a \in 1 .. attempt'
        BY <1>1
    <2>2. QED BY <1>4, <1>5, <2>1 DEF FileInv
<1>7. QED BY <1>3, <1>6 DEF FileInv

(* ... and when power fails less of what some call left.                   *)
LEMMA PowerLossFile ==
    ASSUME FileInv, BackupInvariant, PowerLoss, taken' = taken
    PROVE  FileInv'
<1>1. /\ UNCHANGED <<attempt, bitmap, taken>> /\ file # NoFile /\ file # <<Foreign>> /\ synced < Len(file)
      /\ \E k \in synced .. Len(file) : \E lost \in SUBSET (synced + 1 .. k) :
            file' = [p \in 1 .. k |-> IF p \in lost THEN Torn ELSE file[p]]
    BY DEF PowerLoss, call
<1>2. synced \in Nat /\ file \in Seq(Cells)
    BY <1>1 DEF BackupInvariant, TypeOK
<1>3. Len(file) \in Nat
    BY <1>2, LenProperties
<1>4. ~NoImage
    <2>1. Len(<<>>) = 0
        BY EmptySeq
    <2>2. file # <<>>
        BY <1>1, <1>2, <2>1
    <2>3. QED BY <1>1, <2>2 DEF NoImage
<1>5. PICK a \in 1 .. attempt : LeftBy(a)
    BY <1>4 DEF FileInv
<1>6. PICK u \in UsedCounts : \E h \in HeadersOf(u, taken[a]) :
          Follows(file, h \o ImageData(taken[a], Source[a]))
    BY <1>5 DEF LeftBy, LeftOf
<1>7. PICK h \in HeadersOf(u, taken[a]) : Follows(file, h \o ImageData(taken[a], Source[a]))
    BY <1>6
<1> DEFINE whole == h \o ImageData(taken[a], Source[a])
<1>8. Len(whole) \in Nat
    <2>1. taken[a] \in SUBSET Blocks
        BY ElementOfSeq DEF FileInv
    <2>2. DataShape(whole, h, taken[a], Source[a])
        BY <2>1, DataFollows
    <2> HIDE DEF whole
    <2>3. QED BY <2>2 DEF DataShape
<1>9. Follows(file', whole)
    <2> HIDE DEF whole
    <2>1. PICK k \in synced .. Len(file) : \E lost \in SUBSET (synced + 1 .. k) :
              file' = [p \in 1 .. k |-> IF p \in lost THEN Torn ELSE file[p]]
        BY <1>1, Zenon
    <2>2. PICK lost \in SUBSET (synced + 1 .. k) :
             file' = [p \in 1 .. k |-> IF p \in lost THEN Torn ELSE file[p]]
        BY <2>1, Zenon
    <2>3. k \in 0 .. Len(file) /\ Follows(file, whole)
        BY <1>2, <1>3, <1>7 DEF whole
    <2>4. QED BY <1>3, <1>8, <2>2, <2>3, FollowsCut
<1>10. LeftOf(file', taken'[a], Source[a]) /\ a \in 1 .. attempt'
    BY <1>1, <1>9 DEF LeftOf
<1>11. QED BY <1>1, <1>10 DEF FileInv, LeftBy

(* The file is always what some call has left.                             *)
LEMMA FileStep ==
    ASSUME FileInv, BackupInvariant, BackupInvariant', Next, TakenStep
    PROVE  FileInv'
<1>1. TypeOK /\ CallInv
    BY DEF BackupInvariant
<1>2. CASE Request
    BY <1>1, <1>2, RequestFile
<1>3. CASE PowerLoss
    <2>1. taken' = taken
        BY <1>3 DEF PowerLoss, call, TakenStep
    <2>2. QED BY <1>3, <2>1, PowerLossFile
<1>4. CASE DaemonDies \/ ReadChunk \/ CopyBlock \/ EmitFinished \/ UNCHANGED <<call, disk, chunk, count>>
    <2>1. UNCHANGED <<attempt, bitmap, taken, file>>
        BY <1>4 DEF DaemonDies, ReadChunk, CopyBlock, EmitFinished, call, disk, TakenStep
    <2>2. QED BY <2>1, SameFile
<1>5. CASE OpenTarget
    <2>1. UNCHANGED <<attempt, bitmap, taken>> /\ file' = <<>>
        BY <1>5 DEF OpenTarget, call, TakenStep
    <2>2. NoImage'
        BY <2>1 DEF NoImage
    <2>3. QED BY <2>1, <2>2 DEF FileInv
<1>6. CASE WriteDesc \/ WriteBitmap \/ WriteChunk \/ WriteFails \/ WriteTrailer
    <2>1. UNCHANGED <<attempt, bitmap, taken>> /\ attempt \in 1 .. MaxAttempts
        BY <1>1, <1>6 DEF WriteDesc, WriteBitmap, WriteChunk, WriteFails, WriteTrailer, call, TakenStep,
           CallInv
    <2>2. CASE pc' \in {"read", "sync"}
        <3>1. LeftOf(file, bitmap, Source[attempt])'
            BY <2>2, LoopLeftNext
        <3>2. QED BY <2>1, <3>1, LeftNow
    <2>3. CASE WriteDesc
        <3>1. /\ pc = "write_desc"
              /\ file' \in {Append(file, Desc(usedblocks))} \cup PartlyWritten(<<Desc(usedblocks)>>)
            BY <2>3 DEF WriteDesc
        <3>2. QED BY <2>1, <3>1, DescLeft, LeftNow
    <2>4. CASE WriteFails
        <3>1. pc = "copy" /\ i = blocks_read /\ file' \in PartlyWritten(write_buffer)
            BY <2>4 DEF WriteFails
        <3>2. QED BY <2>1, <3>1, ChunkLeft, LeftNow
    <2>5. CASE WriteTrailer /\ pc' \notin {"read", "sync"}
        <3>1. /\ pc = "trailer" /\ blocks_in_cs > 0
              /\ file' \in PartlyWritten(<<Checksum(checksum)>>)
            BY <2>5 DEF WriteTrailer, Goto
        <3>2. QED BY <2>1, <3>1, TrailerLeft, LeftNow
    <2>6. CASE WriteBitmap \/ WriteChunk
        <3>1. pc' = "read"
            BY <2>6 DEF WriteBitmap, WriteChunk, Goto
        <3>2. QED BY <2>2, <3>1
    <2>7. QED BY <1>6, <2>2, <2>3, <2>4, <2>5, <2>6
<1>7. QED BY <1>2, <1>3, <1>4, <1>5, <1>6, HandlerCases, Zenon
-----------------------------------------------------------------------------
(* The record of the backup calls only grows.                              *)
LEMMA TakenExtends ==
    ASSUME FileInv, TypeOK, Next, TakenStep
    PROVE  /\ attempt \in Nat /\ attempt' \in Nat /\ attempt =< attempt'
           /\ \A a \in 1 .. attempt : a \in 1 .. attempt' /\ taken'[a] = taken[a]
<1>1. attempt \in Nat /\ taken \in Seq(SUBSET Blocks) /\ Len(taken) = attempt
    BY MaxAttemptsAssumption DEF FileInv, TypeOK
<1>2. CASE attempt' = attempt
    BY <1>1, <1>2 DEF TakenStep
<1>3. CASE Request
    <2> DEFINE S == SUBSET Blocks
    <2>1. attempt' = attempt + 1 /\ taken' = Append(taken, bitmap') /\ bitmap' \in S
        BY <1>1, <1>3 DEF Request, TakenStep
    <2>2. taken \in Seq(S)
        BY <1>1
    <2> HIDE DEF S
    <2>3. \A a \in 1 .. Len(taken) : Append(taken, bitmap')[a] = taken[a]
        BY <2>1, <2>2, AppendProperties
    <2>4. QED BY <1>1, <2>1, <2>3
<1>4. Request \/ attempt' = attempt
    <2>1. DaemonDies \/ PowerLoss \/ OpenTarget \/ WriteDesc \/ WriteBitmap => attempt' = attempt
        BY DEF DaemonDies, PowerLoss, OpenTarget, WriteDesc, WriteBitmap, call
    <2>2. ReadChunk \/ CopyBlock \/ WriteChunk \/ WriteFails \/ WriteTrailer \/ EmitFinished
              => attempt' = attempt
        BY DEF ReadChunk, CopyBlock, WriteChunk, WriteFails, WriteTrailer, EmitFinished, call
    <2>3. UNCHANGED <<call, disk, chunk, count>> => attempt' = attempt
        BY DEF call
    <2>4. QED BY <2>1, <2>2, <2>3, HandlerCases, Zenon
<1>5. QED BY <1>2, <1>3, <1>4

(* A backup between two restores.                                          *)
LEMMA BackupPart ==
    ASSUME BackupInvariant, BackupsComeBack, BackupStep
    PROVE  BackupInvariant' /\ BackupsComeBack'
<1>1. Next /\ TakenStep /\ UNCHANGED restore /\ rpc \in R!Ended
    BY DEF BackupStep, TakenStep
<1>2. BackupInvariant'
    BY <1>1, CallStep
<1>3. FileInv'
    BY <1>1, <1>2, FileStep DEF BackupsComeBack
<1>4. \A a \in 1 .. attempt : a \in 1 .. attempt' /\ taken'[a] = taken[a]
    BY <1>1, TakenExtends DEF BackupsComeBack, BackupInvariant
<1>5. UNCHANGED <<rpc, restores, r_bitmap, size, target>>
    BY <1>1 DEF restore
<1>6. RestoresOneBackup'
    <2>1. SUFFICES ASSUME rpc = "finished"
                   PROVE  \E a \in 1 .. attempt' :
                              r_bitmap = taken'[a] /\ \A b \in r_bitmap : target[b] = Source[a][b]
        BY <1>5 DEF RestoresOneBackup
    <2>2. PICK a \in 1 .. attempt : r_bitmap = taken[a] /\ \A b \in r_bitmap : target[b] = Source[a][b]
        BY <2>1 DEF BackupsComeBack, RestoresOneBackup
    <2>3. QED BY <1>4, <2>2
<1>7. OnlyBackedUpBlocks'
    <2>1. SUFFICES ASSUME NEW b \in DOMAIN target, target[b] \notin OldContents
                   PROVE  \E a \in 1 .. attempt' : b \in taken'[a] /\ target[b] = Source[a][b]
        BY <1>5 DEF OnlyBackedUpBlocks
    <2>2. PICK a \in 1 .. attempt : b \in taken[a] /\ target[b] = Source[a][b]
        BY <2>1 DEF BackupsComeBack, OnlyBackedUpBlocks
    <2>3. QED BY <1>4, <2>2
<1>8. RestoreInv'
    BY <1>1, <1>5 DEF BackupsComeBack, RestoreInv, R!Ended
<1>9. QED BY <1>2, <1>3, <1>6, <1>7, <1>8 DEF BackupsComeBack

-----------------------------------------------------------------------------
(* The record has a bitmap for every call so far.                          *)
LEMMA TakenType ==
    ASSUME BackupInvariant, FileInv, NEW a \in 1 .. MaxAttempts, a =< attempt
    PROVE  a \in 1 .. attempt /\ taken[a] \in SUBSET Blocks
<1> DEFINE S == SUBSET Blocks
<1>1. attempt \in Nat
    BY MaxAttemptsAssumption DEF BackupInvariant, TypeOK
<1>2. taken \in Seq(S) /\ Len(taken) = attempt
    BY DEF FileInv
<1>3. a \in 1 .. attempt
    BY <1>1
<1> HIDE DEF S
<1>4. taken[a] \in S
    BY <1>2, <1>3, ElementOfSeq
<1>5. QED BY <1>3, <1>4 DEF S

(* The bridge from the invariant of R to that of RP, in the state after a  *)
(* step.                                                                   *)
SameInvariantHolds == \A src : R!LoopInv(src) <=> RP!LoopInv(src)

LEMMA SameInvariantNext == SameInvariantHolds'
<1>1. SameInvariantHolds
    BY SameInvariant DEF SameInvariantHolds
<1>2. QED BY <1>1, PTL

(* The contents during a call, as RP types them.                           *)
LEMMA SourceAt ==
    ASSUME NEW a \in 1 .. MaxAttempts
    PROVE  Source[a] \in [RP!Blocks -> Contents]
<1>1. RP!Blocks = Blocks
    BY SameCells
<1>2. QED BY <1>1, BackupSourceAssumption

(* Whatever the file is, it is what a restore may be given.                *)
LEMMA FileIsGiven ==
    ASSUME BackupInvariant, NEW a \in 1 .. MaxAttempts,
           NoImage \/ (taken[a] \in SUBSET Blocks /\ LeftBy(a))
    PROVE  RP!Given(file, Source[a])
<1>1. Source[a] \in [Blocks -> Contents]
    BY BackupSourceAssumption
<1>2. CASE NoImage
    BY <1>2, NoImageGiven
<1>3. CASE ~NoImage
    <2>1. file \in Seq(Cells)
        BY <1>3 DEF NoImage, BackupInvariant, TypeOK
    <2> HIDE DEF Cells
    <2>2. Len(file) \in Nat /\ file \in Seq({file[p] : p \in DOMAIN file})
        BY <2>1
    <2>3. LeftOf(file, taken[a], Source[a]) /\ taken[a] \in SUBSET Blocks
        BY <1>3 DEF LeftBy
    <2>4. QED BY <1>1, <2>2, <2>3, LeftGiven
<1>4. QED BY <1>2, <1>3

(* A restore that has loaded its header has that of a backup call.         *)
LEMMA HeaderOfCall ==
    ASSUME BackupInvariant, FileInv, NEW a \in 1 .. MaxAttempts,
           NoImage \/ (a =< attempt /\ LeftBy(a)), RP!Inv(Source[a]),
           rpc \in {"read", "verify", "write", "finished"}
    PROVE  a \in 1 .. attempt /\ r_bitmap = taken[a]
<1> DEFINE src == Source[a]
<1>1. RP!TypeOK /\ RP!Given(file, src) /\ RP!GivenInv
    BY DEF RP!Inv, RP!LoopInv
<1>2. rpos >= 3 /\ SubSeq(file, 1, 3) = <<RP!Desc(r_usedblocks), RP!Bits(r_bitmap), RP!BitsCrc(r_bitmap)>>
    BY <1>1 DEF RP!GivenInv
<1>3. rpos \in 0 .. Len(file) /\ Len(file) \in Nat
    BY <1>1 DEF RP!TypeOK, RP!Given
<1>4. Len(file) >= 3
    BY <1>2, <1>3
<1>5. file[2] = Bits(r_bitmap) /\ file[3] = BitsCrc(r_bitmap)
    <2>1. src \in [RP!Blocks -> Contents] /\ RP!Given(file, src)
        BY <1>1, SourceAt
    <2> HIDE DEF src
    <2>2. file[2] = RP!Bits(r_bitmap) /\ file[3] = RP!BitsCrc(r_bitmap)
        BY <1>2, <1>4, <2>1, RestoreAssumptions, RP!HeaderNames
    <2>3. QED BY <2>2, SameCells
<1>6. a =< attempt /\ LeftBy(a)
    <2>1. ~NoImage
        BY <1>3, <1>4, NoImageGiven
    <2>2. QED BY <2>1
<1>7. a \in 1 .. attempt /\ taken[a] \in SUBSET Blocks
    BY <1>6, TakenType
<1>8. LeftOf(file, taken[a], src) /\ src \in [Blocks -> Contents]
    BY <1>6, BackupSourceAssumption DEF LeftBy
<1>9. file[2][1] = "bits" /\ file[2][2] = r_bitmap /\ file[3] = BitsCrc(file[2][2])
    BY <1>5 DEF Bits
<1>10. file[2] = Bits(taken[a])
    BY <1>3, <1>4, <1>7, <1>8, <1>9, LeftNames
<1>11. QED BY <1>5, <1>7, <1>10 DEF Bits
-----------------------------------------------------------------------------
(* A step of a restore changes nothing of the backups and not the file.    *)
LEMMA BackupKept ==
    ASSUME BackupInvariant, FileInv, RestoreStep
    PROVE  /\ BackupInvariant' /\ FileInv' /\ RP!Next
           /\ UNCHANGED vars /\ UNCHANGED <<attempt, taken, file>>
<1>1. RP!Next /\ UNCHANGED backup
    BY SameActions DEF RestoreStep
<1>2. file' = file
    <2>1. [RP!Next]_(RP!vars)
        BY <1>1
    <2> HIDE DEF RP!Next, RP!vars
    <2>2. QED BY <2>1, RestoreAssumptions, RP!ImageKept
<1>3. UNCHANGED vars /\ UNCHANGED <<attempt, taken, file, bitmap>>
    BY <1>1, <1>2 DEF backup, vars, disk, call
<1>4. BackupInvariant' /\ FileInv'
    BY <1>3, CallStep, SameFile
<1>5. QED BY <1>1, <1>3, <1>4

(* A new restore may be given the file, whatever it is.                    *)
LEMMA RestoreBegins ==
    ASSUME BackupInvariant, BackupsComeBack, RestoreStep, rpc \in R!Ended
    PROVE  BackupsComeBack'
<1>1. /\ BackupInvariant' /\ FileInv' /\ RP!Next
      /\ UNCHANGED vars /\ UNCHANGED <<attempt, taken, file>>
    BY BackupKept DEF BackupsComeBack
<1>2. RP!Request
    BY <1>1 DEF RP!Next, RP!Handler, R!Ended, RP!Ended, RP!OpenSource, RP!OpenTarget, RP!CheckMemory,
       RP!Prepare, RP!ReadImageDesc, RP!LoadBitmap, RP!CheckSpace, RP!ReadChunk, RP!ReadFails,
       RP!VerifyBlock, RP!VerifyRest, RP!WriteRun, RP!WriteFails, RP!EmitFinished, RP!EmitError,
       RP!DaemonDies
<1>3. /\ rpc' = "open_source" /\ restores < MaxRestores /\ restores' = restores + 1
      /\ UNCHANGED <<size, target>>
    BY <1>2 DEF RP!Request, RP!Restart
<1>4. RP!Restart(rpc')
    BY <1>2 DEF RP!Request, RP!Restart
<1>5. restores \in 0 .. MaxRestores /\ size \in TargetSizes
      /\ target \in [0 .. size - 1 -> Contents \cup OldContents]
    BY DEF BackupsComeBack, RestoreInv
<1>6. restores' \in 0 .. MaxRestores
    BY <1>3, <1>5, RoundTripAssumption
<1>7. attempt \in 0 .. MaxAttempts
    BY DEF BackupInvariant, TypeOK
<1>8. PICK a \in 1 .. MaxAttempts :
          NoImage \/ (a =< attempt /\ taken[a] \in SUBSET Blocks /\ LeftBy(a))
    <2>1. CASE NoImage
        <3>1. 1 \in 1 .. MaxAttempts
            BY RoundTripAssumption, MaxAttemptsAssumption
        <3>2. QED BY <2>1, <3>1
    <2>2. CASE ~NoImage
        <3>1. PICK a \in 1 .. attempt : LeftBy(a)
            BY <2>2 DEF BackupsComeBack, FileInv
        <3>2. a \in 1 .. MaxAttempts /\ a =< attempt
            BY <1>7, MaxAttemptsAssumption
        <3>3. taken[a] \in SUBSET Blocks
            BY <3>2, TakenType DEF BackupsComeBack
        <3>4. QED BY <3>1, <3>2, <3>3
    <2>3. QED BY <2>1, <2>2
<1>9. RP!Given(file, Source[a])
    BY <1>8, FileIsGiven
<1>10. RP!Inv(Source[a])'
    <2> DEFINE src == Source[a]
    <2>1. src \in [RP!Blocks -> Contents] /\ RP!Given(file, src)
        BY <1>9, SourceAt
    <2> HIDE DEF src
    <2>2. RP!Inv(src)'
        BY <1>1, <1>3, <1>4, <1>5, <1>6, <2>1, RestoreAssumptions, RP!RestartStep
    <2>3. QED BY <2>2 DEF src
<1>11. R!LoopInv(Source[a])'
    BY <1>10, SameInvariantNext DEF SameInvariantHolds, RP!Inv
<1>12. NoImage' \/ (a =< attempt' /\ LeftBy(a)')
    BY <1>1, <1>8 DEF NoImage, LeftBy
<1>13. RestoreInv'
    BY <1>3, <1>5, <1>6, <1>11, <1>12 DEF RestoreInv
<1>14. RestoresOneBackup'
    BY <1>3 DEF RestoresOneBackup
<1>15. OnlyBackedUpBlocks'
    BY <1>1, <1>3 DEF BackupsComeBack, OnlyBackedUpBlocks
<1>16. QED BY <1>1, <1>13, <1>14, <1>15 DEF BackupsComeBack

(* What a finished restore has brought back, in the state after a step.    *)
BroughtBack(a) ==
    rpc = "finished" /\ RP!Inv(Source[a]) => \A b \in r_bitmap : target[b] = Source[a][b]

AllBroughtBack == \A a \in 1 .. MaxAttempts : BroughtBack(a)

LEMMA FinishedNext == AllBroughtBack'
<1>1. AllBroughtBack
    <2>1. SUFFICES ASSUME NEW a \in 1 .. MaxAttempts, rpc = "finished", RP!Inv(Source[a])
                   PROVE  \A b \in r_bitmap : target[b] = Source[a][b]
        BY DEF AllBroughtBack, BroughtBack
    <2> DEFINE src == Source[a]
    <2>2. src \in [RP!Blocks -> Contents] /\ RP!Inv(src)
        BY <2>1, SourceAt
    <2> HIDE DEF src
    <2>3. \A b \in r_bitmap : target[b] = src[b]
        BY <2>1, <2>2, RestoreAssumptions, RP!FinishedRestore
    <2>4. QED BY <2>3 DEF src
<1>2. QED BY <1>1, PTL

(* A restore that is running goes on with what one backup call left.       *)
LEMMA RestoreGoesOn ==
    ASSUME BackupInvariant, BackupsComeBack, RestoreStep, rpc \notin R!Ended
    PROVE  BackupsComeBack'
<1>1. /\ BackupInvariant' /\ FileInv' /\ RP!Next
      /\ UNCHANGED vars /\ UNCHANGED <<attempt, taken, file>>
    BY BackupKept DEF BackupsComeBack
<1>2. FileInv /\ OnlyBackedUpBlocks
    BY DEF BackupsComeBack
<1>3. PICK a \in 1 .. MaxAttempts :
          R!LoopInv(Source[a]) /\ (NoImage \/ (a =< attempt /\ LeftBy(a)))
    BY DEF BackupsComeBack, RestoreInv
<1>4. NoImage \/ (taken[a] \in SUBSET Blocks /\ LeftBy(a))
    BY <1>2, <1>3, TakenType
<1>5. RP!Inv(Source[a])
    BY <1>3, <1>4, FileIsGiven, SameInvariant DEF RP!Inv
<1> DEFINE src == Source[a]
<1>6. src \in [RP!Blocks -> Contents] /\ RP!Inv(src) /\ [RP!Next]_(RP!vars)
    BY <1>1, <1>5, SourceAt
<1>7. RP!Inv(src)' /\ RP!BringsBack(src, r_bitmap) /\ (target' # target => rpc = "write" /\ rpc' # "finished")
    <2> HIDE DEF src
    <2>1. QED BY <1>6, RestoreAssumptions, RP!RestoreStep, RP!RestoreTarget
<1>8. R!LoopInv(Source[a])'
    BY <1>7, SameInvariantNext DEF SameInvariantHolds, RP!Inv
<1>9. /\ restores' \in 0 .. MaxRestores /\ size' \in TargetSizes
      /\ target' \in [0 .. size' - 1 -> Contents \cup OldContents]
    BY <1>7 DEF RP!Inv, RP!LoopInv, RP!TypeOK, RP!GivenInv
<1>10. NoImage' \/ (a =< attempt' /\ LeftBy(a)')
    BY <1>1, <1>3 DEF NoImage, LeftBy
<1>11. RestoreInv'
    BY <1>8, <1>9, <1>10 DEF RestoreInv
<1>12. rpc \in {"read", "write"} => a \in 1 .. attempt /\ r_bitmap = taken[a]
    BY <1>2, <1>3, <1>5, HeaderOfCall
<1>13. OnlyBackedUpBlocks'
    <2>1. CASE target' = target
        BY <1>1, <1>2, <2>1 DEF OnlyBackedUpBlocks
    <2>2. CASE target' # target
        <3>1. PICK W \in SUBSET r_bitmap :
                  /\ W \subseteq DOMAIN target
                  /\ target' = [b \in DOMAIN target |-> IF b \in W THEN src[b] ELSE target[b]]
            BY <1>7, <2>2 DEF RP!BringsBack
        <3>2. a \in 1 .. attempt /\ r_bitmap = taken[a]
            BY <1>7, <1>12, <2>2
        <3>3. ASSUME NEW b \in DOMAIN target'
              PROVE  \/ target'[b] \in OldContents
                     \/ \E c \in 1 .. attempt : b \in taken[c] /\ target'[b] = Source[c][b]
            <4>1. b \in DOMAIN target
                BY <3>1
            <4>2. CASE b \in W
                BY <3>1, <3>2, <4>1, <4>2
            <4>3. CASE b \notin W
                BY <1>2, <3>1, <4>1, <4>3 DEF OnlyBackedUpBlocks
            <4>4. QED BY <4>2, <4>3
        <3>4. QED BY <1>1, <3>3 DEF OnlyBackedUpBlocks
    <2>3. QED BY <2>1, <2>2
<1>14. RestoresOneBackup'
    <2>1. SUFFICES ASSUME rpc' = "finished"
                   PROVE  \E c \in 1 .. attempt' :
                              r_bitmap' = taken'[c] /\ \A b \in r_bitmap' : target'[b] = Source[c][b]
        BY DEF RestoresOneBackup
    <2>2. RP!EmitFinished
        BY <1>1, <2>1 DEF RP!Next, RP!Handler, R!Ended, RP!Ended, RP!Request, RP!Restart, RP!Goto, RP!Fail,
           RP!OpenSource, RP!OpenTarget, RP!CheckMemory,
           RP!Prepare, RP!ReadImageDesc, RP!LoadBitmap, RP!CheckSpace, RP!ReadChunk, RP!ReadFails,
           RP!VerifyBlock, RP!VerifyRest, RP!WriteRun, RP!WriteFails, RP!EmitError, RP!DaemonDies
    <2>3. rpc = "read" /\ r_bitmap' = r_bitmap
        BY <2>2 DEF RP!EmitFinished, RP!header
    <2>4. a \in 1 .. attempt /\ r_bitmap = taken[a]
        BY <1>12, <2>3
    <2>5. BroughtBack(a)'
        BY FinishedNext DEF AllBroughtBack
    <2>6. \A b \in r_bitmap' : target'[b] = Source[a][b]
        BY <1>7, <2>1, <2>5 DEF BroughtBack
    <2>7. QED BY <1>1, <2>3, <2>4, <2>6
<1>15. QED BY <1>1, <1>11, <1>13, <1>14 DEF BackupsComeBack
-----------------------------------------------------------------------------
(* Before the first call.                                                  *)
LEMMA NothingTaken == RoundTripInit => BackupInvariant /\ BackupsComeBack
<1> SUFFICES ASSUME RoundTripInit
             PROVE  BackupInvariant /\ BackupsComeBack
    OBVIOUS
<1>1. Init /\ R!NoCallYet /\ taken = <<>>
    BY DEF RoundTripInit
<1>2. BackupInvariant
    BY <1>1, BackupInit
<1>3. attempt = 0 /\ file \in {NoFile, <<>>, <<Foreign>>}
    BY <1>1 DEF Init
<1>4. FileInv
    <2>1. taken \in Seq(SUBSET Blocks) /\ Len(taken) = 0
        BY <1>1, EmptySeq
    <2>2. QED BY <1>3, <2>1 DEF FileInv, NoImage
<1>5. /\ rpc = "idle" /\ restores = 0 /\ size \in TargetSizes
      /\ target \in [0 .. size - 1 -> OldContents]
    BY <1>1 DEF R!NoCallYet
<1>6. target \in [0 .. size - 1 -> Contents \cup OldContents] /\ \A b \in DOMAIN target : target[b] \in OldContents
    BY <1>5
<1>7. RestoreInv
    BY <1>5, <1>6, RoundTripAssumption DEF RestoreInv, R!Ended
<1>8. RestoresOneBackup /\ OnlyBackedUpBlocks
    BY <1>5, <1>6 DEF RestoresOneBackup, OnlyBackedUpBlocks
<1>9. QED BY <1>2, <1>4, <1>7, <1>8 DEF BackupsComeBack

(* Nothing depends on anything but the variables.                          *)
LEMMA NothingHappens ==
    ASSUME BackupInvariant, BackupsComeBack, UNCHANGED <<backup, restore, file>>
    PROVE  BackupInvariant' /\ BackupsComeBack'
<1>1. UNCHANGED vars /\ UNCHANGED <<attempt, bitmap, taken, file>>
    BY DEF backup, vars, call, disk
<1>2. BackupInvariant' /\ FileInv'
    BY <1>1, CallStep, SameFile DEF BackupsComeBack
<1>3. /\ UNCHANGED <<rpc, restores, r_code, r_replies, rpos, r_usedblocks, r_bitmap, r_copied>>
      /\ UNCHANGED <<r_block_id, wpos, r_blocks_read, r_i, read_buffer, read_offset, r_in_cs>>
      /\ UNCHANGED <<r_checksum, r_write_buffer, blocks_written, size, target, r_percent>>
    BY DEF restore
<1>4. RestoresOneBackup' /\ OnlyBackedUpBlocks'
    BY <1>1, <1>3 DEF BackupsComeBack, RestoresOneBackup, OnlyBackedUpBlocks
<1>5. ASSUME NEW a \in 1 .. MaxAttempts, R!LoopInv(Source[a]), NoImage \/ (a =< attempt /\ LeftBy(a))
      PROVE  R!LoopInv(Source[a])' /\ (NoImage' \/ (a =< attempt' /\ LeftBy(a)'))
    <2> DEFINE src == Source[a]
    <2>1. src \in [RP!Blocks -> Contents]
        BY SourceAt
    <2>2. FileInv
        BY DEF BackupsComeBack
    <2>3. NoImage \/ (taken[a] \in SUBSET Blocks /\ LeftBy(a))
        BY <1>5, <2>2, TakenType
    <2>4. RP!Inv(src)
        BY <1>5, <2>3, FileIsGiven, SameInvariant DEF RP!Inv
    <2>5. [RP!Next]_(RP!vars)
        BY <1>1, <1>3 DEF RP!vars, RP!header, RP!given, RP!verify, RP!write
    <2> HIDE DEF src
    <2>6. RP!Inv(src)'
        BY <2>1, <2>4, <2>5, RestoreAssumptions, RP!RestoreStep
    <2>7. R!LoopInv(Source[a])'
        BY <2>6, SameInvariantNext DEF SameInvariantHolds, RP!Inv, src
    <2>8. QED BY <1>1, <1>5, <2>7 DEF NoImage, LeftBy
<1>6. RestoreInv'
    BY <1>3, <1>5 DEF BackupsComeBack, RestoreInv, R!Ended
<1>7. QED BY <1>2, <1>4, <1>6 DEF BackupsComeBack

(* Every step keeps what both handlers keep.                               *)
LEMMA RoundTripStep ==
    ASSUME BackupInvariant, BackupsComeBack, [RoundTripNext]_<<backup, restore, file>>
    PROVE  BackupInvariant' /\ BackupsComeBack'
<1>1. CASE BackupStep
    BY <1>1, BackupPart
<1>2. CASE RestoreStep
    <2>1. BackupInvariant'
        BY <1>2, BackupKept DEF BackupsComeBack
    <2>2. BackupsComeBack'
        BY <1>2, RestoreBegins, RestoreGoesOn
    <2>3. QED BY <2>1, <2>2
<1>3. CASE UNCHANGED <<backup, restore, file>>
    BY <1>3, NothingHappens
<1>4. QED BY <1>1, <1>2, <1>3 DEF RoundTripNext

(* Whatever sequence of backups and restores the main loop runs, and       *)
(* wherever calls fail, the daemon dies or the power goes: a restore that  *)
(* finishes has brought back one backup call's blocks, whole, and a target *)
(* never receives a block no backup call read there.                       *)
THEOREM RoundTripBringsBack == RoundTripSpec => []BackupsComeBack
<1>1. RoundTripInit => BackupInvariant /\ BackupsComeBack
    BY NothingTaken
<1>2. BackupInvariant /\ BackupsComeBack /\ [RoundTripNext]_<<backup, restore, file>>
          => BackupInvariant' /\ BackupsComeBack'
    BY RoundTripStep
<1>3. QED BY <1>1, <1>2, PTL DEF RoundTripSpec

(* Every step of both together is one of BackupToFile, or invisible to it. *)
LEMMA RoundTripIsBackup ==
    ASSUME BackupInvariant, BackupsComeBack, [RoundTripNext]_<<backup, restore, file>>
    PROVE  [Next]_vars
<1>1. BackupStep => Next
    BY DEF BackupStep
<1>2. RestoreStep => UNCHANGED vars
    BY BackupKept DEF BackupsComeBack
<1>3. UNCHANGED <<backup, restore, file>> => UNCHANGED vars
    BY DEF backup, vars, disk
<1>4. QED BY <1>1, <1>2, <1>3 DEF RoundTripNext

(* Restores in between leave every backup what it is alone: with them the  *)
(* backups still satisfy their own specification, and so all that has been *)
(* proved of it.                                                           *)
THEOREM BackupsAreUndisturbed == RoundTripSpec => Spec
<1>1. RoundTripInit => BackupInvariant /\ BackupsComeBack /\ Init
    BY NothingTaken DEF RoundTripInit
<1>2. BackupInvariant /\ BackupsComeBack /\ [RoundTripNext]_<<backup, restore, file>>
          => BackupInvariant' /\ BackupsComeBack'
    BY RoundTripStep
<1>3. BackupInvariant /\ BackupsComeBack /\ [RoundTripNext]_<<backup, restore, file>> => [Next]_vars
    BY RoundTripIsBackup
<1>4. QED BY <1>1, <1>2, <1>3, PTL DEF RoundTripSpec, Spec

(* In particular a restore never spoils an image: between backups and      *)
(* restores too, the file changes only as FilesKept says, a backup that is *)
(* announced as finished has written its complete image, and as long as    *)
(* none of its fsyncs has failed the image is on disk, for extfs and xfsfs *)
(* but for its last checksum.                                              *)
THEOREM ImagesSurviveRestores ==
    RoundTripSpec => FilesKept /\ []FinishedImageIsComplete /\ []DurableWhenFinished
BY BackupsAreUndisturbed, FilesAreKept, FinishedIsComplete, FinishedIsDurable, PTL
=============================================================================
