---------------------------- MODULE RestoreImage ----------------------------
(***************************************************************************)
(* gdbus_sysbak_restore: an image file is written back to a partition.     *)
(* The image may be complete, cut off or damaged.  Every system call may   *)
(* fail, the daemon may die in the middle, and after a failure or a death  *)
(* it may be called again for the same image and target.                   *)
(***************************************************************************)
EXTENDS ImageFormat

CONSTANTS
    MaxRestores,  \* bound on the number of calls
    TargetSizes,  \* the sizes, in blocks, the target partition may have
    OldContents,  \* what a block of the target may hold beforehand
    UsedCounts,   \* the counts of used blocks a header may hold
    Images,       \* the image files a call may be given
    Source        \* what the partition held when the images were taken

ASSUME RestoreSourceAssumption == Source \in [Blocks -> Contents]
ASSUME RestoreSizesAssumption  == TargetSizes \subseteq Nat
ASSUME RestoreCountsAssumption == UsedCounts \subseteq Nat
ASSUME RestoresAssumption      == MaxRestores \in Nat

(* The bytes of a torn cell are no block's contents.                       *)
ASSUME RestoreContentsAssumption == Torn[2] \notin Contents

(* What may have happened to an image since its backup finished: it is cut *)
(* off somewhere, cells of it are lost, blocks of it hold other contents.  *)
(* Nobody has computed new checksums for it.                               *)
Damaged(img, whole) ==
    \E k \in 0 .. Len(whole) :
        /\ img \in [1 .. k -> {img[p] : p \in DOMAIN img}]
        /\ \A p \in 1 .. k :
              /\ img[p][1] = "block" => img[p][2] \in Contents
              /\ \/ img[p] \in {whole[p], Torn}
                 \/ whole[p][1] = "block" /\ img[p] = Block(img[p][2])

ASSUME RestoreImagesAssumption ==
    \A img \in Images : \E u \in UsedCounts, B \in SUBSET Blocks :
        Damaged(img, CompleteImage(u, B, Source))

VARIABLES
    pc,              \* the next step of the handler, or how the last call ended
    restores,        \* number of calls so far
    e_code,          \* index of the error message, -1 before there is one
    replies,         \* how often the invocation has been completed
    image,           \* the cells of the image file
    rpos,            \* cells of it read so far
    usedblocks,      \* fs_info.usedblocks, from the header
    bitmap,          \* the bitmap of the image
    copied_count,    \* blocks written
    block_id,        \* next block of the partition
    wpos,            \* file position in the target, in blocks
    blocks_read,     \* blocks in the chunk
    i,               \* blocks of the chunk already verified
    read_buffer,     \* cells of the chunk
    read_offset,     \* cells of it already consumed
    blocks_in_cs,    \* blocks since the last checksum
    checksum,        \* what the running checksum has been computed from
    write_buffer,    \* contents of the chunk's blocks
    blocks_written,  \* blocks of the chunk already written
    size,            \* number of blocks of the target
    target,          \* contents of the target
    percent          \* last percentage signalled, 0 before there is one

header == <<usedblocks, bitmap>>
given  == <<restores, image, size>>
verify == <<rpos, blocks_read, i, read_buffer, read_offset, blocks_in_cs, checksum, write_buffer>>
write  == <<copied_count, block_id, wpos, blocks_written, target, percent>>
vars   == <<pc, e_code, replies, header, given, verify, write>>

Ended == {"idle", "finished", "failed"}

NoCallYet ==
    /\ pc = "idle" /\ restores = 0
    /\ e_code = -1 /\ replies = 0
    /\ size \in TargetSizes /\ target \in [0 .. size - 1 -> OldContents]
    /\ usedblocks = 0 /\ bitmap = {}
    /\ rpos = 0 /\ copied_count = 0 /\ block_id = 0 /\ wpos = 0
    /\ blocks_read = 0 /\ i = 0 /\ read_buffer = <<>> /\ read_offset = 0
    /\ blocks_in_cs = 0 /\ checksum = <<>> /\ write_buffer = <<>>
    /\ blocks_written = 0 /\ percent = 0

Init == NoCallYet /\ image \in Images
-----------------------------------------------------------------------------
Goto(step) == pc' = step /\ e_code' = e_code

Fail(code) == pc' = "error" /\ e_code' = code

(* Nothing of an earlier call is left in the handler's variables.          *)
Restart(step) ==
    /\ pc' = step /\ e_code' = -1 /\ replies' = 0
    /\ usedblocks' = 0 /\ bitmap' = {}
    /\ rpos' = 0 /\ copied_count' = 0 /\ block_id' = 0 /\ wpos' = 0
    /\ blocks_read' = 0 /\ i' = 0 /\ read_buffer' = <<>> /\ read_offset' = 0
    /\ blocks_in_cs' = 0 /\ checksum' = <<>> /\ write_buffer' = <<>>
    /\ blocks_written' = 0 /\ percent' = 0

Request ==
    /\ pc \in {"idle", "failed"}
    /\ restores < MaxRestores
    /\ restores' = restores + 1
    /\ Restart("open_source")
    /\ UNCHANGED <<image, size, target>>

Prepare(step, next, code) ==
    /\ pc = step
    /\ Goto(next) \/ Fail(code)
    /\ UNCHANGED <<replies, header, given, verify, write>>

OpenSource  == Prepare("open_source", "open_target", 1)
OpenTarget  == Prepare("open_target", "read_image_desc", 2)
CheckMemory == Prepare("check_memory", "load_bitmap", 4)

(* Magic, CRC and byte order are those of a whole header.                  *)
ReadImageDesc ==
    /\ pc = "read_image_desc"
    /\ \/ /\ Len(image) >= 1 /\ image[1][1] = "desc"
          /\ usedblocks' = image[1][2]
          /\ rpos' = 1
          /\ Goto("check_memory")
       \/ Fail(9) /\ UNCHANGED <<usedblocks, rpos>>
    /\ UNCHANGED <<replies, bitmap, given, write, blocks_read, i, read_buffer,
                   read_offset, blocks_in_cs, checksum, write_buffer>>

(* load_image_bitmap_bits: the bitmap and the CRC stored behind it.        *)
LoadBitmap ==
    /\ pc = "load_bitmap"
    /\ \/ /\ Len(image) >= 3 /\ image[2][1] = "bits"
          /\ image[3] = BitsCrc(image[2][2])
          /\ bitmap' = image[2][2]
          /\ rpos' = 3
          /\ Goto("check_space")
       \/ Fail(5) /\ UNCHANGED <<bitmap, rpos>>
    /\ UNCHANGED <<replies, usedblocks, given, write, blocks_read, i, read_buffer,
                   read_offset, blocks_in_cs, checksum, write_buffer>>

CheckSpace ==
    /\ pc = "check_space"
    /\ IF size < TotalBlocks THEN Fail(6) /\ replies' = replies
                             ELSE Goto("read") /\ replies' = replies + 1
    /\ UNCHANGED <<header, given, verify, write>>
-----------------------------------------------------------------------------
get_blocks_used == Cardinality({b \in Blocks : pc_test_bit(b, bitmap)})

(* Mutant: the last chunk is not shortened.                                *)
NextChunkFull == IF copied_count < get_blocks_used THEN BufferCapacity ELSE 0

(* Mutant: a last chunk that is not full is forgotten.                     *)
NextChunkNoRest == IF get_blocks_used - copied_count >= BufferCapacity THEN BufferCapacity ELSE 0

(* The blocks of the next chunk, and the cells they take up in the image   *)
(* with the checksums among them and, behind a short last chunk, the       *)
(* checksum of the rest.                                                   *)
NextChunk ==
    IF copied_count + BufferCapacity < get_blocks_used
    THEN BufferCapacity ELSE get_blocks_used - copied_count

ShortChunk(n) == n < BufferCapacity /\ n % blocks_per_checksum # 0

ReadSize(n) ==
    convert_blocks_to_bytes(copied_count, n, blocks_per_checksum)
        + IF ShortChunk(n) /\ get_blocks_used % blocks_per_checksum # 0
          THEN 1 ELSE 0

ReadChunk ==
    LET n == NextChunk
    IN  /\ pc = "read"
        /\ n > 0
        /\ rpos + ReadSize(n) =< Len(image)
        /\ read_buffer' = SubSeq(image, rpos + 1, rpos + ReadSize(n))
        /\ rpos' = rpos + ReadSize(n)
        /\ blocks_read' = n
        /\ i' = 0 /\ read_offset' = 0 /\ write_buffer' = <<>>
        /\ Goto("verify")
        /\ UNCHANGED <<replies, header, given, blocks_in_cs, checksum, write>>

(* The image ends too early, or read fails.                                *)
ReadFails ==
    /\ pc = "read"
    /\ NextChunk > 0
    /\ Fail(8)
    /\ UNCHANGED <<replies, header, given, verify, write>>

(* The bytes of any cell but a whole block are no block's contents.        *)
ContentOf(cell) == IF cell[1] = "block" THEN cell[2] ELSE Torn[2]

(* Mutant: the comparison is left out.                                     *)
ChecksumIgnored(cell, covered) == TRUE

ChecksumMatches(cell, covered) == cell = Checksum(covered)

(* One turn of the loop that unpacks the chunk: the block is copied, and   *)
(* when it completes a group the checksum behind it is compared.           *)
VerifyBlock ==
    LET content == ContentOf(read_buffer[read_offset + 1])
        covered == Append(checksum, content)
        full    == blocks_in_cs + 1 = blocks_per_checksum
    IN  /\ pc = "verify"
        /\ i < blocks_read
        /\ i' = i + 1
        /\ write_buffer' = Append(write_buffer, content)
        /\ IF full
           THEN /\ blocks_in_cs' = 0 /\ checksum' = <<>>
                /\ read_offset' = read_offset + 2
                /\ IF ChecksumMatches(read_buffer[read_offset + 2], covered)
                   THEN Goto("verify") ELSE Fail(8)
           ELSE /\ blocks_in_cs' = blocks_in_cs + 1 /\ checksum' = covered
                /\ read_offset' = read_offset + 1
                /\ Goto("verify")
        /\ UNCHANGED <<replies, header, given, rpos, blocks_read, read_buffer, write>>

(* The checksum of the rest, behind a short last chunk.                    *)
VerifyRest ==
    /\ pc = "verify"
    /\ i = blocks_read
    /\ IF /\ blocks_in_cs > 0 /\ ShortChunk(blocks_read)
          /\ ~ChecksumMatches(read_buffer[read_offset + 1], checksum)
       THEN Fail(8) ELSE Goto("write")
    /\ blocks_written' = 0
    /\ UNCHANGED <<replies, header, given, verify, copied_count, block_id, wpos,
                   target, percent>>

(* Mutant: every run is taken from the front of the write buffer.          *)
WrittenFromFront(p, n) ==
    [b \in DOMAIN target |->
        IF b \in p .. p + n - 1 THEN write_buffer[b - p + 1] ELSE target[b]]

(* The target after n blocks of the write buffer went out at position p.   *)
Written(p, n) ==
    [b \in DOMAIN target |->
        IF b \in p .. p + n - 1 THEN write_buffer[blocks_written + b - p + 1]
                                ELSE target[b]]

(* Mutant: unused blocks do not move the file position.                    *)
NoSeek(start) == wpos

(* lseek(SEEK_CUR) over the unused blocks.                                 *)
SeekTo(start) == wpos + (start - block_id)

(* One turn of the inner loop: the file position skips the unused blocks,  *)
(* relative to where it was, and the next run of used blocks is written.   *)
WriteRun ==
    /\ pc = "write"
    /\ \E start \in block_id .. TotalBlocks, n \in 1 .. BufferCapacity :
          /\ UsedRun(block_id, bitmap, blocks_read - blocks_written, start, n)
          /\ n =< blocks_read - blocks_written
          /\ SeekTo(start) + n =< size
          /\ target' = Written(SeekTo(start), n)
          /\ wpos' = SeekTo(start) + n
          /\ block_id' = start + n
          /\ blocks_written' = blocks_written + n
          /\ copied_count' = copied_count + n
    /\ percent' = progress_update(copied_count', usedblocks)
    /\ Goto(IF blocks_written' < blocks_read THEN "write" ELSE "read")
    /\ UNCHANGED <<replies, header, given, verify>>

(* lseek or write fails; part of the run may have been written.            *)
WriteFails ==
    /\ pc = "write"
    /\ \E start \in block_id .. TotalBlocks, n \in 1 .. BufferCapacity :
          /\ UsedRun(block_id, bitmap, blocks_read - blocks_written, start, n)
          /\ n =< blocks_read - blocks_written
          /\ \E k \in 0 .. n - 1 : target' = Written(SeekTo(start), k)
    /\ Fail(8)
    /\ UNCHANGED <<replies, header, given, verify, copied_count, block_id, wpos,
                   blocks_written, percent>>

EmitFinished ==
    /\ pc = "read"
    /\ NextChunk = 0
    /\ Goto("finished")
    /\ UNCHANGED <<replies, header, given, verify, write>>

EmitError ==
    /\ pc = "error"
    /\ replies' = replies + 1
    /\ Goto("failed")
    /\ UNCHANGED <<header, given, verify, write>>

Handler ==
    \/ OpenSource \/ OpenTarget \/ ReadImageDesc \/ CheckMemory \/ LoadBitmap
    \/ CheckSpace \/ ReadChunk \/ ReadFails \/ VerifyBlock \/ VerifyRest
    \/ WriteRun \/ WriteFails \/ EmitFinished \/ EmitError

(* The daemon dies: what it wrote to the target stays.                     *)
DaemonDies ==
    /\ pc \notin Ended
    /\ Restart("idle")
    /\ UNCHANGED <<given, target>>

Next == Request \/ Handler \/ DaemonDies

Spec == Init /\ [][Next]_vars

(* The handler runs on the main loop until it returns.                     *)
FairSpec == Spec /\ WF_vars(Handler)
-----------------------------------------------------------------------------
TypeOK ==
    /\ restores \in 0 .. MaxRestores
    /\ e_code \in {-1} \cup 1 .. 9
    /\ replies \in 0 .. 2
    /\ rpos \in 0 .. Len(image)
    /\ bitmap \in SUBSET Blocks /\ usedblocks \in Nat
    /\ copied_count \in 0 .. TotalBlocks /\ block_id \in 0 .. TotalBlocks
    /\ blocks_read \in 0 .. BufferCapacity /\ i \in 0 .. blocks_read
    /\ blocks_written \in 0 .. BufferCapacity
    /\ blocks_in_cs \in 0 .. blocks_per_checksum - 1
    /\ write_buffer \in Seq(Contents \cup {Torn[2]})
    /\ checksum \in Seq(Contents \cup {Torn[2]})
    /\ target \in [0 .. size - 1 -> Contents \cup OldContents]
    /\ percent \in 0 .. 100

(* A chunk is read into a buffer allocated for a full chunk and its        *)
(* checksum, and unpacking it never looks behind what was read, also when  *)
(* the last chunk brings the checksum of the rest with it.                 *)
ReadBufferBound ==
    /\ Len(read_buffer) =< convert_blocks_to_bytes(0, BufferCapacity, blocks_per_checksum)
    /\ pc = "verify" =>
          read_offset + (blocks_read - i)
              + (IF blocks_in_cs + (blocks_read - i) > 0 THEN 1 ELSE 0)
                  =< Len(read_buffer)

(* The target's file position only ever moves relatively; it stays at the  *)
(* block the loop is working on.                                           *)
PositionFollowsLoop == pc \in {"read", "verify", "write"} => wpos = block_id

(* Whatever is wrong with the image and wherever a restore stops, a block  *)
(* of the target holds what it held before or what belongs there: damaged  *)
(* blocks are found before their chunk is written.                         *)
OnlyGoodBlocksWritten ==
    \A b \in DOMAIN target :
        target[b] \in OldContents \/ (b \in Blocks /\ target[b] = Source[b])

(* Completed once, or twice when the copy fails.                           *)
RepliesMatchOutcome ==
    /\ pc = "finished" => replies = 1
    /\ pc = "failed" => replies = IF e_code = 8 THEN 2 ELSE 1

(* What the loops keep on the way, for an image of a partition that held   *)
(* src.  The header in use is the image's, and nothing is counted before   *)
(* the first chunk.                                                        *)
Preparing == {"open_source", "open_target", "read_image_desc", "check_memory", "load_bitmap", "check_space"}
Copying   == {"read", "verify", "write"}

GivenInv ==
    /\ size \in TargetSizes
    /\ pc \in Preparing =>
          copied_count = 0 /\ block_id = 0 /\ wpos = 0 /\ blocks_in_cs = 0 /\ checksum = <<>>
    /\ pc \in {"check_memory", "load_bitmap"} => rpos = 1 /\ image[1] = Desc(usedblocks)
    /\ pc = "check_space" => rpos = 3
    /\ pc \in {"check_space", "read", "verify", "write", "finished"} =>
          rpos >= 3 /\ SubSeq(image, 1, 3) = <<Desc(usedblocks), Bits(bitmap), BitsCrc(bitmap)>>

RepliesInv ==
    /\ pc \in Preparing => replies = 0
    /\ pc \in Copying => replies = 1 /\ TotalBlocks =< size
    /\ pc = "error" => replies = IF e_code = 8 THEN 1 ELSE 0

(* The used blocks below block_id are counted and in place.                *)
PrefixInv(src) ==
    pc \in Copying \cup {"finished"} =>
        /\ copied_count = Cardinality(Below(bitmap, block_id))
        /\ \A b \in Below(bitmap, block_id) : target[b] = src[b]

(* The cells before a position are those of the complete image.            *)
GoodUpTo(src, n) ==
    LET whole == CompleteImage(usedblocks, bitmap, src)
    IN  \A p \in 1 .. n : image[p] = whole[p]

(* Between two chunks the loop is at the end of a group or of the data.    *)
ReadInv(src) ==
    LET n == Cardinality(bitmap)
    IN  /\ pc \in {"read", "finished"} => GoodUpTo(src, rpos)
        /\ pc = "read" /\ copied_count < n =>
              /\ copied_count % blocks_per_checksum = 0
              /\ blocks_in_cs = 0 /\ checksum = <<>>
              /\ rpos = 3 + CellsOf(copied_count)
        /\ pc = "read" /\ copied_count = n => rpos = 3 + DataLength(n)
        /\ pc = "finished" => copied_count = n /\ rpos = 3 + DataLength(n)

(* Where the chunk began.                                                  *)
Base == IF pc = "write" THEN copied_count - blocks_written ELSE copied_count

(* A chunk is one group of blocks: a full one, or the rest.  What has been *)
(* unpacked of it is in the write buffer and, until the group is full, in  *)
(* the running checksum.  A chunk that is being written has been verified. *)
ChunkInv(src) ==
    LET n     == Cardinality(bitmap)
        C     == blocks_per_checksum
        first == 3 + CellsOf(Base)
    IN  /\ pc \in {"verify", "write"} =>
              /\ Base \in Nat /\ Base < n /\ Base % C = 0
              /\ blocks_read = IF Base + C < n THEN C ELSE n - Base
              /\ rpos = first + blocks_read + 1
              /\ blocks_in_cs = IF i = C THEN 0 ELSE i
              /\ checksum = IF i = C THEN <<>> ELSE write_buffer
        /\ pc = "verify" =>
              /\ GoodUpTo(src, first)
              /\ read_buffer = SubSeq(image, first + 1, rpos)
              /\ write_buffer = [k \in 1 .. i |-> ContentOf(image[first + k])]
              /\ read_offset = IF i = C THEN C + 1 ELSE i
              /\ i = C => image[rpos] = Checksum(write_buffer)
        /\ pc = "write" =>
              /\ GoodUpTo(src, rpos) /\ i = blocks_read /\ blocks_written < blocks_read
              /\ write_buffer = [k \in 1 .. blocks_read |-> src[KthUsed(bitmap, Base + k)]]

LoopInv(src) ==
    /\ TypeOK /\ ReadBufferBound /\ PositionFollowsLoop /\ RepliesMatchOutcome
    /\ GivenInv /\ RepliesInv /\ PrefixInv(src) /\ ReadInv(src) /\ ChunkInv(src)

(* What holds at every step of a restore, whatever fails and whatever is   *)
(* wrong with the image.                                                   *)
RestoreInvariant == LoopInv(Source) /\ OnlyGoodBlocksWritten

(* A restore announces "finished" only for a complete, undamaged image,    *)
(* and then the target holds what the partition held.                      *)
FinishedIsExact ==
    pc = "finished" =>
        /\ image = CompleteImage(usedblocks, bitmap, Source)
        /\ \A b \in bitmap : target[b] = Source[b]

(* The bitmap an image names, and whether the image is a complete one.     *)
ImageBits == IF Len(image) >= 2 /\ image[2][1] = "bits" THEN image[2][2] ELSE {}

ImageIsComplete ==
    Len(image) > 0 /\ image = CompleteImage(image[1][2], ImageBits, Source)

(* The other way round, the loop's chunks and its arithmetic of cells fit  *)
(* what a backup writes: of a complete image the loop never finds too few  *)
(* cells or a wrong checksum, so that only a failing call can stop it.     *)
CompleteImageAccepted ==
    [][ ImageIsComplete =>
          /\ ~(pc = "verify" /\ pc' = "error")
          /\ pc = "read" => rpos + ReadSize(NextChunk) =< Len(image) ]_vars

(* Every call ends: finished, failed, or cut off by the daemon's death.    *)
EveryCallEnds == pc = "open_source" ~> pc \in Ended

(* A call ends, and one with a complete image is never stopped by the      *)
(* image.                                                                  *)
RestoreEnds == CompleteImageAccepted /\ EveryCallEnds

(* Over all its calls the restore implements the abstract copy of the used *)
(* blocks the image names.                                                 *)
status == IF pc = "finished" THEN "finished" ELSE "running"

Abstract == INSTANCE AbstractCopy WITH used <- ImageBits, device <- target

ImplementsAbstractCopy == Abstract!AbstractSpec
=============================================================================
