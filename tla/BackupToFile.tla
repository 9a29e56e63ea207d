---------------------------- MODULE BackupToFile ----------------------------
(***************************************************************************)
(* The handlers that back a partition up to an image file                  *)
(* (gdbus_sysbak_extfs_ptf and its fatfs, btrfs and xfsfs copies), called  *)
(* again and again for the same image file.  Every system call may fail,   *)
(* fsync too, a failed write may leave part of what it wrote, the daemon   *)
(* may die and the machine may go down in the middle of a backup.          *)
(***************************************************************************)
EXTENDS ImageFormat

CONSTANTS
    MaxAttempts,  \* bound on the number of calls
    Source,       \* Source[a]: the contents of the partition during call a
    UsedCounts,   \* the counts of used blocks a superblock may hold
    Foreign       \* a non-empty file that is not an image

ASSUME MaxAttemptsAssumption == MaxAttempts \in Nat
ASSUME UsedCountsAssumption == UsedCounts \subseteq Nat
ASSUME BackupSourceAssumption == Source \in [1 .. MaxAttempts -> [Blocks -> Contents]]
ASSUME ForeignAssumption == Foreign[1] # "desc"

VARIABLES
    pc,            \* the next step of the handler, or how the last call ended
    attempt,       \* number of calls so far
    family,        \* which handler was called
    overwrite,     \* the call's overwrite argument
    e_code,        \* index of the error message, -1 before there is one
    replies,       \* how often the invocation has been completed
    bitmap,        \* the used blocks, as read_bitmap_info delivers them
    usedblocks,    \* the superblock's count of used blocks
    file,          \* the image file: NoFile or its cells
    synced,        \* how many cells of it fsync has put on disk
    sync_failed,   \* an fsync of this call has failed
    block_id,      \* next block of the loop; start of the chunk once read
    blocks_read,   \* length of the chunk
    i,             \* blocks of the chunk already in the write buffer
    blocks_in_cs,  \* blocks since the last checksum
    checksum,      \* what the running checksum has been computed from
    write_buffer,  \* cells waiting to be written
    cs_added,      \* checksums among them
    copied_count,  \* blocks written
    percent        \* last percentage signalled, 0 before there is one

call  == <<attempt, family, overwrite, bitmap, usedblocks>>
disk  == <<file, synced, sync_failed>>
chunk == <<i, blocks_in_cs, checksum, write_buffer, cs_added>>
count == <<block_id, blocks_read, copied_count, percent>>
vars  == <<pc, e_code, replies, call, disk, chunk, count>>

NoFile == <<<<"no file", -1>>>>

Ended == {"idle", "finished", "failed"}

(* Mutant: no fsync at the end.                                            *)
NeverSynced == FALSE

(* The four handlers differ in two places only.  extfs and xfsfs call      *)
(* fsync after every chunk and not again, fatfs and btrfs once at the end; *)
(* xfsfs completes the invocation after the copy, the others before it.    *)
Families      == {"extfs", "fatfs", "btrfs", "xfsfs"}
SyncEachChunk == family \in {"extfs", "xfsfs"}
SyncAtEnd     == family \in {"fatfs", "btrfs"}
ReplyFirst    == family # "xfsfs"

Init ==
    /\ pc = "idle" /\ attempt = 0
    /\ family = "extfs" /\ overwrite = FALSE
    /\ e_code = -1 /\ replies = 0
    /\ bitmap = {} /\ usedblocks = 0
    /\ file \in {NoFile, <<>>, <<Foreign>>} /\ synced = 0 /\ sync_failed = FALSE
    /\ block_id = 0 /\ blocks_read = 0 /\ copied_count = 0 /\ percent = 0
    /\ i = 0 /\ blocks_in_cs = 0 /\ checksum = <<>>
    /\ write_buffer = <<>> /\ cs_added = 0
-----------------------------------------------------------------------------
Goto(step) == pc' = step /\ e_code' = e_code

Fail(code) == pc' = "error" /\ e_code' = code

(* What a failed write of the cells in s leaves at the end of the file: a  *)
(* proper part of them, the last of which may be cut off.                  *)
PartlyWritten(s) ==
    UNION {{file \o SubSeq(s, 1, k), Append(file \o SubSeq(s, 1, k), Torn)} :
             k \in 0 .. Len(s) - 1}

(* No handler looks at the result of fsync.  The pages that a failed fsync *)
(* could not write count as clean afterwards: a later one that succeeds    *)
(* does not make up for it, and nothing more is sure to be on disk.        *)
fsync ==
    \/ /\ synced' = IF sync_failed THEN synced ELSE Len(file')
       /\ UNCHANGED sync_failed
    \/ /\ sync_failed' = TRUE
       /\ UNCHANGED synced

(* Nothing of an earlier call is left in the handler's variables.          *)
Restart(step) ==
    /\ pc' = step /\ e_code' = -1 /\ replies' = 0
    /\ block_id' = 0 /\ blocks_read' = 0 /\ copied_count' = 0 /\ percent' = 0
    /\ i' = 0 /\ blocks_in_cs' = 0 /\ checksum' = <<>>
    /\ write_buffer' = <<>> /\ cs_added' = 0 /\ sync_failed' = FALSE

Request ==
    /\ pc \in Ended
    /\ attempt < MaxAttempts
    /\ attempt' = attempt + 1
    /\ family' \in Families
    /\ overwrite' \in BOOLEAN
    /\ bitmap' \in SUBSET Blocks
    /\ usedblocks' \in UsedCounts
    /\ Restart("open_source")
    /\ UNCHANGED <<file, synced>>

Prepare(step, next, code) ==
    /\ pc = step
    /\ Goto(next) \/ Fail(code)
    /\ UNCHANGED <<replies, call, disk, chunk, count>>

OpenSource      == Prepare("open_source", "open_target", 1)
ReadSuperBlocks == Prepare("read_super_blocks", "check_memory", 3)
CheckMemory     == Prepare("check_memory", "read_bitmap", 4)
ReadBitmap      == Prepare("read_bitmap", "check_space", 5)
CheckSpace      == Prepare("check_space", "write_desc", 6)

(* A file may be replaced when it is missing, empty or begins with a valid *)
(* image header.                                                           *)
check_file_type ==
    file \notin {NoFile, <<>>} => file[1][1] = "desc"

(* Mutant: O_EXCL is forgotten.                                            *)
OpenTargetNotExclusive ==
    /\ pc = "open_target"
    /\ check_file_type
    /\ file' = <<>> /\ synced' = 0
    /\ Goto("read_super_blocks")
    /\ UNCHANGED <<sync_failed, replies, call, chunk, count>>

(* O_CREAT | O_TRUNC, with O_EXCL unless overwrite is set.                 *)
OpenTarget ==
    /\ pc = "open_target"
    /\ check_file_type
    /\ file = NoFile \/ overwrite
    /\ file' = <<>> /\ synced' = 0
    /\ Goto("read_super_blocks")
    /\ UNCHANGED <<sync_failed, replies, call, chunk, count>>

(* The file's type or O_EXCL forbids it, or open itself fails.             *)
OpenTargetFails ==
    /\ pc = "open_target"
    /\ Fail(2)
    /\ UNCHANGED <<replies, call, disk, chunk, count>>

WriteDesc ==
    /\ pc = "write_desc"
    /\ \/ file' = Append(file, Desc(usedblocks)) /\ Goto("write_bitmap")
       \/ file' \in PartlyWritten(<<Desc(usedblocks)>>) /\ Fail(7)
    /\ UNCHANGED <<synced, sync_failed, replies, call, chunk, count>>

(* The handlers do not look at the result of write_image_bitmap.           *)
WriteBitmap ==
    /\ pc = "write_bitmap"
    /\ LET cells == <<Bits(bitmap), BitsCrc(bitmap)>>
       IN  file' \in {file \o cells} \cup PartlyWritten(cells)
    /\ Goto("read")
    /\ replies' = IF ReplyFirst THEN replies + 1 ELSE replies
    /\ UNCHANGED <<synced, sync_failed, call, chunk, count>>

ReadChunk ==
    /\ pc = "read"
    /\ \E start \in block_id .. TotalBlocks, n \in 1 .. BufferCapacity :
          /\ get_read_blocks_size(block_id, bitmap, start, n)
          /\ block_id' = start
          /\ blocks_read' = n
    /\ i' = 0 /\ write_buffer' = <<>> /\ cs_added' = 0
    /\ Goto("copy")
    /\ UNCHANGED <<replies, call, disk, blocks_in_cs, checksum, copied_count, percent>>

ReadFails ==
    /\ pc = "read"
    /\ ~NothingLeft(block_id, bitmap)
    /\ Fail(8)
    /\ UNCHANGED <<replies, call, disk, chunk, count>>

(* One turn of the loop that fills the write buffer, without and with the  *)
(* checksum that the block completes.                                      *)
CopyBlock ==
    LET content == Source[attempt][block_id + i]
        full    == blocks_in_cs + 1 = blocks_per_checksum
        covered == Append(checksum, content)
    IN  /\ pc = "copy"
        /\ i < blocks_read
        /\ i' = i + 1
        /\ write_buffer' = write_buffer \o IF full
                              THEN <<Block(content), Checksum(covered)>>
                              ELSE <<Block(content)>>
        /\ cs_added'     = IF full THEN cs_added + 1 ELSE cs_added
        /\ blocks_in_cs' = IF full THEN 0 ELSE blocks_in_cs + 1
        /\ checksum'     = IF full THEN <<>> ELSE covered
        /\ UNCHANGED <<pc, e_code, replies, call, disk, count>>

WriteChunk ==
    /\ pc = "copy"
    /\ i = blocks_read
    /\ file' = file \o write_buffer
    /\ IF SyncEachChunk THEN fsync ELSE UNCHANGED <<synced, sync_failed>>
    /\ block_id' = block_id + blocks_read
    /\ copied_count' = copied_count + blocks_read
    /\ percent' = progress_update(copied_count', usedblocks)
    /\ Goto("read")
    /\ UNCHANGED <<replies, call, chunk, blocks_read>>

WriteFails ==
    /\ pc = "copy"
    /\ i = blocks_read
    /\ file' \in PartlyWritten(write_buffer)
    /\ Fail(8)
    /\ UNCHANGED <<synced, sync_failed, replies, call, chunk, count>>

(* Mutant: the loop leaves past the checksum of the rest.                  *)
EndOfDataNoTrailer ==
    /\ pc = "read"
    /\ NothingLeft(block_id, bitmap)
    /\ Goto("sync")
    /\ UNCHANGED <<replies, call, disk, chunk, count>>

EndOfData ==
    /\ pc = "read"
    /\ NothingLeft(block_id, bitmap)
    /\ Goto("trailer")
    /\ UNCHANGED <<replies, call, disk, chunk, count>>

(* The checksum of the last blocks, when they did not complete one.        *)
WriteTrailer ==
    /\ pc = "trailer"
    /\ \/ /\ blocks_in_cs = 0
          /\ Goto("sync")
          /\ file' = file
       \/ /\ blocks_in_cs > 0
          /\ Goto("sync")
          /\ file' = Append(file, Checksum(checksum))
       \/ /\ blocks_in_cs > 0
          /\ Fail(8)
          /\ file' \in PartlyWritten(<<Checksum(checksum)>>)
    /\ UNCHANGED <<synced, sync_failed, replies, call, chunk, count>>

EmitFinished ==
    /\ pc = "sync"
    /\ UNCHANGED file
    /\ IF SyncAtEnd THEN fsync ELSE UNCHANGED <<synced, sync_failed>>
    /\ replies' = IF ReplyFirst THEN replies ELSE replies + 1
    /\ Goto("finished")
    /\ UNCHANGED <<call, chunk, count>>

EmitError ==
    /\ pc = "error"
    /\ replies' = replies + 1
    /\ Goto("failed")
    /\ UNCHANGED <<call, disk, chunk, count>>

Handler ==
    \/ OpenSource \/ OpenTarget \/ OpenTargetFails \/ ReadSuperBlocks
    \/ CheckMemory \/ ReadBitmap \/ CheckSpace \/ WriteDesc \/ WriteBitmap
    \/ ReadChunk \/ ReadFails \/ CopyBlock \/ WriteChunk \/ WriteFails
    \/ EndOfData \/ WriteTrailer \/ EmitFinished \/ EmitError

(* The four handlers.                                                      *)
gdbus_sysbak_extfs_ptf == family = "extfs" /\ Handler
gdbus_sysbak_fatfs_ptf == family = "fatfs" /\ Handler
gdbus_sysbak_btrfs_ptf == family = "btrfs" /\ Handler
gdbus_sysbak_xfsfs_ptf == family = "xfsfs" /\ Handler

(* The daemon dies: what it wrote stays, nobody is told.                   *)
DaemonDies ==
    /\ pc \notin Ended
    /\ Restart("idle")
    /\ UNCHANGED <<call, file, synced>>

(* The machine goes down, also after a backup has ended: the file is cut   *)
(* anywhere behind the cells that were synced, and of the cells before the *)
(* cut any that were not synced may be lost.                               *)
PowerLoss ==
    /\ file \notin {NoFile, <<Foreign>>}
    /\ synced < Len(file)
    /\ \E k \in synced .. Len(file) : \E lost \in SUBSET (synced + 1 .. k) :
          file' = [p \in 1 .. k |-> IF p \in lost THEN Torn ELSE file[p]]
    /\ synced' = Len(file')
    /\ Restart("idle")
    /\ UNCHANGED call

Next ==
    \/ Request
    \/ gdbus_sysbak_extfs_ptf \/ gdbus_sysbak_fatfs_ptf
    \/ gdbus_sysbak_btrfs_ptf \/ gdbus_sysbak_xfsfs_ptf
    \/ DaemonDies \/ PowerLoss

Spec == Init /\ [][Next]_vars
-----------------------------------------------------------------------------
Cells == {Torn, Foreign}
         \cup {Desc(u) : u \in UsedCounts}
         \cup (UNION {{Bits(B), BitsCrc(B)} : B \in SUBSET Blocks})
         \cup {Block(c) : c \in Contents}
         \cup {Checksum(s) : s \in UNION {[1 .. n -> Contents] : n \in 1 .. BufferCapacity}}

TypeOK ==
    /\ attempt \in 0 .. MaxAttempts
    /\ family \in Families /\ overwrite \in BOOLEAN
    /\ e_code \in {-1} \cup 1 .. 8
    /\ replies \in 0 .. 2
    /\ bitmap \in SUBSET Blocks /\ usedblocks \in UsedCounts \cup {0}
    /\ file = NoFile \/ file \in Seq(Cells)
    /\ synced \in Nat /\ sync_failed \in BOOLEAN
    /\ block_id \in 0 .. TotalBlocks
    /\ blocks_read \in 0 .. BufferCapacity /\ i \in 0 .. blocks_read
    /\ blocks_in_cs \in 0 .. blocks_per_checksum - 1
    /\ checksum \in Seq(Contents)
    /\ write_buffer \in Seq(Cells) /\ cs_added \in Nat
    /\ copied_count \in Nat /\ percent \in 0 .. 100

(* The write buffer is allocated for a full chunk and its checksums; with  *)
(* the checksum running on from chunk to chunk a chunk never carries more  *)
(* than one, and what is handed to write is what the size check after the  *)
(* write expects.                                                          *)
WriteBufferBound ==
    /\ Len(write_buffer) = i + cs_added
    /\ cs_added =< 1
    /\ Len(write_buffer) =< convert_blocks_to_bytes(0, BufferCapacity, blocks_per_checksum)

(* A backup has completed its invocation by the time it ends; it completes *)
(* it twice exactly when the copy fails after the early reply, which the   *)
(* xfsfs handler does not send.                                            *)
RepliesMatchOutcome ==
    /\ pc = "finished" => replies = 1
    /\ pc = "failed" => replies = IF e_code = 8 /\ ReplyFirst THEN 2 ELSE 1

(* When the superblock does not count more blocks than the bitmap, a       *)
(* backup that finishes has said 100, and 100 is only said at the end.     *)
HundredAtTheEnd ==
    usedblocks = Cardinality(bitmap) =>
        /\ percent = 100 => NothingLeft(block_id, bitmap)
        /\ pc = "finished" /\ bitmap # {} => percent = 100

(* What the loops keep on the way.  A call has its inputs; the file is     *)
(* empty before the header is written and begins with it afterwards, and   *)
(* nothing is counted before the first block.                              *)
Preparing ==
    {"open_source", "open_target", "read_super_blocks", "check_memory", "read_bitmap",
     "check_space", "write_desc", "write_bitmap"}

CallInv ==
    /\ pc # "idle" => attempt \in 1 .. MaxAttempts /\ usedblocks \in UsedCounts
    /\ synced =< Len(file)
    /\ pc \in {"read_super_blocks", "check_memory", "read_bitmap", "check_space", "write_desc"} =>
          file = <<>>
    /\ pc = "write_bitmap" => file = <<Desc(usedblocks)>>
    /\ pc \in {"read", "copy", "trailer", "sync"} =>
          file \in Seq(Cells) /\ Len(file) > 0 /\ file[1] = Desc(usedblocks)
    /\ pc \in Preparing => copied_count = 0 /\ block_id = 0 /\ blocks_in_cs = 0

(* Nothing is completed before the copy, once for most families at its     *)
(* beginning, and only the copy fails with error 8.                        *)
RepliesInv ==
    /\ pc \in Preparing => replies = 0
    /\ pc \in {"read", "copy", "trailer", "sync"} => replies = IF ReplyFirst THEN 1 ELSE 0
    /\ pc = "error" => replies = IF e_code = 8 /\ ReplyFirst THEN 1 ELSE 0

(* The chunk is a run of used blocks; the running checksum covers the      *)
(* blocks since the last one, and a checksum in the chunk leaves room for  *)
(* the rest of it.                                                         *)
ChunkInv ==
    /\ Len(checksum) = blocks_in_cs
    /\ cs_added \in {0, 1} /\ (cs_added = 1 => blocks_in_cs < i)
    /\ pc = "copy" => /\ blocks_read > 0 /\ block_id + blocks_read =< TotalBlocks
                      /\ block_id .. block_id + blocks_read - 1 \subseteq bitmap

(* The blocks copied are the used blocks below block_id; the percentage is *)
(* that of their number.                                                   *)
CountInv ==
    /\ copied_count = Cardinality(Below(bitmap, block_id))
    /\ percent = IF copied_count = 0 THEN 0 ELSE progress_update(copied_count, usedblocks)
    /\ pc \in {"trailer", "sync", "finished"} => NothingLeft(block_id, bitmap)

(* With an fsync after each chunk all that has been written after a chunk  *)
(* is on disk, but for the checksum of the rest, while none has failed.    *)
SyncInv ==
    SyncEachChunk /\ copied_count > 0 /\ ~sync_failed =>
        /\ pc \in {"read", "copy", "trailer"} => synced = Len(file)
        /\ pc = "sync" => synced = Len(file) - IF Len(checksum) > 0 THEN 1 ELSE 0

(* What may be in front of the blocks: only the bitmap may be damaged,     *)
(* because its write is not checked.                                       *)
HeadersOf(u, B) ==
    {<<Desc(u)>> \o maps :
        maps \in {<<Bits(B), BitsCrc(B)>>, <<Bits(B), Torn>>, <<Bits(B)>>, <<Torn>>, <<>>}}

Headers == HeadersOf(usedblocks, bitmap)

(* The blocks that are in the file or in the write buffer.                 *)
Done == copied_count + IF pc = "copy" THEN i ELSE 0

(* Behind the header the file holds the beginning of the data of a         *)
(* complete image, the write buffer holds the cells that follow, and the   *)
(* running checksum covers the blocks of the group under way.              *)
ImageInv ==
    LET data == ImageData(bitmap, Source[attempt])
    IN  /\ pc \in {"read", "copy", "trailer"} =>
              /\ blocks_in_cs = Done % blocks_per_checksum
              /\ checksum = [k \in 1 .. blocks_in_cs |->
                               Source[attempt][KthUsed(bitmap, Done - blocks_in_cs + k)]]
              /\ \E h \in Headers : file = h \o SubSeq(data, 1, CellsOf(copied_count))
        /\ pc = "copy" =>
              write_buffer = SubSeq(data, CellsOf(copied_count) + 1, CellsOf(copied_count + i))
        /\ pc = "sync" => \E h \in Headers : file = h \o data

(* What holds at every step of a backup, whatever fails: the variables'    *)
(* types, the bound of the write buffer, the number of completions and the *)
(* percentages, with what the loops keep for them.                         *)
BackupInvariant ==
    /\ TypeOK /\ WriteBufferBound /\ RepliesMatchOutcome /\ HundredAtTheEnd
    /\ CallInv /\ RepliesInv /\ ChunkInv /\ CountInv /\ SyncInv /\ ImageInv

(* A finished backup has written every used block once, in order, with a   *)
(* checksum after each full group and after the rest.  Only the bitmap in  *)
(* front of them may be damaged.                                           *)
FinishedImageIsComplete ==
    pc = "finished" => \E h \in Headers : file = h \o ImageData(bitmap, Source[attempt])

(* A header that could not be written is reported, as the handlers' error  *)
(* number 7 says ("Write header information failed"): a backup that        *)
(* finishes has its header, the bitmap included.                           *)
HeaderFailureReported ==
    pc = "finished" =>
        SubSeq(file, 1, IF Len(file) < 3 THEN Len(file) ELSE 3)
            = <<Desc(usedblocks), Bits(bitmap), BitsCrc(bitmap)>>

(* What a handler announces as finished is on disk, the whole image for    *)
(* fatfs and btrfs and all but the checksum of the last blocks, written    *)
(* after the last fsync, for extfs and xfsfs: unless one of its fsyncs has *)
(* failed, of which nobody is told.                                        *)
DurableWhenFinished ==
    (pc = "finished" /\ bitmap # {} /\ ~sync_failed) =>
        IF SyncAtEnd THEN synced = Len(file)
        ELSE synced = Len(file) - IF Len(checksum) > 0 THEN 1 ELSE 0

(* A file that is not an image is never touched.  The contents of any      *)
(* other file change only while the call that emptied it is writing, when  *)
(* power fails, or when a call with overwrite replaces an image: without   *)
(* it the image of an earlier call survives, whatever happens later.       *)
FilesKept ==
    [][ file' # file /\ file \notin {NoFile, <<>>} =>
          /\ file # <<Foreign>>
          /\ \/ pc \in {"write_bitmap", "copy", "trailer"}
             \/ pc' = "idle" /\ synced < Len(file)
             \/ overwrite /\ file[1][1] = "desc" ]_vars
=============================================================================
