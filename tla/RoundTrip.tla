----------------------------- MODULE RoundTrip -----------------------------
(***************************************************************************)
(* Backups to an image file and restores from it, one after the other as   *)
(* the daemon's main loop runs them: BackupToFile writes `file', and       *)
(* RestoreImage reads the same file, in whatever state backups that        *)
(* failed, died or lost power left it.                                     *)
(***************************************************************************)
EXTENDS BackupToFile

CONSTANTS
    MaxRestores,  \* bound on the number of restores
    TargetSizes,  \* sizes of the partition that is restored
    OldContents   \* what that partition held before

ASSUME RoundTripAssumption ==
    /\ MaxAttempts >= 1 /\ MaxRestores \in Nat /\ TargetSizes \subseteq Nat
    /\ Torn[2] \notin Contents

VARIABLES
    taken,        \* the bitmap each backup call started from
    \* the variables of RestoreImage:
    rpc, restores, r_code, r_replies, rpos, r_usedblocks, r_bitmap, r_copied,
    r_block_id, wpos, r_blocks_read, r_i, read_buffer, read_offset, r_in_cs,
    r_checksum, r_write_buffer, blocks_written, size, target, r_percent

R == INSTANCE RestoreImage WITH
        pc <- rpc, e_code <- r_code, replies <- r_replies, image <- file,
        usedblocks <- r_usedblocks, bitmap <- r_bitmap,
        copied_count <- r_copied, block_id <- r_block_id,
        blocks_read <- r_blocks_read, i <- r_i, blocks_in_cs <- r_in_cs,
        checksum <- r_checksum, write_buffer <- r_write_buffer,
        percent <- r_percent,
        Images <- {}, Source <- Source[1]

backup  == <<pc, e_code, replies, call, synced, sync_failed, chunk, count,
             taken>>
restore == <<rpc, restores, r_code, r_replies, rpos, r_usedblocks, r_bitmap,
             r_copied, r_block_id, wpos, r_blocks_read, r_i, read_buffer,
             read_offset, r_in_cs, r_checksum, r_write_buffer, blocks_written,
             size, target, r_percent>>

RoundTripInit == Init /\ R!NoCallYet /\ taken = <<>>

(* One handler runs at a time.  A restore needs a file to open.            *)
BackupStep ==
    /\ rpc \in R!Ended
    /\ Next
    /\ taken' = IF attempt' # attempt THEN Append(taken, bitmap') ELSE taken
    /\ UNCHANGED restore

RestoreStep ==
    /\ pc \in Ended
    /\ file # NoFile
    /\ R!Next
    /\ UNCHANGED backup

RoundTripNext == BackupStep \/ RestoreStep

RoundTripSpec == RoundTripInit /\ [][RoundTripNext]_<<backup, restore, file>>
-----------------------------------------------------------------------------
(* A restore that finishes has brought back one of the backups, whole:     *)
(* the used blocks of that backup call, with the contents they had then,   *)
(* and nothing of a backup that was cut short or of an earlier one.        *)
RestoresOneBackup ==
    rpc = "finished" =>
        \E a \in 1 .. attempt :
            /\ r_bitmap = taken[a]
            /\ \A b \in r_bitmap : target[b] = Source[a][b]

(* A target never receives a block that no backup call read there.         *)
OnlyBackedUpBlocks ==
    \A b \in DOMAIN target :
        target[b] \in OldContents
            \/ \E a \in 1 .. attempt : b \in taken[a] /\ target[b] = Source[a][b]

(* What the image file may hold: it is missing, empty, not an image, or    *)
(* what backup call a has left of its image.  The header of that may be    *)
(* damaged, it may have been cut off, and cells of it may be torn.         *)
Follows(f, whole) ==
    Len(f) =< Len(whole) /\ \A p \in 1 .. Len(f) : f[p] \in {whole[p], Torn}

LeftOf(f, B, contents) ==
    LET data == ImageData(B, contents)
    IN  \E u \in UsedCounts : \E h \in HeadersOf(u, B) : Follows(f, h \o data)

LeftBy(a) == LeftOf(file, taken[a], Source[a])

NoImage == file \in {NoFile, <<>>, <<Foreign>>}

FileInv ==
    /\ taken \in Seq(SUBSET Blocks) /\ Len(taken) = attempt
    /\ attempt > 0 => taken[attempt] = bitmap
    /\ NoImage \/ \E a \in 1 .. attempt : LeftBy(a)

(* A restore that is running reads what one of the backups left, and keeps *)
(* the bookkeeping of its loops for what the partition held then.          *)
RestoreInv ==
    /\ restores \in 0 .. MaxRestores /\ size \in TargetSizes
    /\ target \in [0 .. size - 1 -> Contents \cup OldContents]
    /\ rpc \notin R!Ended =>
          \E a \in 1 .. MaxAttempts :
              R!LoopInv(Source[a]) /\ (NoImage \/ (a =< attempt /\ LeftBy(a)))

(* What a target holds after any sequence of backups and restores, with    *)
(* what the two handlers keep for it.                                      *)
BackupsComeBack ==
    RestoresOneBackup /\ OnlyBackedUpBlocks /\ FileInv /\ RestoreInv
=============================================================================
