# A TLA+ model of sysbak-admin

sysbak-admin backs up and restores partitions (ext2/3/4, FAT, btrfs, XFS) and
whole disks.  A root daemon owns `org.sysbak.admin.gdbus` on the system bus and
does the work; applications use `libsysbak`, a GObject library that checks the
arguments, calls the daemon asynchronously and passes its signals on.  This
directory models the daemon's data paths, the image format, the readers that
find out what is in use on each file system together with the parts of
btrfs-progs and xfsprogs they run on, the workflow for whole disks, the client
library and the main loop between them.  Line numbers are those of the repository's
`src/` directory.

## 1. Inventory

| Part | Source | State it keeps | Operations |
|---|---|---|---|
| Partition-to-partition copy | `gdbus-{extfs,fatfs,btrfs,xfsfs}.c`: `gdbus_sysbak_*_ptp`, `read_write_data_ptp` | bitmap, loop position, buffer, the target partition | open, check, reply, copy used blocks chunk by chunk, signal |
| Partition-to-file backup | the same files: `gdbus_sysbak_*_ptf`, `read_write_data_ptf` | the same, running checksum, the image file | open/truncate, header, bitmap, blocks and checksums, fsync, signal |
| Restore | `gdbus-extfs.c`: `gdbus_sysbak_restore`, `read_write_data_restore` | header, bitmap, read and write positions, checksum | check header and bitmap, read, verify and write runs of blocks |
| Image format | `gdbus-share.c`, `checksum.c` | layout of header, bitmap, groups of blocks with a CRC each | `write_image_desc`, `write_image_bitmap`, `read_image_desc`, `load_image_bitmap_bits`, `check_file_type` |
| I/O loop | `gdbus-share.c`: `write_read_io_all` | bytes left | retry of short and interrupted reads and writes |
| Progress | `progress.c` | start time | percentage, speed, elapsed time |
| Bitmap helpers | `gdbus-bitmap.h` | a bit per block | set, clear, test |
| ext reader | `gdbus-extfs.c` | bitmap, free counts | walk the block groups, compare with the counts |
| FAT reader | `gdbus-fatfs.c` | bitmap, file position, type | mark metadata, judge each cluster by a table entry; twice per job |
| XFS reader | `gdbus-xfsfs.c` | bitmap; global `mp`, `mbuf`, `xargs` | open, scan free lists and free-space trees; opens twice per job |
| btrfs reader | `gdbus-btrfs.c` | bitmap; global `info`, `root` | open, walk every tree, mark what it refers to; opens twice per job |
| Daemon | `gdbus-server.c` | the bus name, one main loop | export the handlers, run one at a time, end when the name is lost |
| Client library | `libsysbak/sysbak-{gdbus,extfs,fatfs,btrfs,xfsfs,check}.c` | source, target, overwrite, proxy | check, call, callback, pass signals on |
| Whole-disk workflow | `libsysbak/sysbak-disk.c`, `gdbus-disk.c` | `disk-info.ini`, partition table, MBR, LVM metadata | backup: record, save, start a job per partition; restore: remove VGs, table, PVs, images, VGs |
| Bundled btrfs-progs | `btrfs/` | `fs_uuids`, extent cache, chunk map | open and close a volume, map an address, read a block, search, iterate |
| Bundled xfsprogs | `xfs/` | device table, buffer cache, free list, tree of groups | open and close a device, mount, look up and release buffers |

How they interact.  A client checks existence and mounts *before* it sends a
D-Bus call and does not wait for the reply.  The daemon takes calls in order;
a handler runs to its end on the main loop, so that calls of other clients
wait for hours.  Most handlers complete the invocation when their checks have
passed and then copy; the outcome is a broadcast signal (`sysbak-finished` or
`sysbak-error`) that names no job.  The xfsfs backup to a file completes its
invocation after the copy.

What is hard here:

- a copy is cut into chunks three ways at once (gaps, buffer capacity, end of
  the partition), and the restore cuts the same data differently;
- a failure anywhere leaves a partly written file or partition, and the next
  call starts from it; the daemon may die or the machine lose power between
  any two writes, with fsync in different places in the four families and its
  result looked at in none;
- the ERROR label is reached both before and after the early reply;
- the readers work on volumes that may be damaged, through libraries whose
  results they often do not look at, with global state that outlives a job;
- restoring a disk mixes calls that are waited for with calls that are only
  queued, most of whose results are dropped;
- what the client has checked may be stale when the daemon acts on it;
- an application learns the outcome from signals that may belong to another
  job, and after an early reply nobody reports the daemon's death; during the
  restore of a disk nobody reports it even for calls without a reply.

`PROJECT.json` lists the hazards at their lines, with the properties that would
catch them.

## 2. Modules

| Module | What it is | Composes |
|---|---|---|
| `DataPlane` | blocks, bitmap test, the search for the next run of used blocks, percentage | |
| `AbstractCopy` | what a copy onto a partition promises, whoever does it | |
| `PartitionCopy` | one `*_ptp` call | `DataPlane`; refines `AbstractCopy` |
| `PartitionCopyProofs` | theorems about `PartitionCopy` | `PartitionCopy` |
| `ImageFormat` | the image as a sequence of cells, and a reference definition of the complete image | `DataPlane` |
| `ImageFormatProofs` | lemmas about bitmaps, groups, cells and files | `ImageFormat` |
| `BackupToFile` | repeated `*_ptf` calls to one file, crashes and power loss | `ImageFormat` |
| `RestoreImage` | repeated restores of one image, crashes | `ImageFormat`; refines `AbstractCopy` |
| `RestoreImageProofs` | theorems about `RestoreImage` | `RestoreImage`, `ImageFormatProofs` |
| `RoundTrip` | backups and restores of the same file | `BackupToFile`, `RestoreImage` |
| `RoundTripProofs` | theorems about `BackupToFile` and about `RoundTrip` | `RoundTrip`, `ImageFormatProofs`, `RestoreImageProofs` |
| `Service` | clients, D-Bus, main loop; a handler reduced to its reply and its last signal | |
| `ServiceProofs` | theorems about `Service` | `Service` |
| `ExtBitmap`, `FatBitmap` | the ext reader; the FAT reader with its two passes | |
| `BitmapReaders` | a call with the reader of its method | `ExtBitmap`, `FatBitmap` |
| `DiskJob` | backup and restore of a whole disk, client and daemon | |
| `DiskJobProofs` | theorems about `DiskJob` | `DiskJob` |
| `XfsReader` | the XFS reader over several jobs, with the library's device table | |
| `XfsCache` | the buffer cache: lookup, shake, expand, reuse | |
| `XfsPerag` | the radix tree of allocation groups, growing and unwound | |
| `XfsGeometry` | records per block and tree heights computed by a mount | |
| `XfsLibrary` | the four XFS modules side by side | the four |
| `XfsProofs` | theorems about `XfsCache` and `XfsReader` inside `XfsLibrary` | `XfsLibrary` |
| `BtrfsChunks` | the chunk map: filling it, and where an address is | |
| `BtrfsBlock` | `read_tree_block`: copies, checks, generations, references | |
| `BtrfsSearch` | `btrfs_search_slot`, `btrfs_next_leaf` and their three callers | |
| `BtrfsOpen` | opening and closing volumes over several jobs | |
| `BtrfsReader` | the walk of `read_bitmap_info` over an open volume | `BtrfsChunks` |
| `BtrfsLibrary` | the btrfs modules side by side | the five |
| `ReaderProofs` | theorems about `BitmapReaders`, and about `BtrfsBlock`, `BtrfsChunks` and `BtrfsOpen` inside `BtrfsLibrary` | `BitmapReaders`, `BtrfsLibrary` |

`MC*` modules give the constants their values.

### How state and actions correspond to the code

*Handlers.*  `pc` is the next step of the handler, one step per call it makes:
`OpenSource`, `OpenTarget`, `ReadSuperBlocks`, ... to the loop and the ERROR
label.  A step that can fail does so with the `e_code` of the code and goes to
`"error"`, where `EmitError` completes the invocation and signals.  The other
variables carry the names of the C variables (`block_id`, `blocks_read`,
`blocks_in_cs`, `cs_added`, `copied_count`, `write_buffer`, ...).  `replies`
counts the completions of the invocation by the handler itself.

*Copies of the same code.*  The four `_ptp` handlers are the same text, and so
are the four `read_write_data_ptp`; `PartitionCopy` stands for all of them.  The
four `_ptf` handlers differ in two places, named in `BackupToFile` by
`SyncEachChunk`/`SyncAtEnd` and `ReplyFirst`, and each call picks a family.

*Data.*  One unit of length is a block.  A bitmap is a set of block numbers,
and `read_bitmap_info` may deliver any; the superblock's count of used blocks
is independent of it, because the code takes the two from different places.
A block's contents are a value of its own, per block and per call, so that a
block in the wrong place or of an older call is told apart.

*Image file.* A sequence of cells: header, bitmap, CRC, blocks, checksums.  A
CRC *is* what it was computed from (an ideal checksum: collisions are outside
the model).  A failed write leaves any proper part of its cells, the last
possibly `Torn`.  An fsync may fail, which no handler notices: nothing more is
known to be on disk then (`sync_failed`).  Power loss cuts the file anywhere
behind the cells that were synced and may lose any cell that was not.
Truncation by `O_TRUNC` is taken to be durable at once.

*Loop.*  `get_read_blocks_size` and the restore's inner loop are the relation
`UsedRun`, which describes the run they find instead of counting up to it.

*Service.*  `calls` is the queue of the main loop, `inbox[c]` the ordered
messages from the bus to a client, `jobs[c]` what the client started, what
became of it (`outcome`), how often the handler completed its invocation
(`replies`) and what its application was told (`told`).  The
application is modelled as the test program and any simple caller behave: it
starts a job when none is open and takes the next signal for its outcome.
When the daemon goes, the bus answers every call without a reply with an
error, in any order; calls have no timeout (`G_MAXINT`).  `node` says what
is at a path, as `open_target_device` may create a plain file where a device is missing.

*ext reader.*  The volume is what libext2fs shows of it: the blocks in use,
the free count of each group and of the superblock, groups without a bitmap.
One step per group.

*FAT reader.*  A sector is the unit of length.  A pass is: mark the metadata,
seek to the first FAT, read the status entry, judge one entry per cluster.
`pos` counts the entries read, `i` the clusters judged; they differ, which is
finding 2.  Entries keep the nibbles in which free, bad, link and end of chain
differ, so that FAT12's overlapping bytes are decoded as the code does it.

*Whole disk.* `pc` is the client's next call, `queue` the asynchronous calls the
daemon has not handled; a synchronous call ends only when the queue before it is
empty.  `dir` remembers for each file of the backup directory which backup wrote
it and whether it is whole.  The client may die at any step and leave its queue
behind.  The daemon may die too, between two handlers or in one, and its queue
is lost; the next call starts it again.  What becomes of a lost call differs: a
call that is waited for returns the bus's error, which the code may drop; the
callback of a backup emits it; the callback of a restore has its emission
commented out (`sysbak-extfs.c:175`); the calls that remove, restore and activate
volume groups have no callback.  `lost` remembers the calls of the present
restore nobody is told of.  `groups` are the groups of `disk-info.ini` that a
backup or a restore still has to handle, one step each: the partitions, the mark
"end", the logical volumes.  Sizes wrap at `Word` values of an int.

*XFS.*  `devMap` is the library's table of open devices, `mp` the global mount
(which may still be that of an earlier job).  A read that fails gives a buffer
of zeros, which the reader takes for the block, as in the code.  The cache
keeps all buffers ever allocated, so that what a reused one held before can be
told from what it holds.

*btrfs.* The library is split where the reader depends on it: an open
(`BtrfsOpen`) with references per buffer; the map (`BtrfsChunks`), which is also
what the walk uses; one block through several reads (`BtrfsBlock`); a search
with its path (`BtrfsSearch`).  The variable `size` that `dump_start_leaf` never
sets is a choice: a multiple of the sector size, or not.  A request for a block
first drops a reference of a cached buffer of another start or size that it
overlaps (`extent_io.c:646-650`), whoever holds it: a buffer of this sort is
`near` the block in `BtrfsBlock`, where `dangling` counts the pointers left to a
freed buffer; in `BtrfsOpen` it is a step that may come before any other
(`overlapping`, counted by `overlaps`).  A path that is left behind keeps its
buffers (`kept`): by a chunk item that is refused, and by a root item with the
offset -1, on which `btrfs_find_last_root` returns without `btrfs_free_path`
(`root-tree.c:50-53`).  The block groups are read by every open
(`disk-io.c:994-996`) and are one step of it, which frees its path.  An open
that fails ends the daemon, because `fs_open` looks into the result first; a
failed `assert` does too, as the build does not define `NDEBUG`.

`XfsLibrary` and `BtrfsLibrary` run their parts one at a time: the parts share
no variable, and what one hands to another (a block that cannot be read, a
map) is among the other's inputs.

## 3. Runs

| Run | Instance | States | Question |
|---|---|---|---|
| `partition_copy` | 5 blocks, buffer 2, all 32 bitmaps, all counts, targets of 4, 5, 6 blocks | 16 k | is one copy right, whatever fails? |
| `backup` | 4 blocks, buffer 2, 1 call, 4 families, fsyncs that fail | 85 k | is a finished backup the complete image, and durable? |
| `restore` | 7 blocks, groups of 3, 2 calls, all images below | 318 k | which images are accepted, what reaches the target? |
| `round_trip` | 2 blocks, 2 backups, 1 restore | 2.1 M | does a restore bring back one backup, whole? |
| `service` | 2 clients, all 9 methods, 2 jobs between them, 1 death | 420 k | is the application told the truth, is every job answered? |
| `bitmap_readers` | ext: every bitmap of 4 and 5 blocks in groups of 2; FAT: every table of 3 clusters, 5 geometries | 202 k | do bitmap, count and metadata belong together? |
| `disk` | 2 layouts of 3 and 2 entries, 3 backups and restores, 1 disk size, `int` of 8 values, client and daemon dying | 2.9 M | can a disk come back wrong without a word? |
| `xfs` | 3 devices, table of 2, 4 jobs; cache of 2 buffers, 4 lookups; up to 16 groups, nodes of 2; 4 block sizes | 265 k | is the bitmap right, whatever fails and whatever earlier jobs left? |
| `btrfs` | 3 device nodes, 2 jobs; 11 chunk layouts; 2 copies; 11 trees; 13 volumes | 1.0 M | is the bitmap right, does the library keep its promises, who ends the daemon? |
| `header_failure`, `used_clusters`, `missing_device` | small | | findings, section 5 |

Properties, by run.  Several are conjunctions of parts that have names and
comments of their own in the modules; the parts are in brackets.

- **partition_copy**: `FinishedIsComplete` (every used block in place),
  `WriteInsideTarget` (one size check covers every write), `UnusedBlocksKept`,
  `CopyLoopInvariant` (the inductive invariant of section 4, which also counts
  the completions: two exactly when the copy fails), `EveryCallEnds`,
  `ImplementsAbstractCopy`.
- **backup**: `FinishedImageIsComplete` (the loop's output equals the reference
  `ImageData`, stated without loops), `DurableWhenFinished` (of an extfs or
  xfsfs backup exactly the last checksum may be missing on disk; anything may be
  when an fsync has failed, of which nobody is told),
  `BackupInvariant` (types, `WriteBufferBound`, `RepliesMatchOutcome`,
  `HundredAtTheEnd`, and what the loops keep for them, section 4).
- **restore**: images of all bitmaps, complete, cut at every cell, with any
  cell lost, with any block overwritten, with any two blocks exchanged.
  `FinishedIsExact`; `RestoreInvariant` (types, `ReadBufferBound`,
  `PositionFollowsLoop`, `OnlyGoodBlocksWritten`, `RepliesMatchOutcome`, and
  what the loops keep for them, section 4);
  `RestoreEnds` (`EveryCallEnds`, and `CompleteImageAccepted`: the restore's
  chunk arithmetic fits what a backup writes); `ImplementsAbstractCopy` over
  all calls together.
- **round_trip**: `BackupsComeBack` (`RestoresOneBackup`,
  `OnlyBackedUpBlocks`; `FileInv` and `RestoreInv`, what the two handlers keep
  for them, section 4), and `FilesKept` over two calls to the same file.
- **service**: `ToldTheTruth` for a lone client, with the one exception the
  late reply of the xfsfs backup makes; `ServiceInvariant` (types,
  `SilenceOnlyAfterReply`, and the inductive parts of section 4); `EveryJobAnswered` while the daemon lives;
  `LateReplyAlwaysAnswered`.
- **bitmap_readers**: `ExtExact` (the bitmap leaves out exactly the free
  blocks), `ReadersInvariant` (types, `FatMetadataMarked`, `CountsAgree`: the
  header's count is the number of bits; `ReadersInv`, what the passes keep for
  them, section 4).
- **disk**: `OneRunPerDirectory` (a directory never mixes two backups),
  `NoNewsIsGoodNews` (no error signal means everything is restored, although
  most results are dropped, but for the file systems and the volume group whose
  calls died with the daemon), `DiskJobInvariant` (types; `OthersKept`, which is
  `MountedDataKept`, and `OtherGroupKept` up to the `strstr` on the disk's name;
  and the inductive parts of section 4), `RestoreInOrder`
  (`DataAfterTable`, and `SpaceCheckSound` within the range of an int, and unless
  the daemon died when it was asked for a size).
- **xfs**: `XfsBitmapRight` (`XfsUsedKept`: a failed read costs space, not
  data, with the one exception of block 0 of a group; `XfsExact`; `ScanInv`,
  section 4),
  `GlobalsAcrossJobs` (types; `TableAtRest`: who keeps a slot of the table;
  `ScansOwnDevice`, although the result of `fs_open` is ignored;
  `StdinLostByFailedOpen`; `DevicesInv`, section 4), `CacheInvariant` (types,
  `CacheConsistent`, `LookupHolds`, `OneBufferPerKey`, `NoForeignData`),
  `LookupEnds`, `PeragTree` (`TreeIsMap`, `SlotsCounted`, `UnwoundToFirst`),
  `HeightsLeast` (of the heights a mount computes; the reader walks the trees
  without a cursor and does not use them).
- **btrfs**: opening: `CleanupFindsNothing` (the assert in
  `extent_io_tree_cleanup` is met only when a path was left behind,
  `AssertNeedsKeptPath`; a freed buffer is used only after overlapping requests,
  `FreedNeedsOverlap`; types; `RefsInv`, section 4),
  `DevicesFollowJob` (`ReadsGivenDevice`, `ScanOpensMembers`, `LostPerJob`, and
  the inductive `Origin`, `ListInv`, `JobInv`, `LostInv`, section 4).
  Map: `ChunkMapSound` (`MappingDisjoint`, `MappedFromItems`, `ReadIsMapped`,
  `GoodVolumeMapped`), `MapBlockExact`
  (`CopiesApart`, `LengthInOnePiece`).  Block: `RightCopyWins`, `BufferSound`
  (`UptodateIsSane`, `WrongGenerationMarked`, `ReferencesHeld`, up to
  the first overlapping request, `StaleIsUnshared`, `TriedInVain`), `ReadEnds`.
  Search: `SearchExact` (`ItemsInOrder`, `PathIsBranch`, `LastRootFound`).
  Walk: `WalkOutcome` (`BtrfsLiveKept`: files, leaves and the superblock
  always, inner nodes only without skinny metadata; `HealthyVolumeSurvives`).

Every property is broken by a mutant of the code it is about (a
dropped guard, a missing reset, an off-by-one), listed in `PROJECT.json`; the
mutated definitions stand beside the originals, marked "Mutant".

**Why the bounds are enough.**  The loops distinguish a run that ends at a gap,
at the buffer's capacity and at the last block, a first chunk and a later one,
a full group of blocks and a rest.  Five blocks with a buffer of two contain
all combinations for the copy; seven blocks in groups of three give a restore
two full groups and a rest of one, or one group and a rest of one or two.
Two calls are enough for one to find what the other left.  `round_trip` is
small (a group, or a rest) because every cell may be lost at power loss;
damage across several groups is covered by the images of `restore`.  Bounds
are `MaxAttempts`, `MaxRestores`, `MaxJobs`, `MaxDeaths`, `MaxOps`, `MaxOpens`,
`MaxGets`, `MaxReads`, `MaxRuns`, `MaxWorld`, `MaxOdd` (roots of a
wrong generation and overlapping requests of one open, together).  `service` has one
partition: source and target matter only for the checks, which look at each
path on its own.  All nine methods are called there; the ones that follow each
other are one of each kind (a late reply, an early one, a restore), the others
are called alone (`Alone`), since the families differ only in the reply.
The ext volumes have a full group, a short last one and one without a bitmap;
the FAT volumes every type, a rest behind the last cluster, and none at all.
Three disk operations are a backup, a failed one and a restore, or two restores
after a backup.  A table of two devices fills up within four jobs; a cache of
two buffers must shake and then double within four lookups; sixteen groups in
nodes of two make the tree grow four times.  The btrfs maps have every profile
with stripes shorter than a chunk; two copies show every order of good, stale
and unreadable ones; trees of three levels make a path change on two.

**Deadlock** is checked for `partition_copy`, where a handler that has returned
stutters (`Done`).  In the other modules the number of calls is bounded, and a
behaviour may stop when they are used up.

**Fairness.**  `WF(Next)` or `WF(Handler)`: a handler is sequential code on the
main loop; nothing else has to happen for its next step.  `Service!FairSpec`
adds that the main loop goes on to the next call, that the bus starts the
daemon for a waiting call, and that each client's main loop delivers its
messages.  A lookup in the XFS cache and a call of `read_tree_block` are
sequential code as well (`WF` of their own steps only).
Clients need not start jobs; nobody need mount, die or recover.

## 4. Proofs

Eight modules hold theorems, for every value of the constants that their
assumptions allow: every partition, bitmap and buffer, any number of calls, of
copies, of partitions and volumes.  All theorems are about the specifications
that the runs check, and each inductive invariant is itself checked by a run.

| Module | Obligations | Theorem | Says, of every behaviour |
|---|---|---|---|
| `PartitionCopyProofs` | 246 | `TypeAndLoop` | `TypeOK` and `CopyLoopInvariant` always hold |
| | | `FinishedComplete` | `FinishedIsComplete` always holds |
| | | `WritesInside` | `WriteInsideTarget` always holds |
| | | `UnusedKept` | no step changes a block the bitmap does not mark |
| | | `CopyRefinement` | the handler implements `AbstractCopy` |
| `RoundTripProofs` | 3134 | `BackupIsInvariant` | `BackupInvariant` always holds |
| | | `FinishedIsComplete` | `FinishedImageIsComplete` always holds |
| | | `FinishedIsDurable` | `DurableWhenFinished` always holds |
| | | `FilesAreKept` | `FilesKept`: an image survives later calls without overwrite |
| | | `RoundTripBringsBack` | `BackupsComeBack` always holds |
| | | `BackupsAreUndisturbed` | `RoundTripSpec` implements `BackupToFile`'s `Spec` |
| | | `ImagesSurviveRestores` | `FilesKept` and the two properties of a finished backup, with restores in between |
| `RestoreImageProofs` | 2393 | `RestoreIsInvariant` | `RestoreInvariant` always holds |
| | | `FinishedExact` | `FinishedIsExact` always holds |
| | | `CompleteIsAccepted` | `CompleteImageAccepted`: the image never stops a restore of a complete one |
| | | `RestoreRefinement` | all calls together implement `AbstractCopy` |
| `ReaderProofs` | 4967 | `ExtIsExact` | `ExtExact` always holds |
| | | `ReadersAreRight` | `ReadersInvariant` always holds: FAT metadata, counts of both readers |
| | | `BufferIsSound` | `BufferSound` always holds |
| | | `RightCopyIsFound` | `RightCopyWins` always holds |
| | | `ChunkMapIsSound` | `ChunkMapSound` always holds |
| | | `CleanupIsClean` | `CleanupFindsNothing` always holds |
| | | `DevicesAreFollowed` | `DevicesFollowJob` always holds |
| `DiskJobProofs` | 3177 | `DiskJobIsInvariant` | `DiskJobInvariant` always holds |
| | | `DirectoryOfOneRun` | `OneRunPerDirectory` always holds |
| | | `OthersAreKept` | `OthersKept` always holds |
| | | `SilenceIsSuccess` | `NoNewsIsGoodNews` always holds |
| | | `OrderIsKept` | `RestoreInOrder` |
| `ServiceProofs` | 3130 | `ServiceIsInvariant` | `ServiceInvariant` always holds |
| | | `TruthIsTold` | `ToldTheTruth` always holds |
| `XfsProofs` | 2271 | `CacheIsInvariant` | `CacheInvariant` always holds |
| | | `GlobalsAreKept` | `GlobalsAcrossJobs` always holds |
| | | `BitmapIsRight` | `XfsBitmapRight` always holds |

`ImageFormatProofs` (907 obligations) has the lemmas that backup and restore
share.

**Assumptions on the constants.**  At least one block and a buffer of at least
one block (both from the `? :` that computes `buffer_capacity`); a source with
contents for every block; sizes and counts that are numbers.  Further:

- `ForeignAssumption`: a file that is no image does not begin with an image's
  header (`check_file_type` compares the magic string).
- `RestoreContentsAssumption`: a torn cell is not taken for a block's contents.
- `RestoreImagesAssumption`: an image to restore is a complete one that was cut,
  lost cells or got other contents in its blocks (`Damaged`).  Nobody has
  computed new checksums for it; against that no CRC helps.  For the files that
  backups leave this is not assumed but proved (`RoundTrip` gives no images).
- `RoundTripAssumption`: there is at least one backup call, and what the
  restore assumes of its own constants.
- `ChunkVolumesAssumption`: a chunk item has a start and a length, which are
  numbers.  Whether they make sense is for `btrfs_check_chunk_valid` to say.
- `ExtVolumesAssumption`: what libext2fs shows of a volume.  The blocks in use
  lie in the block groups, and there is at least the superblock and a block of
  group descriptors.  `BootSectorsAssumption`: the fields of a boot sector are
  unsigned, and the cluster size is not 0, by which `get_cluster_count` divides.
- `DisksAssumption`: there is something to read at every device node.
- `VolumesAssumption`: an XFS volume is consistent but for the ends of its free
  lists: every group has a block, and a block is in use, in a tree or on one
  list.  (What the scan clears it takes from nothing else.)
- `LayoutsAssumption`: `lsblk` lists every name once, and no partition or volume
  has the name of another file of the backup directory or of the mark "end".
  `MountsAssumption`: what is mounted is among the names.  `VgsAssumption`: the
  other disk's group is another group.

**Copy.**  `FinishedIsComplete` says nothing about the states before
"finished", so it is not inductive.  `CopyLoopInvariant` adds what the loop
keeps: behind `block_id` all used blocks are in place (`PrefixInv`), the chunk
in the buffer is a run of used blocks read from the source (`ChunkInv`), the
target is large enough from the size check on, and at the end no used block is
ahead.  `ReadChunk` moves `block_id` over unused blocks only, so the prefix
stays complete; `WriteChunk` extends it by the chunk; `WriteFails` writes a
part of the chunk, which is again right, and leaves the loop.  The refinement
maps a write, whole or partial, to `CopySome` of the blocks written.
`RepliesInv` carries the completions along.

**Image.**  What an image holds is stated without the loops: `CellAt` gives the
cell at each position from the number of used blocks below a block.
`ImageFormatProofs` shows that this is what the code's counting amounts to: the
k-th used block exists and is the only one (from the least-element principle,
`LeastNumber`, and cardinalities; there is no induction over data), the
position of a block and of its checksum (`BlockCell`, `ChecksumCell`,
`TrailerCell`), and that the data up to one block, followed by the cells up to a
later one, are the data up to the later one (`FileGrows`, `FileComplete`).

**Backup.** `ImageInv` is the heart of `BackupInvariant`: the file is one of the
possible headers followed by the cells of the first `copied_count` used blocks,
the write buffer is the piece that comes next, and the running checksum covers
the blocks since the last full group.  `ReadChunk` keeps it because a run of
used blocks is the next ones in order, `CopyBlock` because a checksum cell
follows exactly the blocks whose number is a multiple of `blocks_per_checksum`,
`WriteTrailer` because the rest is what `DataLength` adds.  `CountInv` ties the
percentage and the end of the loop to the count, `SyncInv` the cells on disk to
the family, as long as no fsync has failed.  A torn write leaves the loop; death
and power loss leave nothing to be kept but `synced =< Len(file)`.

**Restore.**  Between two chunks all cells read so far are those of the complete
image (`GoodUpTo`, `ReadInv`), although the image may be damaged: `VerifyBlock`
collects the contents of a group, and when the checksum that follows equals
what was collected, the group is the right one, because a damaged image has no
checksum cells of its own (`Damaged`).  Only then is it written, so that
`PrefixInv` never speaks of an unverified block.  `ChunkInv` says where in the
group the inner loop is; `Base` is the number of blocks before the chunk.
`FinishedIsExact` follows at `DataLength` cells.  `CompleteImageAccepted` is the
converse: with a complete image the size of the next read is what is left of it,
and the collected contents are those the checksum was computed from.  The
refinement maps the writes of any call to `CopySome`; a call that starts over
begins from whatever the last one left.  All of it is stated for any contents
`src` the image was taken of and any file that is `Given`: its header cells, as
far as they are whole, are those of a backup, and a whole header is that of an
image of `src`.  `Source` and `Damaged` images are one instance, the next
paragraph another.

**Backup and restore together.**  Here the file a restore reads is whatever the
backups left.  `FileInv` says what that is: it is missing, empty or foreign, or
it *follows* the image of one call `a` (`LeftBy`): one of that call's headers and
its data, cut off anywhere and with any cell torn.  `ImageInv` gives this for
the loop; `FollowsPart` for a write that fails, `FollowsCut` for a power failure,
`OpenTarget` begins with the empty file, and a later call, whose bitmap and
contents are others, leaves the file to the earlier one until then.  `LeftGiven`
shows that such a file is `Given` for the contents of its call: a cell where the
CRC belongs can only be the CRC of that call's bitmap, since data cells have
other kinds (`DataCellIs`), also behind a header whose bitmap was never written.
`RestoreInv` therefore keeps `LoopInv(Source[a])` for the `a` of the file, with
nothing of the calls before it, and `HeaderOfCall` says that the bitmap a
restore has loaded is `taken[a]`: what it writes, and what it has written when
it finishes, is that of one call.  No backup step can come in between, as the
handler runs to its end.  The module names the restore twice: `R` is the
instance `RoundTrip` is composed of and `RP` the same instance with its
theorems; `SameActions` and `SameInvariant` show by expansion that the two are
equal, after which the lemmas of `RestoreImageProofs` are cited as they stand.

**ext.**  `ExtExact` speaks of the end of the scan.  `ScanInv` says what was
done before: the groups that are through are free in the bitmap exactly where
the volume is free, the rest is still marked, and `free` counts the blocks
cleared (`FreeBelow`).  The end follows because the groups cover the volume:
the loop over the groups does not stop early, and the last one, though shorter,
ends at the last block.  That the header's count is the number of bits is
arithmetic of cardinalities.

**FAT.**  The count is computed by one pass and the bitmap by another.  They
agree because what a pass does to a cluster is a function of the table alone:
`Kept(n)` says which clusters among the first `n` it keeps, by the entry *it*
reads for them (the wrong one, finding 2), and the invariant of both passes is
stated with it (`PassInv`, `MarkInv`).  The metadata stay marked because no
cluster reaches in front of the first data sector or behind the last one, and a
pass clears nothing but clusters.

**btrfs.** `RightCopyWins` needs to know what the loop over the mirrors has
seen: those before the current one were not good, and the generation is ignored
only after all of them were tried (`TriedInVain`).  For the other properties of
the buffer, nobody but the call under way may hold one that is not up to date
(`StaleIsUnshared`).  The map stays disjoint because an overlap ends the open; a
volume with valid items that name each address once cannot fail because an item
whose first address is mapped already is skipped (`ReadIsMapped`), and because
the only other chunk an item could overlap with is itself.  For the opening,
`RefsInv` says that the references to a buffer are those of the roots it is the
node of, of `recow_ebs` and of the paths that were left behind, so that a
cleanup which finds one knows of such a path; after an overlapping request they
may only be fewer.  `BufferSound` is weakened in the same way: who asks for a
block that overlaps nothing in the cache gets a buffer that lives exactly as
long as somebody holds it.  `ReadsGivenDevice` needs the list of volumes to be
right between jobs as well: `ListInv` says that a listed device is one of the
volume and was found at its node (`Origin`), `JobInv` what the job under way has
put there and opened, and `LostInv` which descriptors earlier jobs lost.  All
are proved of `BtrfsLibrary`, the specification the run checks.

**Whole disk.** All files of a directory come from one backup because only the
backup that made it writes to it, also with calls that are queued when its
client dies (`OneBackup`).  `NoNewsIsGoodNews` is the hard one: the results of
most calls are dropped, so the proof has to follow the queue.  `QuietProgress`
says that while nothing was reported, every group that was handled has its image
on the disk, or the call for it is in the queue or was lost with the daemon
(`Imaged`), and the volume group is active, a `vgcfgrestore` before a `restart`
is queued for it, or the `restart` was lost (`Activated`).  A lost
`vgcfgrestore` needs no exception: the `restart` behind it is lost too.  A
handler that fails emits an error, which ends `Quiet`.  A boot record that is no
good is given away by a missing image: `ImagesLast` says that there are images
only where the four files before them are whole.  Mounted targets are left alone
because the group of a mounted volume cannot be removed, so that the check
before a restore sees the volume, and a mounted partition is passed over only
where its path is not there (`MountedSeen`).  The order of table and images is
`TableFirst`.

**Service.**  `SilenceOnlyAfterReply` speaks of an empty inbox and no call in the
daemon, so it says nothing of the steps before.  `AnswerInv` does: for an open
job the handler has replied, or the bus has sent an error for the call, or the
daemon has the call.  That needs `CallsInv`: a call is in the queue once or is
the one that runs, its job is undecided and without a reply while it waits, and
`phase` tells what the handler has done since.  `ToldTheTruth` is about a client
whose signals can only be its own (`Lone`; a broadcast names no job).  `LoneInv`
says that a report on its way is true of the newest job, that there is one at
most, and that a job in the daemon has none yet, so that the application cannot
start a job while a report of the last one is under way.  The late reply of the
xfsfs backup is the one exception: its signal is there before its call is
answered, and when the daemon dies in between, two reports are on their way
(`LateLost`), the second of which may meet the next job (`Disturbed`).  The proof
first reduces every action to its effect on the jobs, field by field, the queue
and the inboxes (`Steps`), and then shows each part of `Inductive` to be kept
under each effect.

**XFS.**  `CacheInvariant` is inductive with its types and `LookupHolds` (the
buffer of a lookup is the one asked for, and in use, so that no shake takes it).
The lists are sequences without repetition: lemmas say what taking one element
out, putting one in front and cutting the end off does to the elements of a
list, and each operation of the cache is such a change of one list.
For the reader, `DevicesInv` says who is in the device table at every stage of a
job and that a device has one slot at most; lemmas about an open and a close of
the table (`SlotTaken`, `SlotRefused`, `SlotGivenBack`) reduce `fs_open` to two
outcomes (`OpenOutcome`).  `ScanInv` says what was cleared so far (`Cleared`):
the groups that are through, the list of the present one, its leaves up to the
one being read.  `RunCleared` is why the 32-bit arithmetic of `StartBlock` does
no harm while `dblocks` fits; a free list that could not be read clears block 0
of its group, which is then in `lost`.  `XfsUsedKept` and `XfsExact` follow when
the last group is through.

**Only model-checked.**

- Liveness (`EveryCallEnds`, `EveryJobAnswered`, `LateReplyAlwaysAnswered`,
  `LookupEnds`, `ReadEnds`): fairness and ENABLED are beyond the prover.
- `MapBlockExact`: products and quotients of two variables, with a profile of
  stripes in between, are beyond the SMT solver.
- `HeightsLeast` and `PeragTree`: powers and quotients of the node size.
- `RestoreEnds` as a whole; its safety half is `CompleteIsAccepted`.
- `SearchExact` and `WalkOutcome`: what a descent through a tree of any height
  finds, and what a walk over all of it has marked, is induction over the tree.


## 5. Findings

1. **`header_failure`**: the result of `write_image_bitmap` is dropped
   (`gdbus-extfs.c:493` and its copies).  A backup whose bitmap was cut off is
   announced as finished; its restore fails at the bitmap's CRC.
2. **`used_clusters`**: the comment says the second entry of the FAT is used for
   the status (`gdbus-fatfs.c:281`); on FAT16 and FAT32 the code reads the first
   for it, and from there on every cluster is judged by the entry of a cluster in
   front of it.  A cluster in use behind a free one is left out of the backup.  The run has
   volumes of these two types only; on FAT12 no status entry is read.
3. **`missing_device`**: `is_lvm` (`sysbak-extfs.c:190`) takes `/dev/sdb4` for a
   logical volume, so a restore to a missing device is sent, and
   `open_target_device` creates a plain file of that name.

Seen while modelling and not counted as findings, because no line of the
repository says otherwise: `DurableWhenFinished` shows the last checksum of an
extfs or xfsfs backup unsynced when it is announced; the invocation is completed
twice when a copy fails after the early reply; the result of every fsync is
dropped (`gdbus-extfs.c:395`, `gdbus-btrfs.c:563`, `gdbus-fatfs.c:784`,
`gdbus-xfsfs.c:494`), so a finished backup need not be on disk; when the daemon
dies in the restore of a disk, calls are lost without a word
(`sysbak-extfs.c:175`), and the restore is silent and incomplete; with an image
cut inside its header, `check_file_type` refuses every later backup to that
name, even with overwrite; a missing comma in the array of error texts
(`gdbus-extfs.c:50`) leaves code 9 without a text; a device mounted between the
client's check (`sysbak-extfs.c:76`) and the daemon's open is copied; a FAT
volume without a whole cluster and every btrfs volume that does not open end the
daemon, and so does a btrfs seed device; an XFS free list that cannot be read
costs block 0 of its group; a failed XFS open keeps its slot of the device
table, and after a failed device open the daemon closes descriptor 0; a btrfs
root item with the offset -1 leaves a path behind (`root-tree.c:50-53`), and an
assert ends the daemon when the volume is closed; a btrfs block pointer that
overlaps a cached block makes the cache free a buffer that is in use
(`extent_io.c:646-650`); `btrfs_next_leaf` failing is taken for the end of the
root tree; btrfs inner nodes are backed up by chance on volumes with skinny
metadata; the height computed for a file's extent tree may be one short (the
program does not use it); the volume groups of a target disk are removed before
it is checked that the backup fits (`sysbak-disk.c:985`); an image without
checksums would divide by zero (`gdbus-share.c:85`).

## 6. Not modelled

- The handlers' models accept any bitmap; the readers' models show which one is
  delivered.  The two are not composed: their only common state is the bitmap
  and the count.
- Retries inside `write_read_io_all`, speed and elapsed time, memory
  allocation of the setters, GObject signals inside the client.
- Images whose header describes another geometry (block size, number of
  blocks, no checksums): only images that this program wrote, damaged or not.
- After a handler returns FALSE the generated D-Bus skeleton answers the
  invocation once more.  That code is not in the repository; since the
  invocation may have been freed by then, its worst outcome is the death of
  the daemon, which `Service` allows at any moment.
- What the external tools and libraries do: sfdisk, dd, lsblk, lvm, libext2fs,
  blkid.  They are steps that may fail.
- Of btrfs-progs: everything that writes (allocation in `extent-tree.c`,
  insertion, deletion and balancing in `ctree.c`, transactions), raid5/6
  recovery, free-space caches, backup roots.  The program opens volumes
  read-only and calls none of it.  It does read the block groups
  (`btrfs_read_block_groups`): a step of `BtrfsOpen`, for the path it frees.  The
  caches it fills, which nobody asks, are left out, and so is a block group of
  length 0, on which its loop does not move.
- Of xfsprogs: directory and attribute formats (`xfs_da_format.c`), deferred
  operations, verifiers, logs, write paths.  The reader calls none of it.
- A btrfs node whose last two keys are out of order, and a raid10 chunk with
  fewer stripes than sub-stripes: both pass the library's checks and leave the
  defined behaviour of the code.
- `test/main.c`: starts calls by hand and checks nothing.

## 7. Plan

The model covers the program's own code and the parts of the bundled libraries
it runs; every safety property that the provers can reach has its theorem, and
section 4 says why the others have none.  What could be added:

1. The retries inside `write_read_io_all` (EINTR, EAGAIN, short counts, a return
   of 0) as a module of their own, implemented by the writes of the handlers.
2. `MapBlockExact` for the profiles without stripes, where the arithmetic is
   linear.
