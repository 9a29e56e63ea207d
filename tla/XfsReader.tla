------------------------------ MODULE XfsReader ------------------------------
(***************************************************************************)
(* The XFS bitmap reader and the device table of the library under it.     *)
(* Every job opens the device twice through fs_open: read_super_blocks     *)
(* looks at the result, read_bitmap_info does not.  The table of open      *)
(* devices, xargs, mp and mbuf are global and live as long as the daemon.  *)
(*                                                                         *)
(* The scan clears the bits of what the allocation groups list as free.    *)
(* Every read may fail; libxfs_readbuf then returns a buffer of zeros, and *)
(* nobody looks at its error.                                              *)
(***************************************************************************)
EXTENDS Integers, Sequences, SequencesExt, FiniteSets

CONSTANTS
    Devs,     \* block devices
    Volumes,  \* what a mountable device may hold (see MCXfs)
    MAX_DEVS, \* number of slots of the device table
    AgflSize, \* number of entries of a free list
    Word,     \* number of values of a 32-bit unsigned number
    MaxJobs   \* bound on the jobs

NoDev == "none"

ASSUME ReaderAssumption ==
    /\ MAX_DEVS \in Nat \ {0} /\ AgflSize \in Nat \ {0}
    /\ Word \in Nat \ {0} /\ MaxJobs \in Nat
    /\ Volumes # {} /\ Devs \cap {NoDev, "zero"} = {}

Blocks(v) == 0..(v.dblocks - 1)

(* What a group lists as free: entries of the array agfl, and the records  *)
(* [start, length] in the leaves of its tree.                              *)
Listed(v, n)        == {(n - 1) * v.agblocks + v.ags[n].agfl[i] : i \in v.ags[n].listed}
InRecord(v, n, rec) == (n - 1) * v.agblocks + rec[1] .. (n - 1) * v.agblocks + rec[1] + rec[2] - 1
InLeaf(v, n, l)     == UNION {InRecord(v, n, rec) : rec \in ToSet(v.ags[n].leaves[l])}
InTree(v, n)        == UNION {InLeaf(v, n, l) : l \in DOMAIN v.ags[n].leaves}

ListValid(ag) == ag.flfirst < AgflSize /\ ag.fllast < AgflSize

(* The entries from flfirst to fllast, around the end of the array.        *)
ListIndexes(ag) ==
    IF ag.flfirst <= ag.fllast THEN ag.flfirst .. ag.fllast
    ELSE (ag.flfirst .. (AgflSize - 1)) \cup (0 .. ag.fllast)

(* A file system that is consistent but for the ends of a free list: every *)
(* group has a block, a block is in use, or in a tree, or on one list.     *)
ASSUME VolumesAssumption ==
    \A v \in Volumes :
        /\ v.dblocks \in Nat /\ v.agblocks \in Nat /\ v.ags \in Seq(ToSet(v.ags))
        /\ \A n \in DOMAIN v.ags :
              LET ag == v.ags[n]
              IN  /\ (n - 1) * v.agblocks < v.dblocks
                  /\ {ag.flcount, ag.flfirst, ag.fllast} \subseteq Nat
                  /\ ListValid(ag) => ag.listed = IF ag.flcount = 0 THEN {} ELSE ListIndexes(ag)
                  /\ \A i \in ag.listed : ag.agfl[i] \in Nat
                  /\ ag.leaves \in Seq(ToSet(ag.leaves))
                  /\ \A l \in DOMAIN ag.leaves : ToSet(ag.leaves[l]) \subseteq Nat \X Nat
                  /\ Listed(v, n) \cup InTree(v, n) \subseteq Blocks(v)
                  /\ \A k \in DOMAIN v.ags :
                        /\ Listed(v, n) \cap InTree(v, k) = {}
                        /\ n # k => Listed(v, n) \cap Listed(v, k) = {}
        /\ v.used = Blocks(v) \ UNION {Listed(v, n) \cup InTree(v, n) : n \in DOMAIN v.ags}

VARIABLES
    kind,     \* the superblock of dev: "good", "odd" (mounts, but unfit) or "alien"
    devMap,   \* the table: devMap[i] is a device or NoDev
    ddev,     \* xargs.ddev
    mp,       \* NoDev for NULL, or the device whose superblock is in mbuf, or "zero"
    dev,      \* the device of the running job
    pc,
    vol,      \* the volume being scanned
    bitmap,   \* the set of blocks whose bit is set
    agno,     \* the allocation group being scanned
    agf,      \* its header as read: agf.ok tells whether the read succeeded
    leaf,     \* leaf of the tree being read
    left,     \* devices whose fs_open failed after libxfs_init
    lost,     \* groups whose free list was read as zeros
    failures, \* a read or an open of this job has failed
    openFailed, \* some open of a device has failed since the start
    fd0,      \* file descriptor 0 of the daemon is open
    jobs

readerVars ==
    <<kind, devMap, ddev, mp, dev, pc, vol, bitmap, agno, agf, leaf, lost, left,
     failures, openFailed, fd0, jobs>>

scan    == <<vol, bitmap, agno, agf, leaf, lost>>
Kinds   == {"good", "odd", "alien"}
NoVolume == CHOOSE v \in Volumes : TRUE
NoHeader == [ok |-> FALSE]

ReaderInit ==
    /\ kind = "good"
    /\ devMap = [i \in 1..MAX_DEVS |-> NoDev]
    /\ ddev = NoDev /\ mp = NoDev /\ dev = NoDev /\ pc = "idle"
    /\ vol = NoVolume
    /\ bitmap = {} /\ agno = 0 /\ agf = NoHeader /\ leaf = 0 /\ lost = {} /\ left = {}
    /\ failures = FALSE /\ openFailed = FALSE /\ fd0 = TRUE /\ jobs = 0
-----------------------------------------------------------------------------
(* The device table.                                                       *)

Slots(d) == {i \in 1..MAX_DEVS : devMap[i] = d}
First(S) == CHOOSE i \in S : \A j \in S : i <= j

libxfs_device_to_fd(d) == Slots(d) # {}

(* A device that is in the table already, or a full table, gives 0 (and    *)
(* the descriptor that was opened stays open).                             *)
libxfs_device_open(d) ==
    IF Slots(d) # {} \/ Slots(NoDev) = {}
    THEN [map |-> devMap, dev |-> NoDev]
    ELSE [map |-> [devMap EXCEPT ![First(Slots(NoDev))] = d], dev |-> d]

(* Mutant: the slot is not given back.                                     *)
DeviceStaysOpen(d) == [map |-> devMap, fd0 |-> fd0]

(* Closing device 0 finds the first free slot, whose descriptor is 0.      *)
libxfs_device_close(d) ==
    [map |-> IF Slots(d) = {} THEN devMap ELSE [devMap EXCEPT ![First(Slots(d))] = NoDev],
     fd0 |-> fd0 /\ ~(d = NoDev /\ Slots(NoDev) # {})]

(* libxfs_init: a failed check or open leaves ddev 0, a device without a   *)
(* size is closed again.                                                   *)
libxfs_init(ok) ==
    \/ /\ LET opened == libxfs_device_open(dev)
          IN  ok = (opened.dev # NoDev) /\ devMap' = opened.map /\ ddev' = opened.dev
       /\ openFailed' = openFailed
    \/ ~ok /\ devMap' = devMap /\ ddev' \in {NoDev, dev} /\ openFailed' = TRUE

(* fs_open: the open of its own, libxfs_init, get_sb, libxfs_mount and the *)
(* checks.  Whatever fails after libxfs_init leaves the device in the      *)
(* table.                                                                  *)
OpenFails    == openFailed' = TRUE /\ UNCHANGED <<devMap, ddev, mp, left>>
InitFails    == libxfs_init(FALSE) /\ UNCHANGED <<mp, left>>
Left         == left' = IF pc = "super" THEN left \cup {dev} ELSE left
Opened(m)    == libxfs_init(TRUE) /\ mp' = m
GetSbFails   == Opened(IF mp = NoDev THEN NoDev ELSE "zero") /\ Left
MountFails   == kind = "alien" /\ Opened(NoDev) /\ Left
ChecksFail   == kind = "odd" /\ Opened(dev) /\ Left
OpenSucceeds == kind = "good" /\ Opened(dev) /\ left' = left

fs_open(ok) ==
    IF ok THEN OpenSucceeds
          ELSE OpenFails \/ InitFails \/ GetSbFails \/ MountFails \/ ChecksFail

fs_close == devMap' = libxfs_device_close(ddev).map /\ fd0' = libxfs_device_close(ddev).fd0
-----------------------------------------------------------------------------
StartJob ==
    /\ pc = "idle" /\ jobs < MaxJobs
    /\ jobs' = jobs + 1 /\ dev' \in Devs
    /\ kind' \in Kinds /\ pc' = "super" /\ failures' = FALSE
    /\ UNCHANGED <<devMap, ddev, mp, left, openFailed, fd0>> /\ UNCHANGED scan

(* read_super_blocks gives up when fs_open fails.                          *)
read_super_blocks ==
    /\ pc = "super"
    /\ \/ fs_open(TRUE) /\ pc' = "super_close"
       \/ fs_open(FALSE) /\ pc' = "idle"
    /\ UNCHANGED <<kind, dev, failures, fd0, jobs>> /\ UNCHANGED scan

CloseSuper ==
    /\ pc = "super_close"
    /\ fs_close
    /\ pc' = "bitmap"
    /\ UNCHANGED <<kind, ddev, mp, dev, left, failures, openFailed, jobs>> /\ UNCHANGED scan

(* read_bitmap_info sets every bit and ignores the result of fs_open.      *)
(* mp is not NULL here: the same superblock has just been mounted.         *)
read_bitmap_info ==
    /\ pc = "bitmap"
    /\ vol' \in Volumes
    /\ bitmap' = Blocks(vol') /\ agno' = 0 /\ lost' = {}
    /\ \E ok \in BOOLEAN : fs_open(ok) /\ failures' = ~ok
    /\ pc' = IF mp' = "zero" THEN "bitmap_close" ELSE "agf"
    /\ UNCHANGED <<kind, dev, agf, leaf, fd0, jobs>>
-----------------------------------------------------------------------------
(* The scan of one allocation group.                                       *)

Ag(n) == vol.ags[n + 1]

(* A read needs the device in the table; otherwise its descriptor is -1.   *)
Read(ok) ==
    /\ ok => libxfs_device_to_fd(mp)
    /\ failures' = (failures \/ ~ok)

(* Mutant: block numbers start anew in every allocation group.             *)
WithinAg(seqno, agbno) == agbno

(* The number of a block: unsigned 32-bit arithmetic.                      *)
StartBlock(seqno, agbno) == (seqno * vol.agblocks + agbno) % Word

(* Bits beyond the end of the file system are not there.                   *)
addtohist(map, seqno, agbno, len) ==
    map \ {b \in StartBlock(seqno, agbno) .. (StartBlock(seqno, agbno) + len - 1) : b \in Blocks(vol)}

scan_ag ==
    /\ pc = "agf"
    /\ IF agno = Len(vol.ags)
       THEN pc' = "bitmap_close" /\ UNCHANGED <<agf, failures>>
       ELSE \E ok \in BOOLEAN :
              Read(ok) /\ pc' = "agfl" /\ agf' = [ok |-> ok]
    /\ UNCHANGED <<kind, devMap, ddev, mp, dev, vol, bitmap, agno, leaf, lost,
                   left, openFailed, fd0, jobs>>

(* A list that could not be read is full of zeros: block 0 of the group is *)
(* taken for free.                                                         *)
scan_freelist ==
    /\ pc = "agfl"
    /\ LET ag == Ag(agno)
           free(ok) == {IF ok THEN ag.agfl[i] ELSE 0 : i \in ListIndexes(ag)}
       IN  IF ~agf.ok \/ ag.flcount = 0
           THEN UNCHANGED <<bitmap, lost, failures>>
           ELSE \E ok \in BOOLEAN :
                  /\ Read(ok)
                  /\ IF ListValid(ag)
                     THEN /\ bitmap' = {b \in bitmap : \A f \in free(ok) : b \in addtohist(bitmap, agno, f, 1)}
                          /\ lost' = IF ok THEN lost ELSE lost \cup {agno}
                     ELSE UNCHANGED <<bitmap, lost>>
    /\ pc' = "root" /\ leaf' = 1
    /\ UNCHANGED <<kind, devMap, ddev, mp, dev, vol, agno, agf, left, openFailed,
                   fd0, jobs>>

(* An unreadable header points to block 0 of group 0, and an unreadable    *)
(* root has no magic number: the group's blocks keep their bits.           *)
scan_sbtree ==
    /\ pc = "root"
    /\ \E ok \in BOOLEAN :
          /\ Read(ok)
          /\ pc' = IF ok /\ agf.ok THEN "leaf" ELSE "agf"
          /\ agno' = IF ok /\ agf.ok THEN agno ELSE agno + 1
    /\ UNCHANGED <<kind, devMap, ddev, mp, dev, vol, bitmap, agf, leaf, lost,
                   left, openFailed, fd0, jobs>>

ClearRecords(map, recs) ==
    {b \in map : \A r \in DOMAIN recs : b \in addtohist(map, agno, recs[r][1], recs[r][2])}

(* The records of the next leaf; a root of level 0 is its own leaf.        *)
scanfunc_bno ==
    /\ pc = "leaf"
    /\ IF leaf > Len(Ag(agno).leaves)
       THEN /\ pc' = "agf" /\ agno' = agno + 1
            /\ UNCHANGED <<bitmap, leaf, failures>>
       ELSE \E ok \in BOOLEAN :
              /\ Read(ok)
              /\ Len(Ag(agno).leaves) = 1 => ok
              /\ bitmap' = IF ok THEN ClearRecords(bitmap, Ag(agno).leaves[leaf])
                                 ELSE bitmap
              /\ leaf' = leaf + 1 /\ UNCHANGED <<pc, agno>>
    /\ UNCHANGED <<kind, devMap, ddev, mp, dev, vol, agf, lost, left, openFailed,
                   fd0, jobs>>

CloseBitmap ==
    /\ pc = "bitmap_close"
    /\ fs_close
    /\ pc' = "done"
    /\ UNCHANGED <<kind, ddev, mp, dev, left, failures, openFailed, jobs>> /\ UNCHANGED scan

(* The job goes on with the copy; the reader is free for the next one.     *)
EndJob ==
    /\ pc = "done"
    /\ pc' = "idle" /\ dev' = NoDev /\ failures' = FALSE
    /\ vol' = NoVolume /\ bitmap' = {} /\ agno' = 0 /\ agf' = NoHeader /\ leaf' = 0 /\ lost' = {}
    /\ UNCHANGED <<kind, devMap, ddev, mp, left, openFailed, fd0, jobs>>

ReaderNext ==
    \/ StartJob \/ read_super_blocks \/ CloseSuper \/ read_bitmap_info
    \/ scan_ag \/ scan_freelist \/ scan_sbtree \/ scanfunc_bno
    \/ CloseBitmap \/ EndJob

ReaderSpec == ReaderInit /\ [][ReaderNext]_readerVars
-----------------------------------------------------------------------------
ReaderTypeOK ==
    /\ kind \in Kinds /\ devMap \in [1..MAX_DEVS -> Devs \cup {NoDev}]
    /\ ddev \in Devs \cup {NoDev} /\ dev \in Devs \cup {NoDev}
    /\ mp \in Devs \cup {NoDev, "zero"}
    /\ vol \in Volumes /\ bitmap \subseteq Blocks(vol)
    /\ agno \in 0..Len(vol.ags) /\ lost \subseteq 0..(Len(vol.ags) - 1)
    /\ left \subseteq Devs /\ jobs \in 0..MaxJobs /\ leaf \in Nat
    /\ agf \in [ok : BOOLEAN] /\ {failures, openFailed, fd0} \subseteq BOOLEAN

(* A block in use keeps its bit whatever reads fail, except block 0 of a   *)
(* group whose free list could not be read, and except on a file system    *)
(* whose blocks cannot be numbered with 32 bits: what a failed read or a   *)
(* failed fs_open leaves out is backed up needlessly, not lost.            *)
XfsUsedKept ==
    pc = "done" /\ vol.dblocks <= Word =>
        \A b \in vol.used : b \in bitmap \/ \E n \in lost : b = n * vol.agblocks

(* Without failures exactly the free blocks lose their bits; a free list   *)
(* whose ends are outside the array is left alone.                         *)
XfsExact ==
    pc = "done" /\ vol.dblocks <= Word /\ ~failures =>
        bitmap = vol.used \cup
                 UNION {Listed(vol, n) : n \in {k \in DOMAIN vol.ags : ~ListValid(vol.ags[k])}}

(* Between jobs the table holds exactly the devices whose fs_open failed   *)
(* after libxfs_init: a job that succeeds gives its slot back, one that    *)
(* fails there keeps it for the life of the daemon.                        *)
Table == {devMap[i] : i \in 1..MAX_DEVS} \ {NoDev}

TableAtRest == pc = "idle" => Table = left

(* A scan reads with the geometry of the device it was asked for, never    *)
(* with that of an earlier job, although mp and mbuf are global and        *)
(* read_bitmap_info ignores the result of fs_open.                         *)
Scanning == {"agf", "agfl", "root", "leaf"}

ScansOwnDevice == pc \in Scanning => mp = dev

(* Descriptor 0 of the daemon is closed only after an open has failed: the *)
(* entries left in the table do not lead to libxfs_device_close(0).        *)
StdinLostByFailedOpen == ~fd0 => openFailed

(* What keeps these within a job: a device has one slot at most; the job's *)
(* own is there from an open that succeeds to its close, and xargs names   *)
(* it unless the second open failed.                                       *)
DevicesInv ==
    /\ \A i, j \in 1..MAX_DEVS : devMap[i] = devMap[j] /\ devMap[i] # NoDev => i = j
    /\ pc # "idle" => dev \in Devs
    /\ pc \notin {"idle", "super"} => kind = "good"
    /\ pc \in {"super", "bitmap", "done"} => Table = left
    /\ pc \in {"super_close", "bitmap"} => dev \notin left /\ ddev = dev /\ mp = dev
    /\ pc = "super_close" => Table = left \cup {dev}
    /\ pc = "bitmap" => Slots(NoDev) # {}
    /\ pc \in Scanning \cup {"bitmap_close"} =>
          /\ dev \notin left
          /\ \/ ddev = dev /\ Table \in {left, left \cup {dev}}
             \/ ddev = NoDev /\ Table = left /\ openFailed

(* The library's globals from job to job.                                  *)
GlobalsAcrossJobs ==
    /\ ReaderTypeOK
    /\ TableAtRest
    /\ ScansOwnDevice
    /\ StdinLostByFailedOpen
    /\ DevicesInv

(* What a scan without failures has cleared of group n when it is through: *)
(* the tree, and the list if its ends are within the array.                *)
OnList(n) == IF ListValid(vol.ags[n]) THEN Listed(vol, n) ELSE {}

Through == UNION {OnList(n) \cup InTree(vol, n) : n \in 1 .. agno}
Begun   == IF pc \in {"root", "leaf"} THEN OnList(agno + 1) ELSE {}
Leaves  == IF pc = "leaf" THEN UNION {InLeaf(vol, agno + 1, l) : l \in 1 .. leaf - 1} ELSE {}
Cleared == Through \cup Begun \cup Leaves

(* The two on the way: what the scan has cleared so far.                   *)
ScanInv ==
    /\ pc \in {"agfl", "root", "leaf"} => agno < Len(vol.ags)
    /\ pc = "root" => leaf = 1
    /\ pc = "leaf" => leaf \in 1 .. Len(vol.ags[agno + 1].leaves) + 1
    /\ pc \in Scanning \cup {"bitmap_close", "done"} /\ vol.dblocks <= Word =>
          /\ \A b \in vol.used : b \in bitmap \/ \E n \in lost : b = n * vol.agblocks
          /\ ~failures => bitmap = Blocks(vol) \ Cleared
    /\ ~failures => /\ pc \in {"agfl", "root"} => agf.ok
                    /\ pc \in {"bitmap_close", "done"} => agno = Len(vol.ags)

(* What a scan returns: no used block lost, and exactly the used ones when *)
(* nothing fails.                                                          *)
XfsBitmapRight == XfsUsedKept /\ XfsExact /\ ScanInv
=============================================================================
