------------------------------ MODULE BtrfsOpen ------------------------------
(***************************************************************************)
(* Opening and closing a btrfs volume, twice for every job: once for       *)
(* read_super_blocks, which closes it, and once for read_bitmap_info,      *)
(* which does not.  The list fs_uuids of volumes and their devices         *)
(* outlives an open; the extent buffers of the roots belong to one.        *)
(*                                                                         *)
(* fs_open looks into the result of open_ctree_fs_info before it compares  *)
(* it with NULL, so that a failed open ends the daemon; so does an assert  *)
(* that fails: the build does not define NDEBUG.  "dead" is that end.      *)
(***************************************************************************)
EXTENDS Integers, FiniteSets

CONSTANTS
    Paths,    \* device nodes
    Disks,    \* what the device nodes hold at first (functions on Paths)
    MaxRuns,  \* bound on the jobs
    MaxWorld, \* bound on the changes between jobs
    MaxOdd    \* bound on the roots of a wrong generation and the overlapping requests of one open

Gone == [fsid |-> "none"]

(* What check_super accepts.                                               *)
IsBtrfs(d) == d # Gone /\ d.super # "alien"

(* The devices of a volume agree on which devices it has; its chunk tree   *)
(* names them by their ids.                                                *)
ASSUME DisksAssumption ==
    /\ Paths # {} /\ IsFiniteSet(Paths) /\ Paths \cap {"", "closed"} = {}
    /\ \A m \in Disks :
          /\ m \in [Paths -> {m[p] : p \in Paths}]
          /\ \A p \in Paths : m[p] # Gone => m[p].fsid # "none"
          /\ \A p, q \in Paths : IsBtrfs(m[p]) /\ IsBtrfs(m[q]) =>
                /\ m[p].devid \in m[p].ids /\ IsFiniteSet(m[p].ids)
                /\ m[p].num = Cardinality(m[p].ids)
                /\ m[p].fsid = m[q].fsid => m[p].ids = m[q].ids

VARIABLES
    disk,      \* what is on every device node
    fs_uuids,  \* devices of each volume: devid, name and descriptor (a path, or "closed")
    scan_done, \* btrfs_scan_done
    lost,      \* descriptors that nothing refers to any more
    path_,     \* the device node of the job
    stage,     \* "super" or "bitmap": which open of the job it is
    refs,      \* references of the extent buffers in the cache
    roots,     \* node of every root: a buffer, "null" (or an error pointer), "freed" under the root
    recow,     \* the list recow_ebs
    kept,      \* references of paths that a function returned without freeing
    overlaps,  \* requests of this open that met a cached block they overlap
    refused,   \* the last of them, in this stage, got no buffer
    scanned,   \* this open has looked for the other devices
    runs, world,
    why,       \* what ended the daemon
    opc

openVars == <<disk, fs_uuids, scan_done, lost, path_, stage, refs, roots, recow, kept, overlaps, refused,
              scanned, runs, world, why, opc>>

RootNames == {"chunk", "tree", "extent", "dev", "csum", "quota", "free_space", "log", "fs"}
Buffers   == RootNames \cup {"blank", "leaf"} \* "leaf": the blocks of the root tree below its root
NoRoots   == [r \in RootNames |-> "null"]
NoRefs    == [b \in Buffers |-> 0]
Fsids     == {d[p].fsid : d \in Disks, p \in Paths} \ {"none"}
bufVars   == <<refs, roots, recow, kept, overlaps, refused>>
jobVars   == <<disk, path_, stage, runs, world>>

OpenInit ==
    /\ disk = [p \in Paths |-> Gone]
    /\ fs_uuids = [f \in Fsids |-> {}] /\ scan_done = FALSE /\ lost = 0
    /\ path_ = CHOOSE p \in Paths : TRUE
    /\ stage = "super" /\ refs = NoRefs /\ roots = NoRoots /\ recow = {}
    /\ kept = NoRefs /\ overlaps = 0 /\ refused = FALSE
    /\ scanned = FALSE /\ runs = 0 /\ world = 0 /\ why = "" /\ opc = "off"

(* The daemon is started on a machine with some volumes.                   *)
daemonStarts ==
    /\ opc = "off" /\ opc' = "idle"
    /\ disk' \in Disks
    /\ UNCHANGED <<fs_uuids, scan_done, lost, path_, stage, bufVars, scanned, runs, world, why>>

super == disk[path_]
Devices == fs_uuids[super.fsid]
-----------------------------------------------------------------------------
(* Between jobs a partition becomes the copy of another, or goes away.     *)
worldChanges ==
    /\ opc = "idle" /\ world < MaxWorld
    /\ world' = world + 1
    /\ \E p \in Paths :
          disk' \in {[disk EXCEPT ![p] = disk[q]] : q \in Paths} \cup {[disk EXCEPT ![p] = Gone]}
    /\ UNCHANGED <<fs_uuids, scan_done, lost, path_, stage, bufVars, scanned, runs, why, opc>>

Dies(cause) == opc' = "dead" /\ why' = cause

(* read_super_blocks or read_bitmap_info calls open_ctree_fs_info: a path  *)
(* that cannot be opened, or a superblock that check_super refuses, gives  *)
(* NULL.                                                                   *)
open_ctree(p, st) ==
    /\ IF IsBtrfs(disk[p]) THEN opc' = "scan" /\ UNCHANGED why ELSE Dies("null")
    /\ path_' = p /\ stage' = st
    /\ refs' = NoRefs /\ roots' = NoRoots /\ recow' = {} /\ scanned' = FALSE
    /\ kept' = NoRefs /\ overlaps' = 0 /\ refused' = FALSE
    /\ UNCHANGED <<disk, fs_uuids, scan_done, lost, world>>

startJob ==
    /\ opc = "idle" /\ runs < MaxRuns /\ runs' = runs + 1
    /\ \E p \in Paths : open_ctree(p, "super")

(* The job goes on to the bitmap, or ends before (no space, no target).    *)
secondOpen == opc = "closed" /\ open_ctree(path_, "bitmap") /\ UNCHANGED runs
stopEarly  == opc = "closed" /\ opc' = "idle" /\ UNCHANGED <<jobVars, fs_uuids, scan_done, lost, bufVars, scanned, why>>

(* Mutant: a device that is known keeps the name it had.                   *)
device_list_addFirstName(devs, p) ==
    IF \E d \in devs : d.devid = disk[p].devid THEN devs
    ELSE devs \cup {[devid |-> disk[p].devid, name |-> p, fd |-> "closed"]}

(* device_list_add: a known device takes the new name and keeps its        *)
(* descriptor.                                                             *)
device_list_add(devs, p) ==
    IF \E d \in devs : d.devid = disk[p].devid
    THEN {IF d.devid = disk[p].devid THEN [d EXCEPT !.name = p] ELSE d : d \in devs}
    ELSE devs \cup {[devid |-> disk[p].devid, name |-> p, fd |-> "closed"]}

Probed     == {p \in Paths : IsBtrfs(disk[p])}
Members(f) == {p \in Probed : disk[p].fsid = f}

(* The devices of a volume after btrfs_scan_lblkid, when last is the       *)
(* device node that every device was seen under last.                      *)
Added(f, devs, last) ==
    {IF <<f, d.devid>> \in DOMAIN last THEN [d EXCEPT !.name = last[<<f, d.devid>>]] ELSE d : d \in devs}
    \cup {[devid |-> i[2], name |-> last[i], fd |-> "closed"] :
             i \in {i \in DOMAIN last : i[1] = f /\ \A d \in devs : d.devid # i[2]}}

(* btrfs_scan_fs_devices: the given device is added and, once in the life  *)
(* of the daemon, every btrfs device of the machine.                       *)
btrfs_scan_fs_devices ==
    /\ opc = "scan"
    /\ LET given == [fs_uuids EXCEPT ![super.fsid] = device_list_add(@, path_)]
           ids   == {<<disk[p].fsid, disk[p].devid>> : p \in Probed}
       IN IF super.num = 1 \/ scan_done
          THEN fs_uuids' = given /\ UNCHANGED <<scan_done, scanned>>
          ELSE /\ \E last \in [ids -> Probed] :
                     /\ \A i \in ids : <<disk[last[i]].fsid, disk[last[i]].devid>> = i
                     /\ fs_uuids' = [f \in Fsids |-> Added(f, given[f], last)]
               /\ scan_done' = TRUE /\ scanned' = TRUE
    /\ opc' = "devices"
    /\ UNCHANGED <<jobVars, lost, bufVars, why>>

Opened(devs) == {d \in devs : d.fd # "closed"}

(* btrfs_close_devices closes what is open and forgets the volume.         *)
btrfs_close_devices == fs_uuids' = [fs_uuids EXCEPT ![super.fsid] = {}] /\ UNCHANGED lost

(* btrfs_open_devices: the descriptor of a device that is open already is  *)
(* overwritten.  One device that cannot be opened closes them all.         *)
btrfs_open_devices ==
    /\ opc = "devices"
    /\ LET broken == {d \in Devices : d.name # "" /\ disk[d.name] = Gone}
           named  == {d \in Devices : d.name # ""}
       IN IF broken = {}
          THEN /\ fs_uuids' = [fs_uuids EXCEPT ![super.fsid] =
                                  {IF d \in named THEN [d EXCEPT !.fd = d.name] ELSE d : d \in @}]
               /\ lost' = lost + Cardinality(Opened(named))
               /\ opc' = "chunk" /\ UNCHANGED why
          ELSE /\ \E before \in SUBSET (named \ broken) : lost' = lost + Cardinality(Opened(before))
               /\ fs_uuids' = [fs_uuids EXCEPT ![super.fsid] = {}]
               /\ Dies("null")
    /\ UNCHANGED <<jobVars, scan_done, bufVars, scanned>>
-----------------------------------------------------------------------------
(* Mutant: the log root is not released.                                   *)
ReleasedButLog == {r \in RootNames \ {"fs", "log"} : roots[r] \in Buffers}

(* btrfs_release_all_roots frees the node of every root but the fs root.   *)
Released == {r \in RootNames \ {"fs"} : roots[r] \in Buffers}

Nodes(gone, b) == Cardinality({r \in gone : roots[r] = b})

(* The references of a buffer, n at first, that are left when the roots    *)
(* and recow_ebs are let go of.                                            *)
Left(gone, b, n) == n - Nodes(gone, b) - (IF b \in recow THEN 1 ELSE 0)

(* A root lets go of a buffer that is not there any more.                  *)
ReleasesFreed(gone, held) ==
    (\E r \in RootNames \ {"fs"} : roots[r] = "freed") \/ \E b \in Buffers : held[b] < Nodes(gone, b)

(* Leaving __open_ctree_fd by out_chunk: the roots, then the caches, whose *)
(* cleanup asserts that no buffer is left; then the devices.               *)
out_chunk(held) ==
    IF ReleasesFreed(Released, held)
    THEN Dies("undefined") /\ UNCHANGED <<fs_uuids, lost>>
    ELSE IF \E b \in Buffers : Left(Released, b, held[b]) > 0
    THEN Dies("assert_lru") /\ UNCHANGED <<fs_uuids, lost>>
    ELSE Dies("null") /\ btrfs_close_devices

(* A request for a tree block meets a cached one of another start or size  *)
(* that it overlaps, and takes a reference away from it: the last one      *)
(* frees it under its holders, and while there are more the request is     *)
(* refused.  The root of a search has the search's own reference too,      *)
(* which goes a little later.  A block between the two ends of a search is *)
(* freed under the path.                                                   *)
overlapping ==
    /\ opc \in RootNames \cup {"groups"} /\ overlaps + Cardinality(recow) < MaxOdd
    /\ overlaps' = overlaps + 1
    /\ \/ Dies("undefined") /\ UNCHANGED <<refs, roots, recow, kept, refused>>
       \/ \E b \in {b \in Buffers : refs[b] > 0} :
             /\ opc # "chunk"
             /\ refs' = [refs EXCEPT ![b] = @ - 1]
             /\ IF refs[b] > 1 THEN UNCHANGED <<roots, recow, kept>>
                ELSE /\ roots' = [r \in RootNames |-> IF roots[r] = b THEN "freed" ELSE roots[r]]
                     /\ recow' = recow \ {b} /\ kept' = [kept EXCEPT ![b] = 0]
             /\ refused' \in BOOLEAN /\ (refs[b] > 1 => refused')
             /\ UNCHANGED <<opc, why>>
    /\ UNCHANGED <<jobVars, fs_uuids, scan_done, lost, scanned>>

(* A search starts at a root whose node was freed.                         *)
searchesFreed ==
    /\ \/ opc \in {"extent", "dev", "csum", "quota", "free_space", "fs"} /\ roots["tree"] = "freed"
       \/ opc = "groups" /\ roots["extent"] = "freed"
    /\ Dies("undefined")
    /\ UNCHANGED <<jobVars, fs_uuids, scan_done, lost, bufVars, scanned>>

(* The node of a root was read; a stale one is also on recow_ebs.          *)
ReadNode(r) ==
    /\ ~refused /\ roots' = [roots EXCEPT ![r] = r]
    /\ \/ refs' = [refs EXCEPT ![r] = 1] /\ UNCHANGED recow
       \/ /\ overlaps + Cardinality(recow) < MaxOdd
          /\ refs' = [refs EXCEPT ![r] = 2] /\ recow' = recow \cup {r}

Reads(r) == ReadNode(r) /\ UNCHANGED <<kept, fs_uuids, lost, why>>

(* The devices that the chunk tree names and nobody has found.             *)
WithMissing(devs) ==
    devs \cup {[devid |-> i, name |-> "", fd |-> "closed"] :
                  i \in super.ids \ {d.devid : d \in devs}}

(* The superblock's features, the chunk root and the chunk tree.  A device *)
(* item of a seed ends in the assert of open_seed_devices; an item that is *)
(* refused returns with the path, and so the leaf, still held.             *)
btrfs_setup_chunk_tree_and_device_map ==
    /\ opc = "chunk"
    /\ IF super.super = "features"
       THEN Dies("null") /\ btrfs_close_devices /\ UNCHANGED bufVars
       ELSE \/ UNCHANGED bufVars /\ out_chunk(refs)
            \/ /\ ReadNode("chunk")
               /\ UNCHANGED <<kept, overlaps, refused, lost>>
               /\ IF super.seed
                  THEN Dies("assert_seed") /\ UNCHANGED fs_uuids
                  ELSE /\ fs_uuids' = [fs_uuids EXCEPT ![super.fsid] = WithMissing(@)]
                       /\ opc' = "tree" /\ UNCHANGED why
            \/ /\ roots' = [roots EXCEPT !["chunk"] = "chunk"]
               /\ refs' = [refs EXCEPT !["chunk"] = 2] /\ kept' = [kept EXCEPT !["chunk"] = 1]
               /\ UNCHANGED <<recow, overlaps, refused, fs_uuids, lost>>
               /\ Dies("assert_lru")
    /\ UNCHANGED <<jobVars, scan_done, scanned>>

(* The root tree's own node.                                               *)
tree_root ==
    /\ opc = "tree"
    /\ \/ Reads("tree") /\ opc' = "extent"
       \/ roots' = [roots EXCEPT !["tree"] = "null"] /\ UNCHANGED <<refs, recow, kept>> /\ out_chunk(refs)
    /\ refused' = FALSE /\ UNCHANGED <<jobVars, overlaps, scan_done, scanned>>

(* What btrfs_find_last_root has left referenced when it returns: nothing, *)
(* or, when the search hit (objectid, ROOT_ITEM, -1) itself, the path from *)
(* the root of the root tree to that item.  A volume may have such items,  *)
(* in the root itself or in a leaf below it.                               *)
PathLeft ==
    IF super.last = "none" THEN {NoRefs}
    ELSE {NoRefs, [NoRefs EXCEPT !["tree"] = 1, !["leaf"] = IF super.last = "below" THEN 1 ELSE 0]}

Plus(f, g) == [b \in Buffers |-> f[b] + g[b]]

(* find_and_setup_root does not set up the root r: it is not found, with   *)
(* or without the path left behind, or its node is unreadable.             *)
notFound(r, left, node) ==
    /\ left # NoRefs => ~refused
    /\ roots' = [roots EXCEPT ![r] = node]
    /\ kept' = Plus(kept, left) /\ UNCHANGED recow

SearchesTree(r) == opc = r /\ roots["tree"] # "freed"

(* A root without which the volume does not open (dev, fs, and the free    *)
(* space tree where the superblock names one).                             *)
needed(r, then) ==
    /\ SearchesTree(r)
    /\ \/ Reads(r) /\ opc' = then
       \/ \E left \in PathLeft :
             /\ notFound(r, left, "null")
             /\ refs' = Plus(refs, left) /\ out_chunk(Plus(refs, left))
    /\ refused' = FALSE /\ UNCHANGED <<jobVars, overlaps, scan_done, scanned>>

(* setup_root_or_create_block: with OPEN_CTREE_PARTIAL a root that is not  *)
(* found is replaced by the blank block at address 0, unless that overlaps *)
(* a cached one.                                                           *)
setup_root_or_create_block(r, then) ==
    /\ SearchesTree(r)
    /\ \/ Reads(r) /\ opc' = then
       \/ \E left \in PathLeft :
             /\ notFound(r, left, "blank")
             /\ refs' = [Plus(refs, left) EXCEPT !["blank"] = @ + 1]
             /\ opc' = then /\ UNCHANGED <<fs_uuids, lost, why>>
       \/ refused /\ notFound(r, NoRefs, "null") /\ UNCHANGED refs /\ out_chunk(refs)
    /\ refused' = FALSE /\ UNCHANGED <<jobVars, overlaps, scan_done, scanned>>

(* The quota root may be missing or unreadable.                            *)
quota_root(then) ==
    /\ SearchesTree("quota")
    /\ \/ Reads("quota")
       \/ \E left \in PathLeft :
             /\ notFound("quota", left, "null")
             /\ refs' = Plus(refs, left) /\ UNCHANGED <<fs_uuids, lost, why>>
    /\ opc' = then
    /\ refused' = FALSE /\ UNCHANGED <<jobVars, overlaps, scan_done, scanned>>

(* The log root, which the superblock names, may be missing or unreadable. *)
log_root ==
    /\ opc = "log" /\ opc' = "groups"
    /\ Reads("log") \/ UNCHANGED <<refs, roots, recow, kept, fs_uuids, lost, why>>
    /\ refused' = FALSE /\ UNCHANGED <<jobVars, overlaps, scan_done, scanned>>

(* btrfs_read_block_groups walks the extent tree, where that has a node,   *)
(* and frees its path whatever it finds.                                   *)
block_groups ==
    /\ opc = "groups" /\ roots["extent"] # "freed" /\ opc' = "fs"
    /\ refused' = FALSE
    /\ UNCHANGED <<jobVars, fs_uuids, scan_done, lost, refs, roots, recow, kept, overlaps, scanned, why>>

(* btrfs_setup_all_roots, in its order.                                    *)
btrfs_setup_all_roots ==
    \/ tree_root
    \/ setup_root_or_create_block("extent", "dev")
    \/ needed("dev", "csum")
    \/ setup_root_or_create_block("csum", "quota")
    \/ quota_root(IF super.free_space THEN "free_space" ELSE "log")
    \/ needed("free_space", "log")
    \/ log_root
    \/ block_groups
    \/ needed("fs", "opened")
    \/ overlapping \/ searchesFreed

(* fs_close: close_ctree_fs_info.                                          *)
fs_close ==
    /\ opc = "opened" /\ stage = "super"
    /\ IF ReleasesFreed(Released \cup {"fs"}, refs) THEN Dies("undefined") /\ UNCHANGED kept
       ELSE IF \E b \in Buffers : Left(Released \cup {"fs"}, b, refs[b]) > 0
       THEN Dies("assert_lru") /\ UNCHANGED kept
       ELSE opc' = "closed" /\ kept' = NoRefs /\ UNCHANGED why
    /\ btrfs_close_devices
    /\ refs' = NoRefs /\ roots' = NoRoots /\ recow' = {}
    /\ UNCHANGED <<jobVars, scan_done, overlaps, refused, scanned>>

(* The bitmap is read and the volume stays open; its buffers are never     *)
(* looked at again.                                                        *)
leaveOpen ==
    /\ opc = "opened" /\ stage = "bitmap"
    /\ opc' = "idle"
    /\ refs' = NoRefs /\ roots' = NoRoots /\ recow' = {} /\ kept' = NoRefs
    /\ UNCHANGED <<jobVars, fs_uuids, scan_done, lost, overlaps, refused, scanned, why>>

OpenNext ==
    \/ daemonStarts \/ worldChanges \/ startJob \/ secondOpen \/ stopEarly
    \/ btrfs_scan_fs_devices \/ btrfs_open_devices
    \/ btrfs_setup_chunk_tree_and_device_map \/ btrfs_setup_all_roots
    \/ fs_close \/ leaveOpen
-----------------------------------------------------------------------------
Contents == {m[p] : m \in Disks, p \in Paths} \cup {Gone}
DevIds   == UNION {c.ids : c \in {d \in Contents : IsBtrfs(d)}}
Records  == [devid : DevIds, name : Paths \cup {""}, fd : Paths \cup {"closed"}]
Stages   == {"scan", "devices", "groups", "opened", "closed"} \cup RootNames

OpenTypeOK ==
    /\ disk \in [Paths -> Contents] /\ fs_uuids \in [Fsids -> SUBSET Records]
    /\ path_ \in Paths /\ stage \in {"super", "bitmap"} /\ opc \in Stages \cup {"off", "idle", "dead"}
    /\ refs \in [Buffers -> Nat] /\ roots \in [RootNames -> Buffers \cup {"null", "freed"}]
    /\ kept \in [Buffers -> Nat]
    /\ recow \subseteq RootNames /\ {scan_done, scanned, refused} \subseteq BOOLEAN
    /\ {lost, runs, world, overlaps} \subseteq Nat

(* The assert in extent_io_tree_cleanup, which ends the daemon when a      *)
(* buffer is still there, is met only when a path was left behind: by a    *)
(* refused chunk item, or by a root item of the offset -1.                 *)
AssertNeedsKeptPath == why = "assert_lru" => \E b \in Buffers : kept[b] > 0

(* A freed buffer is used only after a request has met a block that it     *)
(* overlaps.                                                               *)
FreedNeedsOverlap == why = "undefined" => overlaps > 0

(* The roots that are still to be set up.                                  *)
Ahead ==
    CASE opc = "tree"       -> RootNames \ {"chunk"}
      [] opc = "extent"     -> RootNames \ {"chunk", "tree"}
      [] opc = "dev"        -> RootNames \ {"chunk", "tree", "extent"}
      [] opc = "csum"       -> RootNames \ {"chunk", "tree", "extent", "dev"}
      [] opc = "quota"      -> {"quota", "free_space", "log", "fs"}
      [] opc = "free_space" -> {"free_space", "log", "fs"}
      [] opc = "log"        -> {"log", "fs"}
      [] opc \in {"groups", "fs"} -> {"fs"}
      [] opc = "opened"     -> {}
      [] OTHER              -> RootNames

(* During an open a buffer has one reference for every root it is the node *)
(* of, one more when it is on recow_ebs, which is what the release gives   *)
(* back, and those of the paths that were left behind.  Only a request     *)
(* that overlaps a cached block takes references away from their holders.  *)
RefsInv ==
    opc # "dead" =>
        /\ why = ""
        /\ \A r \in RootNames : roots[r] \in {"null", "freed", r, "blank"}
        /\ \A r \in Ahead : roots[r] = "null" /\ r \notin recow /\ kept[r] = 0
        /\ \A b \in Buffers :
              LET holders == Nodes(RootNames, b) + (IF b \in recow THEN 1 ELSE 0) + kept[b]
              IN  refs[b] <= holders /\ (overlaps = 0 => refs[b] = holders)
        /\ overlaps = 0 => ~refused /\ \A r \in RootNames : roots[r] # "freed"

CleanupFindsNothing == OpenTypeOK /\ AssertNeedsKeptPath /\ FreedNeedsOverlap /\ RefsInv

(* The trees of a volume on one device are read from the device node that  *)
(* the job names, even when a copy of the volume was opened before under   *)
(* another name and never closed.                                          *)
ReadsGivenDevice ==
    (opc = "opened" /\ super.num = 1) => Devices = {[devid |-> super.devid, name |-> path_, fd |-> path_]}

(* An open that looks for the other devices of the volume opens all that   *)
(* are there.  It is only the first one of a daemon's life: a later open   *)
(* knows the device it was given and what an earlier one left.             *)
ScanOpensMembers ==
    (opc = "opened" /\ scanned) =>
        \A p \in Members(super.fsid) :
            \E d \in Devices : d.devid = disk[p].devid /\ d.fd \in Members(super.fsid)

(* A job loses at most the descriptors that the bitmap of an earlier job   *)
(* left open.                                                              *)
LostPerJob == lost <= Cardinality(Paths) * (IF runs > 0 THEN runs - 1 ELSE 0)

(* Where the devices of the list come from: from the device nodes that the *)
(* daemon was started with.  A device is in the list once.                 *)
KnownIn(m, f, d) ==
    \E p \in Paths : /\ IsBtrfs(m[p]) /\ m[p].fsid = f
                     /\ IF d.name = "" THEN d.devid \in m[p].ids ELSE d.devid = m[p].devid

Origin ==
    IF opc = "off" THEN \A f \in Fsids : fs_uuids[f] = {}
    ELSE \E m \in Disks :
            /\ \A p \in Paths : disk[p] \in {Gone} \cup {m[q] : q \in Paths}
            /\ \A f \in Fsids : \A d \in fs_uuids[f] : KnownIn(m, f, d)

ListInv ==
    \A f \in Fsids : \A d \in fs_uuids[f] :
        /\ \A e \in fs_uuids[f] : d.devid = e.devid => d = e
        /\ d.name = "" => d.fd = "closed"

(* A job, from its first open to its end, and the state of its devices.    *)
Beginning == opc \in {"scan", "devices"}
Through   == RootNames \cup {"groups", "opened"}

JobInv ==
    /\ opc \in Stages => IsBtrfs(super) /\ runs > 0
    /\ opc = "scan" => ~scanned
    /\ opc = "closed" \/ (Beginning /\ stage = "bitmap") => Opened(Devices) = {}
    /\ opc = "devices" /\ super.num = 1 =>
          \E d \in Devices : Devices = {d} /\ d.devid = super.devid /\ d.name = path_
    /\ opc \in Through /\ super.num = 1 => Devices = {[devid |-> super.devid, name |-> path_, fd |-> path_]}
    /\ opc = "devices" /\ scanned =>
          \A p \in Members(super.fsid) :
              \E d \in Devices : d.devid = disk[p].devid /\ d.name \in Members(super.fsid)
    /\ opc \in Through /\ scanned =>
          \A p \in Members(super.fsid) :
              \E d \in Devices : d.devid = disk[p].devid /\ d.fd \in Members(super.fsid)

(* Every job but the first may lose descriptors, when its first open opens *)
(* the devices.                                                            *)
LostInv ==
    LET begun == IF Beginning /\ stage = "super" THEN runs - 1 ELSE runs
    IN  /\ lost <= Cardinality(Paths) * (IF begun > 0 THEN begun - 1 ELSE 0)
        /\ begun = 0 => \A f \in Fsids : Opened(fs_uuids[f]) = {}

(* The devices behind an open volume are the job's, across the jobs of one *)
(* daemon.                                                                 *)
DevicesFollowJob ==
    ReadsGivenDevice /\ ScanOpensMembers /\ LostPerJob /\ Origin /\ ListInv /\ JobInv /\ LostInv
=============================================================================
