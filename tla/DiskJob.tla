------------------------------- MODULE DiskJob -------------------------------
(***************************************************************************)
(* Backup of a whole disk into a directory, and its restore onto a disk:   *)
(* the client library drives the daemon with synchronous calls (volume     *)
(* group metadata, partition table, boot record) and with asynchronous     *)
(* calls nobody waits for (the partition images, vgcfgrestore, vgchange,   *)
(* vgremove).  The daemon handles calls in the order they arrive, so a     *)
(* synchronous call ends only when the queue before it is empty.           *)
(*                                                                         *)
(* The tools the daemon runs (sfdisk, dd, lvm) may fail at every call, and *)
(* client and daemon may die between any two steps.  The next call to a    *)
(* daemon that died starts it again; what was queued is lost.              *)
(* What lsblk lists is Entries; all logical volumes and physical volumes   *)
(* of the disk belong to the group DiskVg, and OtherVg lives on another    *)
(* disk.  The application sets source and target before every call.        *)
(***************************************************************************)
EXTENDS Integers, Sequences, FiniteSets

CONSTANTS
    Layouts,    \* possible listings of lsblk: sequences of [name, lv, fs]
    Mounts,     \* possible sets of mounted partitions and logical volumes
    DiskVg,     \* the volume group of the disk
    OtherVg,    \* a volume group of another disk
    Starts,     \* possible starts of the last partition of the table, in sectors
    Length,     \* its length in sectors
    DiskSizes,  \* possible sizes of the target disk, in units of two sectors
    Word,       \* number of values of an int
    MaxOps      \* bound on the backups and restores started

NamesOf(l) == {l[i].name : i \in DOMAIN l}
Names      == UNION {NamesOf(l) : l \in Layouts}
Vgs        == {DiskVg, OtherVg}

(* An image is named after its partition (name.img), the other files of    *)
(* the directory have names of their own.                                  *)
OtherFiles == {"dir", "lvm", "info", "table", "mbr"}

ASSUME LayoutsAssumption ==
    \A l \in Layouts :
        /\ l \in Seq([name : NamesOf(l), lv : BOOLEAN, fs : STRING])
        /\ \A i, j \in DOMAIN l : l[i].name = l[j].name => i = j
        /\ NamesOf(l) \cap (OtherFiles \cup {"end"}) = {}
ASSUME MountsAssumption == \A m \in Mounts : m \subseteq Names
ASSUME VgsAssumption == DiskVg # OtherVg
ASSUME BoundsAssumption ==
    /\ Word \in Nat \ {0} /\ Word % 2 = 0 /\ MaxOps \in Nat
    /\ Length \in 1..(Word \div 2 - 1)
    /\ Starts \subseteq Nat /\ DiskSizes \subseteq Nat \ {0}

VARIABLES
    world,   \* what does not change: mounts, sizes, names
    dir,     \* the files of the backup directory: name -> [run, ok]
    disk,    \* the target disk
    queue,   \* asynchronous calls the daemon has not handled
    pc,      \* where the client is
    groups,  \* the groups of disk-info.ini still to be handled
    ops,     \* number of operations started
    ret,     \* what the last operation returned
    told,    \* an error signal was emitted since the last operation started
    lost     \* while there was none: its calls that died with the daemon

vars == <<world, dir, disk, queue, pc, groups, ops, ret, told, lost>>

NoFile == [run |-> 0, ok |-> FALSE]
Files  == OtherFiles \cup Names

Worlds ==
    [layout : Layouts,
     from : Mounts,          \* mounted under the names of the backup
     to   : Mounts,          \* mounted on the target disk
     size : DiskSizes, start : Starts,
     longName : BOOLEAN,     \* disk names of more than three letters
     uuidSeen : BOOLEAN,     \* the uuid is in the first 1024 bytes
     nameInOther : BOOLEAN]  \* the other disk's name contains this one's

Init ==
    /\ world \in Worlds
    /\ dir = [f \in Files |-> NoFile]
    /\ disk = [mbr |-> "old", table |-> "old", pv |-> "old",
               vg |-> [v \in Vgs |-> "old"], data |-> [n \in Names |-> "old"]]
    /\ queue = <<>> /\ pc = "idle" /\ groups = <<>>
    /\ ops = 0 /\ ret = "none" /\ told = FALSE /\ lost = {}
-----------------------------------------------------------------------------
(* Names and file systems.                                                 *)

Entries    == world.layout
Entry(n)   == Entries[CHOOSE i \in DOMAIN Entries : Entries[i].name = n]
IsLv(n)    == n \in NamesOf(Entries) /\ Entry(n).lv

(* The entries at some positions of the listing, in its order.             *)
Below(P, i) == {j \in P : j < i}
Kth(P, k)   == CHOOSE i \in P : Cardinality(Below(P, i)) = k - 1
Listed(P)   == [k \in 1 .. Cardinality(P) |-> Entries[Kth(P, k)]]

(* The first letters of three are taken for the disk's name.  With longer  *)
(* names the disk itself is listed as well, as a group without data.       *)
DiskGroup == [name |-> "disk", lv |-> FALSE, fs |-> "free"]

record_standard_disk_info ==
    (IF world.longName THEN <<DiskGroup>> ELSE <<>>)
    \o Listed({i \in DOMAIN Entries : ~Entries[i].lv})

record_lvm_disk_info == Listed({i \in DOMAIN Entries : Entries[i].lv})

EndGroup == [name |-> "end", lv |-> FALSE, fs |-> "lvm"]

(* disk-info.ini: partitions, the mark "end", logical volumes.             *)
json_parse_array == record_standard_disk_info \o <<EndGroup>> \o record_lvm_disk_info

array_data == {"ext2", "ext3", "ext4", "vfat", "btrfs", "xfs"}

(* The device a group is restored to, target and group name together; the  *)
(* volumes of a group are there while it is active.                        *)
DevExists(g) == IF g.lv THEN disk.vg[DiskVg] \in {"old", "new"} ELSE ~world.longName

ToInt(x) == LET y == x % Word IN IF y < Word \div 2 THEN y ELSE y - Word

Halved(x) == IF x >= 0 THEN x \div 2 ELSE -((-x) \div 2)

(* atoi and the sum are of type int; the result is an unsigned long.       *)
gdbus_get_source_use_size(start, length) ==
    LET size == Halved(ToInt(ToInt(start) + ToInt(length)))
    IN  IF size < 0 THEN Word * Word + size ELSE size
-----------------------------------------------------------------------------
Begin(step) ==
    /\ pc = "idle" /\ ops < MaxOps
    /\ ops' = ops + 1 /\ pc' = step
    /\ ret' = "none" /\ told' = FALSE /\ lost' = {}

Return(value) == pc' = "idle" /\ ret' = value

(* A synchronous call is answered when the calls before it are handled.    *)
Sync(step) == pc = step /\ queue = <<>>

Write(f, ok) == dir' = [dir EXCEPT ![f] = [run |-> ops, ok |-> ok]]

(* A tool that fails may leave a bad file or none; the daemon emits an     *)
(* error signal.                                                           *)
Tool(f, ok) == IF ok THEN Write(f, TRUE) /\ told' = told
                     ELSE told' = TRUE /\ (dir' = dir \/ Write(f, FALSE))

gdbus_backup_lvm_meta(ok)        == Tool("lvm", ok)
gdbus_backup_partition_table(ok) == Tool("table", ok)
gdbus_backup_disk_mbr(ok)        == Tool("mbr", ok)
-----------------------------------------------------------------------------
(* sysbak_admin_disk_to_file.                                              *)

(* Mutant: a directory that is there already is taken.                     *)
AnyTargetDir == TRUE

create_target_dir == dir["dir"] = NoFile

sysbak_admin_disk_to_file ==
    /\ Begin("b_dir")
    /\ UNCHANGED <<world, dir, disk, queue, groups>>

MakeDir ==
    /\ pc = "b_dir"
    /\ \/ create_target_dir /\ pc' = "b_lvm" /\ ret' = ret /\ Write("dir", TRUE)
       \/ ~create_target_dir /\ Return("false") /\ dir' = dir
    /\ UNCHANGED <<world, lost, disk, queue, groups, ops, told>>

BackupStep(step, next, worked, failed) ==
    /\ Sync(step)
    /\ \/ worked /\ pc' = next /\ ret' = ret
       \/ failed /\ Return("false")
    /\ UNCHANGED <<world, lost, disk, queue, groups, ops>>

get_disk_lvm_metadata ==
    BackupStep("b_lvm", "b_info", gdbus_backup_lvm_meta(TRUE), gdbus_backup_lvm_meta(FALSE))

(* lsblk runs in the client; the file is replaced as a whole.              *)
get_disk_info_config ==
    /\ pc = "b_info"
    /\ \/ Write("info", TRUE) /\ pc' = "b_table" /\ ret' = ret
       \/ dir' = dir /\ Return("false")
    /\ UNCHANGED <<world, lost, disk, queue, groups, ops, told>>

get_disk_partition_table ==
    BackupStep("b_table", "b_mbr", gdbus_backup_partition_table(TRUE), gdbus_backup_partition_table(FALSE))

get_disk_mbr ==
    BackupStep("b_mbr", "b_data", gdbus_backup_disk_mbr(TRUE), gdbus_backup_disk_mbr(FALSE))

(* The groups of disk-info.ini are read, and handled one after the other.  *)
sysbak_admin_disk_data ==
    /\ pc = "b_data"
    /\ pc' = "b_group" /\ groups' = json_parse_array
    /\ UNCHANGED <<world, lost, dir, disk, queue, ops, ret, told>>

(* One call per group with a file system of the table and a source that is *)
(* not mounted.  The error for unsupported file systems is emitted for     *)
(* every entry of the table, whatever was found.                           *)
BackupGroup ==
    /\ pc = "b_group" /\ groups # <<>>
    /\ queue' = IF Head(groups).fs \in array_data /\ Head(groups).name \notin world.from
                THEN Append(queue, <<"ptf", Head(groups).name, ops>>) ELSE queue
    /\ groups' = Tail(groups)
    /\ told' = TRUE
    /\ UNCHANGED <<world, lost, dir, disk, pc, ops, ret>>

BackupReturns ==
    /\ pc = "b_group" /\ groups = <<>>
    /\ Return("true")
    /\ UNCHANGED <<world, lost, dir, disk, queue, groups, ops, told>>
-----------------------------------------------------------------------------
(* sysbak_admin_restore_disk.                                              *)

(* Looks for the partitions under the names of the backed up disk, up to   *)
(* the mark.  A missing disk-info.ini counts as mounted.                   *)
check_dev_is_mount ==
    \/ dir["info"] = NoFile
    \/ \E n \in Names : ~IsLv(n) /\ n \in world.from

RestoreRefused == told' = TRUE /\ Return("false")

(* The old groups are removed without waiting, and before the space check. *)
sysbak_admin_restore_disk ==
    /\ Begin("r_check")
    /\ UNCHANGED <<world, dir, disk, queue, groups>>

CheckRestore ==
    /\ pc = "r_check"
    /\ IF dir["dir"] = NoFile \/ check_dev_is_mount
       THEN RestoreRefused /\ queue' = queue
       ELSE /\ pc' = "r_space"
            /\ queue' = Append(queue, <<"remove", DiskVg, ops>>)
            /\ UNCHANGED <<ret, told>>
    /\ UNCHANGED <<world, lost, dir, disk, groups, ops>>

(* The answer to a call for a size.  One that fails counts as 0, and the   *)
(* daemon emits an error signal; one whose answer is lost counts as 0 too, *)
(* and nobody emits anything.                                              *)
Size(x) == [size |-> x, failed |-> FALSE, lost |-> FALSE]
Failed  == [size |-> 0, failed |-> TRUE, lost |-> FALSE]
Unheard == [size |-> 0, failed |-> FALSE, lost |-> TRUE]

(* What the table file says; an empty one leaves the line uninitialised,   *)
(* and nobody is asked when it is missing.                                 *)
get_source_space_size ==
    IF dir["table"] = NoFile THEN {Size(0)}
    ELSE {Failed, Unheard} \cup
         (IF dir["table"].ok THEN {Size(gdbus_get_source_use_size(world.start, Length))}
                             ELSE {Size(0), Size(Word * Word)})

gdbus_get_disk_size == {Failed, Size(world.size)}

get_disk_space_size == {Unheard} \cup gdbus_get_disk_size

SizeCall == <<"size">>

CheckRestoreSpace ==
    /\ Sync("r_space")
    /\ \E needed_space \in get_source_space_size, disk_space \in get_disk_space_size :
          /\ lost' = lost \cup IF needed_space.lost \/ disk_space.lost THEN {SizeCall} ELSE {}
          /\ \/ disk_space.size < needed_space.size /\ RestoreRefused
             \/ /\ disk_space.size >= needed_space.size
                /\ pc' = "r_mbr" /\ ret' = ret
                /\ told' = (told \/ needed_space.failed \/ disk_space.failed)
    /\ UNCHANGED <<world, dir, disk, queue, groups, ops>>

(* The client emits the error, so that a daemon that died is told too,     *)
(* also when it had written everything.                                    *)
restore_disk_mbr ==
    /\ Sync("r_mbr")
    /\ \/ /\ dir["mbr"] # NoFile
          /\ disk' = [disk EXCEPT !.mbr = IF dir["mbr"].ok THEN "backup" ELSE @]
          /\ pc' = "r_table" /\ UNCHANGED <<ret, told>>
       \/ RestoreRefused /\ disk' = disk
       \/ RestoreRefused /\ dir["mbr"] # NoFile /\ disk' = [disk EXCEPT !.mbr = "bad"]
       \/ RestoreRefused /\ dir["mbr"].ok /\ disk' = [disk EXCEPT !.mbr = "backup"]
    /\ UNCHANGED <<world, lost, dir, queue, groups, ops>>

(* Mutant: the images are restored whether sfdisk succeeds or not.         *)
TableResultIgnored ==
    /\ Sync("r_table")
    /\ disk' \in {disk, [disk EXCEPT !.table = "backup"]}
    /\ pc' = "r_group" /\ groups' = json_parse_array
    /\ UNCHANGED <<world, lost, dir, queue, ops, ret, told>>

restore_partition_table ==
    /\ Sync("r_table")
    /\ \/ /\ dir["table"].ok
          /\ disk' = [disk EXCEPT !.table = "backup"]
          /\ pc' = "r_group" /\ groups' = json_parse_array /\ UNCHANGED <<ret, told>>
       \/ /\ Return("false") /\ told' = (told \/ dir["table"] # NoFile)
          /\ disk' \in {disk, [disk EXCEPT !.table = "bad"]}
          /\ groups' = groups
    /\ UNCHANGED <<world, lost, dir, queue, ops>>
-----------------------------------------------------------------------------
(* read_cfg_file_restore, one step per group.                              *)

Group(cond) == pc = "r_group" /\ groups # <<>> /\ cond /\ groups' = Tail(groups)

(* Only the first 1024 bytes of a metadata file are searched.              *)
gdbus_search_file_data == dir["lvm"] # NoFile /\ world.uuidSeen

(* pvcreate fails while the partition belongs to a group.                  *)
gdbus_create_pv ==
    \/ disk.vg[DiskVg] = "none" /\ disk' = [disk EXCEPT !.pv = "new"] /\ told' = told
    \/ disk' = disk /\ told' = TRUE

(* The result is ignored; without the uuid or the device nothing is said.  *)
restore_lvm_pv ==
    /\ queue = <<>>
    /\ Group(Head(groups).fs = "LVM2_member")
    /\ IF gdbus_search_file_data /\ DevExists(Head(groups))
       THEN gdbus_create_pv ELSE UNCHANGED <<disk, told>>
    /\ UNCHANGED <<world, lost, dir, queue, pc, ops, ret>>

(* Every metadata file of the directory, also those of other disks.        *)
activation_lvm_pv ==
    /\ Group(Head(groups).name = "end")
    /\ \/ dir["lvm"] = NoFile /\ queue' = queue
       \/ /\ dir["lvm"] # NoFile
          /\ \E first, second \in Vgs :
                /\ first # second
                /\ queue' = queue \o <<<<"vgcfgrestore", first, ops>>,
                                       <<"restart", first, ops>>,
                                       <<"vgcfgrestore", second, ops>>,
                                       <<"restart", second, ops>>>>
    /\ UNCHANGED <<world, lost, dir, disk, pc, ops, ret, told>>

SkipFree ==
    /\ Group(Head(groups).name # "end" /\ Head(groups).fs = "free")
    /\ UNCHANGED <<world, lost, dir, disk, queue, pc, ops, ret, told>>

(* Mutant: the target of a restore may be mounted.                         *)
AnyTarget(g) == dir[g.name] # NoFile

(* The checks of sysbak_admin_restore_async.  The path of a partition has  *)
(* two slashes, so that it is taken for a logical volume, and a target     *)
(* need not be there yet.                                                  *)
RestoreAccepted(g) ==
    /\ dir[g.name] # NoFile
    /\ ~(DevExists(g) /\ g.name \in world.to)

(* Mutant: a restore that is not accepted shows only in the result.        *)
RefusedSilently ==
    /\ Group(Head(groups).name # "end" /\ Head(groups).fs \notin {"free", "LVM2_member"})
    /\ queue' = IF RestoreAccepted(Head(groups))
                THEN Append(queue, <<"restore", Head(groups).name, ops>>) ELSE queue
    /\ UNCHANGED <<world, lost, dir, disk, pc, ops, ret, told>>

restore_disk_partition_data ==
    /\ Group(Head(groups).name # "end" /\ Head(groups).fs \notin {"free", "LVM2_member"})
    /\ IF RestoreAccepted(Head(groups))
       THEN queue' = Append(queue, <<"restore", Head(groups).name, ops>>) /\ told' = told
       ELSE queue' = queue /\ told' = TRUE
    /\ UNCHANGED <<world, lost, dir, disk, pc, ops, ret>>

RestoreReturns ==
    /\ pc = "r_group" /\ groups = <<>>
    /\ Return("true")
    /\ UNCHANGED <<world, lost, dir, disk, queue, groups, ops, told>>
-----------------------------------------------------------------------------
(* The daemon: the calls nobody waits for.                                 *)

Handle(method) == queue # <<>> /\ Head(queue)[1] = method /\ queue' = Tail(queue)

Arg == Head(queue)[2]

(* The calls of a method in the queue.                                     *)
Queued(method) == {c \in {queue[i] : i \in DOMAIN queue} : c[1] = method}

(* A backup of one partition; the image exists from the open on.           *)
gdbus_sysbak_ptf ==
    /\ Handle("ptf")
    /\ \/ dir' = [dir EXCEPT ![Arg] = [run |-> Head(queue)[3], ok |-> TRUE]] /\ told' = told
       \/ told' = TRUE /\ dir' \in {dir, [dir EXCEPT ![Arg] = [run |-> Head(queue)[3], ok |-> FALSE]]}
    /\ UNCHANGED <<world, lost, disk, pc, groups, ops, ret>>

(* The groups with a physical volume whose name contains the disk's name.  *)
get_vg_pvs ==
    {v \in Vgs : disk.vg[v] # "none" /\ (v = DiskVg \/ world.nameInOther)}

(* vgremove and pvremove of each; failures show nowhere.  A group with a   *)
(* mounted volume is not removed; a physical volume may keep its label.    *)
gdbus_remove_all_vg ==
    /\ Handle("remove")
    /\ \E gone \in SUBSET get_vg_pvs, keepsLabel \in BOOLEAN :
          /\ DiskVg \in gone => \A n \in world.to : ~IsLv(n)
          /\ disk' = [disk EXCEPT
                 !.vg = [v \in Vgs |-> IF v \in gone THEN "none" ELSE @[v]],
                 !.pv = IF DiskVg \in gone /\ ~keepsLabel THEN "none" ELSE @,
                 !.data = [n \in Names |-> IF DiskVg \in gone /\ IsLv(n) THEN "old" ELSE @[n]]]
    /\ UNCHANGED <<world, lost, dir, pc, groups, ops, ret, told>>

gdbus_restore_lvm_meta ==
    /\ Handle("vgcfgrestore")
    /\ \/ /\ dir["lvm"].ok
          /\ Arg = DiskVg => disk.pv # "none"
          /\ disk' = [disk EXCEPT !.vg[Arg] = IF @ \in {"none", "inactive"} THEN "inactive" ELSE "new"]
          /\ told' = told
       \/ disk' = disk /\ told' = TRUE
    /\ UNCHANGED <<world, lost, dir, pc, groups, ops, ret>>

(* vgchange, then lvchange: the second may fail after the first.           *)
gdbus_restart_vg ==
    /\ Handle("restart")
    /\ \/ /\ disk.vg[Arg] # "none"
          /\ disk' = [disk EXCEPT !.vg[Arg] = IF @ = "inactive" THEN "new" ELSE @]
          /\ told' \in {told, TRUE}
       \/ disk' = disk /\ told' = TRUE
    /\ UNCHANGED <<world, lost, dir, pc, groups, ops, ret>>

(* A target that is not there is created as a plain file, which is too     *)
(* small for any image.                                                    *)
gdbus_sysbak_restore ==
    /\ Handle("restore")
    /\ \/ /\ DevExists(Entry(Arg))
          /\ dir[Arg].ok
          /\ disk' = [disk EXCEPT !.data[Arg] = "image"] /\ told' = told
       \/ told' = TRUE /\ disk' = disk
       \/ /\ DevExists(Entry(Arg))
          /\ told' = TRUE /\ disk' = [disk EXCEPT !.data[Arg] = "bad"]
    /\ UNCHANGED <<world, lost, dir, pc, groups, ops, ret>>

(* The client may die; the calls it sent are handled all the same.         *)
ClientDies ==
    /\ pc # "idle"
    /\ Return("none") /\ groups' = <<>> /\ lost' = {}
    /\ UNCHANGED <<world, dir, disk, queue, ops, told>>

(* The last operation's calls for file systems and for the disk's group.   *)
(* (A vgcfgrestore is queued before the restart and lost no later.)        *)
RestartCall == <<"restart", DiskVg>>

Silent ==
    {<<"restore", n>> : n \in {m \in Names : <<"restore", m, ops>> \in Queued("restore")}}
    \cup (IF <<"restart", DiskVg, ops>> \in Queued("restart") THEN {RestartCall} ELSE {})

(* The daemon dies: the calls in the queue are lost, the first of them may *)
(* have been under way.  The callback of a backup emits the bus's error if *)
(* the client that called is still there; that of a restore does not emit  *)
(* it, and the other calls have no callback.                               *)
DaemonDies ==
    /\ queue # <<>> /\ queue' = <<>>
    /\ \/ UNCHANGED <<dir, disk>>
       \/ /\ Head(queue)[1] = "ptf" /\ UNCHANGED disk
          /\ dir' = [dir EXCEPT ![Arg] = [run |-> Head(queue)[3], ok |-> FALSE]]
       \/ /\ Head(queue)[1] = "restore" /\ DevExists(Entry(Arg)) /\ UNCHANGED dir
          /\ disk' = [disk EXCEPT !.data[Arg] = "bad"]
    /\ told' \in {told, told \/ Queued("ptf") # {}}
    /\ lost' = IF told' THEN {} ELSE lost \cup Silent
    /\ UNCHANGED <<world, pc, groups, ops, ret>>

(* A client that waits gets the bus's error instead of an answer, after    *)
(* the calls before it were lost.  The call may have had its effect; that  *)
(* of the table returns FALSE without an error signal.                     *)
BackupCallLost ==
    /\ \E call \in {<<"b_lvm", "lvm">>, <<"b_table", "table">>, <<"b_mbr", "mbr">>} :
          /\ Sync(call[1])
          /\ dir' = dir \/ \E ok \in BOOLEAN : Write(call[2], ok)
    /\ Return("false")
    /\ UNCHANGED <<world, lost, disk, queue, groups, ops, told>>

TableCallLost ==
    /\ Sync("r_table") /\ dir["table"] # NoFile
    /\ Return("false")
    /\ \/ disk' \in {disk, [disk EXCEPT !.table = "bad"]}
       \/ dir["table"].ok /\ disk' = [disk EXCEPT !.table = "backup"]
    /\ UNCHANGED <<world, lost, dir, queue, groups, ops, told>>

(* The search for the uuid counts as without result, and that of pvcreate  *)
(* is ignored.                                                             *)
PvCallLost ==
    /\ queue = <<>> /\ dir["lvm"] # NoFile
    /\ Group(Head(groups).fs = "LVM2_member")
    /\ UNCHANGED <<world, lost, dir, disk, queue, pc, ops, ret, told>>
-----------------------------------------------------------------------------
Next ==
    \/ sysbak_admin_disk_to_file \/ MakeDir \/ get_disk_lvm_metadata
    \/ get_disk_info_config \/ get_disk_partition_table \/ get_disk_mbr
    \/ sysbak_admin_disk_data \/ BackupGroup \/ BackupReturns
    \/ sysbak_admin_restore_disk \/ CheckRestore \/ CheckRestoreSpace
    \/ restore_disk_mbr \/ restore_partition_table
    \/ restore_lvm_pv \/ activation_lvm_pv \/ SkipFree
    \/ restore_disk_partition_data \/ RestoreReturns
    \/ gdbus_sysbak_ptf \/ gdbus_remove_all_vg \/ gdbus_restore_lvm_meta
    \/ gdbus_restart_vg \/ gdbus_sysbak_restore
    \/ ClientDies \/ DaemonDies \/ BackupCallLost \/ TableCallLost \/ PvCallLost

Spec == Init /\ [][Next]_vars
-----------------------------------------------------------------------------
Groups == {json_parse_array[i] : i \in DOMAIN json_parse_array}

Calls ==
    ({"ptf", "restore"} \X Names \X (1 .. MaxOps))
        \cup ({"remove", "vgcfgrestore", "restart"} \X Vgs \X (1 .. MaxOps))

Steps == {"idle", "b_dir", "b_lvm", "b_info", "b_table", "b_mbr", "b_data", "b_group",
          "r_check", "r_space", "r_mbr", "r_table", "r_group"}

(* Every variable stays in its set.                                        *)
TypeOK ==
    /\ world \in Worlds
    /\ dir \in [Files -> [run : 0..MaxOps, ok : BOOLEAN]]
    /\ disk \in [mbr : {"old", "bad", "backup"}, table : {"old", "bad", "backup"},
                 pv : {"old", "none", "new"},
                 vg : [Vgs -> {"old", "none", "inactive", "new"}],
                 data : [Names -> {"old", "bad", "image"}]]
    /\ queue \in Seq(Calls) /\ pc \in Steps
    /\ IF pc \in {"b_group", "r_group"} THEN groups \in Seq(Groups) ELSE groups = <<>>
    /\ ops \in 0..MaxOps /\ ret \in {"none", "true", "false"} /\ told \in BOOLEAN
    /\ lost \subseteq ({"restore"} \X Names) \cup {RestartCall, SizeCall}
    /\ pc # "idle" => ops > 0

(* The groups still to be handled.                                         *)
Left == {groups[i] : i \in DOMAIN groups}

(* However often a backup is repeated after a failure or a death of the    *)
(* client, the files of a backup directory all come from one backup: what  *)
(* create_target_dir is there for.                                         *)
OneRunPerDirectory ==
    \A f, g \in Files : dir[f] # NoFile /\ dir[g] # NoFile => dir[f].run = dir[g].run

ByThis(run) == dir["dir"] # NoFile /\ run = dir["dir"].run

(* The backup that made the directory made all of its files, and it alone  *)
(* adds to them, also through calls that are still queued.                 *)
OneBackup ==
    /\ \A f \in Files : dir[f] # NoFile => ByThis(dir[f].run)
    /\ \A c \in Queued("ptf") : ByThis(c[3])
    /\ pc \in {"b_lvm", "b_info", "b_table", "b_mbr", "b_data", "b_group"} => ByThis(ops)

Whole(files) == \A f \in files : dir[f].ok

(* The files are made in their order, and every image comes after them.    *)
ImagesLast ==
    /\ pc \in {"b_lvm", "b_info", "b_table", "b_mbr"} =>
          Queued("ptf") = {} /\ \A n \in Names : dir[n] = NoFile
    /\ pc = "b_info"  => Whole({"lvm"})
    /\ pc = "b_table" => Whole({"lvm", "info"})
    /\ pc = "b_mbr"   => Whole({"lvm", "info", "table"})
    /\ (\/ pc \in {"b_data", "b_group"} \/ Queued("ptf") # {}
        \/ \E n \in Names : dir[n] # NoFile) => Whole({"lvm", "info", "table", "mbr"})

(* A backup always emits the error about unsupported file systems.         *)
BackupTold == pc = "b_group" => told \/ EndGroup \in Left

(* No image is written to a partition or volume that is mounted, although  *)
(* check_dev_is_mount looks at the names of the backed up disk.            *)
MountedDataKept == \A n \in world.to : disk.data[n] = "old"

(* A group of another disk is removed only if the name of its physical     *)
(* volume contains the name of the disk (get_vg_pvs compares by strstr).   *)
OtherGroupKept == disk.vg[OtherVg] = "none" => world.nameInOther

(* The group of a mounted volume stays active, so that the check before a  *)
(* restore sees the volume; a mounted target passes that check only when   *)
(* its path, made from the first three letters of the disk, is not there.  *)
MountedSeen ==
    /\ (\E n \in world.to : IsLv(n)) => disk.vg[DiskVg] \in {"old", "new"}
    /\ \A c \in Queued("restore") :
          c[2] \in NamesOf(Entries) /\ (c[2] \in world.to => ~IsLv(c[2]) /\ world.longName)

Fits == world.start < Word \div 2 => world.start + Length =< 2 * world.size + 1

(* The table is written to a disk that is large enough, before any image.  *)
TableFirst ==
    /\ (pc = "r_group" \/ Queued("restore") # {}) => disk.table = "backup"
    /\ pc \in {"r_mbr", "r_table"} => queue = <<>> /\ (~told /\ dir["table"].ok /\ SizeCall \notin lost => Fits)

(* A restore that has no error to report yet.                              *)
Quiet == ~told /\ (pc = "r_group" \/ (pc = "idle" /\ ret = "true"))

(* The group of the disk has its metadata and is active, or will be, or    *)
(* the calls of this restore for it were lost.                             *)
Activated ==
    \/ disk.vg[DiskVg] = "new"
    \/ \E j \in DOMAIN queue :
          /\ queue[j][1] = "restart" /\ queue[j][2] = DiskVg
          /\ \/ disk.vg[DiskVg] = "inactive"
             \/ \E i \in 1 .. j - 1 : queue[i][1] = "vgcfgrestore" /\ queue[i][2] = DiskVg
    \/ RestartCall \in lost

(* The file system has its image, or its call is queued or was lost.       *)
Imaged(n) ==
    /\ dir[n] # NoFile
    /\ \/ disk.data[n] = "image"
       \/ <<"restore", n, ops>> \in Queued("restore")
       \/ <<"restore", n>> \in lost

HasData(g) == g.fs \notin {"free", "LVM2_member"}

(* As long as nothing is reported, only calls of this restore are queued,  *)
(* and every group that was handled has been restored, has its calls in    *)
(* the queue or has lost them.                                             *)
QuietProgress ==
    /\ pc = "r_table" /\ dir["mbr"].ok => disk.mbr = "backup"
    /\ Quiet =>
          /\ Queued("ptf") = {} /\ Queued("remove") = {}
          /\ \A i \in DOMAIN queue : queue[i][3] = ops
          /\ disk.table = "backup" /\ (dir["mbr"].ok => disk.mbr = "backup")
          /\ \A g \in Groups :
                \/ g \in Left
                \/ /\ g = EndGroup /\ dir["lvm"] # NoFile => Activated
                   /\ g # EndGroup /\ HasData(g) => Imaged(g.name)

(* A restore touches nothing that it was not asked to: what is mounted and *)
(* the groups of other disks stay, whatever fails on the way.              *)
OthersKept == MountedDataKept /\ OtherGroupKept

(* What holds at every step of any sequence of backups and restores, with  *)
(* calls of clients that died still in the queue.                          *)
DiskJobInvariant ==
    /\ TypeOK /\ OneBackup /\ ImagesLast /\ BackupTold
    /\ OthersKept /\ MountedSeen /\ TableFirst /\ QuietProgress

(* A restore of a disk with a file system that returned TRUE, whose calls  *)
(* are all handled or lost and that emitted no error signal has restored   *)
(* boot record and table, and every group and file system of which no call *)
(* was lost with the daemon.  This although the results of pvcreate,       *)
(* vgcfgrestore, vgchange and of the restores are ignored; a death of the  *)
(* daemon is the one failure of theirs that nobody reports, because        *)
(* call_sysbak_restore does not emit the error it gets.  (It is the        *)
(* missing image of the file system that gives away a backup whose boot    *)
(* record is no good.)                                                     *)
NoNewsIsGoodNews ==
    (/\ pc = "idle" /\ ret = "true" /\ queue = <<>> /\ ~told
     /\ \E i \in DOMAIN Entries : HasData(Entries[i])) =>
        /\ disk.mbr = "backup" /\ disk.table = "backup"
        /\ \A i \in DOMAIN Entries :
              LET n == Entries[i].name
              IN  /\ HasData(Entries[i]) =>
                        disk.data[n] = "image" \/ <<"restore", n>> \in lost
                  /\ Entries[i].lv =>
                        disk.vg[DiskVg] = "new" \/ RestartCall \in lost

(* Images are written only to a disk that has the table of the backup,     *)
(* also when calls of a client that died are still queued.                 *)
DataAfterTable ==
    [][\A n \in Names :
          disk'.data[n] \notin {"old", disk.data[n]} => disk.table = "backup"]_vars

(* The table is written only to a disk that is large enough for its last   *)
(* partition (to the unit of two sectors the sizes are compared in),       *)
(* unless a call for a size failed, which is told, or its answer was lost  *)
(* with the daemon, which is not, or the partition starts beyond the range *)
(* of an int.                                                              *)
SpaceCheckSound ==
    [][disk.table # "backup" /\ disk'.table = "backup" /\ ~told /\ SizeCall \notin lost
          => Fits]_vars

(* A restore keeps its order: the space is checked before the table is     *)
(* written, and the table is there before an image is.                     *)
RestoreInOrder == DataAfterTable /\ SpaceCheckSound
=============================================================================
