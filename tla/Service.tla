------------------------------- MODULE Service -------------------------------
(***************************************************************************)
(* The client library and the daemon around the handlers.  A client checks *)
(* the arguments, calls the daemon over D-Bus without waiting, and learns  *)
(* how the job went from signals, which carry no job and reach every       *)
(* client.  The daemon runs one handler at a time on its main loop; other  *)
(* calls wait.  It may die at any moment, and the bus starts it again for  *)
(* the next call.                                                          *)
(*                                                                         *)
(* A handler is reduced to what its clients can see: the moment of its     *)
(* reply and its last signal.  The application is the usual one: it starts *)
(* a job when none is open and takes the next finished or error signal for *)
(* the outcome of its job.                                                 *)
(***************************************************************************)
EXTENDS Integers, Sequences, FiniteSets

CONSTANTS
    Clients,    \* the SysbakAdmin objects, each in a process of its own
    Devices,    \* partitions and logical volumes
    ImageFile,  \* path of an image file
    Slashes,    \* number of '/' in the path of each device
    Methods,    \* the methods the clients call
    Alone,      \* bound: a job of one of these methods is the only one
    MaxJobs,    \* bound on the jobs of all clients
    MaxDeaths   \* bound on the deaths of the daemon

Families   == {"extfs", "fatfs", "btrfs", "xfsfs"}
AllMethods == (Families \X {"ptf", "ptp"}) \cup {<<"any", "restore">>}

ASSUME MethodsAssumption == Methods \subseteq AllMethods /\ Alone \subseteq Methods
ASSUME BoundsAssumption  == MaxJobs \in Nat /\ MaxDeaths \in Nat
ASSUME SlashesAssumption == Slashes \in [Devices -> Nat]

VARIABLES
    node,     \* what is at a path: nothing ("absent"), a "device" or a plain "file"
    mounted,  \* the devices that are mounted
    jobs,     \* jobs[c]: the jobs of client c in the order they were started
    inbox,    \* inbox[c]: messages on their way to client c
    calls,    \* calls waiting for the daemon's main loop: <<client, job number>>
    running,  \* the call being handled, or None
    phase,    \* where the daemon is: down, idle, or a step of the handler
    deaths    \* number of deaths so far

vars == <<node, mounted, jobs, inbox, calls, running, phase, deaths>>

None == <<>>

Init ==
    /\ node \in {n \in [Devices \cup {ImageFile} -> {"absent", "device", "file"}] :
                  \A p \in DOMAIN n : n[p] # (IF p = ImageFile THEN "device" ELSE "file")}
    /\ mounted \in SUBSET {d \in Devices : node[d] = "device"}
    /\ jobs = [c \in Clients |-> <<>>]
    /\ inbox = [c \in Clients |-> <<>>]
    /\ calls = <<>> /\ running = None
    /\ phase = "down" /\ deaths = 0

Newest(c)  == jobs[c][Len(jobs[c])]
Waiting(c) == jobs[c] # <<>> /\ Newest(c).told = "nothing"
-----------------------------------------------------------------------------
(* The client: checks, then an asynchronous call or an error of its own.   *)

check_file_device(path)  == node[path] # "absent"
check_device_mount(path) == path \in mounted

(* A path with exactly one slash is no logical volume.                     *)
is_lvm(path) == Slashes[path] # 1

(* The bounds on jobs, not conditions of the code.                         *)
WithinBounds(method) ==
    /\ Cardinality(UNION {{d} \X DOMAIN jobs[d] : d \in Clients}) < MaxJobs
    /\ \A d \in Clients : \A n \in DOMAIN jobs[d] : {method, jobs[d][n].method} \cap Alone = {}

Start(c, method, source, target, overwrite, sent) ==
    /\ ~Waiting(c)
    /\ WithinBounds(method)
    /\ jobs' = [jobs EXCEPT ![c] = Append(@,
                  [method |-> method, source |-> source, target |-> target,
                   overwrite |-> overwrite,
                   outcome |-> IF sent THEN "open" ELSE "refused",
                   told    |-> IF sent THEN "nothing" ELSE "error",
                   replies |-> 0])]
    /\ calls' = IF sent THEN Append(calls, <<c, Len(jobs'[c])>>) ELSE calls
    /\ UNCHANGED <<node, mounted, inbox, running, phase, deaths>>

PtfAsync(c, family) ==
    \E source \in Devices, overwrite \in BOOLEAN :
        Start(c, <<family, "ptf">>, source, ImageFile, overwrite,
              /\ check_file_device(source)
              /\ check_file_device(ImageFile) => overwrite
              /\ ~check_device_mount(source))

PtpAsync(c, family) ==
    \E source, target \in Devices, overwrite \in BOOLEAN :
        Start(c, <<family, "ptp">>, source, target, overwrite,
              /\ check_file_device(source) /\ check_file_device(target)
              /\ ~check_device_mount(source) /\ ~check_device_mount(target))

sysbak_admin_extfs_ptf_async(c) == <<"extfs", "ptf">> \in Methods /\ PtfAsync(c, "extfs")
sysbak_admin_fatfs_ptf_async(c) == <<"fatfs", "ptf">> \in Methods /\ PtfAsync(c, "fatfs")
sysbak_admin_btrfs_ptf_async(c) == <<"btrfs", "ptf">> \in Methods /\ PtfAsync(c, "btrfs")
sysbak_admin_xfsfs_ptf_async(c) == <<"xfsfs", "ptf">> \in Methods /\ PtfAsync(c, "xfsfs")
sysbak_admin_extfs_ptp_async(c) == <<"extfs", "ptp">> \in Methods /\ PtpAsync(c, "extfs")
sysbak_admin_fatfs_ptp_async(c) == <<"fatfs", "ptp">> \in Methods /\ PtpAsync(c, "fatfs")
sysbak_admin_btrfs_ptp_async(c) == <<"btrfs", "ptp">> \in Methods /\ PtpAsync(c, "btrfs")
sysbak_admin_xfsfs_ptp_async(c) == <<"xfsfs", "ptp">> \in Methods /\ PtpAsync(c, "xfsfs")

sysbak_admin_restore_async(c) ==
    /\ <<"any", "restore">> \in Methods
    /\ \E target \in Devices, overwrite \in BOOLEAN :
          Start(c, <<"any", "restore">>, ImageFile, target, overwrite,
                /\ check_file_device(ImageFile)
                /\ is_lvm(target) \/ check_file_device(target)
                /\ ~check_device_mount(target))

(* Mutant: the error of no callback reaches the application.               *)
NoCallbackReports(method) == FALSE

(* A call has no timeout (G_MAXINT): it ends without an answer only when   *)
(* the daemon goes.  Its callback then emits an error signal of its own;   *)
(* in the callback of a restore that line is commented out.                *)
CallbackReports(method) == method # <<"any", "restore">>

(* The application takes the signal for the outcome of its open job.       *)
Event(c, signal) ==
    jobs' = IF Waiting(c) THEN [jobs EXCEPT ![c][Len(jobs[c])].told = signal]
                          ELSE jobs

(* on_findshed and on_error pass a signal on; a reply says nothing.        *)
Deliver(c) ==
    /\ inbox[c] # <<>>
    /\ inbox' = [inbox EXCEPT ![c] = Tail(@)]
    /\ LET m == Head(inbox[c])
       IN  CASE m[1] = "finished" -> Event(c, "finished")
             [] m[1] = "error"    -> Event(c, "error")
             [] m[1] = "reply"    -> jobs' = jobs
             [] m[1] = "noreply"  -> IF CallbackReports(jobs[c][m[2]].method)
                                     THEN Event(c, "error") ELSE jobs' = jobs
    /\ UNCHANGED <<node, mounted, calls, running, phase, deaths>>
-----------------------------------------------------------------------------
(* The daemon's main loop and its handlers.                                *)

Job(call) == jobs[call[1]][call[2]]

Reply ==
    /\ inbox' = [inbox EXCEPT ![running[1]] = Append(@, <<"reply", running[2]>>)]
    /\ jobs' = [jobs EXCEPT ![running[1]][running[2]].replies = @ + 1]

Broadcast(signal) == inbox' = [c \in Clients |-> Append(inbox[c], <<signal, 0>>)]

Outcome(o) == jobs' = [jobs EXCEPT ![running[1]][running[2]].outcome = o]

(* The bus starts the daemon for the first call; it acquires the name.     *)
AcquiredCallback ==
    /\ phase = "down"
    /\ calls # <<>>
    /\ phase' = "idle"
    /\ UNCHANGED <<node, mounted, jobs, inbox, calls, running, deaths>>

TakeCall ==
    /\ phase = "idle"
    /\ calls # <<>>
    /\ running' = Head(calls)
    /\ calls' = Tail(calls)
    /\ phase' = "prepare"
    /\ UNCHANGED <<node, mounted, jobs, inbox, deaths>>

(* Mutants: every handler replies at its end; every handler replies first. *)
NobodyRepliesFirst(method) == FALSE
AllReplyFirst(method) == TRUE

(* Only the xfsfs backup to a file replies after its copy.                 *)
RepliesFirst(method) == method # <<"xfsfs", "ptf">>

(* open_target_device: a path with nothing at it is created as a plain     *)
(* file; a plain file that is there already needs overwrite.  (For a       *)
(* missing path the handler looks at an uninitialised st_mode: if that     *)
(* reads as a block device, the open fails, which is the action Failed.)   *)
OpenTarget ==
    LET job == Job(running)
    IN  /\ phase = "prepare"
        /\ node[job.source] # "absent"
        /\ node[job.target] = "file" => job.overwrite
        /\ node' = IF node[job.target] = "device" THEN node
                   ELSE [node EXCEPT ![job.target] = "file"]
        /\ phase' = "check"
        /\ UNCHANGED <<mounted, jobs, inbox, calls, running, deaths>>

(* The other checks have passed.  A plain file that stands for a partition *)
(* is too small for any copy, and a plain source has no file system.       *)
Prepared ==
    /\ phase = "check"
    /\ {Job(running).source, Job(running).target} \ {ImageFile}
          \subseteq {d \in Devices : node[d] = "device"}
    /\ phase' = "copy"
    /\ IF RepliesFirst(Job(running).method) THEN Reply ELSE UNCHANGED <<inbox, jobs>>
    /\ UNCHANGED <<node, mounted, calls, running, deaths>>

(* A check or the copy failed: goto ERROR.                                 *)
Failed ==
    /\ phase \in {"prepare", "check", "copy"}
    /\ phase' = "failing"
    /\ Outcome("failed")
    /\ UNCHANGED <<node, mounted, inbox, calls, running, deaths>>

Back == running' = None /\ phase' = "idle"

EmitFinished ==
    /\ phase = "copy"
    /\ Outcome("finished")
    /\ Broadcast("finished")
    /\ IF RepliesFirst(Job(running).method)
       THEN Back ELSE phase' = "answer" /\ running' = running
    /\ UNCHANGED <<node, mounted, calls, deaths>>

AnswerLate ==
    /\ phase = "answer"
    /\ Reply
    /\ Back
    /\ UNCHANGED <<node, mounted, calls, deaths>>

CompleteFailed ==
    /\ phase = "failing"
    /\ Reply
    /\ phase' = "report"
    /\ UNCHANGED <<node, mounted, calls, running, deaths>>

(* Mutant: the error signal is forgotten.                                  *)
NoErrorSignal ==
    /\ phase = "report"
    /\ Back
    /\ UNCHANGED <<node, mounted, jobs, inbox, calls, deaths>>

EmitError ==
    /\ phase = "report"
    /\ Broadcast("error")
    /\ Back
    /\ UNCHANGED <<node, mounted, jobs, calls, deaths>>

HandlerStep ==
    OpenTarget \/ Prepared \/ Failed \/ EmitFinished \/ AnswerLate \/ CompleteFailed \/ EmitError

Handling(method) == running # None /\ Job(running).method = method /\ HandlerStep

gdbus_sysbak_extfs_ptf == Handling(<<"extfs", "ptf">>)
gdbus_sysbak_fatfs_ptf == Handling(<<"fatfs", "ptf">>)
gdbus_sysbak_btrfs_ptf == Handling(<<"btrfs", "ptf">>)
gdbus_sysbak_xfsfs_ptf == Handling(<<"xfsfs", "ptf">>)
gdbus_sysbak_extfs_ptp == Handling(<<"extfs", "ptp">>)
gdbus_sysbak_fatfs_ptp == Handling(<<"fatfs", "ptp">>)
gdbus_sysbak_btrfs_ptp == Handling(<<"btrfs", "ptp">>)
gdbus_sysbak_xfsfs_ptp == Handling(<<"xfsfs", "ptp">>)
gdbus_sysbak_restore   == Handling(<<"any", "restore">>)

(* The daemon is gone: the bus answers every call that has no reply with   *)
(* an error, in any order, and a job that was not decided never will be.   *)
Open == {calls[k] : k \in DOMAIN calls} \cup ({running} \ {None})

Unanswered(c) ==
    {<<"noreply", n>> : n \in {n \in DOMAIN jobs[c] : <<c, n>> \in Open /\ jobs[c][n].replies = 0}}

Orders(S) == {s \in [1 .. Cardinality(S) -> S] : \A x \in S : \E k \in DOMAIN s : s[k] = x}

Gone ==
    /\ \E answers \in [Clients -> UNION {Orders(Unanswered(c)) : c \in Clients}] :
          /\ \A c \in Clients : answers[c] \in Orders(Unanswered(c))
          /\ inbox' = [c \in Clients |-> inbox[c] \o answers[c]]
    /\ jobs' = [c \in Clients |-> [n \in DOMAIN jobs[c] |->
            IF <<c, n>> \in Open /\ jobs[c][n].outcome = "open"
            THEN [jobs[c][n] EXCEPT !.outcome = "lost"] ELSE jobs[c][n]]]
    /\ calls' = <<>> /\ running' = None /\ phase' = "down"
    /\ deaths' = deaths + 1
    /\ UNCHANGED <<node, mounted>>

DaemonDies == phase # "down" /\ deaths < MaxDeaths /\ Gone

(* The name is lost: the callback runs on the main loop, between handlers, *)
(* and ends it.                                                            *)
NameLostCallback == phase = "idle" /\ deaths < MaxDeaths /\ Gone

(* Somebody else mounts and unmounts devices.                              *)
Mount ==
    /\ mounted' \in SUBSET {d \in Devices : node[d] = "device"}
    /\ UNCHANGED <<node, jobs, inbox, calls, running, phase, deaths>>

ClientStep ==
    \E c \in Clients :
        \/ sysbak_admin_extfs_ptf_async(c) \/ sysbak_admin_extfs_ptp_async(c)
        \/ sysbak_admin_fatfs_ptf_async(c) \/ sysbak_admin_fatfs_ptp_async(c)
        \/ sysbak_admin_btrfs_ptf_async(c) \/ sysbak_admin_btrfs_ptp_async(c)
        \/ sysbak_admin_xfsfs_ptf_async(c) \/ sysbak_admin_xfsfs_ptp_async(c)
        \/ sysbak_admin_restore_async(c) \/ Deliver(c)

DaemonStep ==
    \/ AcquiredCallback \/ TakeCall
    \/ gdbus_sysbak_extfs_ptf \/ gdbus_sysbak_extfs_ptp
    \/ gdbus_sysbak_fatfs_ptf \/ gdbus_sysbak_fatfs_ptp
    \/ gdbus_sysbak_btrfs_ptf \/ gdbus_sysbak_btrfs_ptp
    \/ gdbus_sysbak_xfsfs_ptf \/ gdbus_sysbak_xfsfs_ptp
    \/ gdbus_sysbak_restore

Next == ClientStep \/ DaemonStep \/ DaemonDies \/ NameLostCallback \/ Mount

Spec == Init /\ [][Next]_vars

(* The daemon's main loop and those of the clients keep running, and the   *)
(* bus delivers.                                                           *)
FairSpec ==
    Spec /\ WF_vars(DaemonStep) /\ \A c \in Clients : WF_vars(Deliver(c))
-----------------------------------------------------------------------------
Paths    == Devices \cup {ImageFile}
Messages == {"reply", "noreply", "finished", "error"} \X Nat
JobType  ==
    [method : Methods, source : Paths, target : Paths, overwrite : BOOLEAN,
     outcome : {"open", "refused", "finished", "failed", "lost"},
     told : {"nothing", "finished", "error"}, replies : Nat]

TypeOK ==
    /\ node \in [Paths -> {"absent", "device", "file"}]
    /\ mounted \subseteq {d \in Devices : node[d] = "device"}
    /\ jobs \in [Clients -> Seq(JobType)]
    /\ inbox \in [Clients -> Seq(Messages)]
    /\ calls \in Seq(Clients \X Nat)
    /\ running \in {None} \cup (Clients \X Nat)
    /\ phase \in {"down", "idle", "prepare", "check", "copy", "failing", "report", "answer"}
    /\ deaths \in 0 .. MaxDeaths

(* A call is in one place only, and what the daemon has done for it shows  *)
(* in its job: undecided and without a reply while it waits, decided when  *)
(* its handler has only signals or a late reply left to send.              *)
IsCall(call) == call[1] \in Clients /\ call[2] \in DOMAIN jobs[call[1]]

CallsInv ==
    /\ \A k \in DOMAIN calls :
          /\ IsCall(calls[k]) /\ calls[k] # running
          /\ \A j \in DOMAIN calls : calls[j] = calls[k] => j = k
          /\ Job(calls[k]).outcome = "open" /\ Job(calls[k]).replies = 0
    /\ phase \in {"down", "idle"} <=> running = None
    /\ running # None =>
          /\ IsCall(running)
          /\ phase \in {"prepare", "check"} =>
                Job(running).outcome = "open" /\ Job(running).replies = 0
          /\ phase = "copy" =>
                /\ Job(running).outcome = "open"
                /\ Job(running).replies = IF RepliesFirst(Job(running).method) THEN 1 ELSE 0
          /\ phase \in {"failing", "report"} => Job(running).outcome = "failed"
          /\ phase = "report" => Job(running).replies > 0
          /\ phase = "answer" =>
                /\ Job(running).outcome = "finished" /\ Job(running).replies = 0
                /\ ~RepliesFirst(Job(running).method)

(* The messages of the bus name calls that were made.                      *)
MessagesInv ==
    \A c \in Clients : \A k \in DOMAIN inbox[c] :
        inbox[c][k][1] = "noreply" => inbox[c][k][2] \in DOMAIN jobs[c]

InDaemon(c) == <<c, Len(jobs[c])>> \in Open

(* The answer to an open job's call is there, or it is on its way, or the  *)
(* daemon still has the call.                                              *)
AnswerInv ==
    \A c \in Clients : Waiting(c) /\ ~InDaemon(c) =>
        \/ Newest(c).replies > 0 \/ Newest(c).method = <<"any", "restore">>
        \/ \E k \in DOMAIN inbox[c] : inbox[c][k] = <<"noreply", Len(jobs[c])>>

(* A message that the application takes for the outcome of its job.        *)
Reports(c, k) ==
    \/ inbox[c][k][1] \in {"finished", "error"}
    \/ inbox[c][k][1] = "noreply" /\ CallbackReports(jobs[c][inbox[c][k][2]].method)

Lone(c) == \A d \in Clients \ {c} : jobs[d] = <<>>

(* The daemon may have died between the last signal and the late reply of  *)
(* an earlier job.                                                         *)
Disturbed(c, n) == deaths > 0 /\ \E m \in 1 .. n - 1 : jobs[c][m].method = <<"xfsfs", "ptf">>

Told(job) ==
    /\ job.told = "finished" => job.outcome = "finished"
    /\ job.told = "error" => job.outcome \in {"refused", "failed", "lost"}

(* The newest job was finished, and the daemon died before its late reply. *)
LateLost(c) ==
    Newest(c).outcome = "finished" /\ Newest(c).method = <<"xfsfs", "ptf">> /\ deaths > 0

(* What a report in the inbox of a lone application says is true of its    *)
(* newest job.  There is one report at most, or the signal and then the    *)
(* error for a late reply that was lost.                                   *)
ReportTrue(c, k) ==
    /\ inbox[c][k][1] = "finished" => Newest(c).outcome = "finished"
    /\ inbox[c][k][1] = "error" => Newest(c).outcome = "failed"
    /\ inbox[c][k][1] = "noreply" =>
          /\ inbox[c][k][2] = Len(jobs[c])
          /\ Newest(c).outcome \in {"failed", "lost"} \/ LateLost(c)
          /\ LateLost(c) /\ Waiting(c) => \E j \in 1 .. k - 1 : inbox[c][j][1] = "finished"
    /\ ~Waiting(c) \/ (\E j \in 1 .. k - 1 : Reports(c, j)) =>
          inbox[c][k][1] = "noreply" /\ LateLost(c)

(* Of a lone application only the newest job is in the daemon, and it has  *)
(* not been reported, but for a backup that waits for its late reply.      *)
InDaemonInv(c) ==
    /\ \A k \in DOMAIN calls : calls[k] = <<c, Len(jobs[c])>>
    /\ running # None /\ running # <<c, Len(jobs[c])>> => phase = "answer"
    /\ InDaemon(c) /\ (running = None \/ running # <<c, Len(jobs[c])>> \/ phase # "answer") =>
          Waiting(c) /\ \A k \in DOMAIN inbox[c] : ~Reports(c, k)
    /\ running = <<c, Len(jobs[c])>> /\ phase = "answer" =>
          /\ \A k \in DOMAIN inbox[c] : inbox[c][k][1] # "noreply" \/ ~Reports(c, k)
          /\ Waiting(c) => \E k \in DOMAIN inbox[c] : inbox[c][k][1] = "finished"

LoneInv ==
    \A c \in Clients : Lone(c) =>
        /\ jobs[c] = <<>> => inbox[c] = <<>>
        /\ jobs[c] # <<>> /\ ~Disturbed(c, Len(jobs[c])) =>
              InDaemonInv(c) /\ \A k \in DOMAIN inbox[c] : Reports(c, k) => ReportTrue(c, k)

(* What a lone application is told about a job is what became of the job,  *)
(* across failures, deaths of the daemon and further jobs.  The one        *)
(* exception follows an xfsfs backup to a file, whose reply comes after    *)
(* its last signal: if the daemon dies between the two, the error of that  *)
(* call arrives when the next job may be open.                             *)
ToldTheTruth ==
    \A c \in Clients : Lone(c) => \A n \in DOMAIN jobs[c] :
        Told(jobs[c][n]) \/ Disturbed(c, n)

(* An application that will not hear of its job any more, because neither  *)
(* the daemon nor a message on its way knows of it, has either had the     *)
(* early reply, so that the call itself counts as answered, or has asked   *)
(* for a restore, whose callback reports nothing.                          *)
SilenceOnlyAfterReply ==
    \A c \in Clients :
        (Waiting(c) /\ inbox[c] = <<>> /\ ~InDaemon(c)) =>
            Newest(c).replies > 0 \/ Newest(c).method = <<"any", "restore">>

(* What holds at every moment of any number of clients, jobs and deaths.   *)
ServiceInvariant ==
    TypeOK /\ CallsInv /\ MessagesInv /\ AnswerInv /\ SilenceOnlyAfterReply /\ LoneInv

(* As long as the daemon lives, every job that was accepted is answered,   *)
(* however many clients wait for the one main loop.                        *)
EveryJobAnswered ==
    \A c \in Clients : Waiting(c) ~> (~Waiting(c) \/ deaths > 0)

(* A late reply has its merit: the application of an xfsfs backup to a     *)
(* file hears of it even when the daemon dies in the copy.  Only a backup  *)
(* that failed may stay silent, when the daemon dies between the reply and *)
(* the error signal.                                                       *)
LateReplyAlwaysAnswered ==
    \A c \in Clients :
        (Waiting(c) /\ Newest(c).method = <<"xfsfs", "ptf">>)
            ~> (~Waiting(c) \/ Newest(c).outcome = "failed")

(* No plain file appears in the place of a missing device: the client      *)
(* refuses a restore to one with "%s device does not exist".               *)
NoFileForDevice == \A d \in Devices : node[d] # "file"
=============================================================================
