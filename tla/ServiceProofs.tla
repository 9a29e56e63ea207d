---------------------------- MODULE ServiceProofs ----------------------------
(***************************************************************************)
(* Proofs about the client library and the daemon: the invariant of module *)
(* Service holds for any number of clients, jobs and deaths, and with it   *)
(* the truth of what a lone application is told.                           *)
(*                                                                         *)
(* Every action is first reduced to what it does to the jobs, field by     *)
(* field; the invariants are then preserved by these effects.              *)
(***************************************************************************)
EXTENDS Service, TLAPS, SequenceTheorems, FiniteSetTheorems

AnyCall == Clients \X Nat

(* What a step may do to the jobs that are there: keep their number, their *)
(* type and their method.                                                  *)
SameShape ==
    /\ jobs' \in [Clients -> Seq(JobType)]
    /\ \A c \in Clients : DOMAIN jobs'[c] = DOMAIN jobs[c] /\ Len(jobs'[c]) = Len(jobs[c])
    /\ \A c \in Clients : \A n \in DOMAIN jobs[c] : jobs'[c][n].method = jobs[c][n].method

SameTold    == \A c \in Clients : \A n \in DOMAIN jobs[c] : jobs'[c][n].told = jobs[c][n].told
SameOutcome == \A c \in Clients : \A n \in DOMAIN jobs[c] : jobs'[c][n].outcome = jobs[c][n].outcome
SameReplies == \A c \in Clients : \A n \in DOMAIN jobs[c] : jobs'[c][n].replies = jobs[c][n].replies

(* Only the job of one call changes in a field.                            *)
OutcomeBecomes(call, o) ==
    \A c \in Clients : \A n \in DOMAIN jobs[c] :
        jobs'[c][n].outcome = IF <<c, n>> = call THEN o ELSE jobs[c][n].outcome

ToldBecomes(call, s) ==
    \A c \in Clients : \A n \in DOMAIN jobs[c] :
        jobs'[c][n].told = IF <<c, n>> = call THEN s ELSE jobs[c][n].told

RepliesGrow(call) ==
    \A c \in Clients : \A n \in DOMAIN jobs[c] :
        jobs'[c][n].replies = IF <<c, n>> = call THEN jobs[c][n].replies + 1 ELSE jobs[c][n].replies
-----------------------------------------------------------------------------
(* One job of one client is replaced.                                      *)
JobBecomes(a, b, job) ==
    /\ jobs' \in [Clients -> Seq(JobType)]
    /\ \A c \in Clients : DOMAIN jobs'[c] = DOMAIN jobs[c] /\ Len(jobs'[c]) = Len(jobs[c])
    /\ \A c \in Clients : \A n \in DOMAIN jobs[c] :
          jobs'[c][n] = IF <<c, n>> = <<a, b>> THEN job ELSE jobs[c][n]

LEMMA ReplaceJob ==
    ASSUME jobs \in [Clients -> Seq(JobType)],
           NEW a \in Clients, NEW b \in DOMAIN jobs[a], NEW job \in JobType,
           jobs' = [jobs EXCEPT ![a] = [jobs[a] EXCEPT ![b] = job]]
    PROVE  JobBecomes(a, b, job)
  <1>1. jobs[a] \in Seq(JobType)
    OBVIOUS
  <1> DEFINE s == [jobs[a] EXCEPT ![b] = job]
  <1>2. s \in Seq(JobType) /\ Len(s) = Len(jobs[a]) /\ DOMAIN s = DOMAIN jobs[a]
    BY <1>1
  <1>3. \A n \in DOMAIN jobs[a] : s[n] = IF n = b THEN job ELSE jobs[a][n]
    OBVIOUS
  <1>4. jobs' = [jobs EXCEPT ![a] = s]
    OBVIOUS
  <1> HIDE DEF s
  <1>5. \A c \in Clients : jobs'[c] = IF c = a THEN s ELSE jobs[c]
    BY <1>4
  <1> QED
    BY <1>2, <1>3, <1>4, <1>5 DEF JobBecomes

LEMMA JobFacts ==
    ASSUME jobs \in [Clients -> Seq(JobType)], NEW c \in Clients, NEW n \in DOMAIN jobs[c]
    PROVE  /\ jobs[c][n] \in JobType
           /\ n \in Nat \ {0} /\ n \in 1 .. Len(jobs[c]) /\ Len(jobs[c]) \in Nat
           /\ jobs[c][n].method \in Methods
           /\ jobs[c][n].source \in Paths /\ jobs[c][n].target \in Paths
           /\ jobs[c][n].outcome \in {"open", "refused", "finished", "failed", "lost"}
           /\ jobs[c][n].told \in {"nothing", "finished", "error"}
           /\ jobs[c][n].replies \in Nat
  <1>1. jobs[c] \in Seq(JobType)
    OBVIOUS
  <1>2. jobs[c][n] \in JobType /\ n \in 1 .. Len(jobs[c]) /\ Len(jobs[c]) \in Nat
    BY <1>1
  <1> QED
    BY <1>2 DEF JobType

(* The effects of the four assignments to a field of a job.                *)
LEMMA OutcomeEffect ==
    ASSUME jobs \in [Clients -> Seq(JobType)],
           NEW a \in Clients, NEW b \in DOMAIN jobs[a],
           NEW o \in {"open", "refused", "finished", "failed", "lost"},
           jobs' = [jobs EXCEPT ![a][b].outcome = o]
    PROVE  SameShape /\ SameTold /\ SameReplies /\ OutcomeBecomes(<<a, b>>, o)
  <1> DEFINE job == [jobs[a][b] EXCEPT !.outcome = o]
  <1>1. jobs[a][b] \in JobType
    BY JobFacts
  <1>2. job \in JobType
    BY <1>1 DEF JobType
  <1>3. /\ job.outcome = o /\ job.told = jobs[a][b].told
        /\ job.replies = jobs[a][b].replies /\ job.method = jobs[a][b].method
    BY <1>1 DEF JobType
  <1>4. jobs' = [jobs EXCEPT ![a] = [jobs[a] EXCEPT ![b] = job]]
    OBVIOUS
  <1> HIDE DEF job
  <1>5. JobBecomes(a, b, job)
    BY <1>2, <1>4, ReplaceJob
  <1> QED
    BY <1>3, <1>5 DEF JobBecomes, SameShape, SameTold, SameReplies, OutcomeBecomes

LEMMA ToldEffect ==
    ASSUME jobs \in [Clients -> Seq(JobType)],
           NEW a \in Clients, NEW b \in DOMAIN jobs[a],
           NEW s \in {"nothing", "finished", "error"},
           jobs' = [jobs EXCEPT ![a][b].told = s]
    PROVE  SameShape /\ SameOutcome /\ SameReplies /\ ToldBecomes(<<a, b>>, s)
  <1> DEFINE job == [jobs[a][b] EXCEPT !.told = s]
  <1>1. jobs[a][b] \in JobType
    BY JobFacts
  <1>2. job \in JobType
    BY <1>1 DEF JobType
  <1>3. /\ job.told = s /\ job.outcome = jobs[a][b].outcome
        /\ job.replies = jobs[a][b].replies /\ job.method = jobs[a][b].method
    BY <1>1 DEF JobType
  <1>4. jobs' = [jobs EXCEPT ![a] = [jobs[a] EXCEPT ![b] = job]]
    OBVIOUS
  <1> HIDE DEF job
  <1>5. JobBecomes(a, b, job)
    BY <1>2, <1>4, ReplaceJob
  <1> QED
    BY <1>3, <1>5 DEF JobBecomes, SameShape, SameOutcome, SameReplies, ToldBecomes

LEMMA ReplyEffect ==
    ASSUME jobs \in [Clients -> Seq(JobType)],
           NEW a \in Clients, NEW b \in DOMAIN jobs[a],
           jobs' = [jobs EXCEPT ![a][b].replies = @ + 1]
    PROVE  SameShape /\ SameTold /\ SameOutcome /\ RepliesGrow(<<a, b>>)
  <1> DEFINE r == jobs[a][b].replies + 1
  <1> DEFINE job == [jobs[a][b] EXCEPT !.replies = r]
  <1>1. jobs[a][b] \in JobType /\ jobs[a][b].replies \in Nat
    BY JobFacts
  <1>2. jobs' = [jobs EXCEPT ![a] = [jobs[a] EXCEPT ![b] = job]]
    OBVIOUS
  <1>3. r \in Nat /\ r = jobs[a][b].replies + 1
    BY <1>1
  <1> HIDE DEF r
  <1>4. job \in JobType
    BY <1>1, <1>3 DEF JobType
  <1>5. /\ job.told = jobs[a][b].told /\ job.outcome = jobs[a][b].outcome
        /\ job.replies = r /\ job.method = jobs[a][b].method
    BY <1>1 DEF JobType
  <1> HIDE DEF job
  <1>6. JobBecomes(a, b, job)
    BY <1>2, <1>4, ReplaceJob
  <1> QED
    BY <1>3, <1>5, <1>6 DEF JobBecomes, SameShape, SameTold, SameOutcome, RepliesGrow

LEMMA UnchangedEffect ==
    ASSUME jobs \in [Clients -> Seq(JobType)], jobs' = jobs
    PROVE  SameShape /\ SameTold /\ SameOutcome /\ SameReplies
  BY DEF SameShape, SameTold, SameOutcome, SameReplies


(* A new job at the end of a client's jobs.                                *)
NewJob(c, job) ==
    /\ jobs' \in [Clients -> Seq(JobType)]
    /\ Len(jobs'[c]) = Len(jobs[c]) + 1
    /\ DOMAIN jobs'[c] = DOMAIN jobs[c] \cup {Len(jobs[c]) + 1}
    /\ \A d \in Clients \ {c} : jobs'[d] = jobs[d]
    /\ \A n \in DOMAIN jobs[c] : jobs'[c][n] = jobs[c][n]
    /\ jobs'[c][Len(jobs[c]) + 1] = job

LEMMA AppendJob ==
    ASSUME jobs \in [Clients -> Seq(JobType)],
           NEW c \in Clients, NEW job \in JobType,
           jobs' = [jobs EXCEPT ![c] = Append(jobs[c], job)]
    PROVE  NewJob(c, job)
  <1>1. jobs[c] \in Seq(JobType)
    OBVIOUS
  <1> DEFINE s == Append(jobs[c], job)
  <1>2. s \in Seq(JobType) /\ Len(s) = Len(jobs[c]) + 1
    BY <1>1
  <1>3. DOMAIN s = DOMAIN jobs[c] \cup {Len(jobs[c]) + 1}
    BY <1>1, <1>2
  <1>4. /\ \A n \in DOMAIN jobs[c] : s[n] = jobs[c][n]
        /\ s[Len(jobs[c]) + 1] = job
    BY <1>1
  <1>5. jobs' = [jobs EXCEPT ![c] = s]
    OBVIOUS
  <1> HIDE DEF s
  <1>6. jobs'[c] = s /\ jobs' \in [Clients -> Seq(JobType)]
    BY <1>2, <1>5
  <1>7. \A d \in Clients \ {c} : jobs'[d] = jobs[d]
    BY <1>5
  <1> QED
    BY <1>2, <1>3, <1>4, <1>6, <1>7 DEF NewJob

(* Whatever the method: the call is sent, or refused by the library.       *)
Starts(c) ==
    /\ ~Waiting(c)
    /\ UNCHANGED <<node, mounted, inbox, running, phase, deaths>>
    /\ \E job \in JobType :
          /\ NewJob(c, job) /\ job.replies = 0
          /\ \/ /\ job.outcome = "open" /\ job.told = "nothing"
                /\ calls' = Append(calls, <<c, Len(jobs[c]) + 1>>)
             \/ job.outcome = "refused" /\ job.told = "error" /\ calls' = calls

LEMMA SentStarts ==
    ASSUME jobs \in [Clients -> Seq(JobType)],
           NEW c \in Clients, NEW method \in Methods, NEW source \in Paths, NEW target \in Paths,
           NEW overwrite \in BOOLEAN,
           ~Waiting(c), UNCHANGED <<node, mounted, inbox, running, phase, deaths>>,
           jobs' = [jobs EXCEPT ![c] = Append(@,
                  [method |-> method, source |-> source, target |-> target,
                   overwrite |-> overwrite, outcome |-> "open", told |-> "nothing",
                   replies |-> 0])],
           calls' = Append(calls, <<c, Len(jobs'[c])>>)
    PROVE  Starts(c)
  <1> DEFINE job == [method |-> method, source |-> source, target |-> target,
                   overwrite |-> overwrite, outcome |-> "open", told |-> "nothing",
                   replies |-> 0]
  <1>1. job \in JobType
    BY Zenon DEF JobType
  <1>2. job.outcome = "open" /\ job.told = "nothing" /\ job.replies = 0
    OBVIOUS
  <1>3. jobs' = [jobs EXCEPT ![c] = Append(jobs[c], job)]
    OBVIOUS
  <1> HIDE DEF job
  <1>4. NewJob(c, job)
    BY <1>1, <1>3, AppendJob
  <1>5. calls' = Append(calls, <<c, Len(jobs[c]) + 1>>)
    BY <1>4 DEF NewJob
  <1> QED
    BY <1>1, <1>2, <1>4, <1>5 DEF Starts

LEMMA RefusedStarts ==
    ASSUME jobs \in [Clients -> Seq(JobType)],
           NEW c \in Clients, NEW method \in Methods, NEW source \in Paths, NEW target \in Paths,
           NEW overwrite \in BOOLEAN,
           ~Waiting(c), UNCHANGED <<node, mounted, inbox, running, phase, deaths>>,
           jobs' = [jobs EXCEPT ![c] = Append(@,
                  [method |-> method, source |-> source, target |-> target,
                   overwrite |-> overwrite, outcome |-> "refused", told |-> "error",
                   replies |-> 0])],
           calls' = calls
    PROVE  Starts(c)
  <1> DEFINE job == [method |-> method, source |-> source, target |-> target,
                   overwrite |-> overwrite, outcome |-> "refused", told |-> "error",
                   replies |-> 0]
  <1>1. job \in JobType
    BY Zenon DEF JobType
  <1>2. job.outcome = "refused" /\ job.told = "error" /\ job.replies = 0
    OBVIOUS
  <1>3. jobs' = [jobs EXCEPT ![c] = Append(jobs[c], job)]
    OBVIOUS
  <1> HIDE DEF job
  <1>4. NewJob(c, job)
    BY <1>1, <1>3, AppendJob
  <1> QED
    BY <1>1, <1>2, <1>4 DEF Starts

LEMMA PtfStarts ==
    ASSUME jobs \in [Clients -> Seq(JobType)], NEW c \in Clients, NEW family,
           <<family, "ptf">> \in Methods, PtfAsync(c, family)
    PROVE  Starts(c)
  <1>1. PICK source \in Devices, overwrite \in BOOLEAN :
            Start(c, <<family, "ptf">>, source, ImageFile, overwrite,
              /\ check_file_device(source)
              /\ check_file_device(ImageFile) => overwrite
              /\ ~check_device_mount(source))
    BY DEF PtfAsync
  <1> DEFINE sent == /\ check_file_device(source)
                     /\ check_file_device(ImageFile) => overwrite
                     /\ ~check_device_mount(source)
  <1>2. source \in Paths /\ ImageFile \in Paths
    BY DEF Paths
  <1>3. Start(c, <<family, "ptf">>, source, ImageFile, overwrite, sent)
    BY <1>1
  <1> HIDE DEF sent
  <1>4. CASE sent
    <2>1. /\ ~Waiting(c) /\ UNCHANGED <<node, mounted, inbox, running, phase, deaths>>
          /\ jobs' = [jobs EXCEPT ![c] = Append(@,
                  [method |-> <<family, "ptf">>, source |-> source, target |-> ImageFile,
                   overwrite |-> overwrite, outcome |-> "open", told |-> "nothing",
                   replies |-> 0])]
          /\ calls' = Append(calls, <<c, Len(jobs'[c])>>)
      BY <1>3, <1>4 DEF Start
    <2> QED
      BY <1>2, <2>1, SentStarts
  <1>5. CASE ~sent
    <2>1. /\ ~Waiting(c) /\ UNCHANGED <<node, mounted, inbox, running, phase, deaths>>
          /\ jobs' = [jobs EXCEPT ![c] = Append(@,
                  [method |-> <<family, "ptf">>, source |-> source, target |-> ImageFile,
                   overwrite |-> overwrite, outcome |-> "refused", told |-> "error",
                   replies |-> 0])]
          /\ calls' = calls
      BY <1>3, <1>5 DEF Start
    <2> QED
      BY <1>2, <2>1, RefusedStarts
  <1> QED
    BY <1>4, <1>5

LEMMA PtpStarts ==
    ASSUME jobs \in [Clients -> Seq(JobType)], NEW c \in Clients, NEW family,
           <<family, "ptp">> \in Methods, PtpAsync(c, family)
    PROVE  Starts(c)
  <1>1. PICK source \in Devices, target \in Devices, overwrite \in BOOLEAN :
            Start(c, <<family, "ptp">>, source, target, overwrite,
              /\ check_file_device(source) /\ check_file_device(target)
              /\ ~check_device_mount(source) /\ ~check_device_mount(target))
    BY DEF PtpAsync
  <1> DEFINE sent == /\ check_file_device(source) /\ check_file_device(target)
                     /\ ~check_device_mount(source) /\ ~check_device_mount(target)
  <1>2. source \in Paths /\ target \in Paths
    BY DEF Paths
  <1>3. Start(c, <<family, "ptp">>, source, target, overwrite, sent)
    BY <1>1
  <1> HIDE DEF sent
  <1>4. CASE sent
    <2>1. /\ ~Waiting(c) /\ UNCHANGED <<node, mounted, inbox, running, phase, deaths>>
          /\ jobs' = [jobs EXCEPT ![c] = Append(@,
                  [method |-> <<family, "ptp">>, source |-> source, target |-> target,
                   overwrite |-> overwrite, outcome |-> "open", told |-> "nothing",
                   replies |-> 0])]
          /\ calls' = Append(calls, <<c, Len(jobs'[c])>>)
      BY <1>3, <1>4 DEF Start
    <2> QED
      BY <1>2, <2>1, SentStarts
  <1>5. CASE ~sent
    <2>1. /\ ~Waiting(c) /\ UNCHANGED <<node, mounted, inbox, running, phase, deaths>>
          /\ jobs' = [jobs EXCEPT ![c] = Append(@,
                  [method |-> <<family, "ptp">>, source |-> source, target |-> target,
                   overwrite |-> overwrite, outcome |-> "refused", told |-> "error",
                   replies |-> 0])]
          /\ calls' = calls
      BY <1>3, <1>5 DEF Start
    <2> QED
      BY <1>2, <2>1, RefusedStarts
  <1> QED
    BY <1>4, <1>5

LEMMA RestoreStarts ==
    ASSUME jobs \in [Clients -> Seq(JobType)], NEW c \in Clients, sysbak_admin_restore_async(c)
    PROVE  Starts(c)
  <1>1. PICK target \in Devices, overwrite \in BOOLEAN :
          Start(c, <<"any", "restore">>, ImageFile, target, overwrite,
                /\ check_file_device(ImageFile)
                /\ is_lvm(target) \/ check_file_device(target)
                /\ ~check_device_mount(target))
    BY DEF sysbak_admin_restore_async
  <1> DEFINE sent == /\ check_file_device(ImageFile)
                     /\ is_lvm(target) \/ check_file_device(target)
                     /\ ~check_device_mount(target)
  <1>2. <<"any", "restore">> \in Methods /\ ImageFile \in Paths /\ target \in Paths
    BY DEF Paths, sysbak_admin_restore_async
  <1>3. Start(c, <<"any", "restore">>, ImageFile, target, overwrite, sent)
    BY <1>1
  <1> HIDE DEF sent
  <1>4. CASE sent
    <2>1. /\ ~Waiting(c) /\ UNCHANGED <<node, mounted, inbox, running, phase, deaths>>
          /\ jobs' = [jobs EXCEPT ![c] = Append(@,
                  [method |-> <<"any", "restore">>, source |-> ImageFile, target |-> target,
                   overwrite |-> overwrite, outcome |-> "open", told |-> "nothing",
                   replies |-> 0])]
          /\ calls' = Append(calls, <<c, Len(jobs'[c])>>)
      BY <1>3, <1>4 DEF Start
    <2> QED
      BY <1>2, <2>1, SentStarts
  <1>5. CASE ~sent
    <2>1. /\ ~Waiting(c) /\ UNCHANGED <<node, mounted, inbox, running, phase, deaths>>
          /\ jobs' = [jobs EXCEPT ![c] = Append(@,
                  [method |-> <<"any", "restore">>, source |-> ImageFile, target |-> target,
                   overwrite |-> overwrite, outcome |-> "refused", told |-> "error",
                   replies |-> 0])]
          /\ calls' = calls
      BY <1>3, <1>5 DEF Start
    <2> QED
      BY <1>2, <2>1, RefusedStarts
  <1> QED
    BY <1>4, <1>5

(* The steps of the clients and of the daemon, whatever the method.        *)
LEMMA ClientSteps ==
    ASSUME jobs \in [Clients -> Seq(JobType)], ClientStep
    PROVE  \E c \in Clients : Starts(c) \/ Deliver(c)
  <1>1. PICK c \in Clients :
            \/ <<"extfs", "ptf">> \in Methods /\ PtfAsync(c, "extfs")
            \/ <<"fatfs", "ptf">> \in Methods /\ PtfAsync(c, "fatfs")
            \/ <<"btrfs", "ptf">> \in Methods /\ PtfAsync(c, "btrfs")
            \/ <<"xfsfs", "ptf">> \in Methods /\ PtfAsync(c, "xfsfs")
            \/ <<"extfs", "ptp">> \in Methods /\ PtpAsync(c, "extfs")
            \/ <<"fatfs", "ptp">> \in Methods /\ PtpAsync(c, "fatfs")
            \/ <<"btrfs", "ptp">> \in Methods /\ PtpAsync(c, "btrfs")
            \/ <<"xfsfs", "ptp">> \in Methods /\ PtpAsync(c, "xfsfs")
            \/ sysbak_admin_restore_async(c) \/ Deliver(c)
    BY Zenon DEF ClientStep, sysbak_admin_extfs_ptf_async, sysbak_admin_fatfs_ptf_async,
       sysbak_admin_btrfs_ptf_async, sysbak_admin_xfsfs_ptf_async, sysbak_admin_extfs_ptp_async,
       sysbak_admin_fatfs_ptp_async, sysbak_admin_btrfs_ptp_async, sysbak_admin_xfsfs_ptp_async
  <1> QED
    BY <1>1, PtfStarts, PtpStarts, RestoreStarts, Zenon

LEMMA DaemonSteps ==
    ASSUME DaemonStep
    PROVE  \/ AcquiredCallback \/ TakeCall
           \/ running # None /\ HandlerStep
  BY DEF DaemonStep, Handling, gdbus_sysbak_extfs_ptf, gdbus_sysbak_fatfs_ptf,
     gdbus_sysbak_btrfs_ptf, gdbus_sysbak_xfsfs_ptf, gdbus_sysbak_extfs_ptp,
     gdbus_sysbak_fatfs_ptp, gdbus_sysbak_btrfs_ptp, gdbus_sysbak_xfsfs_ptp, gdbus_sysbak_restore

-----------------------------------------------------------------------------
(* One message arrives at a client.                                        *)
Receives(c, m) ==
    /\ Len(inbox'[c]) = Len(inbox[c]) + 1
    /\ DOMAIN inbox'[c] = DOMAIN inbox[c] \cup {Len(inbox[c]) + 1}
    /\ \A k \in DOMAIN inbox[c] : inbox'[c][k] = inbox[c][k]
    /\ inbox'[c][Len(inbox[c]) + 1] = m

LEMMA AppendMessage ==
    ASSUME inbox \in [Clients -> Seq(Messages)], NEW c \in Clients, NEW m \in Messages,
           inbox'[c] = Append(inbox[c], m)
    PROVE  inbox'[c] \in Seq(Messages) /\ Receives(c, m)
  <1>1. inbox[c] \in Seq(Messages)
    OBVIOUS
  <1>2. inbox'[c] \in Seq(Messages) /\ Len(inbox'[c]) = Len(inbox[c]) + 1
    BY <1>1
  <1>3. DOMAIN inbox'[c] = DOMAIN inbox[c] \cup {Len(inbox[c]) + 1}
    BY <1>1, <1>2
  <1>4. /\ \A k \in DOMAIN inbox[c] : inbox'[c][k] = inbox[c][k]
        /\ inbox'[c][Len(inbox[c]) + 1] = m
    BY <1>1
  <1> QED
    BY <1>2, <1>3, <1>4 DEF Receives

(* A reply goes to the client of the call that runs, a signal to all.      *)
Replies ==
    /\ inbox' \in [Clients -> Seq(Messages)]
    /\ Receives(running[1], <<"reply", running[2]>>)
    /\ \A c \in Clients \ {running[1]} : inbox'[c] = inbox[c]

LEMMA ReplyMessage ==
    ASSUME inbox \in [Clients -> Seq(Messages)], running \in AnyCall, Reply
    PROVE  Replies
  <1>1. running[1] \in Clients /\ running[2] \in Nat
    BY DEF AnyCall
  <1>2. <<"reply", running[2]>> \in Messages
    BY <1>1 DEF Messages
  <1>3. inbox' = [inbox EXCEPT ![running[1]] = Append(inbox[running[1]], <<"reply", running[2]>>)]
    BY DEF Reply
  <1>4. inbox'[running[1]] = Append(inbox[running[1]], <<"reply", running[2]>>)
    BY <1>1, <1>3
  <1>5. /\ inbox'[running[1]] \in Seq(Messages)
        /\ Receives(running[1], <<"reply", running[2]>>)
    BY <1>1, <1>2, <1>4, AppendMessage
  <1>6. \A c \in Clients \ {running[1]} : inbox'[c] = inbox[c]
    BY <1>1, <1>3
  <1>7. inbox' \in [Clients -> Seq(Messages)]
    BY <1>1, <1>3, <1>5, <1>6
  <1> QED
    BY <1>5, <1>6, <1>7 DEF Replies

Signals(s) ==
    /\ inbox' \in [Clients -> Seq(Messages)]
    /\ \A c \in Clients : Receives(c, <<s, 0>>)

LEMMA BroadcastMessage ==
    ASSUME inbox \in [Clients -> Seq(Messages)], NEW s \in {"finished", "error"}, Broadcast(s)
    PROVE  Signals(s)
  <1>1. <<s, 0>> \in Messages
    BY DEF Messages
  <1>2. \A c \in Clients : inbox'[c] = Append(inbox[c], <<s, 0>>)
    BY DEF Broadcast
  <1>3. \A c \in Clients : inbox'[c] \in Seq(Messages) /\ Receives(c, <<s, 0>>)
    BY <1>1, <1>2, AppendMessage
  <1>4. inbox' \in [Clients -> Seq(Messages)]
    BY <1>3 DEF Broadcast
  <1> QED
    BY <1>3, <1>4 DEF Signals

(* The first message of a client is taken.                                 *)
Takes(c) ==
    /\ inbox' \in [Clients -> Seq(Messages)]
    /\ Len(inbox'[c]) = Len(inbox[c]) - 1
    /\ \A k \in DOMAIN inbox'[c] : k \in Nat \ {0} /\ k + 1 \in DOMAIN inbox[c] /\ inbox'[c][k] = inbox[c][k + 1]
    /\ \A k \in DOMAIN inbox[c] : k > 1 => k - 1 \in DOMAIN inbox'[c]
    /\ \A d \in Clients \ {c} : inbox'[d] = inbox[d]

LEMMA TakeMessage ==
    ASSUME inbox \in [Clients -> Seq(Messages)], NEW c \in Clients, inbox[c] # <<>>,
           inbox' = [inbox EXCEPT ![c] = Tail(@)]
    PROVE  Takes(c) /\ 1 \in DOMAIN inbox[c] /\ Head(inbox[c]) = inbox[c][1]
  <1>1. inbox[c] \in Seq(Messages)
    OBVIOUS
  <1>2. inbox'[c] = Tail(inbox[c])
    OBVIOUS
  <1>3. inbox'[c] \in Seq(Messages) /\ Len(inbox'[c]) = Len(inbox[c]) - 1
    BY <1>1, <1>2
  <1>4. inbox' \in [Clients -> Seq(Messages)]
    BY <1>2, <1>3
  <1>5. DOMAIN inbox[c] = 1 .. Len(inbox[c]) /\ DOMAIN inbox'[c] = 1 .. Len(inbox'[c])
    BY <1>1, <1>3
  <1>6. \A k \in DOMAIN inbox'[c] : k \in Nat \ {0} /\ k + 1 \in DOMAIN inbox[c]
    BY <1>1, <1>3, <1>5
  <1>7. \A k \in DOMAIN inbox'[c] : inbox'[c][k] = inbox[c][k + 1]
    BY <1>1, <1>2, <1>3, <1>5
  <1>8. \A k \in DOMAIN inbox[c] : k > 1 => k - 1 \in DOMAIN inbox'[c]
    BY <1>1, <1>3, <1>5
  <1>9. 1 \in DOMAIN inbox[c] /\ Head(inbox[c]) = inbox[c][1]
    BY <1>1
  <1> QED
    BY <1>3, <1>4, <1>6, <1>7, <1>8, <1>9 DEF Takes

-----------------------------------------------------------------------------
(* The daemon goes: what has no decision is lost.                          *)
Loses ==
    \A c \in Clients : \A n \in DOMAIN jobs[c] :
        jobs'[c][n].outcome = IF <<c, n>> \in Open /\ jobs[c][n].outcome = "open"
                              THEN "lost" ELSE jobs[c][n].outcome

LEMMA GoneJobs ==
    ASSUME jobs \in [Clients -> Seq(JobType)], Gone
    PROVE  SameShape /\ SameTold /\ SameReplies /\ Loses
  <1> DEFINE job(c, n) == IF <<c, n>> \in Open /\ jobs[c][n].outcome = "open"
                          THEN [jobs[c][n] EXCEPT !.outcome = "lost"] ELSE jobs[c][n]
  <1>1. ASSUME NEW c \in Clients, NEW n \in DOMAIN jobs[c]
        PROVE  /\ job(c, n) \in JobType
               /\ job(c, n).method = jobs[c][n].method /\ job(c, n).told = jobs[c][n].told
               /\ job(c, n).replies = jobs[c][n].replies
               /\ job(c, n).outcome = IF <<c, n>> \in Open /\ jobs[c][n].outcome = "open"
                              THEN "lost" ELSE jobs[c][n].outcome
    <2>1. jobs[c][n] \in JobType
      BY <1>1, JobFacts
    <2>2. [jobs[c][n] EXCEPT !.outcome = "lost"] \in JobType
      BY <2>1 DEF JobType
    <2>3. /\ [jobs[c][n] EXCEPT !.outcome = "lost"].method = jobs[c][n].method
          /\ [jobs[c][n] EXCEPT !.outcome = "lost"].told = jobs[c][n].told
          /\ [jobs[c][n] EXCEPT !.outcome = "lost"].replies = jobs[c][n].replies
          /\ [jobs[c][n] EXCEPT !.outcome = "lost"].outcome = "lost"
      BY <2>1 DEF JobType
    <2> QED
      BY <2>1, <2>2, <2>3
  <1>2. jobs' = [c \in Clients |-> [n \in DOMAIN jobs[c] |-> job(c, n)]]
    BY DEF Gone
  <1> HIDE DEF job
  <1>3. ASSUME NEW c \in Clients
        PROVE  /\ jobs'[c] \in Seq(JobType) /\ Len(jobs'[c]) = Len(jobs[c])
               /\ DOMAIN jobs'[c] = DOMAIN jobs[c]
    <2>1. jobs[c] \in Seq(JobType)
      OBVIOUS
    <2>2. DOMAIN jobs[c] = 1 .. Len(jobs[c]) /\ Len(jobs[c]) \in Nat
      BY <2>1
    <2>3. jobs'[c] = [n \in 1 .. Len(jobs[c]) |-> job(c, n)]
      BY <1>2, <2>2
    <2>4. \A n \in 1 .. Len(jobs[c]) : job(c, n) \in JobType
      BY <1>1, <2>2
    <2> QED
      BY <2>2, <2>3, <2>4
  <1>4. \A c \in Clients : \A n \in DOMAIN jobs[c] : jobs'[c][n] = job(c, n)
    BY <1>2
  <1>5. jobs' \in [Clients -> Seq(JobType)]
    BY <1>2, <1>3
  <1> QED
    <2>1. SameShape
      BY <1>1, <1>3, <1>4, <1>5 DEF SameShape
    <2>2. SameTold /\ SameReplies
      BY <1>1, <1>4 DEF SameTold, SameReplies
    <2>3. Loses
      BY <1>1, <1>4 DEF Loses
    <2> QED
      BY <2>1, <2>2, <2>3

(* ... and the bus answers every call that has no reply, each once.        *)
Answers(c) ==
    /\ inbox'[c] \in Seq(Messages)
    /\ DOMAIN inbox[c] \subseteq DOMAIN inbox'[c]
    /\ \A k \in DOMAIN inbox[c] : inbox'[c][k] = inbox[c][k]
    /\ \A k \in DOMAIN inbox'[c] \ DOMAIN inbox[c] :
          inbox'[c][k] \in Unanswered(c) /\ k > Len(inbox[c])
    /\ \A m \in Unanswered(c) : \E k \in DOMAIN inbox'[c] : inbox'[c][k] = m
    /\ \A m : Unanswered(c) \subseteq {m} => \A k \in DOMAIN inbox'[c] : k <= Len(inbox[c]) + 1

LEMMA UnansweredFinite ==
    ASSUME jobs \in [Clients -> Seq(JobType)], NEW c \in Clients
    PROVE  IsFiniteSet(Unanswered(c)) /\ Unanswered(c) \subseteq Messages
  <1> DEFINE N == {n \in DOMAIN jobs[c] : <<c, n>> \in Open /\ jobs[c][n].replies = 0}
  <1>1. jobs[c] \in Seq(JobType)
    OBVIOUS
  <1>2. Len(jobs[c]) \in Nat /\ DOMAIN jobs[c] = 1 .. Len(jobs[c])
    BY <1>1
  <1>3. N \subseteq 1 .. Len(jobs[c])
    BY <1>2
  <1>4. Unanswered(c) = {<<"noreply", n>> : n \in N}
    BY DEF Unanswered
  <1> HIDE DEF N
  <1>5. IsFiniteSet(1 .. Len(jobs[c]))
    BY <1>2, FS_Interval
  <1>6. IsFiniteSet(N)
    BY <1>3, <1>5, FS_Subset
  <1> DEFINE f == [n \in N |-> <<"noreply", n>>]
  <1>7. f \in Surjection(N, Unanswered(c))
    BY <1>4 DEF Surjection
  <1>8. IsFiniteSet(Unanswered(c))
    BY <1>6, <1>7, FS_Surjection DEF ExistsSurjection
  <1>9. Unanswered(c) \subseteq Messages
    BY <1>3, <1>4 DEF Messages
  <1> QED
    BY <1>8, <1>9

LEMMA AtMostOne ==
    ASSUME NEW S, IsFiniteSet(S), NEW m, S \subseteq {m}
    PROVE  Cardinality(S) <= 1
  <1>1. IsFiniteSet({m}) /\ Cardinality({m}) = 1
    BY FS_Singleton
  <1> QED
    BY <1>1, FS_Subset

LEMMA GoneInbox ==
    ASSUME jobs \in [Clients -> Seq(JobType)], inbox \in [Clients -> Seq(Messages)], Gone
    PROVE  inbox' \in [Clients -> Seq(Messages)] /\ \A c \in Clients : Answers(c)
  <1>1. PICK answers \in [Clients -> UNION {Orders(Unanswered(c)) : c \in Clients}] :
          /\ \A c \in Clients : answers[c] \in Orders(Unanswered(c))
          /\ inbox' = [c \in Clients |-> inbox[c] \o answers[c]]
    BY DEF Gone
  <1>2. ASSUME NEW c \in Clients
        PROVE  Answers(c)
    <2> DEFINE s == answers[c]
    <2> DEFINE U == Unanswered(c)
    <2> DEFINE N == Cardinality(U)
    <2>1. N \in Nat /\ U \subseteq Messages
      BY UnansweredFinite, FS_CardinalityType
    <2>2. s \in [1 .. N -> U] /\ \A m \in U : \E k \in DOMAIN s : s[k] = m
      BY <1>1 DEF Orders
    <2>3. \A m : U \subseteq {m} => N <= 1
      BY UnansweredFinite, AtMostOne
    <2>4. inbox'[c] = inbox[c] \o s /\ inbox[c] \in Seq(Messages)
      BY <1>1
    <2> HIDE DEF s, U, N
    <2>5. s \in Seq(Messages) /\ Len(s) = N /\ DOMAIN s = 1 .. N
      BY <2>1, <2>2
    <2>6. /\ inbox'[c] \in Seq(Messages) /\ Len(inbox'[c]) = Len(inbox[c]) + N
          /\ Len(inbox[c]) \in Nat
      <3>1. inbox[c] \o s \in Seq(Messages) /\ Len(inbox[c] \o s) = Len(inbox[c]) + Len(s)
        BY <2>4, <2>5, ConcatProperties
      <3> QED
        BY <2>4, <2>5, <3>1
    <2>7. /\ DOMAIN inbox[c] = 1 .. Len(inbox[c])
          /\ DOMAIN inbox'[c] = 1 .. Len(inbox[c]) + N
      BY <2>4, <2>6
    <2>8. \A k \in 1 .. Len(inbox[c]) : inbox'[c][k] = inbox[c][k]
      BY <2>4, <2>5
    <2>9. \A k \in 1 .. N : inbox'[c][Len(inbox[c]) + k] = s[k]
      BY <2>4, <2>5
    <2>10. DOMAIN inbox[c] \subseteq DOMAIN inbox'[c]
      BY <2>1, <2>6, <2>7
    <2>11. ASSUME NEW k \in DOMAIN inbox'[c] \ DOMAIN inbox[c]
           PROVE  inbox'[c][k] \in U /\ k > Len(inbox[c])
      <3>1. k - Len(inbox[c]) \in 1 .. N /\ k > Len(inbox[c]) /\ k \in Int
        <4>1. k \in 1 .. Len(inbox[c]) + N /\ ~(k \in 1 .. Len(inbox[c]))
          BY <2>7, <2>11
        <4> DEFINE e == Len(inbox[c])
        <4>2. N \in Nat /\ e \in Nat /\ k \in 1 .. e + N /\ ~(k \in 1 .. e)
          BY <2>1, <2>6, <4>1
        <4> HIDE DEF e
        <4>3. k - e \in 1 .. N /\ k > e /\ k \in Int
          BY <4>2
        <4> QED
          BY <4>3 DEF e
      <3>2. inbox'[c][Len(inbox[c]) + (k - Len(inbox[c]))] = s[k - Len(inbox[c])]
        BY <2>9, <3>1
      <3>3. Len(inbox[c]) + (k - Len(inbox[c])) = k
        BY <2>6, <3>1
      <3> QED
        BY <2>2, <3>1, <3>2, <3>3
    <2>12. ASSUME NEW m \in U
           PROVE  \E k \in DOMAIN inbox'[c] : inbox'[c][k] = m
      <3>1. PICK k \in 1 .. N : s[k] = m
        BY <2>2, <2>5
      <3>2. Len(inbox[c]) + k \in DOMAIN inbox'[c]
        BY <2>1, <2>6, <2>7
      <3> QED
        BY <2>9, <3>1, <3>2
    <2>13. \A m : U \subseteq {m} => \A k \in DOMAIN inbox'[c] : k <= Len(inbox[c]) + 1
      <3>1. SUFFICES ASSUME NEW m, U \subseteq {m}, NEW k \in DOMAIN inbox'[c]
                     PROVE  k <= Len(inbox[c]) + 1
        OBVIOUS
      <3>2. N <= 1
        BY <2>3, <3>1
      <3> QED
        BY <2>1, <2>6, <2>7, <3>1, <3>2
    <2> QED
      BY <2>6, <2>7, <2>8, <2>10, <2>11, <2>12, <2>13 DEF Answers, U
  <1>3. inbox' \in [Clients -> Seq(Messages)]
    BY <1>1, <1>2 DEF Answers
  <1> QED
    BY <1>2, <1>3

-----------------------------------------------------------------------------
(* The steps of a handler and the delivery of a message, by their effects. *)
Stays == UNCHANGED <<node, mounted, calls, deaths>>

PreparedEffect ==
    /\ phase = "check" /\ phase' = "copy" /\ running' = running /\ Stays
    /\ SameShape /\ SameTold /\ SameOutcome
    /\ \/ RepliesFirst(Job(running).method) /\ Replies /\ RepliesGrow(running)
       \/ ~RepliesFirst(Job(running).method) /\ inbox' = inbox /\ SameReplies

FailedEffect ==
    /\ phase \in {"prepare", "check", "copy"} /\ phase' = "failing" /\ running' = running /\ Stays
    /\ SameShape /\ SameTold /\ SameReplies /\ OutcomeBecomes(running, "failed")
    /\ inbox' = inbox

EmitFinishedEffect ==
    /\ phase = "copy" /\ Stays
    /\ \/ RepliesFirst(Job(running).method) /\ phase' = "idle" /\ running' = None
       \/ ~RepliesFirst(Job(running).method) /\ phase' = "answer" /\ running' = running
    /\ SameShape /\ SameTold /\ SameReplies /\ OutcomeBecomes(running, "finished")
    /\ Signals("finished")

AnswerLateEffect ==
    /\ phase = "answer" /\ phase' = "idle" /\ running' = None /\ Stays
    /\ SameShape /\ SameTold /\ SameOutcome /\ RepliesGrow(running)
    /\ Replies

CompleteFailedEffect ==
    /\ phase = "failing" /\ phase' = "report" /\ running' = running /\ Stays
    /\ SameShape /\ SameTold /\ SameOutcome /\ RepliesGrow(running)
    /\ Replies

EmitErrorEffect ==
    /\ phase = "report" /\ phase' = "idle" /\ running' = None /\ Stays
    /\ jobs' = jobs /\ Signals("error")

(* The application hears of its newest job, or of nothing.                 *)
DeliverEffect(c) ==
    /\ Takes(c) /\ 1 \in DOMAIN inbox[c]
    /\ UNCHANGED <<running, phase>> /\ Stays
    /\ \/ jobs' = jobs /\ (~Reports(c, 1) \/ ~Waiting(c))
       \/ /\ Reports(c, 1) /\ Waiting(c)
          /\ SameShape /\ SameOutcome /\ SameReplies
          /\ ToldBecomes(<<c, Len(jobs[c])>>,
                         IF inbox[c][1][1] = "finished" THEN "finished" ELSE "error")

LEMMA RunningCall ==
    ASSUME TypeOK, CallsInv, running # None
    PROVE  /\ running \in AnyCall /\ running = <<running[1], running[2]>>
           /\ running[1] \in Clients /\ running[2] \in DOMAIN jobs[running[1]]
           /\ jobs \in [Clients -> Seq(JobType)] /\ inbox \in [Clients -> Seq(Messages)]
           /\ Job(running) = jobs[running[1]][running[2]]
  <1>1. running \in Clients \X Nat
    BY DEF TypeOK
  <1>2. IsCall(running)
    BY DEF CallsInv
  <1> QED
    BY <1>1, <1>2 DEF TypeOK, AnyCall, IsCall, Job

LEMMA ReplySteps ==
    ASSUME TypeOK, CallsInv, running # None, Reply
    PROVE  SameShape /\ SameTold /\ SameOutcome /\ RepliesGrow(running) /\ Replies
  <1> DEFINE a == running[1]
  <1> DEFINE b == running[2]
  <1>1. /\ a \in Clients /\ b \in DOMAIN jobs[a] /\ running = <<a, b>> /\ running \in AnyCall
        /\ jobs \in [Clients -> Seq(JobType)] /\ inbox \in [Clients -> Seq(Messages)]
    BY RunningCall
  <1>2. jobs' = [jobs EXCEPT ![a][b].replies = @ + 1]
    BY DEF Reply
  <1>3. Replies
    BY <1>1, ReplyMessage
  <1> HIDE DEF a, b
  <1>4. SameShape /\ SameTold /\ SameOutcome /\ RepliesGrow(<<a, b>>)
    BY <1>1, <1>2, ReplyEffect
  <1> QED
    BY <1>1, <1>3, <1>4

LEMMA OutcomeSteps ==
    ASSUME TypeOK, CallsInv, running # None, NEW o \in {"finished", "failed"}, Outcome(o)
    PROVE  SameShape /\ SameTold /\ SameReplies /\ OutcomeBecomes(running, o)
  <1> DEFINE a == running[1]
  <1> DEFINE b == running[2]
  <1>1. /\ a \in Clients /\ b \in DOMAIN jobs[a] /\ running = <<a, b>>
        /\ jobs \in [Clients -> Seq(JobType)]
    BY RunningCall
  <1>2. jobs' = [jobs EXCEPT ![a][b].outcome = o]
    BY DEF Outcome
  <1>3. o \in {"open", "refused", "finished", "failed", "lost"}
    OBVIOUS
  <1> HIDE DEF a, b
  <1>4. SameShape /\ SameTold /\ SameReplies /\ OutcomeBecomes(<<a, b>>, o)
    BY <1>1, <1>2, <1>3, OutcomeEffect
  <1> QED
    BY <1>1, <1>4

LEMMA HandlerEffects ==
    ASSUME TypeOK, CallsInv, running # None
    PROVE  /\ Prepared => PreparedEffect
           /\ Failed => FailedEffect
           /\ EmitFinished => EmitFinishedEffect
           /\ AnswerLate => AnswerLateEffect
           /\ CompleteFailed => CompleteFailedEffect
           /\ EmitError => EmitErrorEffect
  <1>0. jobs \in [Clients -> Seq(JobType)] /\ inbox \in [Clients -> Seq(Messages)]
    BY RunningCall
  <1>1. ASSUME Prepared PROVE PreparedEffect
    <2>1. CASE RepliesFirst(Job(running).method)
      <3>1. Reply
        BY <1>1, <2>1 DEF Prepared
      <3>2. SameShape /\ SameTold /\ SameOutcome /\ RepliesGrow(running) /\ Replies
        BY <3>1, ReplySteps
      <3> QED
        BY <1>1, <2>1, <3>2 DEF Prepared, PreparedEffect, Stays
    <2>2. CASE ~RepliesFirst(Job(running).method)
      <3>1. jobs' = jobs /\ inbox' = inbox
        BY <1>1, <2>2 DEF Prepared
      <3>2. SameShape /\ SameTold /\ SameOutcome /\ SameReplies
        BY <1>0, <3>1, UnchangedEffect
      <3> QED
        BY <1>1, <2>2, <3>1, <3>2 DEF Prepared, PreparedEffect, Stays
    <2> QED
      BY <2>1, <2>2
  <1>2. ASSUME Failed PROVE FailedEffect
    <2>1. SameShape /\ SameTold /\ SameReplies /\ OutcomeBecomes(running, "failed")
      BY <1>2, OutcomeSteps DEF Failed
    <2> QED
      BY <1>2, <2>1 DEF Failed, FailedEffect, Stays
  <1>3. ASSUME EmitFinished PROVE EmitFinishedEffect
    <2>1. SameShape /\ SameTold /\ SameReplies /\ OutcomeBecomes(running, "finished")
      BY <1>3, OutcomeSteps DEF EmitFinished
    <2>2. Signals("finished")
      BY <1>0, <1>3, BroadcastMessage DEF EmitFinished
    <2> QED
      BY <1>3, <2>1, <2>2 DEF EmitFinished, EmitFinishedEffect, Stays, Back
  <1>4. ASSUME AnswerLate PROVE AnswerLateEffect
    <2>1. SameShape /\ SameTold /\ SameOutcome /\ RepliesGrow(running) /\ Replies
      BY <1>4, ReplySteps DEF AnswerLate
    <2> QED
      BY <1>4, <2>1 DEF AnswerLate, AnswerLateEffect, Stays, Back
  <1>5. ASSUME CompleteFailed PROVE CompleteFailedEffect
    <2>1. SameShape /\ SameTold /\ SameOutcome /\ RepliesGrow(running) /\ Replies
      BY <1>5, ReplySteps DEF CompleteFailed
    <2> QED
      BY <1>5, <2>1 DEF CompleteFailed, CompleteFailedEffect, Stays
  <1>6. ASSUME EmitError PROVE EmitErrorEffect
    <2>1. Signals("error")
      BY <1>0, <1>6, BroadcastMessage DEF EmitError
    <2> QED
      BY <1>6, <2>1 DEF EmitError, EmitErrorEffect, Stays, Back
  <1> QED
    BY <1>1, <1>2, <1>3, <1>4, <1>5, <1>6

LEMMA EventEffect ==
    ASSUME jobs \in [Clients -> Seq(JobType)], NEW c \in Clients,
           NEW s \in {"finished", "error"}, Event(c, s)
    PROVE  \/ ~Waiting(c) /\ jobs' = jobs
           \/ /\ Waiting(c) /\ SameShape /\ SameOutcome /\ SameReplies
              /\ ToldBecomes(<<c, Len(jobs[c])>>, s)
  <1>1. CASE ~Waiting(c)
    BY <1>1 DEF Event
  <1>2. CASE Waiting(c)
    <2> DEFINE b == Len(jobs[c])
    <2>1. jobs[c] \in Seq(JobType) /\ jobs[c] # <<>>
      BY <1>2 DEF Waiting
    <2>2. b \in DOMAIN jobs[c]
      BY <2>1
    <2>3. jobs' = [jobs EXCEPT ![c][b].told = s]
      BY <1>2 DEF Event
    <2> HIDE DEF b
    <2>4. SameShape /\ SameOutcome /\ SameReplies /\ ToldBecomes(<<c, b>>, s)
      BY <2>2, <2>3, ToldEffect
    <2> QED
      BY <1>2, <2>4 DEF b
  <1> QED
    BY <1>1, <1>2

LEMMA DeliverEffects ==
    ASSUME TypeOK, NEW c \in Clients, Deliver(c)
    PROVE  DeliverEffect(c)
  <1>0. jobs \in [Clients -> Seq(JobType)] /\ inbox \in [Clients -> Seq(Messages)]
    BY DEF TypeOK
  <1>1. Takes(c) /\ 1 \in DOMAIN inbox[c] /\ Head(inbox[c]) = inbox[c][1]
    BY <1>0, TakeMessage DEF Deliver
  <1>2. inbox[c][1] \in Messages
    BY <1>0, <1>1
  <1>3. inbox[c][1][1] \in {"reply", "noreply", "finished", "error"}
    BY <1>2 DEF Messages
  <1>4. Stays /\ UNCHANGED <<running, phase>>
    BY DEF Deliver, Stays
  <1>5. CASE inbox[c][1][1] = "finished"
    <2>1. Event(c, "finished")
      BY <1>1, <1>5 DEF Deliver
    <2>2. Reports(c, 1)
      BY <1>5 DEF Reports
    <2> QED
      BY <1>0, <1>1, <1>4, <1>5, <2>1, <2>2, EventEffect DEF DeliverEffect
  <1>6. CASE inbox[c][1][1] = "error"
    <2>1. Event(c, "error")
      BY <1>1, <1>6 DEF Deliver
    <2>2. Reports(c, 1)
      BY <1>6 DEF Reports
    <2> QED
      BY <1>0, <1>1, <1>4, <1>6, <2>1, <2>2, EventEffect DEF DeliverEffect
  <1>7. CASE inbox[c][1][1] = "reply"
    <2>1. jobs' = jobs
      BY <1>1, <1>7 DEF Deliver
    <2>2. ~Reports(c, 1)
      BY <1>7 DEF Reports
    <2> QED
      BY <1>1, <1>4, <2>1, <2>2 DEF DeliverEffect
  <1>8. CASE inbox[c][1][1] = "noreply" /\ CallbackReports(jobs[c][inbox[c][1][2]].method)
    <2>1. Event(c, "error")
      BY <1>1, <1>8 DEF Deliver
    <2>2. Reports(c, 1)
      BY <1>8 DEF Reports
    <2> QED
      BY <1>0, <1>1, <1>4, <1>8, <2>1, <2>2, EventEffect DEF DeliverEffect
  <1>9. CASE inbox[c][1][1] = "noreply" /\ ~CallbackReports(jobs[c][inbox[c][1][2]].method)
    <2>1. jobs' = jobs
      BY <1>1, <1>9 DEF Deliver
    <2>2. ~Reports(c, 1)
      BY <1>9 DEF Reports
    <2> QED
      BY <1>1, <1>4, <2>1, <2>2 DEF DeliverEffect
  <1> QED
    BY <1>3, <1>5, <1>6, <1>7, <1>8, <1>9

-----------------------------------------------------------------------------
(* A step of the specification is one of these.                            *)
Step ==
    \/ \E c \in Clients : Starts(c)
    \/ \E c \in Clients : DeliverEffect(c)
    \/ AcquiredCallback \/ TakeCall
    \/ /\ running # None
       /\ \/ OpenTarget \/ PreparedEffect \/ FailedEffect \/ EmitFinishedEffect
          \/ AnswerLateEffect \/ CompleteFailedEffect \/ EmitErrorEffect
    \/ deaths < MaxDeaths /\ Gone
    \/ Mount

LEMMA Steps ==
    ASSUME TypeOK, CallsInv, Next
    PROVE  Step
  <1>0. jobs \in [Clients -> Seq(JobType)]
    BY DEF TypeOK
  <1>1. CASE ClientStep
    BY <1>0, <1>1, ClientSteps, DeliverEffects DEF Step
  <1>2. CASE DaemonStep
    BY <1>2, DaemonSteps, HandlerEffects DEF HandlerStep, Step
  <1>3. CASE DaemonDies \/ NameLostCallback
    BY <1>3 DEF DaemonDies, NameLostCallback, Step
  <1>4. CASE Mount
    BY <1>4 DEF Step
  <1> QED
    BY <1>1, <1>2, <1>3, <1>4 DEF Next

LEMMA TypePreserved ==
    ASSUME TypeOK, CallsInv, Step
    PROVE  TypeOK'
  <1> DEFINE Phases == {"down", "idle", "prepare", "check", "copy", "failing", "report", "answer"}
  <1> DEFINE Kinds == {"absent", "device", "file"}
  <1>0. /\ node \in [Paths -> Kinds] /\ mounted \subseteq {d \in Devices : node[d] = "device"}
        /\ jobs \in [Clients -> Seq(JobType)] /\ inbox \in [Clients -> Seq(Messages)]
        /\ calls \in Seq(Clients \X Nat) /\ running \in {None} \cup (Clients \X Nat)
        /\ phase \in Phases /\ deaths \in 0 .. MaxDeaths
    BY DEF TypeOK
  <1>1. ASSUME NEW c \in Clients, Starts(c)
        PROVE  TypeOK'
    <2>1. jobs' \in [Clients -> Seq(JobType)]
      BY <1>1 DEF Starts, NewJob
    <2> DEFINE x == <<c, Len(jobs[c]) + 1>>
    <2>2. x \in Clients \X Nat
      BY <1>0
    <2>3. calls' \in Seq(Clients \X Nat)
      <3>1. calls' = calls \/ calls' = Append(calls, x)
        BY <1>1 DEF Starts
      <3> HIDE DEF x
      <3>2. Append(calls, x) \in Seq(Clients \X Nat)
        BY <1>0, <2>2, AppendProperties
      <3> QED
        BY <1>0, <3>1, <3>2
    <2> QED
      BY <1>0, <1>1, <2>1, <2>3 DEF TypeOK, Starts
  <1>2. ASSUME NEW c \in Clients, DeliverEffect(c)
        PROVE  TypeOK'
    <2>1. jobs' \in [Clients -> Seq(JobType)]
      BY <1>0, <1>2 DEF DeliverEffect, SameShape
    <2>2. inbox' \in [Clients -> Seq(Messages)]
      BY <1>2 DEF DeliverEffect, Takes
    <2> QED
      BY <1>0, <1>2, <2>1, <2>2 DEF TypeOK, DeliverEffect, Stays
  <1>3. CASE AcquiredCallback
    BY <1>0, <1>3 DEF TypeOK, AcquiredCallback
  <1>4. CASE TakeCall
    <2>1. Head(calls) \in Clients \X Nat /\ Tail(calls) \in Seq(Clients \X Nat)
      BY <1>0, <1>4 DEF TakeCall
    <2> QED
      BY <1>0, <1>4, <2>1 DEF TypeOK, TakeCall
  <1>5. CASE running # None /\ OpenTarget
    <2> DEFINE t == Job(running).target
    <2>1. t \in Paths
      BY <1>5, RunningCall, JobFacts
    <2>2. node' = IF node[t] = "device" THEN node ELSE [node EXCEPT ![t] = "file"]
      BY <1>5 DEF OpenTarget
    <2> HIDE DEF t
    <2>3. node' \in [Paths -> Kinds] /\ \A d \in Devices : node[d] = "device" => node'[d] = "device"
      BY <1>0, <2>1, <2>2 DEF Paths
    <2> QED
      BY <1>0, <1>5, <2>3 DEF TypeOK, OpenTarget
  <1>6. CASE running # None /\ PreparedEffect
    BY <1>0, <1>6 DEF TypeOK, PreparedEffect, Stays, SameShape, Replies
  <1>7. CASE running # None /\ FailedEffect
    BY <1>0, <1>7 DEF TypeOK, FailedEffect, Stays, SameShape
  <1>8. CASE running # None /\ EmitFinishedEffect
    BY <1>0, <1>8 DEF TypeOK, EmitFinishedEffect, Stays, SameShape, Signals
  <1>9. CASE running # None /\ AnswerLateEffect
    BY <1>0, <1>9 DEF TypeOK, AnswerLateEffect, Stays, SameShape, Replies
  <1>10. CASE running # None /\ CompleteFailedEffect
    BY <1>0, <1>10 DEF TypeOK, CompleteFailedEffect, Stays, SameShape, Replies
  <1>11. CASE running # None /\ EmitErrorEffect
    BY <1>0, <1>11 DEF TypeOK, EmitErrorEffect, Stays, Signals
  <1>12. CASE deaths < MaxDeaths /\ Gone
    <2>1. jobs' \in [Clients -> Seq(JobType)]
      BY <1>0, <1>12, GoneJobs DEF SameShape
    <2>2. inbox' \in [Clients -> Seq(Messages)]
      BY <1>0, <1>12, GoneInbox
    <2>3. deaths' \in 0 .. MaxDeaths
      BY <1>0, <1>12, BoundsAssumption DEF Gone
    <2>4. /\ node' = node /\ mounted' = mounted /\ calls' = <<>> /\ running' = None
          /\ phase' = "down"
      BY <1>12 DEF Gone
    <2>5. calls' \in Seq(Clients \X Nat)
      BY <2>4
    <2> QED
      BY <1>0, <2>1, <2>2, <2>3, <2>4, <2>5 DEF TypeOK
  <1>13. CASE Mount
    BY <1>0, <1>13 DEF TypeOK, Mount
  <1> QED
    BY <1>1, <1>2, <1>3, <1>4, <1>5, <1>6, <1>7, <1>8, <1>9, <1>10, <1>11, <1>12, <1>13 DEF Step

(* The calls that wait, and the call that runs, apart.                     *)
WaitingCalls ==
    \A k \in DOMAIN calls :
        /\ IsCall(calls[k]) /\ calls[k] # running
        /\ \A j \in DOMAIN calls : calls[j] = calls[k] => j = k
        /\ Job(calls[k]).outcome = "open" /\ Job(calls[k]).replies = 0

RunningJob(p, o, r, method) ==
    /\ p \in {"prepare", "check"} => o = "open" /\ r = 0
    /\ p = "copy" => o = "open" /\ r = IF RepliesFirst(method) THEN 1 ELSE 0
    /\ p \in {"failing", "report"} => o = "failed"
    /\ p = "report" => r > 0
    /\ p = "answer" => o = "finished" /\ r = 0 /\ ~RepliesFirst(method)

RunningCalls ==
    /\ phase \in {"down", "idle"} <=> running = None
    /\ running # None =>
          /\ IsCall(running)
          /\ RunningJob(phase, Job(running).outcome, Job(running).replies, Job(running).method)

LEMMA CallsParts ==
    CallsInv <=> WaitingCalls /\ RunningCalls
  BY DEF CallsInv, WaitingCalls, RunningCalls, RunningJob

(* The waiting calls are not touched by what happens to the running one.   *)
LEMMA WaitingCallsKept ==
    ASSUME TypeOK, WaitingCalls, SameShape, calls' = calls, running' \in {running, None},
           SameOutcome \/ OutcomeBecomes(running, "failed") \/ OutcomeBecomes(running, "finished"),
           SameReplies \/ RepliesGrow(running)
    PROVE  WaitingCalls'
  <1> SUFFICES ASSUME NEW k \in DOMAIN calls
               PROVE  /\ IsCall(calls[k])' /\ calls[k] # running'
                      /\ \A j \in DOMAIN calls : calls[j] = calls[k] => j = k
                      /\ Job(calls[k])'.outcome = "open" /\ Job(calls[k])'.replies = 0
    BY DEF WaitingCalls
  <1>1. calls[k] \in Clients \X Nat
    BY DEF TypeOK
  <1> DEFINE a == calls[k][1]
  <1> DEFINE b == calls[k][2]
  <1>2. /\ a \in Clients /\ calls[k] = <<a, b>> /\ b \in DOMAIN jobs[a]
        /\ calls[k] # running /\ calls[k] # None
        /\ jobs[a][b].outcome = "open" /\ jobs[a][b].replies = 0
    BY <1>1 DEF WaitingCalls, IsCall, Job, None
  <1>3. IsCall(calls[k])' /\ Job(calls[k])' = jobs'[a][b]
    BY <1>2 DEF SameShape, IsCall, Job
  <1> HIDE DEF a, b
  <1>4. jobs'[a][b].outcome = "open"
    BY <1>2 DEF SameOutcome, OutcomeBecomes
  <1>5. jobs'[a][b].replies = 0
    BY <1>2 DEF SameReplies, RepliesGrow
  <1> QED
    BY <1>2, <1>3, <1>4, <1>5 DEF WaitingCalls

(* The call that runs, after a step that keeps it running.                 *)
Becomes(o, r) ==
    /\ (SameOutcome /\ o = Job(running).outcome) \/ OutcomeBecomes(running, o)
    /\ \/ SameReplies /\ r = Job(running).replies
       \/ RepliesGrow(running) /\ r = Job(running).replies + 1

LEMMA RunningJobKept ==
    ASSUME TypeOK, CallsInv, running # None, SameShape, running' = running,
           NEW o, NEW r, Becomes(o, r),
           RunningJob(phase', o, r, Job(running).method), phase' \notin {"down", "idle"}
    PROVE  RunningCalls'
  <1> DEFINE a == running[1]
  <1> DEFINE b == running[2]
  <1>1. /\ a \in Clients /\ running = <<a, b>> /\ b \in DOMAIN jobs[a]
        /\ Job(running) = jobs[a][b]
    BY RunningCall
  <1>2. IsCall(running)' /\ Job(running)' = jobs'[a][b]
    BY <1>1 DEF SameShape, IsCall, Job
  <1> HIDE DEF a, b
  <1>3. jobs'[a][b].outcome = o
    BY <1>1 DEF Becomes, SameOutcome, OutcomeBecomes
  <1>4. jobs'[a][b].replies = r
    BY <1>1 DEF Becomes, SameReplies, RepliesGrow
  <1>5. jobs'[a][b].method = Job(running).method
    BY <1>1 DEF SameShape
  <1> QED
    BY <1>2, <1>3, <1>4, <1>5 DEF RunningCalls

LEMMA AppendCall ==
    ASSUME calls \in Seq(Clients \X Nat), NEW x \in Clients \X Nat, calls' = Append(calls, x)
    PROVE  /\ DOMAIN calls' = DOMAIN calls \cup {Len(calls) + 1} /\ Len(calls) + 1 \notin DOMAIN calls
           /\ \A k \in DOMAIN calls : calls'[k] = calls[k]
           /\ calls'[Len(calls) + 1] = x
  <1> DEFINE S == Clients \X Nat
  <1>1. calls \in Seq(S) /\ x \in S
    OBVIOUS
  <1> HIDE DEF S
  <1>2. Len(calls') = Len(calls) + 1 /\ calls' \in Seq(S)
    BY <1>1
  <1>3. DOMAIN calls' = 1 .. Len(calls) + 1 /\ DOMAIN calls = 1 .. Len(calls) /\ Len(calls) \in Nat
    BY <1>1, <1>2
  <1>4. DOMAIN calls' = DOMAIN calls \cup {Len(calls) + 1} /\ Len(calls) + 1 \notin DOMAIN calls
    BY <1>3
  <1>5. /\ \A k \in DOMAIN calls : calls'[k] = calls[k]
        /\ calls'[Len(calls) + 1] = x
    BY <1>1
  <1> QED
    BY <1>4, <1>5

LEMMA CallsPreserved ==
    ASSUME TypeOK, CallsInv, Step
    PROVE  CallsInv'
  <1>0. /\ jobs \in [Clients -> Seq(JobType)] /\ inbox \in [Clients -> Seq(Messages)]
        /\ calls \in Seq(Clients \X Nat)
    BY DEF TypeOK
  <1> DEFINE o == Job(running).outcome
  <1> DEFINE r == Job(running).replies
  <1> DEFINE m == Job(running).method
  <1>a. WaitingCalls /\ RunningCalls
    BY CallsParts
  <1>b. WaitingCalls' /\ RunningCalls' => CallsInv'
    BY CallsParts, PTL
  <1>c. ASSUME running # None
        PROVE  RunningJob(phase, o, r, m) /\ phase \notin {"down", "idle"} /\ r \in Nat
    BY <1>a, <1>c, RunningCall, JobFacts DEF RunningCalls
  <1>d. running' = None /\ phase' \in {"down", "idle"} => RunningCalls'
    BY DEF RunningCalls
  <1>e. /\ SameOutcome /\ SameReplies => Becomes(o, r)
        /\ SameOutcome /\ RepliesGrow(running) => Becomes(o, r + 1)
        /\ \A x : OutcomeBecomes(running, x) /\ SameReplies => Becomes(x, r)
    BY DEF Becomes
  <1> HIDE DEF o, r, m
  <1>2. ASSUME NEW c \in Clients, DeliverEffect(c)
        PROVE  CallsInv'
    <2>1. /\ SameShape /\ SameOutcome /\ SameReplies
          /\ running' = running /\ phase' = phase /\ calls' = calls
      BY <1>0, <1>2, UnchangedEffect DEF DeliverEffect, Stays
    <2>2. WaitingCalls'
      BY <1>a, <2>1, WaitingCallsKept
    <2>3. running # None => RunningCalls'
      BY <1>c, <1>e, <2>1, RunningJobKept DEF m
    <2>4. running = None => RunningCalls'
      BY <1>a, <1>d, <2>1 DEF RunningCalls
    <2> QED
      BY <1>b, <2>2, <2>3, <2>4
  <1>3. CASE AcquiredCallback
    <2>1. /\ SameShape /\ SameOutcome /\ SameReplies
          /\ running' = running /\ phase = "down" /\ phase' = "idle" /\ calls' = calls
      BY <1>0, <1>3, UnchangedEffect DEF AcquiredCallback
    <2>2. WaitingCalls'
      BY <1>a, <2>1, WaitingCallsKept
    <2> QED
      BY <1>a, <1>b, <1>d, <2>1, <2>2 DEF RunningCalls
  <1>5. CASE running # None /\ OpenTarget
    <2>1. /\ SameShape /\ SameOutcome /\ SameReplies
          /\ running' = running /\ phase = "prepare" /\ phase' = "check" /\ calls' = calls
      BY <1>0, <1>5, UnchangedEffect DEF OpenTarget
    <2>2. WaitingCalls'
      BY <1>a, <2>1, WaitingCallsKept
    <2>3. RunningJob(phase', o, r, m)
      BY <1>c, <1>5, <2>1 DEF RunningJob
    <2> QED
      BY <1>b, <1>5, <2>1, <2>2, <2>3, <1>e, RunningJobKept DEF m
  <1>6. CASE running # None /\ PreparedEffect
    <2>1. /\ SameShape /\ SameOutcome
          /\ running' = running /\ phase = "check" /\ phase' = "copy" /\ calls' = calls
      BY <1>6 DEF PreparedEffect, Stays
    <2>2. CASE RepliesFirst(m) /\ RepliesGrow(running)
      <3>1. RunningJob(phase', o, r + 1, m)
        BY <1>c, <1>6, <2>1, <2>2 DEF RunningJob
      <3>2. WaitingCalls'
        BY <1>a, <2>1, <2>2, WaitingCallsKept
      <3> QED
        BY <1>b, <1>6, <2>1, <2>2, <3>1, <3>2, <1>e, RunningJobKept DEF m
    <2>3. CASE ~RepliesFirst(m) /\ SameReplies
      <3>1. RunningJob(phase', o, r, m)
        BY <1>c, <1>6, <2>1, <2>3 DEF RunningJob
      <3>2. WaitingCalls'
        BY <1>a, <2>1, <2>3, WaitingCallsKept
      <3> QED
        BY <1>b, <1>6, <2>1, <2>3, <3>1, <3>2, <1>e, RunningJobKept DEF m
    <2> QED
      BY <1>6, <2>2, <2>3 DEF PreparedEffect, m
  <1>7. CASE running # None /\ FailedEffect
    <2>1. /\ SameShape /\ SameReplies /\ OutcomeBecomes(running, "failed")
          /\ running' = running /\ phase' = "failing" /\ calls' = calls
      BY <1>7 DEF FailedEffect, Stays
    <2>2. WaitingCalls'
      BY <1>a, <2>1, WaitingCallsKept
    <2>3. RunningJob(phase', "failed", r, m)
      BY <2>1 DEF RunningJob
    <2> QED
      BY <1>b, <1>7, <2>1, <2>2, <2>3, <1>e, RunningJobKept DEF m
  <1>8. CASE running # None /\ EmitFinishedEffect
    <2>1. /\ SameShape /\ SameReplies /\ OutcomeBecomes(running, "finished")
          /\ phase = "copy" /\ calls' = calls /\ running' \in {running, None}
      BY <1>8 DEF EmitFinishedEffect, Stays
    <2>2. WaitingCalls'
      BY <1>a, <2>1, WaitingCallsKept
    <2>3. CASE ~RepliesFirst(m) /\ phase' = "answer" /\ running' = running
      <3>1. RunningJob(phase', "finished", r, m)
        BY <1>c, <1>8, <2>1, <2>3 DEF RunningJob
      <3> QED
        BY <1>b, <1>8, <2>1, <2>2, <2>3, <3>1, <1>e, RunningJobKept DEF m
    <2>4. CASE phase' = "idle" /\ running' = None
      BY <1>b, <1>d, <2>2, <2>4
    <2> QED
      BY <1>8, <2>3, <2>4 DEF EmitFinishedEffect, m
  <1>9. CASE running # None /\ AnswerLateEffect
    <2>1. /\ SameShape /\ SameOutcome /\ RepliesGrow(running)
          /\ running' = None /\ phase' = "idle" /\ calls' = calls
      BY <1>9 DEF AnswerLateEffect, Stays
    <2>2. WaitingCalls'
      BY <1>a, <2>1, WaitingCallsKept
    <2> QED
      BY <1>b, <1>d, <2>1, <2>2
  <1>10. CASE running # None /\ CompleteFailedEffect
    <2>1. /\ SameShape /\ SameOutcome /\ RepliesGrow(running)
          /\ running' = running /\ phase = "failing" /\ phase' = "report" /\ calls' = calls
      BY <1>10 DEF CompleteFailedEffect, Stays
    <2>2. WaitingCalls'
      BY <1>a, <2>1, WaitingCallsKept
    <2>3. RunningJob(phase', o, r + 1, m)
      BY <1>c, <1>10, <2>1 DEF RunningJob
    <2> QED
      BY <1>b, <1>10, <2>1, <2>2, <2>3, <1>e, RunningJobKept DEF m
  <1>11. CASE running # None /\ EmitErrorEffect
    <2>1. /\ SameShape /\ SameOutcome /\ SameReplies
          /\ running' = None /\ phase' = "idle" /\ calls' = calls
      BY <1>0, <1>11, UnchangedEffect DEF EmitErrorEffect, Stays
    <2>2. WaitingCalls'
      BY <1>a, <2>1, WaitingCallsKept
    <2> QED
      BY <1>b, <1>d, <2>1, <2>2
  <1>12. CASE deaths < MaxDeaths /\ Gone
    <2>1. calls' = <<>> /\ running' = None /\ phase' = "down"
      BY <1>12 DEF Gone
    <2>2. WaitingCalls'
      BY <2>1 DEF WaitingCalls
    <2> QED
      BY <1>b, <1>d, <2>1, <2>2
  <1>13. CASE Mount
    <2>1. UNCHANGED <<jobs, calls, running, phase>>
      BY <1>13 DEF Mount
    <2> QED
      BY <1>a, <1>b, <2>1 DEF WaitingCalls, RunningCalls, IsCall, Job
  <1>4. CASE TakeCall
    <2>1. /\ jobs' = jobs /\ phase = "idle" /\ phase' = "prepare" /\ calls # <<>>
          /\ running' = Head(calls) /\ calls' = Tail(calls)
      BY <1>4 DEF TakeCall
    <2>2. /\ 1 \in DOMAIN calls /\ running' = calls[1] /\ calls[1] \in Clients \X Nat
          /\ \A k \in DOMAIN calls' : k \in Nat /\ k + 1 \in DOMAIN calls /\ calls'[k] = calls[k + 1] /\ k + 1 # 1
      <3>1. Len(calls) \in Nat /\ Len(calls) > 0 /\ DOMAIN calls = 1 .. Len(calls)
        BY <1>0, <2>1
      <3>2. 1 \in DOMAIN calls /\ running' = calls[1]
        BY <1>0, <2>1, <3>1
      <3>3. calls[1] \in Clients \X Nat
        BY <1>0, <3>2
      <3>4. calls' \in Seq(Clients \X Nat) /\ Len(calls') = Len(calls) - 1
        BY <1>0, <2>1
      <3>5. DOMAIN calls' = 1 .. Len(calls')
        BY <3>4
      <3>6. \A k \in DOMAIN calls' : k \in Nat /\ k + 1 \in DOMAIN calls /\ k + 1 # 1
        BY <3>1, <3>4, <3>5
      <3>7. \A k \in DOMAIN calls' : calls'[k] = calls[k + 1]
        BY <1>0, <2>1, <3>4, <3>5
      <3> QED
        BY <3>2, <3>3, <3>6, <3>7
    <2>3. calls[1] # None
      BY <2>2 DEF None
    <2>4. IsCall(running)' /\ Job(running)'.outcome = "open" /\ Job(running)'.replies = 0
      BY <1>a, <2>1, <2>2 DEF WaitingCalls, IsCall, Job
    <2>5. RunningCalls'
      BY <2>1, <2>2, <2>3, <2>4 DEF RunningCalls, RunningJob
    <2>6. ASSUME NEW k \in DOMAIN calls'
          PROVE  /\ IsCall(calls[k])' /\ calls'[k] # running'
                 /\ \A j \in DOMAIN calls' : calls'[j] = calls'[k] => j = k
                 /\ Job(calls[k])'.outcome = "open" /\ Job(calls[k])'.replies = 0
      <3>1. k \in Nat /\ k + 1 \in DOMAIN calls /\ calls'[k] = calls[k + 1] /\ k + 1 # 1
        BY <2>2
      <3>2. IsCall(calls[k])' /\ Job(calls[k])'.outcome = "open" /\ Job(calls[k])'.replies = 0
        BY <1>a, <2>1, <3>1 DEF WaitingCalls, IsCall, Job
      <3>3. calls'[k] # running'
        BY <1>a, <2>2, <3>1 DEF WaitingCalls
      <3>4. ASSUME NEW j \in DOMAIN calls', calls'[j] = calls'[k]
            PROVE  j = k
        <4>1. j \in Nat /\ j + 1 \in DOMAIN calls /\ calls[j + 1] = calls[k + 1]
          BY <2>2, <3>1, <3>4
        <4>2. j + 1 = k + 1
          BY <1>a, <3>1, <4>1 DEF WaitingCalls
        <4> QED
          BY <3>1, <4>1, <4>2
      <3> QED
        BY <3>2, <3>3, <3>4
    <2>7. WaitingCalls'
      BY <2>6 DEF WaitingCalls
    <2> QED
      BY <1>b, <2>5, <2>7
  <1>1. ASSUME NEW c \in Clients, Starts(c)
        PROVE  CallsInv'
    <2> DEFINE n == Len(jobs[c]) + 1
    <2>1. PICK job \in JobType :
             /\ NewJob(c, job) /\ job.replies = 0
             /\ \/ job.outcome = "open" /\ calls' = Append(calls, <<c, n>>)
                \/ calls' = calls
      BY <1>1 DEF Starts
    <2>2. running' = running /\ phase' = phase
      BY <1>1 DEF Starts
    <2>3. n \in Nat /\ n \notin DOMAIN jobs[c] /\ jobs[c] \in Seq(JobType)
      BY <1>0
    <2>3a. DOMAIN jobs'[c] = DOMAIN jobs[c] \cup {n} /\ jobs'[c][n] = job
      BY <2>1 DEF NewJob
    <2> HIDE DEF n
    <2>4. ASSUME NEW x \in Clients \X Nat, IsCall(x)
          PROVE  /\ IsCall(x)' /\ Job(x)' = Job(x) /\ x # <<c, n>>
      <3>1. x[1] \in Clients /\ x[2] \in DOMAIN jobs[x[1]]
        BY <2>4 DEF IsCall
      <3>2. x # <<c, n>>
        BY <2>3, <3>1
      <3>3. x[2] \in DOMAIN jobs'[x[1]] /\ jobs'[x[1]][x[2]] = jobs[x[1]][x[2]]
        BY <2>1, <3>1 DEF NewJob
      <3> QED
        BY <3>1, <3>2, <3>3 DEF IsCall, Job
    <2>5. running # None => /\ running \in Clients \X Nat /\ IsCall(running)' /\ Job(running)' = Job(running)
                            /\ running # <<c, n>>
      <3> SUFFICES ASSUME running # None
                   PROVE  /\ running \in Clients \X Nat /\ IsCall(running)'
                          /\ Job(running)' = Job(running) /\ running # <<c, n>>
        OBVIOUS
      <3>1. running \in Clients \X Nat /\ IsCall(running)
        BY RunningCall DEF AnyCall, IsCall
      <3>2. \A x \in Clients \X Nat : IsCall(x) =>
                (x = running => IsCall(running)' /\ Job(running)' = Job(running) /\ x # <<c, n>>)
        BY <2>2, <2>4 DEF IsCall, Job
      <3> QED
        BY <3>1, <3>2
    <2>6. RunningCalls'
      <3>1. running = None => RunningCalls'
        BY <1>a, <1>d, <2>2 DEF RunningCalls
      <3>2. running # None => RunningCalls'
        BY <1>a, <2>2, <2>5 DEF RunningCalls
      <3> QED
        BY <3>1, <3>2
    <2>7. ASSUME NEW k \in DOMAIN calls
          PROVE  /\ calls[k] \in Clients \X Nat /\ calls[k] # running /\ calls[k] # <<c, n>>
                 /\ \A x : x = calls[k] =>
                       IsCall(x)' /\ Job(x)'.outcome = "open" /\ Job(x)'.replies = 0
                 /\ \A j \in DOMAIN calls : calls[j] = calls[k] => j = k
      BY <1>0, <1>a, <2>4 DEF WaitingCalls
    <2>8. CASE calls' = calls
      BY <1>b, <2>2, <2>6, <2>7, <2>8 DEF WaitingCalls, IsCall, Job
    <2>9. CASE job.outcome = "open" /\ calls' = Append(calls, <<c, n>>)
      <3> DEFINE L == Len(calls) + 1
      <3>1. /\ DOMAIN calls' = DOMAIN calls \cup {L} /\ L \notin DOMAIN calls
            /\ \A k \in DOMAIN calls : calls'[k] = calls[k]
            /\ calls'[L] = <<c, n>>
        <4> DEFINE x == <<c, n>>
        <4>1. x \in Clients \X Nat /\ calls' = Append(calls, x)
          BY <2>3, <2>9
        <4> HIDE DEF x
        <4> QED
          BY <1>0, <4>1, AppendCall DEF x
      <3> HIDE DEF L
      <3>2. \A x : x = <<c, n>> => IsCall(x)' /\ Job(x)'.outcome = "open" /\ Job(x)'.replies = 0
        BY <2>1, <2>3a, <2>9 DEF IsCall, Job
      <3>3. <<c, n>> # running
        BY <2>5 DEF None
      <3>4. ASSUME NEW k \in DOMAIN calls'
            PROVE  /\ IsCall(calls[k])' /\ calls'[k] # running'
                   /\ \A j \in DOMAIN calls' : calls'[j] = calls'[k] => j = k
                   /\ Job(calls[k])'.outcome = "open" /\ Job(calls[k])'.replies = 0
        <4>1. CASE k = L
          BY <2>2, <2>7, <3>1, <3>2, <3>3, <4>1 DEF IsCall, Job
        <4>2. CASE k \in DOMAIN calls
          BY <2>2, <2>7, <3>1, <4>2 DEF IsCall, Job
        <4> QED
          BY <3>1, <4>1, <4>2
      <3>5. WaitingCalls'
        BY <3>4 DEF WaitingCalls
      <3> QED
        BY <1>b, <2>6, <3>5
    <2> QED
      BY <2>1, <2>8, <2>9
  <1> QED
    BY <1>1, <1>2, <1>3, <1>4, <1>5, <1>6, <1>7, <1>8, <1>9, <1>10, <1>11, <1>12, <1>13 DEF Step

-----------------------------------------------------------------------------
(* What the steps do to the inboxes.                                       *)
InboxGrows(c) ==
    /\ DOMAIN inbox[c] \subseteq DOMAIN inbox'[c]
    /\ \A k \in DOMAIN inbox[c] : inbox'[c][k] = inbox[c][k]

NoNewNoreply(c) ==
    \A k \in DOMAIN inbox'[c] : inbox'[c][k][1] = "noreply" => k \in DOMAIN inbox[c]

LEMMA InboxSteps ==
    /\ inbox' = inbox => \A c \in Clients : InboxGrows(c) /\ NoNewNoreply(c)
    /\ Replies /\ running[1] \in Clients => \A c \in Clients : InboxGrows(c) /\ NoNewNoreply(c)
    /\ \A s \in {"finished", "error"} : Signals(s) => \A c \in Clients : InboxGrows(c) /\ NoNewNoreply(c)
    /\ \A c \in Clients : Answers(c) => InboxGrows(c)
  <1>1. inbox' = inbox => \A c \in Clients : InboxGrows(c) /\ NoNewNoreply(c)
    BY DEF InboxGrows, NoNewNoreply
  <1>2. ASSUME NEW c \in Clients, NEW s \in {"reply", "finished", "error"}, NEW n, Receives(c, <<s, n>>)
        PROVE  InboxGrows(c) /\ NoNewNoreply(c)
    <2>1. InboxGrows(c)
      BY <1>2 DEF Receives, InboxGrows
    <2>2. inbox'[c][Len(inbox[c]) + 1][1] # "noreply"
      BY <1>2 DEF Receives
    <2>3. NoNewNoreply(c)
      BY <1>2, <2>2 DEF Receives, NoNewNoreply
    <2> QED
      BY <2>1, <2>3
  <1>3. ASSUME Replies, running[1] \in Clients, NEW c \in Clients
        PROVE  InboxGrows(c) /\ NoNewNoreply(c)
    <2>1. CASE c = running[1]
      <3>1. Receives(c, <<"reply", running[2]>>)
        BY <1>3, <2>1 DEF Replies
      <3> QED
        BY <1>2, <3>1
    <2>2. CASE c # running[1]
      BY <1>3, <2>2 DEF Replies, InboxGrows, NoNewNoreply
    <2> QED
      BY <2>1, <2>2
  <1>4. ASSUME NEW s \in {"finished", "error"}, Signals(s), NEW c \in Clients
        PROVE  InboxGrows(c) /\ NoNewNoreply(c)
    <2>1. Receives(c, <<s, 0>>)
      BY <1>4 DEF Signals
    <2> QED
      BY <1>2, <2>1
  <1>5. \A c \in Clients : Answers(c) => InboxGrows(c)
    BY DEF Answers, InboxGrows
  <1> QED
    BY <1>1, <1>3, <1>4, <1>5

LEMMA MessagesKept ==
    ASSUME MessagesInv, \A c \in Clients : DOMAIN jobs[c] \subseteq DOMAIN jobs'[c],
           \A c \in Clients : InboxGrows(c) /\ NoNewNoreply(c)
    PROVE  MessagesInv'
  BY DEF MessagesInv, InboxGrows, NoNewNoreply

LEMMA MessagesPreserved ==
    ASSUME TypeOK, CallsInv, MessagesInv, Step
    PROVE  MessagesInv'
  <1>0. /\ jobs \in [Clients -> Seq(JobType)] /\ inbox \in [Clients -> Seq(Messages)]
        /\ running # None => running[1] \in Clients
    BY RunningCall DEF TypeOK
  <1>a. SameShape => \A c \in Clients : DOMAIN jobs[c] \subseteq DOMAIN jobs'[c]
    BY DEF SameShape
  <1>1. ASSUME NEW c \in Clients, Starts(c)
        PROVE  MessagesInv'
    <2>1. PICK job \in JobType : NewJob(c, job)
      BY <1>1 DEF Starts
    <2>2. \A d \in Clients : DOMAIN jobs[d] \subseteq DOMAIN jobs'[d]
      BY <2>1 DEF NewJob
    <2>3. inbox' = inbox
      BY <1>1 DEF Starts
    <2> QED
      BY <2>2, <2>3, InboxSteps, MessagesKept
  <1>2. ASSUME NEW c \in Clients, DeliverEffect(c)
        PROVE  MessagesInv'
    <2>1. \A d \in Clients : DOMAIN jobs[d] = DOMAIN jobs'[d]
      BY <1>2 DEF DeliverEffect, SameShape
    <2>2. Takes(c)
      BY <1>2 DEF DeliverEffect
    <2>3. ASSUME NEW k \in DOMAIN inbox'[c], inbox'[c][k][1] = "noreply"
          PROVE  inbox'[c][k][2] \in DOMAIN jobs'[c]
      BY <2>1, <2>2, <2>3 DEF Takes, MessagesInv
    <2>4. ASSUME NEW d \in Clients \ {c}, NEW k \in DOMAIN inbox'[d], inbox'[d][k][1] = "noreply"
          PROVE  inbox'[d][k][2] \in DOMAIN jobs'[d]
      BY <2>1, <2>2, <2>4 DEF Takes, MessagesInv
    <2> QED
      BY <2>3, <2>4 DEF MessagesInv
  <1>a1. inbox' = inbox /\ jobs' = jobs => MessagesInv'
    BY InboxSteps, MessagesKept
  <1>3. CASE AcquiredCallback
    BY <1>3, <1>a1 DEF AcquiredCallback
  <1>4. CASE TakeCall
    BY <1>4, <1>a1 DEF TakeCall
  <1>5. CASE running # None /\ OpenTarget
    BY <1>5, <1>a1 DEF OpenTarget
  <1>13. CASE Mount
    BY <1>13, <1>a1 DEF Mount
  <1>6. CASE running # None /\ PreparedEffect
    <2>1. SameShape /\ (Replies \/ inbox' = inbox)
      BY <1>6 DEF PreparedEffect
    <2> QED
      BY <1>0, <1>a, <1>6, <2>1, InboxSteps, MessagesKept
  <1>7. CASE running # None /\ FailedEffect
    BY <1>a, <1>7, InboxSteps, MessagesKept DEF FailedEffect
  <1>8. CASE running # None /\ EmitFinishedEffect
    <2>1. SameShape /\ Signals("finished")
      BY <1>8 DEF EmitFinishedEffect
    <2> QED
      BY <1>a, <2>1, InboxSteps, MessagesKept
  <1>9. CASE running # None /\ AnswerLateEffect
    <2>1. SameShape /\ Replies
      BY <1>9 DEF AnswerLateEffect
    <2> QED
      BY <1>0, <1>a, <1>9, <2>1, InboxSteps, MessagesKept
  <1>10. CASE running # None /\ CompleteFailedEffect
    <2>1. SameShape /\ Replies
      BY <1>10 DEF CompleteFailedEffect
    <2> QED
      BY <1>0, <1>a, <1>10, <2>1, InboxSteps, MessagesKept
  <1>11. CASE running # None /\ EmitErrorEffect
    <2>1. jobs' = jobs /\ Signals("error")
      BY <1>11 DEF EmitErrorEffect
    <2> QED
      BY <2>1, InboxSteps, MessagesKept
  <1>12. CASE deaths < MaxDeaths /\ Gone
    <2>1. \A c \in Clients : DOMAIN jobs[c] \subseteq DOMAIN jobs'[c] /\ Answers(c)
      BY <1>0, <1>a, <1>12, GoneJobs, GoneInbox
    <2>2. ASSUME NEW c \in Clients, NEW k \in DOMAIN inbox'[c], inbox'[c][k][1] = "noreply"
          PROVE  inbox'[c][k][2] \in DOMAIN jobs'[c]
      <3>1. CASE k \in DOMAIN inbox[c]
        BY <2>1, <2>2, <3>1 DEF Answers, MessagesInv
      <3>2. CASE k \notin DOMAIN inbox[c]
        <4>1. inbox'[c][k] \in Unanswered(c)
          BY <2>1, <2>2, <3>2 DEF Answers
        <4>2. PICK n \in DOMAIN jobs[c] : inbox'[c][k] = <<"noreply", n>>
          BY <4>1 DEF Unanswered
        <4> QED
          BY <2>1, <4>2
      <3> QED
        BY <3>1, <3>2
    <2> QED
      BY <2>2 DEF MessagesInv
  <1> QED
    BY <1>1, <1>2, <1>3, <1>4, <1>5, <1>6, <1>7, <1>8, <1>9, <1>10, <1>11, <1>12, <1>13 DEF Step

-----------------------------------------------------------------------------
(* The newest job of a client, across a step that starts none.             *)
Answered(c) ==
    \/ Newest(c).replies > 0 \/ Newest(c).method = <<"any", "restore">>
    \/ \E k \in DOMAIN inbox[c] : inbox[c][k] = <<"noreply", Len(jobs[c])>>

LEMMA NewestJob ==
    ASSUME jobs \in [Clients -> Seq(JobType)], NEW c \in Clients, jobs[c] # <<>>
    PROVE  Len(jobs[c]) \in DOMAIN jobs[c] /\ Newest(c) = jobs[c][Len(jobs[c])]
  <1>1. jobs[c] \in Seq(JobType)
    OBVIOUS
  <1> QED
    BY <1>1 DEF Newest

LEMMA EmptyShape ==
    ASSUME jobs \in [Clients -> Seq(JobType)], SameShape, NEW c \in Clients
    PROVE  jobs'[c] = <<>> <=> jobs[c] = <<>>
  <1>1. jobs[c] \in Seq(JobType) /\ jobs'[c] \in Seq(JobType) /\ Len(jobs'[c]) = Len(jobs[c])
    BY DEF SameShape
  <1> HIDE DEF JobType
  <1> QED
    BY <1>1, EmptySeq

LEMMA NewestKept ==
    ASSUME jobs \in [Clients -> Seq(JobType)], SameShape, NEW c \in Clients
    PROVE  /\ jobs'[c] = <<>> <=> jobs[c] = <<>>
           /\ Len(jobs'[c]) = Len(jobs[c])
           /\ jobs[c] # <<>> =>
                 /\ Newest(c)'.method = Newest(c).method
                 /\ SameTold => Newest(c)'.told = Newest(c).told
                 /\ SameOutcome => Newest(c)'.outcome = Newest(c).outcome
                 /\ SameReplies => Newest(c)'.replies = Newest(c).replies
                 /\ \A x : RepliesGrow(x) =>
                       Newest(c)'.replies = IF <<c, Len(jobs[c])>> = x THEN Newest(c).replies + 1
                                            ELSE Newest(c).replies
                 /\ \A x, o : OutcomeBecomes(x, o) =>
                       Newest(c)'.outcome = IF <<c, Len(jobs[c])>> = x THEN o ELSE Newest(c).outcome
                 /\ \A x, s : ToldBecomes(x, s) =>
                       Newest(c)'.told = IF <<c, Len(jobs[c])>> = x THEN s ELSE Newest(c).told
           /\ SameTold => (Waiting(c)' <=> Waiting(c))
  <1>1. jobs'[c] = <<>> <=> jobs[c] = <<>>
    BY EmptyShape
  <1>2. Len(jobs'[c]) = Len(jobs[c])
    BY DEF SameShape
  <1>3. ASSUME jobs[c] # <<>>
        PROVE  /\ Newest(c)'.method = Newest(c).method
               /\ SameTold => Newest(c)'.told = Newest(c).told
               /\ SameOutcome => Newest(c)'.outcome = Newest(c).outcome
               /\ SameReplies => Newest(c)'.replies = Newest(c).replies
               /\ \A x : RepliesGrow(x) =>
                       Newest(c)'.replies = IF <<c, Len(jobs[c])>> = x THEN Newest(c).replies + 1
                                            ELSE Newest(c).replies
               /\ \A x, o : OutcomeBecomes(x, o) =>
                       Newest(c)'.outcome = IF <<c, Len(jobs[c])>> = x THEN o ELSE Newest(c).outcome
               /\ \A x, s : ToldBecomes(x, s) =>
                       Newest(c)'.told = IF <<c, Len(jobs[c])>> = x THEN s ELSE Newest(c).told
    <2> DEFINE b == Len(jobs[c])
    <2>1. b \in DOMAIN jobs[c] /\ Newest(c) = jobs[c][b] /\ Newest(c)' = jobs'[c][b]
      BY <1>2, <1>3, NewestJob DEF Newest
    <2> HIDE DEF b
    <2>2. /\ Newest(c)'.method = Newest(c).method
          /\ SameTold => Newest(c)'.told = Newest(c).told
          /\ SameOutcome => Newest(c)'.outcome = Newest(c).outcome
          /\ SameReplies => Newest(c)'.replies = Newest(c).replies
      BY <2>1 DEF SameShape, SameTold, SameOutcome, SameReplies
    <2>3. ASSUME NEW x, RepliesGrow(x)
          PROVE  Newest(c)'.replies = IF <<c, b>> = x THEN Newest(c).replies + 1 ELSE Newest(c).replies
      BY <2>1, <2>3 DEF RepliesGrow
    <2>4. ASSUME NEW x, NEW o, OutcomeBecomes(x, o)
          PROVE  Newest(c)'.outcome = IF <<c, b>> = x THEN o ELSE Newest(c).outcome
      BY <2>1, <2>4 DEF OutcomeBecomes
    <2>5. ASSUME NEW x, NEW s, ToldBecomes(x, s)
          PROVE  Newest(c)'.told = IF <<c, b>> = x THEN s ELSE Newest(c).told
      BY <2>1, <2>5 DEF ToldBecomes
    <2> QED
      BY <2>2, <2>3, <2>4, <2>5 DEF b
  <1>4. SameTold => (Waiting(c)' <=> Waiting(c))
    BY <1>1, <1>3 DEF Waiting
  <1> QED
    BY <1>1, <1>2, <1>3, <1>4

(* A step that only adds answers keeps them, if it settles what it takes   *)
(* out of the daemon.                                                      *)
LEMMA AnswerKept ==
    ASSUME jobs \in [Clients -> Seq(JobType)], AnswerInv, SameShape, SameTold,
           SameReplies \/ RepliesGrow(running),
           \A c \in Clients : InboxGrows(c),
           \A c \in Clients : Waiting(c) /\ InDaemon(c) => InDaemon(c)' \/ Answered(c)'
    PROVE  AnswerInv'
  <1> SUFFICES ASSUME NEW c \in Clients, Waiting(c)', ~InDaemon(c)'
               PROVE  Answered(c)'
    BY DEF AnswerInv, Answered
  <1>1. Waiting(c) /\ jobs[c] # <<>> /\ jobs'[c] # <<>>
    BY NewestKept DEF Waiting
  <1>2. CASE InDaemon(c)
    BY <1>1, <1>2
  <1>3. CASE ~InDaemon(c)
    <2>1. Answered(c)
      BY <1>1, <1>3 DEF AnswerInv, Answered
    <2>2. Len(jobs'[c]) = Len(jobs[c])
      BY DEF SameShape
    <2>3. CASE Newest(c).method = <<"any", "restore">>
      BY <1>1, <2>3, NewestKept DEF Answered
    <2>4. CASE \E k \in DOMAIN inbox[c] : inbox[c][k] = <<"noreply", Len(jobs[c])>>
      BY <2>2, <2>4 DEF InboxGrows, Answered
    <2>5. CASE Newest(c).replies > 0
      <3>1. Newest(c).replies \in Nat
        BY <1>1, NewestJob, JobFacts
      <3>2. Newest(c)'.replies = Newest(c).replies \/ Newest(c)'.replies = Newest(c).replies + 1
        BY <1>1, NewestKept
      <3>3. Newest(c)'.replies > 0
        BY <2>5, <3>1, <3>2
      <3> QED
        BY <3>3 DEF Answered
    <2> QED
      BY <2>1, <2>3, <2>4, <2>5 DEF Answered
  <1> QED
    BY <1>2, <1>3

(* The calls that the daemon still has.                                    *)
LEMMA OpenSteps ==
    ASSUME TypeOK, CallsInv, \A c \in Clients : Len(jobs'[c]) = Len(jobs[c])
    PROVE  /\ calls' = calls /\ running' = running =>
                 Open' = Open /\ \A c \in Clients : InDaemon(c)' <=> InDaemon(c)
           /\ calls' = calls /\ running # None /\ running' = None =>
                 /\ running \notin Open' /\ Open = Open' \cup {running}
                 /\ \A c \in Clients : InDaemon(c) <=> InDaemon(c)' \/ running = <<c, Len(jobs[c])>>
           /\ TakeCall => Open' = Open /\ \A c \in Clients : InDaemon(c)' <=> InDaemon(c)
  <1>1. ASSUME calls' = calls, running' = running
        PROVE  Open' = Open /\ \A c \in Clients : InDaemon(c)' <=> InDaemon(c)
    BY <1>1 DEF Open, InDaemon
  <1>2. ASSUME calls' = calls, running # None, running' = None
        PROVE  /\ running \notin Open' /\ Open = Open' \cup {running}
               /\ \A c \in Clients : InDaemon(c) <=> InDaemon(c)' \/ running = <<c, Len(jobs[c])>>
    <2>1. Open' = {calls[k] : k \in DOMAIN calls} /\ Open = {calls[k] : k \in DOMAIN calls} \cup {running}
      BY <1>2 DEF Open
    <2>2. running \notin {calls[k] : k \in DOMAIN calls}
      BY DEF CallsInv
    <2> QED
      BY <2>1, <2>2 DEF InDaemon
  <1>3. ASSUME TakeCall
        PROVE  Open' = Open /\ \A c \in Clients : InDaemon(c)' <=> InDaemon(c)
    <2>1. /\ calls # <<>> /\ running' = Head(calls) /\ calls' = Tail(calls) /\ running = None
      BY <1>3 DEF TakeCall, CallsInv
    <2>2. calls \in Seq(Clients \X Nat)
      BY DEF TypeOK
    <2>3. Len(calls) \in Nat /\ Len(calls) > 0 /\ DOMAIN calls = 1 .. Len(calls)
      BY <2>1, <2>2
    <2>4. 1 \in DOMAIN calls /\ running' = calls[1] /\ calls[1] \in Clients \X Nat
      BY <2>1, <2>2, <2>3
    <2>5. calls' \in Seq(Clients \X Nat) /\ Len(calls') = Len(calls) - 1
      BY <2>1, <2>2
    <2>6. \A k \in DOMAIN calls' : k + 1 \in DOMAIN calls /\ calls'[k] = calls[k + 1]
      BY <2>1, <2>2, <2>3, <2>5
    <2>7. \A k \in DOMAIN calls : k # 1 => k - 1 \in DOMAIN calls' /\ (k - 1) + 1 = k
      BY <2>3, <2>5
    <2>8. running' # None
      BY <2>4 DEF None
    <2>9. Open = {calls[k] : k \in DOMAIN calls} /\ Open' = {calls'[k] : k \in DOMAIN calls'} \cup {running'}
      BY <2>1, <2>8 DEF Open
    <2>10. Open' \subseteq Open
      BY <2>4, <2>6, <2>9
    <2>11. ASSUME NEW k \in DOMAIN calls
           PROVE  calls[k] \in Open'
      <3>1. CASE k = 1
        BY <2>4, <2>9, <3>1
      <3>2. CASE k # 1
        <4>1. k - 1 \in DOMAIN calls' /\ calls'[k - 1] = calls[k]
          BY <2>6, <2>7, <3>2
        <4> QED
          BY <2>9, <4>1
      <3> QED
        BY <3>1, <3>2
    <2>12. Open' = Open
      BY <2>9, <2>10, <2>11
    <2> QED
      BY <2>12 DEF InDaemon
  <1> QED
    BY <1>1, <1>2, <1>3

LEMMA OpenStarts ==
    ASSUME TypeOK, NEW c \in Clients, NEW n, running' = running
    PROVE  /\ calls' = Append(calls, <<c, n>>) => Open' = Open \cup {<<c, n>>}
           /\ calls' = calls => Open' = Open
  <1>1. calls \in Seq(Clients \X Nat)
    BY DEF TypeOK
  <1>2. ASSUME calls' = Append(calls, <<c, n>>)
        PROVE  Open' = Open \cup {<<c, n>>}
    <2> DEFINE L == Len(calls) + 1
    <2>1. /\ DOMAIN calls' = DOMAIN calls \cup {L} /\ L \notin DOMAIN calls
          /\ \A k \in DOMAIN calls : calls'[k] = calls[k]
          /\ calls'[L] = <<c, n>>
      BY <1>1, <1>2
    <2> HIDE DEF L
    <2> QED
      BY <2>1 DEF Open
  <1> QED
    BY <1>2 DEF Open

LEMMA AnswerPreserved ==
    ASSUME TypeOK, CallsInv, AnswerInv, Step
    PROVE  AnswerInv'
  <1>0. /\ jobs \in [Clients -> Seq(JobType)] /\ inbox \in [Clients -> Seq(Messages)]
        /\ running # None => /\ running[1] \in Clients /\ running[2] \in DOMAIN jobs[running[1]]
                             /\ running = <<running[1], running[2]>>
                             /\ Job(running) = jobs[running[1]][running[2]]
    BY RunningCall DEF TypeOK
  <1>a. SameShape => \A c \in Clients : Len(jobs'[c]) = Len(jobs[c])
    BY DEF SameShape
  <1>b. /\ inbox' = inbox => \A c \in Clients : InboxGrows(c)
        /\ Replies /\ running # None => \A c \in Clients : InboxGrows(c)
        /\ Signals("finished") \/ Signals("error") => \A c \in Clients : InboxGrows(c)
    BY <1>0, InboxSteps
  <1>c. (\A c \in Clients : InDaemon(c)' <=> InDaemon(c)) =>
            \A c \in Clients : Waiting(c) /\ InDaemon(c) => InDaemon(c)' \/ Answered(c)'
    OBVIOUS
  <1>2. ASSUME NEW c \in Clients, DeliverEffect(c)
        PROVE  AnswerInv'
    <2>1. /\ SameShape /\ SameReplies /\ Takes(c) /\ calls' = calls /\ running' = running
      BY <1>0, <1>2, UnchangedEffect DEF DeliverEffect, Stays
    <2>2. \A d \in Clients : InDaemon(d)' <=> InDaemon(d)
      BY <1>a, <2>1, OpenSteps
    <2>3. ASSUME NEW d \in Clients, Waiting(d)'
          PROVE  /\ Waiting(d) /\ jobs[d] # <<>>
                 /\ d = c => ~Reports(c, 1)
      <3>1. CASE jobs' = jobs /\ (~Reports(c, 1) \/ ~Waiting(c))
        BY <2>3, <3>1 DEF Waiting, Newest
      <3>2. CASE ToldBecomes(<<c, Len(jobs[c])>>, IF inbox[c][1][1] = "finished" THEN "finished" ELSE "error")
        <4>1. jobs[d] # <<>> /\ Newest(d)'.told = "nothing"
          BY <1>0, <2>1, <2>3, NewestKept DEF Waiting
        <4>2. d # c
          BY <1>0, <2>1, <3>2, <4>1, NewestKept
        <4>3. Newest(d)'.told = Newest(d).told
          BY <1>0, <2>1, <3>2, <4>1, <4>2, NewestKept
        <4> QED
          BY <4>1, <4>2, <4>3 DEF Waiting
      <3> QED
        BY <1>2, <3>1, <3>2 DEF DeliverEffect
    <2>4. ASSUME NEW d \in Clients, Waiting(d)', ~InDaemon(d)'
          PROVE  Answered(d)'
      <3>1. Answered(d) /\ jobs[d] # <<>>
        BY <2>2, <2>3, <2>4 DEF AnswerInv, Answered
      <3>2. Len(jobs'[d]) = Len(jobs[d]) /\ Newest(d)'.method = Newest(d).method
            /\ Newest(d)'.replies = Newest(d).replies
        BY <1>0, <2>1, <3>1, NewestKept
      <3>3. CASE Newest(d).replies > 0 \/ Newest(d).method = <<"any", "restore">>
        BY <3>2, <3>3 DEF Answered
      <3>4. ASSUME NEW k \in DOMAIN inbox[d], inbox[d][k] = <<"noreply", Len(jobs[d])>>
            PROVE  Answered(d)'
        <4>1. CASE d # c
          BY <2>1, <3>2, <3>4, <4>1 DEF Takes, Answered
        <4>2. CASE d = c /\ k = 1
          <5>1. ~Reports(c, 1)
            BY <2>3, <2>4, <4>2
          <5>2. inbox[c][1][1] = "noreply" /\ inbox[c][1][2] = Len(jobs[c])
            BY <3>4, <4>2
          <5>3. Newest(c).method = <<"any", "restore">>
            BY <5>1, <5>2 DEF Reports, CallbackReports, Newest
          <5> QED
            BY <3>2, <4>2, <5>3 DEF Answered
        <4>3. CASE d = c /\ k # 1
          <5>1. k \in Nat /\ k > 1
            BY <1>0, <3>4, <4>3
          <5>2. k - 1 \in DOMAIN inbox'[c]
            BY <2>1, <3>4, <4>3, <5>1 DEF Takes
          <5>3. inbox'[c][k - 1] = inbox[c][(k - 1) + 1] /\ (k - 1) + 1 = k
            BY <2>1, <5>1, <5>2 DEF Takes
          <5> QED
            BY <3>2, <3>4, <4>3, <5>2, <5>3 DEF Answered
        <4> QED
          BY <4>1, <4>2, <4>3
      <3> QED
        BY <3>1, <3>3, <3>4 DEF Answered
    <2> QED
      BY <2>4 DEF AnswerInv, Answered
  <1>d. ASSUME SameShape, SameTold, SameReplies \/ RepliesGrow(running),
               \A c \in Clients : InboxGrows(c), calls' = calls, running' = running
        PROVE  AnswerInv'
    BY <1>0, <1>a, <1>c, <1>d, OpenSteps, AnswerKept
  <1>e. jobs' = jobs => SameShape /\ SameTold /\ SameReplies
    BY <1>0, UnchangedEffect
  <1>3. CASE AcquiredCallback
    BY <1>b, <1>d, <1>e, <1>3 DEF AcquiredCallback
  <1>4. CASE TakeCall
    <2>1. inbox' = inbox /\ jobs' = jobs
      BY <1>4 DEF TakeCall
    <2> QED
      BY <1>0, <1>a, <1>b, <1>c, <1>e, <1>4, <2>1, OpenSteps, AnswerKept
  <1>5. CASE running # None /\ OpenTarget
    BY <1>b, <1>d, <1>e, <1>5 DEF OpenTarget
  <1>6. CASE running # None /\ PreparedEffect
    BY <1>b, <1>d, <1>6 DEF PreparedEffect, Stays
  <1>7. CASE running # None /\ FailedEffect
    BY <1>b, <1>d, <1>7 DEF FailedEffect, Stays
  <1>10. CASE running # None /\ CompleteFailedEffect
    BY <1>b, <1>d, <1>10 DEF CompleteFailedEffect, Stays
  <1>13. CASE Mount
    BY <1>b, <1>d, <1>e, <1>13 DEF Mount
  <1>f. ASSUME SameShape, SameTold, SameReplies \/ RepliesGrow(running),
               \A c \in Clients : InboxGrows(c), calls' = calls, running # None, running' = None,
               \A c \in Clients : jobs[c] # <<>> /\ running = <<c, Len(jobs[c])>> => Newest(c)'.replies > 0
        PROVE  AnswerInv'
    <2>1. \A c \in Clients : InDaemon(c) => InDaemon(c)' \/ running = <<c, Len(jobs[c])>>
      BY <1>a, <1>f, OpenSteps
    <2>2. \A c \in Clients : Waiting(c) /\ InDaemon(c) => InDaemon(c)' \/ Answered(c)'
      BY <1>f, <2>1 DEF Waiting, Answered
    <2> QED
      BY <1>0, <1>f, <2>2, AnswerKept
  <1>8. CASE running # None /\ EmitFinishedEffect
    <2>1. /\ SameShape /\ SameTold /\ SameReplies /\ calls' = calls /\ phase = "copy"
          /\ \A c \in Clients : InboxGrows(c)
      BY <1>b, <1>8 DEF EmitFinishedEffect, Stays
    <2>2. CASE running' = running
      BY <1>d, <2>1, <2>2
    <2>3. CASE RepliesFirst(Job(running).method) /\ running' = None
      <3>1. Job(running).replies = 1
        BY <1>8, <2>1, <2>3 DEF CallsInv
      <3>2. ASSUME NEW c \in Clients, jobs[c] # <<>>, running = <<c, Len(jobs[c])>>
            PROVE  Newest(c)'.replies > 0
        <4>1. Job(running) = Newest(c)
          BY <3>2 DEF Job, Newest
        <4> QED
          BY <1>0, <2>1, <3>1, <3>2, <4>1, NewestKept
      <3> QED
        BY <1>f, <1>8, <2>1, <2>3, <3>2
    <2> QED
      BY <1>8, <2>2, <2>3 DEF EmitFinishedEffect
  <1>9. CASE running # None /\ AnswerLateEffect
    <2>1. /\ SameShape /\ SameTold /\ RepliesGrow(running) /\ calls' = calls /\ running' = None
          /\ \A c \in Clients : InboxGrows(c)
      BY <1>b, <1>9 DEF AnswerLateEffect, Stays
    <2>2. ASSUME NEW c \in Clients, jobs[c] # <<>>, running = <<c, Len(jobs[c])>>
          PROVE  Newest(c)'.replies > 0
      <3>1. Newest(c)'.replies = Newest(c).replies + 1
        BY <1>0, <2>1, <2>2, NewestKept
      <3>2. Newest(c).replies \in Nat
        BY <1>0, <2>2, NewestJob, JobFacts
      <3> QED
        BY <3>1, <3>2
    <2> QED
      BY <1>f, <1>9, <2>1, <2>2
  <1>11. CASE running # None /\ EmitErrorEffect
    <2>1. /\ SameShape /\ SameTold /\ SameReplies /\ calls' = calls /\ running' = None
          /\ \A c \in Clients : InboxGrows(c)
      BY <1>b, <1>e, <1>11 DEF EmitErrorEffect, Stays
    <2>2. Job(running).replies > 0
      BY <1>11 DEF CallsInv, EmitErrorEffect
    <2>3. ASSUME NEW c \in Clients, jobs[c] # <<>>, running = <<c, Len(jobs[c])>>
          PROVE  Newest(c)'.replies > 0
      <3>1. Job(running) = Newest(c)
        BY <2>3 DEF Job, Newest
      <3> QED
        BY <1>0, <2>1, <2>2, <2>3, <3>1, NewestKept
    <2> QED
      BY <1>f, <1>11, <2>1, <2>3
  <1>12. CASE deaths < MaxDeaths /\ Gone
    <2>1. SameShape /\ SameTold /\ SameReplies
      BY <1>0, <1>12, GoneJobs
    <2>2. \A c \in Clients : Answers(c)
      BY <1>0, <1>12, GoneInbox
    <2>3. \A c \in Clients : InboxGrows(c)
      BY <2>2, InboxSteps
    <2>4. ASSUME NEW c \in Clients, Waiting(c), InDaemon(c)
          PROVE  Answered(c)'
      <3>1. jobs[c] # <<>> /\ Len(jobs[c]) \in DOMAIN jobs[c] /\ Newest(c) = jobs[c][Len(jobs[c])]
        BY <1>0, <2>4, NewestJob DEF Waiting
      <3>2. Newest(c)'.replies = Newest(c).replies /\ Len(jobs'[c]) = Len(jobs[c]) /\ Newest(c).replies \in Nat
        BY <1>0, <2>1, <3>1, NewestKept, JobFacts
      <3>3. CASE Newest(c).replies > 0
        BY <3>2, <3>3 DEF Answered
      <3>4. CASE Newest(c).replies = 0
        <4>1. <<"noreply", Len(jobs[c])>> \in Unanswered(c)
          BY <2>4, <3>1, <3>4 DEF Unanswered, InDaemon
        <4>2. \E k \in DOMAIN inbox'[c] : inbox'[c][k] = <<"noreply", Len(jobs[c])>>
          BY <2>2, <4>1 DEF Answers
        <4> QED
          BY <3>2, <4>2 DEF Answered
      <3> QED
        BY <3>2, <3>3, <3>4
    <2> QED
      BY <1>0, <2>1, <2>3, <2>4, AnswerKept
  <1>1. ASSUME NEW c \in Clients, Starts(c)
        PROVE  AnswerInv'
    <2> DEFINE n == Len(jobs[c]) + 1
    <2>1. PICK job \in JobType :
             /\ NewJob(c, job) /\ job.replies = 0
             /\ \/ job.told = "nothing" /\ calls' = Append(calls, <<c, n>>)
                \/ job.told = "error" /\ calls' = calls
      BY <1>1 DEF Starts
    <2>2. running' = running /\ inbox' = inbox
      BY <1>1 DEF Starts
    <2>3. Len(jobs'[c]) = n /\ Newest(c)' = job
      BY <2>1 DEF NewJob, Newest
    <2> HIDE DEF n
    <2>4. Open \subseteq Open' /\ (job.told = "nothing" => <<c, n>> \in Open')
      BY <2>1, <2>2, OpenStarts
    <2>5. Waiting(c)' => InDaemon(c)'
      BY <2>3, <2>4 DEF Waiting, InDaemon
    <2>6. ASSUME NEW d \in Clients \ {c}, Waiting(d)', ~InDaemon(d)'
          PROVE  Answered(d)'
      <3>1. jobs'[d] = jobs[d]
        BY <2>1 DEF NewJob
      <3>2. Waiting(d) /\ ~InDaemon(d)
        BY <2>4, <2>6, <3>1 DEF Waiting, Newest, InDaemon
      <3>3. Answered(d)
        BY <3>2 DEF AnswerInv, Answered
      <3> QED
        BY <2>2, <3>1, <3>3 DEF Answered, Newest
    <2> QED
      BY <2>5, <2>6 DEF AnswerInv, Answered
  <1> QED
    BY <1>1, <1>2, <1>3, <1>4, <1>5, <1>6, <1>7, <1>8, <1>9, <1>10, <1>11, <1>12, <1>13 DEF Step

(* The answer is there before silence can be heard.                        *)
LEMMA AnswersBreakSilence ==
    AnswerInv => SilenceOnlyAfterReply
  <1> SUFFICES ASSUME AnswerInv, NEW c \in Clients, Waiting(c), inbox[c] = <<>>, ~InDaemon(c)
               PROVE  Newest(c).replies > 0 \/ Newest(c).method = <<"any", "restore">>
    BY DEF SilenceOnlyAfterReply
  <1>1. DOMAIN inbox[c] = {}
    OBVIOUS
  <1> QED
    BY <1>1 DEF AnswerInv

-----------------------------------------------------------------------------
(* A lone application.                                                     *)
LoneTrue(c) ==
    /\ jobs[c] = <<>> => inbox[c] = <<>>
    /\ jobs[c] # <<>> /\ ~Disturbed(c, Len(jobs[c])) =>
          InDaemonInv(c) /\ \A k \in DOMAIN inbox[c] : Reports(c, k) => ReportTrue(c, k)

Unreported(c) == \A k \in DOMAIN inbox[c] : ~Reports(c, k)

LEMMA LoneShape ==
    ASSUME jobs \in [Clients -> Seq(JobType)], SameShape, NEW c \in Clients
    PROVE  Lone(c)' <=> Lone(c)
  BY EmptyShape DEF Lone

LEMMA DisturbedShape ==
    ASSUME TypeOK, SameShape, NEW c \in Clients, deaths' \in {deaths, deaths + 1},
           ~Disturbed(c, Len(jobs[c]))'
    PROVE  ~Disturbed(c, Len(jobs[c]))
  <1>1. /\ jobs[c] \in Seq(JobType) /\ deaths \in Nat /\ (deaths > 0 => deaths' > 0)
        /\ Len(jobs'[c]) = Len(jobs[c])
    BY BoundsAssumption DEF TypeOK, SameShape
  <1>2. \A m \in 1 .. Len(jobs[c]) - 1 : m \in DOMAIN jobs[c] /\ jobs'[c][m].method = jobs[c][m].method
    BY <1>1 DEF SameShape
  <1> QED
    BY <1>1, <1>2 DEF Disturbed

(* All calls in the daemon are those of a lone application.                *)
LEMMA LoneCalls ==
    ASSUME TypeOK, CallsInv, NEW c \in Clients, Lone(c)
    PROVE  /\ \A x \in Open : x \in Clients \X Nat /\ x = <<c, x[2]>> /\ x[2] \in DOMAIN jobs[c]
           /\ jobs[c] = <<>> => running = None /\ Open = {}
  <1>1. ASSUME NEW x \in Open
        PROVE  x \in Clients \X Nat /\ IsCall(x)
    BY RunningCall DEF Open, CallsInv, TypeOK, AnyCall, IsCall
  <1>2. ASSUME NEW x \in Open
        PROVE  x \in Clients \X Nat /\ x = <<c, x[2]>> /\ x[2] \in DOMAIN jobs[c]
    <2>1. x \in Clients \X Nat /\ x[1] \in Clients /\ x[2] \in DOMAIN jobs[x[1]]
      BY <1>1 DEF IsCall
    <2>2. jobs[x[1]] # <<>>
      BY <2>1
    <2>3. x[1] = c
      BY <2>1, <2>2 DEF Lone
    <2> QED
      BY <2>1, <2>3
  <1>3. jobs[c] = <<>> => Open = {}
    BY <1>2
  <1>4. running # None => running \in Open
    BY DEF Open
  <1> QED
    BY <1>2, <1>3, <1>4

(* A message means the same after a step.                                  *)
LEMMA ReportsKept ==
    ASSUME MessagesInv, NEW c \in Clients,
           \A n \in DOMAIN jobs[c] : jobs'[c][n].method = jobs[c][n].method,
           NEW k \in DOMAIN inbox[c], NEW j, inbox'[c][j] = inbox[c][k]
    PROVE  Reports(c, j)' <=> Reports(c, k)
  <1>1. inbox[c][k][1] = "noreply" => inbox[c][k][2] \in DOMAIN jobs[c]
    BY DEF MessagesInv
  <1>2. inbox[c][k][1] = "noreply" =>
           jobs'[c][inbox'[c][j][2]].method = jobs[c][inbox[c][k][2]].method
    BY <1>1
  <1> QED
    BY <1>2 DEF Reports, CallbackReports

LEMMA GrownReports ==
    ASSUME MessagesInv, NEW c \in Clients, SameShape, InboxGrows(c)
    PROVE  \A k \in DOMAIN inbox[c] : Reports(c, k)' <=> Reports(c, k)
  BY ReportsKept DEF InboxGrows, SameShape

(* A true report stays true while its job keeps its outcome.               *)
LEMMA ReportTrueKept ==
    ASSUME TypeOK, MessagesInv, NEW c \in Clients, jobs[c] # <<>>, SameShape, SameTold,
           Newest(c)'.outcome = Newest(c).outcome, deaths' = deaths, InboxGrows(c),
           NEW k \in DOMAIN inbox[c], ReportTrue(c, k)
    PROVE  ReportTrue(c, k)'
  <1>0. jobs \in [Clients -> Seq(JobType)] /\ inbox[c] \in Seq(Messages)
    BY DEF TypeOK
  <1>1. k \in Nat /\ \A j \in 1 .. k - 1 : j \in DOMAIN inbox[c]
    BY <1>0
  <1>2. \A j \in 1 .. k - 1 : inbox'[c][j] = inbox[c][j] /\ (Reports(c, j)' <=> Reports(c, j))
    BY <1>1, GrownReports DEF InboxGrows
  <1>3. (LateLost(c)' <=> LateLost(c)) /\ (Waiting(c)' <=> Waiting(c))
    BY <1>0, NewestKept DEF LateLost
  <1>4. inbox'[c][k] = inbox[c][k] /\ Len(jobs'[c]) = Len(jobs[c])
    BY DEF InboxGrows, SameShape
  <1> QED
    BY <1>2, <1>3, <1>4 DEF ReportTrue

(* A step that says nothing new to the application.                        *)
LEMMA LoneQuiet ==
    ASSUME TypeOK, CallsInv, MessagesInv, NEW c \in Clients, Lone(c), LoneTrue(c), jobs[c] # <<>>,
           SameShape, SameTold, SameOutcome, deaths' = deaths,
           InboxGrows(c), \A k \in DOMAIN inbox'[c] : Reports(c, k)' => k \in DOMAIN inbox[c],
           Open' \subseteq Open, \A k \in DOMAIN calls' : calls'[k] \in Open /\ calls'[k] # running,
           running' # None => running' \in Open,
           phase = "answer" => running' = None /\ running \notin Open',
           phase' # "answer"
    PROVE  LoneTrue(c)'
  <1>0. jobs \in [Clients -> Seq(JobType)] /\ inbox[c] \in Seq(Messages)
    BY DEF TypeOK
  <1> DEFINE b == Len(jobs[c])
  <1>1. Len(jobs'[c]) = b /\ jobs'[c] # <<>> /\ (Waiting(c)' <=> Waiting(c))
    BY <1>0, NewestKept
  <1>2. Newest(c)'.outcome = Newest(c).outcome
    BY <1>0, NewestKept
  <1>3. SUFFICES ASSUME ~Disturbed(c, b)'
                 PROVE  InDaemonInv(c)' /\ \A k \in DOMAIN inbox'[c] : Reports(c, k)' => ReportTrue(c, k)'
    BY <1>1 DEF LoneTrue, Disturbed
  <1>4. ~Disturbed(c, b)
    BY <1>3, DisturbedShape
  <1>5. InDaemonInv(c) /\ \A k \in DOMAIN inbox[c] : Reports(c, k) => ReportTrue(c, k)
    BY <1>4 DEF LoneTrue
  <1>6. ASSUME NEW k \in DOMAIN inbox'[c], Reports(c, k)'
        PROVE  ReportTrue(c, k)'
    <2>1. k \in DOMAIN inbox[c] /\ Reports(c, k)
      BY <1>6, GrownReports
    <2>2. ReportTrue(c, k)
      BY <1>5, <2>1
    <2> QED
      BY <1>2, <2>1, <2>2, ReportTrueKept
  <1>7. \A k \in DOMAIN calls' : calls'[k] = <<c, b>>
    <2>1. \A x \in Open : x # running => x = <<c, b>>
      BY <1>5 DEF InDaemonInv, Open
    <2> QED
      BY <2>1
  <1>8. phase # "answer" => \A x \in Open : x = <<c, b>>
    BY <1>5 DEF InDaemonInv, Open
  <1>9. running' # None => running' = <<c, b>>
    BY <1>8
  <1>10. ASSUME <<c, b>> \in Open'
         PROVE  Waiting(c)' /\ \A k \in DOMAIN inbox'[c] : ~Reports(c, k)'
    <2>1. InDaemon(c) /\ (running = None \/ running # <<c, b>> \/ phase # "answer")
      BY <1>10 DEF InDaemon
    <2>2. Waiting(c) /\ \A k \in DOMAIN inbox[c] : ~Reports(c, k)
      BY <1>5, <2>1 DEF InDaemonInv
    <2> QED
      BY <1>1, <2>2, GrownReports
  <1>11. InDaemonInv(c)'
    BY <1>1, <1>7, <1>9, <1>10 DEF InDaemonInv, InDaemon
  <1> QED
    BY <1>6, <1>11

(* While the handler of a lone application has nothing said yet, the job   *)
(* is its newest one, and nothing has been reported.                       *)
LEMMA LoneRunning ==
    ASSUME TypeOK, CallsInv, NEW c \in Clients, Lone(c), LoneTrue(c), jobs[c] # <<>>,
           ~Disturbed(c, Len(jobs[c])), running # None, phase # "answer"
    PROVE  /\ running = <<c, Len(jobs[c])>> /\ Job(running) = Newest(c)
           /\ calls = <<>>
           /\ Waiting(c) /\ Unreported(c)
  <1>1. InDaemonInv(c)
    BY DEF LoneTrue
  <1>2. running = <<c, Len(jobs[c])>>
    BY <1>1 DEF InDaemonInv
  <1>3. \A k \in DOMAIN calls : calls[k] = running /\ calls[k] # running
    BY <1>1, <1>2 DEF InDaemonInv, CallsInv
  <1>4. calls = <<>>
    <2>1. calls \in Seq(Clients \X Nat) /\ ~(1 \in DOMAIN calls)
      BY <1>3 DEF TypeOK
    <2> QED
      BY <2>1
  <1>5. InDaemon(c)
    BY <1>2 DEF InDaemon, Open
  <1>6. Waiting(c) /\ Unreported(c)
    BY <1>1, <1>5 DEF InDaemonInv, Unreported
  <1> QED
    BY <1>2, <1>4, <1>6 DEF Job, Newest

LEMMA LoneFailed ==
    ASSUME TypeOK, CallsInv, MessagesInv, NEW c \in Clients, Lone(c), LoneTrue(c), jobs[c] # <<>>,
           running # None, FailedEffect
    PROVE  LoneTrue(c)'
  <1>0. jobs \in [Clients -> Seq(JobType)] /\ inbox[c] \in Seq(Messages)
    BY DEF TypeOK
  <1> DEFINE b == Len(jobs[c])
  <1>1. /\ SameShape /\ SameTold /\ inbox' = inbox /\ calls' = calls /\ running' = running
        /\ deaths' = deaths /\ phase # "answer" /\ phase' # "answer"
    BY DEF FailedEffect, Stays
  <1>2. Len(jobs'[c]) = b /\ jobs'[c] # <<>> /\ (Waiting(c)' <=> Waiting(c))
    BY <1>0, <1>1, NewestKept
  <1>3. SUFFICES ASSUME ~Disturbed(c, b)'
                 PROVE  InDaemonInv(c)' /\ \A k \in DOMAIN inbox'[c] : Reports(c, k)' => ReportTrue(c, k)'
    BY <1>2 DEF LoneTrue, Disturbed
  <1>4. ~Disturbed(c, b)
    BY <1>1, <1>3, DisturbedShape
  <1>5. running = <<c, b>> /\ calls = <<>> /\ Waiting(c) /\ Unreported(c)
    BY <1>1, <1>4, LoneRunning
  <1>6. \A k \in DOMAIN inbox'[c] : ~Reports(c, k)'
    <2>1. InboxGrows(c)
      BY <1>1, InboxSteps
    <2> QED
      BY <1>1, <1>5, <2>1, GrownReports DEF Unreported
  <1>7. InDaemonInv(c)'
    BY <1>1, <1>2, <1>5, <1>6 DEF InDaemonInv
  <1> QED
    BY <1>6, <1>7

(* The last signal of a handler, the first report on its job.              *)
LEMMA LoneSignal ==
    ASSUME TypeOK, CallsInv, MessagesInv, NEW c \in Clients, Lone(c), LoneTrue(c), jobs[c] # <<>>,
           running # None, phase # "answer",
           SameShape, SameTold, NEW s \in {"finished", "error"}, Signals(s),
           calls' = calls, deaths' = deaths,
           running = <<c, Len(jobs[c])>> =>
              Newest(c)'.outcome = IF s = "finished" THEN "finished" ELSE "failed",
           \/ running' = None /\ phase' = "idle"
           \/ s = "finished" /\ running' = running /\ phase' = "answer"
    PROVE  LoneTrue(c)'
  <1>0. jobs \in [Clients -> Seq(JobType)] /\ inbox[c] \in Seq(Messages)
    BY DEF TypeOK
  <1> DEFINE b == Len(jobs[c])
  <1> DEFINE e == Len(inbox[c]) + 1
  <1>1. Len(jobs'[c]) = b /\ jobs'[c] # <<>> /\ (Waiting(c)' <=> Waiting(c))
    BY <1>0, NewestKept
  <1>2. SUFFICES ASSUME ~Disturbed(c, b)'
                 PROVE  InDaemonInv(c)' /\ \A k \in DOMAIN inbox'[c] : Reports(c, k)' => ReportTrue(c, k)'
    BY <1>1 DEF LoneTrue, Disturbed
  <1>3. ~Disturbed(c, b)
    BY <1>2, DisturbedShape
  <1>4. running = <<c, b>> /\ calls = <<>> /\ Waiting(c) /\ Unreported(c)
    BY <1>3, LoneRunning
  <1>5. /\ DOMAIN inbox'[c] = DOMAIN inbox[c] \cup {e} /\ inbox'[c][e] = <<s, 0>>
        /\ InboxGrows(c)
    BY InboxSteps DEF Signals, Receives
  <1>6. \A k \in DOMAIN inbox[c] : ~Reports(c, k)'
    BY <1>4, <1>5, GrownReports DEF Unreported
  <1>7. DOMAIN inbox[c] = 1 .. e - 1 /\ e \in Nat
    BY <1>0
  <1> HIDE DEF e
  <1>8. ASSUME NEW k, k = e
        PROVE  ReportTrue(c, k)'
    <2>1. \A j \in 1 .. k - 1 : ~Reports(c, j)'
      BY <1>6, <1>7, <1>8
    <2>2. inbox'[c][k][1] = s
      BY <1>5, <1>8
    <2>3. Waiting(c)' /\ Newest(c)'.outcome = IF s = "finished" THEN "finished" ELSE "failed"
      BY <1>1, <1>4
    <2> QED
      BY <2>1, <2>2, <2>3 DEF ReportTrue
  <1>9. ASSUME running' = None
        PROVE  InDaemonInv(c)'
    <2>1. ~InDaemon(c)'
      BY <1>4, <1>9 DEF InDaemon, Open
    <2> QED
      BY <1>4, <1>9, <2>1 DEF InDaemonInv, None
  <1>10. ASSUME s = "finished", running' = running, phase' = "answer"
         PROVE  InDaemonInv(c)'
    <2>1. inbox'[c][e][1] = "finished"
      BY <1>5, <1>10
    <2>2. \A k \in DOMAIN inbox'[c] : inbox'[c][k][1] # "noreply" \/ ~Reports(c, k)'
      BY <1>5, <1>6, <2>1
    <2> QED
      BY <1>1, <1>4, <1>5, <1>10, <2>1, <2>2 DEF InDaemonInv
  <1> QED
    BY <1>5, <1>6, <1>8, <1>9, <1>10

(* The application takes its next message: the rest moves up.              *)
LEMMA LoneDeliver ==
    ASSUME TypeOK, CallsInv, MessagesInv, NEW c \in Clients, Lone(c), LoneTrue(c), jobs[c] # <<>>,
           DeliverEffect(c)
    PROVE  LoneTrue(c)'
  <1>0. jobs \in [Clients -> Seq(JobType)] /\ inbox[c] \in Seq(Messages)
    BY DEF TypeOK
  <1> DEFINE b == Len(jobs[c])
  <1>1. /\ SameShape /\ SameOutcome /\ SameReplies /\ Takes(c)
        /\ calls' = calls /\ running' = running /\ phase' = phase /\ deaths' = deaths
    BY <1>0, UnchangedEffect DEF DeliverEffect, Stays
  <1>2. Len(jobs'[c]) = b /\ jobs'[c] # <<>> /\ Newest(c)'.outcome = Newest(c).outcome
        /\ Newest(c)'.method = Newest(c).method
    BY <1>0, <1>1, NewestKept
  <1>3. Waiting(c)' <=> Waiting(c) /\ ~Reports(c, 1)
    <2>1. CASE jobs' = jobs /\ (~Reports(c, 1) \/ ~Waiting(c))
      BY <2>1 DEF Waiting, Newest
    <2>2. CASE Reports(c, 1) /\ ToldBecomes(<<c, b>>, IF inbox[c][1][1] = "finished" THEN "finished" ELSE "error")
      <3>1. Newest(c)'.told # "nothing"
        BY <1>0, <1>1, <2>2, NewestKept
      <3> QED
        BY <2>2, <3>1 DEF Waiting
    <2> QED
      BY <2>1, <2>2 DEF DeliverEffect
  <1>4. SUFFICES ASSUME ~Disturbed(c, b)'
                 PROVE  InDaemonInv(c)' /\ \A k \in DOMAIN inbox'[c] : Reports(c, k)' => ReportTrue(c, k)'
    BY <1>2 DEF LoneTrue, Disturbed
  <1>5. ~Disturbed(c, b)
    BY <1>1, <1>4, DisturbedShape
  <1>6. InDaemonInv(c) /\ \A k \in DOMAIN inbox[c] : Reports(c, k) => ReportTrue(c, k)
    BY <1>5 DEF LoneTrue
  <1>7. \A k \in DOMAIN inbox'[c] :
           /\ k \in Nat /\ k + 1 \in DOMAIN inbox[c] /\ inbox'[c][k] = inbox[c][k + 1]
           /\ Reports(c, k)' <=> Reports(c, k + 1)
    BY <1>1, ReportsKept DEF Takes, SameShape
  <1>8. \A k \in DOMAIN inbox[c] :
           k # 1 => k \in Nat /\ k > 1 /\ k - 1 \in DOMAIN inbox'[c] /\ (k - 1) + 1 = k
    BY <1>0, <1>1 DEF Takes
  <1>9. DOMAIN inbox'[c] = 1 .. Len(inbox'[c]) /\ Len(inbox'[c]) \in Nat
    <2>1. inbox'[c] \in Seq(Messages)
      BY <1>1 DEF Takes
    <2> QED
      BY <2>1
  <1>10. LateLost(c)' <=> LateLost(c)
    BY <1>1, <1>2 DEF LateLost
  <1>11. ASSUME NEW k \in DOMAIN inbox'[c], Reports(c, k)'
         PROVE  ReportTrue(c, k)'
    <2>1. k \in Nat /\ k + 1 \in DOMAIN inbox[c] /\ inbox'[c][k] = inbox[c][k + 1] /\ Reports(c, k + 1)
      BY <1>7, <1>11
    <2>2. ReportTrue(c, k + 1)
      BY <1>6, <2>1
    <2>3. 1 \in 1 .. (k + 1) - 1 /\ \A j \in 1 .. k - 1 : j \in DOMAIN inbox'[c] /\ j + 1 \in 1 .. (k + 1) - 1
      BY <1>9, <1>11, <2>1
    <2>4. ASSUME ~Waiting(c)' \/ \E j \in 1 .. k - 1 : Reports(c, j)'
          PROVE  inbox'[c][k][1] = "noreply" /\ LateLost(c)'
      <3>1. ~Waiting(c) \/ \E j \in 1 .. (k + 1) - 1 : Reports(c, j)
        <4>1. ASSUME NEW j \in 1 .. k - 1, Reports(c, j)'
              PROVE  \E i \in 1 .. (k + 1) - 1 : Reports(c, i)
          BY <1>7, <2>3, <4>1
        <4> QED
          BY <1>3, <2>3, <2>4, <4>1
      <3> QED
        BY <1>10, <2>1, <2>2, <3>1 DEF ReportTrue
    <2>5. ASSUME inbox'[c][k][1] = "noreply", LateLost(c)', Waiting(c)'
          PROVE  \E j \in 1 .. k - 1 : inbox'[c][j][1] = "finished"
      <3>1. PICK i \in 1 .. (k + 1) - 1 : inbox[c][i][1] = "finished"
        BY <1>3, <1>10, <2>1, <2>2, <2>5 DEF ReportTrue
      <3>2. i # 1
        BY <1>3, <2>5, <3>1 DEF Reports
      <3>3. i \in Nat /\ i - 1 \in 1 .. k - 1 /\ (i - 1) + 1 = i
        BY <2>1, <3>1, <3>2
      <3>4. inbox'[c][i - 1] = inbox[c][(i - 1) + 1]
        BY <1>7, <2>3, <3>3
      <3> QED
        BY <3>1, <3>3, <3>4
    <2>6. /\ inbox'[c][k][1] = "finished" => Newest(c)'.outcome = "finished"
          /\ inbox'[c][k][1] = "error" => Newest(c)'.outcome = "failed"
          /\ inbox'[c][k][1] = "noreply" =>
                /\ inbox'[c][k][2] = Len(jobs'[c])
                /\ Newest(c)'.outcome \in {"failed", "lost"} \/ LateLost(c)'
      BY <1>2, <1>10, <2>1, <2>2 DEF ReportTrue
    <2> QED
      BY <2>4, <2>5, <2>6 DEF ReportTrue
  <1>12. InDaemonInv(c)'
    <2>1. InDaemon(c)' <=> InDaemon(c)
      BY <1>1, <1>2 DEF InDaemon, Open
    <2>2. ASSUME InDaemon(c), running = None \/ running # <<c, b>> \/ phase # "answer"
          PROVE  Waiting(c)' /\ \A k \in DOMAIN inbox'[c] : ~Reports(c, k)'
      <3>1. Waiting(c) /\ \A k \in DOMAIN inbox[c] : ~Reports(c, k)
        BY <1>6, <2>2 DEF InDaemonInv
      <3>2. 1 \in DOMAIN inbox[c]
        BY DEF DeliverEffect
      <3> QED
        BY <1>3, <1>7, <3>1, <3>2
    <2>3. ASSUME running = <<c, b>>, phase = "answer"
          PROVE  /\ \A k \in DOMAIN inbox'[c] : inbox'[c][k][1] # "noreply" \/ ~Reports(c, k)'
                 /\ Waiting(c)' => \E k \in DOMAIN inbox'[c] : inbox'[c][k][1] = "finished"
      <3>1. /\ \A k \in DOMAIN inbox[c] : inbox[c][k][1] # "noreply" \/ ~Reports(c, k)
            /\ Waiting(c) => \E k \in DOMAIN inbox[c] : inbox[c][k][1] = "finished"
        BY <1>6, <2>3 DEF InDaemonInv
      <3>2. ASSUME Waiting(c)'
            PROVE  \E k \in DOMAIN inbox'[c] : inbox'[c][k][1] = "finished"
        <4>1. PICK k \in DOMAIN inbox[c] : inbox[c][k][1] = "finished"
          BY <1>3, <3>1, <3>2
        <4>2. k # 1
          BY <1>3, <3>2, <4>1 DEF Reports
        <4>3. k - 1 \in DOMAIN inbox'[c] /\ inbox'[c][k - 1] = inbox[c][(k - 1) + 1] /\ (k - 1) + 1 = k
          BY <1>7, <1>8, <4>2
        <4> QED
          BY <4>1, <4>3
      <3> QED
        BY <1>7, <3>1, <3>2
    <2> QED
      BY <1>1, <1>2, <1>6, <2>1, <2>2, <2>3 DEF InDaemonInv
  <1> QED
    BY <1>11, <1>12

(* The daemon dies.                                                        *)
LEMMA LoneGone ==
    ASSUME TypeOK, CallsInv, MessagesInv, NEW c \in Clients, Lone(c), LoneTrue(c), jobs[c] # <<>>,
           Gone
    PROVE  LoneTrue(c)'
  <1> DEFINE b == Len(jobs[c])
  <1>0. /\ jobs \in [Clients -> Seq(JobType)] /\ inbox[c] \in Seq(Messages)
        /\ inbox \in [Clients -> Seq(Messages)]
        /\ jobs[c] \in Seq(JobType) /\ b \in DOMAIN jobs[c] /\ Newest(c) = jobs[c][b]
    BY NewestJob DEF TypeOK
  <1>1. /\ SameShape /\ SameTold /\ Loses /\ Answers(c) /\ InboxGrows(c)
        /\ calls' = <<>> /\ running' = None /\ phase' = "down" /\ deaths' = deaths + 1
    BY <1>0, GoneJobs, GoneInbox, InboxSteps DEF Gone
  <1>2. /\ Len(jobs'[c]) = b /\ jobs'[c] # <<>> /\ (Waiting(c)' <=> Waiting(c))
        /\ Newest(c)'.method = Newest(c).method
    BY <1>0, <1>1, NewestKept
  <1>3. Newest(c)'.outcome = IF InDaemon(c) /\ Newest(c).outcome = "open" THEN "lost" ELSE Newest(c).outcome
    BY <1>0, <1>1, <1>2 DEF Loses, InDaemon, Newest
  <1>4. deaths \in Nat /\ deaths' > 0
    BY <1>1, BoundsAssumption DEF TypeOK
  <1>5. SUFFICES ASSUME ~Disturbed(c, b)'
                 PROVE  InDaemonInv(c)' /\ \A k \in DOMAIN inbox'[c] : Reports(c, k)' => ReportTrue(c, k)'
    BY <1>2 DEF LoneTrue, Disturbed
  <1>6. ~Disturbed(c, b)
    BY <1>1, <1>5, DisturbedShape
  <1>7. InDaemonInv(c) /\ \A k \in DOMAIN inbox[c] : Reports(c, k) => ReportTrue(c, k)
    BY <1>6 DEF LoneTrue
  <1>8. InDaemonInv(c)'
    <2>1. ~InDaemon(c)'
      BY <1>1 DEF InDaemon, Open
    <2> QED
      BY <1>1, <2>1 DEF InDaemonInv, None
  <1>9. Open \subseteq {<<c, b>>}
    <2>1. running # None => running = <<c, b>>
      <3> SUFFICES ASSUME running # None, running # <<c, b>>
                   PROVE  FALSE
        OBVIOUS
      <3>1. phase = "answer"
        BY <1>7 DEF InDaemonInv
      <3>2. Job(running).method = <<"xfsfs", "ptf">>
        BY <3>1 DEF CallsInv, RepliesFirst
      <3>3. running \in Open
        BY DEF Open
      <3>4. running = <<c, running[2]>> /\ running[2] \in DOMAIN jobs[c]
        BY <3>3, LoneCalls
      <3> DEFINE n == running[2]
      <3>5. n \in 1 .. b - 1
        BY <1>0, <3>4
      <3>6. jobs'[c][n].method = <<"xfsfs", "ptf">>
        BY <1>1, <3>2, <3>4 DEF SameShape, Job
      <3> HIDE DEF n
      <3> QED
        BY <1>2, <1>4, <1>5, <3>5, <3>6 DEF Disturbed
    <2> QED
      BY <1>7, <2>1 DEF InDaemonInv, Open
  <1>10. /\ Unanswered(c) \subseteq {<<"noreply", b>>}
         /\ Unanswered(c) # {} => InDaemon(c)
    BY <1>9 DEF Unanswered, InDaemon
  <1>11. \A k \in DOMAIN inbox[c] :
            /\ inbox'[c][k] = inbox[c][k] /\ (Reports(c, k)' <=> Reports(c, k))
            /\ \A j \in 1 .. k - 1 : j \in DOMAIN inbox[c]
            /\ k \in 1 .. Len(inbox[c])
    <2>1. \A k \in DOMAIN inbox[c] :
             inbox'[c][k] = inbox[c][k] /\ (Reports(c, k)' <=> Reports(c, k))
      BY <1>1, GrownReports DEF InboxGrows
    <2>2. DOMAIN inbox[c] = 1 .. Len(inbox[c]) /\ Len(inbox[c]) \in Nat
      BY <1>0
    <2>3. \A k \in DOMAIN inbox[c] : \A j \in 1 .. k - 1 : j \in DOMAIN inbox[c]
      BY <2>2
    <2> QED
      BY <2>1, <2>2, <2>3
  <1>12. LateLost(c)' <=> Newest(c).outcome = "finished" /\ Newest(c).method = <<"xfsfs", "ptf">>
    BY <1>2, <1>3, <1>4 DEF LateLost
  (* What was reported stays true, when the job keeps its outcome.         *)
  <1>13. ASSUME NEW k \in DOMAIN inbox[c], Reports(c, k), Newest(c)'.outcome = Newest(c).outcome
         PROVE  ReportTrue(c, k)'
    <2>1. ReportTrue(c, k)
      BY <1>7, <1>13
    <2>2. inbox'[c][k] = inbox[c][k]
      BY <1>11
    <2>3. (\E j \in 1 .. k - 1 : Reports(c, j)') <=> (\E j \in 1 .. k - 1 : Reports(c, j))
      BY <1>11
    <2>4. (\E j \in 1 .. k - 1 : inbox'[c][j][1] = "finished")
             <=> (\E j \in 1 .. k - 1 : inbox[c][j][1] = "finished")
      BY <1>11
    <2>5. LateLost(c) => LateLost(c)'
      BY <1>12 DEF LateLost
    <2>6. inbox[c][k][1] = "noreply" /\ LateLost(c)' => LateLost(c)
      BY <1>12, <2>1 DEF ReportTrue
    <2> QED
      BY <1>2, <1>13, <2>1, <2>2, <2>3, <2>4, <2>5, <2>6 DEF ReportTrue
  (* What the bus adds.                                                    *)
  <1>14. ASSUME NEW k \in DOMAIN inbox'[c], k \notin DOMAIN inbox[c]
         PROVE  /\ inbox'[c][k] = <<"noreply", b>> /\ InDaemon(c)
                /\ \A j \in 1 .. k - 1 : j \in DOMAIN inbox[c]
                /\ \A j \in DOMAIN inbox[c] : j \in 1 .. k - 1
    <2>1. inbox'[c][k] \in Unanswered(c) /\ k > Len(inbox[c])
      BY <1>1, <1>14 DEF Answers
    <2>2. k <= Len(inbox[c]) + 1
      BY <1>1, <1>10 DEF Answers
    <2>3. inbox'[c] \in Seq(Messages)
      BY <1>1 DEF Answers
    <2>4. k \in Nat /\ DOMAIN inbox[c] = 1 .. Len(inbox[c]) /\ Len(inbox[c]) \in Nat
      BY <1>0, <2>3
    <2>5. k = Len(inbox[c]) + 1
      BY <2>1, <2>2, <2>4
    <2> QED
      BY <1>10, <2>1, <2>4, <2>5
  <1>15. CASE ~InDaemon(c)
    <2>1. Newest(c)'.outcome = Newest(c).outcome
      BY <1>3, <1>15
    <2> QED
      BY <1>8, <1>11, <1>13, <1>14, <1>15, <2>1
  <1>16. CASE running = <<c, b>> /\ phase = "answer"
    <2>1. Job(running) = Newest(c)
      BY <1>0, <1>16 DEF Job
    <2>2. Newest(c).outcome = "finished" /\ Newest(c).method = <<"xfsfs", "ptf">>
      BY <1>16, <2>1 DEF CallsInv, RepliesFirst, None
    <2>3. LateLost(c)' /\ Newest(c)'.outcome = Newest(c).outcome
      BY <1>3, <1>12, <2>2
    <2>4. Waiting(c) => \E k \in DOMAIN inbox[c] : inbox[c][k][1] = "finished"
      BY <1>7, <1>16 DEF InDaemonInv
    <2>5. ASSUME NEW k \in DOMAIN inbox'[c], k \notin DOMAIN inbox[c]
          PROVE  ReportTrue(c, k)'
      <3>1. /\ inbox'[c][k] = <<"noreply", b>>
            /\ \A j \in DOMAIN inbox[c] : j \in 1 .. k - 1
        BY <1>14, <2>5
      <3>2. Waiting(c)' => \E j \in 1 .. k - 1 : inbox'[c][j][1] = "finished"
        BY <1>2, <1>11, <2>4, <3>1
      <3> QED
        BY <1>2, <2>3, <3>1, <3>2 DEF ReportTrue
    <2> QED
      BY <1>8, <1>11, <1>13, <2>3, <2>5
  <1>17. CASE InDaemon(c) /\ (running = None \/ running # <<c, b>> \/ phase # "answer")
    <2>1. Waiting(c) /\ \A k \in DOMAIN inbox[c] : ~Reports(c, k)
      BY <1>7, <1>17 DEF InDaemonInv
    <2>2. Newest(c).outcome \in {"open", "failed"}
      <3>1. CASE <<c, b>> = running
        <4>1. Job(running) = Newest(c) /\ running # None /\ phase # "answer"
          BY <1>0, <1>17, <3>1 DEF Job, None
        <4>2. phase \in {"prepare", "check", "copy", "failing", "report"}
          BY <4>1 DEF TypeOK, CallsInv
        <4> QED
          BY <4>1, <4>2 DEF CallsInv
      <3>2. CASE \E k \in DOMAIN calls : calls[k] = <<c, b>>
        <4>1. PICK k \in DOMAIN calls : calls[k] = <<c, b>>
          BY <3>2
        <4>2. Job(calls[k]).outcome = "open"
          BY DEF CallsInv
        <4> QED
          BY <1>0, <4>1, <4>2 DEF Job
      <3> QED
        BY <1>17, <3>1, <3>2 DEF InDaemon, Open
    <2>3. Newest(c)'.outcome \in {"lost", "failed"} /\ ~LateLost(c)'
      BY <1>3, <1>12, <1>17, <2>2
    <2>4. ASSUME NEW k \in DOMAIN inbox'[c], Reports(c, k)'
          PROVE  ReportTrue(c, k)'
      <3>1. k \notin DOMAIN inbox[c]
        BY <1>11, <2>1, <2>4
      <3>2. /\ inbox'[c][k] = <<"noreply", b>>
            /\ \A j \in 1 .. k - 1 : j \in DOMAIN inbox[c]
        BY <1>14, <3>1
      <3>3. \A j \in 1 .. k - 1 : ~Reports(c, j)'
        BY <1>11, <2>1, <3>2
      <3>4. Waiting(c)'
        BY <1>2, <2>1
      <3> QED
        BY <1>2, <2>3, <3>2, <3>3, <3>4 DEF ReportTrue
    <2> QED
      BY <1>8, <2>4
  <1> QED
    BY <1>15, <1>16, <1>17

(* A lone application starts a job: nothing of the last one is left but a  *)
(* late reply.                                                             *)
LEMMA LoneStarts ==
    ASSUME TypeOK, CallsInv, MessagesInv, NEW c \in Clients, Lone(c), LoneTrue(c), Starts(c)
    PROVE  LoneTrue(c)'
  <1> DEFINE b == Len(jobs[c])
  <1> DEFINE n == b + 1
  <1>0. /\ jobs \in [Clients -> Seq(JobType)] /\ jobs[c] \in Seq(JobType) /\ inbox[c] \in Seq(Messages)
        /\ calls \in Seq(Clients \X Nat) /\ b \in Nat /\ n \notin DOMAIN jobs[c]
        /\ DOMAIN jobs[c] = 1 .. b
    BY DEF TypeOK
  <1>1. PICK job \in JobType :
             /\ NewJob(c, job)
             /\ \/ job.told = "nothing" /\ calls' = Append(calls, <<c, n>>)
                \/ job.told = "error" /\ calls' = calls
    BY DEF Starts
  <1>2. running' = running /\ inbox' = inbox /\ phase' = phase /\ deaths' = deaths /\ ~Waiting(c)
    BY DEF Starts
  <1>3. /\ Len(jobs'[c]) = n /\ Newest(c)' = job /\ n \in DOMAIN jobs'[c]
        /\ \A m \in 1 .. b : jobs'[c][m] = jobs[c][m]
    BY <1>0, <1>1 DEF NewJob, Newest
  <1>4. jobs'[c] # <<>>
    BY <1>3
  <1>5. SUFFICES ASSUME ~Disturbed(c, Len(jobs[c]))'
                 PROVE  InDaemonInv(c)' /\ \A k \in DOMAIN inbox'[c] : Reports(c, k)' => ReportTrue(c, k)'
    BY <1>3, <1>4 DEF LoneTrue, Disturbed
  <1>6. Unreported(c) /\ calls = <<>> /\ (running # None => phase = "answer")
    <2>1. CASE jobs[c] = <<>>
      <3>1. inbox[c] = <<>> /\ running = None /\ Open = {}
        BY <2>1, LoneCalls DEF LoneTrue
      <3>2. DOMAIN inbox[c] = {} /\ ~(1 \in DOMAIN calls)
        BY <3>1 DEF Open
      <3>3. calls = <<>>
        BY <1>0, <3>2
      <3> QED
        BY <3>1, <3>2, <3>3 DEF Unreported
    <2>2. CASE jobs[c] # <<>>
      <3>1. \A m \in 1 .. b : deaths > 0 => jobs[c][m].method # <<"xfsfs", "ptf">>
        <4>1. \A m \in 1 .. n - 1 : ~(deaths > 0 /\ jobs'[c][m].method = <<"xfsfs", "ptf">>)
          BY <1>2, <1>3, <1>5 DEF Disturbed
        <4>2. 1 .. n - 1 = 1 .. b
          BY <1>0
        <4> QED
          BY <1>3, <4>1, <4>2
      <3>2. ~Disturbed(c, b)
        <4>1. \A m \in 1 .. b - 1 : m \in 1 .. b
          BY <1>0
        <4> QED
          BY <3>1, <4>1 DEF Disturbed
      <3>3. ~LateLost(c)
        <4>1. b \in 1 .. b /\ Newest(c) = jobs[c][b]
          BY <1>0, <2>2, NewestJob
        <4> QED
          BY <3>1, <4>1 DEF LateLost
      <3>4. InDaemonInv(c) /\ \A k \in DOMAIN inbox[c] : Reports(c, k) => ReportTrue(c, k)
        BY <2>2, <3>2 DEF LoneTrue
      <3>5. Unreported(c)
        BY <1>2, <3>3, <3>4 DEF ReportTrue, Unreported
      <3>6. InDaemon(c) => running = <<c, b>> /\ phase = "answer"
        BY <1>2, <3>4 DEF InDaemonInv
      <3>7. running # None => phase = "answer"
        BY <3>4, <3>6 DEF InDaemonInv, InDaemon, Open
      <3>8. ~(1 \in DOMAIN calls)
        <4> SUFFICES ASSUME 1 \in DOMAIN calls
                     PROVE  FALSE
          OBVIOUS
        <4>1. calls[1] = <<c, b>> /\ InDaemon(c)
          BY <3>4 DEF InDaemonInv, InDaemon, Open
        <4> QED
          BY <3>6, <4>1 DEF CallsInv
      <3>9. calls = <<>>
        BY <1>0, <3>8
      <3> QED
        BY <3>5, <3>7, <3>9
    <2> QED
      BY <2>1, <2>2
  <1>7. running # <<c, n>> /\ <<c, n>> \notin Open
    <2>1. <<c, n>> \notin Open
      <3> SUFFICES ASSUME <<c, n>> \in Open
                   PROVE  FALSE
        OBVIOUS
      <3>1. \A x \in Open : x[2] \in DOMAIN jobs[c]
        BY LoneCalls
      <3>2. n \in DOMAIN jobs[c]
        BY <3>1
      <3> QED
        BY <1>0, <3>2
    <2> QED
      BY <2>1 DEF Open, None
  <1> HIDE DEF n
  <1>8. \A k \in DOMAIN inbox'[c] : ~Reports(c, k)'
    <2>1. \A m \in DOMAIN jobs[c] : jobs'[c][m].method = jobs[c][m].method
      BY <1>1 DEF NewJob
    <2>2. \A k \in DOMAIN inbox[c] : Reports(c, k)' <=> Reports(c, k)
      BY <1>2, <2>1, ReportsKept
    <2> QED
      BY <1>2, <1>6, <2>2 DEF Unreported
  <1>9. \A k \in DOMAIN calls' : calls'[k] = <<c, n>>
    BY <1>1, <1>6
  <1>10. <<c, n>> \in Open' => Waiting(c)'
    BY <1>1, <1>2, <1>3, <1>4, <1>7, OpenStarts DEF Waiting
  <1>11. InDaemonInv(c)'
    BY <1>2, <1>3, <1>6, <1>7, <1>8, <1>9, <1>10 DEF InDaemonInv, InDaemon
  <1> QED
    BY <1>8, <1>11

LEMMA NoFirst ==
    ASSUME NEW S, NEW s \in Seq(S), ~(1 \in DOMAIN s)
    PROVE  s = <<>>
  <1>1. Len(s) \in Nat /\ DOMAIN s = 1 .. Len(s)
    OBVIOUS
  <1>2. ~(Len(s) \in Nat \ {0})
    BY <1>1
  <1> QED
    BY <1>2, EmptySeq

LEMMA LonePreserved ==
    ASSUME TypeOK, CallsInv, MessagesInv, LoneInv, Step
    PROVE  LoneInv'
  <1> SUFFICES ASSUME NEW c \in Clients, Lone(c)'
               PROVE  LoneTrue(c)'
    BY DEF LoneInv, LoneTrue
  <1>0. /\ jobs \in [Clients -> Seq(JobType)] /\ inbox \in [Clients -> Seq(Messages)]
        /\ inbox[c] \in Seq(Messages)
    BY DEF TypeOK
  <1>a. Lone(c) => LoneTrue(c)
    BY DEF LoneInv, LoneTrue
  <1>b. SameShape => Lone(c) /\ (jobs'[c] = <<>> <=> jobs[c] = <<>>)
    BY <1>0, LoneShape, EmptyShape
  <1>c. Lone(c) /\ jobs[c] = <<>> => running = None /\ Open = {}
    BY LoneCalls
  (* Nothing happens to an application without jobs.                       *)
  <1>d. SameShape /\ jobs[c] = <<>> /\ inbox'[c] = inbox[c] => LoneTrue(c)'
    BY <1>a, <1>b DEF LoneTrue
  <1>e. jobs' = jobs => SameShape /\ SameTold /\ SameOutcome
    BY <1>0, UnchangedEffect
  <1>f. SameShape => \A d \in Clients : Len(jobs'[d]) = Len(jobs[d])
    BY DEF SameShape
  <1>g. \A k \in DOMAIN calls : calls[k] \in Open /\ calls[k] # running
    BY DEF Open, CallsInv
  <1>1. ASSUME NEW d \in Clients, Starts(d)
        PROVE  LoneTrue(c)'
    <2>1. PICK job \in JobType : NewJob(d, job)
      BY <1>1 DEF Starts
    <2>2. jobs'[d] # <<>>
      <3>1. Len(jobs'[d]) = Len(jobs[d]) + 1 /\ jobs[d] \in Seq(JobType)
        BY <1>0, <2>1 DEF NewJob
      <3>2. Len(jobs'[d]) # 0
        BY <3>1
      <3> QED
        BY <3>2
    <2>3. d = c
      BY <2>2 DEF Lone
    <2>4. Lone(c)
      BY <2>1, <2>3 DEF NewJob, Lone
    <2> QED
      BY <1>1, <1>a, <2>3, <2>4, LoneStarts
  <1>2. ASSUME NEW d \in Clients, DeliverEffect(d)
        PROVE  LoneTrue(c)'
    <2>1. /\ SameShape /\ Takes(d) /\ 1 \in DOMAIN inbox[d]
          /\ calls' = calls /\ running' = running /\ phase' = phase /\ deaths' = deaths
      BY <1>2, <1>e DEF DeliverEffect, Stays
    <2>2. Lone(c) /\ LoneTrue(c)
      BY <1>a, <1>b, <2>1
    <2>3. CASE d = c
      <3>1. jobs[c] # <<>>
        <4>0. 1 \in DOMAIN inbox[c]
          BY <2>1, <2>3, ZenonT(60)
        <4>1. inbox[c] # <<>>
          BY <4>0
        <4> QED
          BY <2>2, <4>1 DEF LoneTrue
      <3> QED
        BY <1>2, <2>2, <2>3, <3>1, LoneDeliver
    <2>4. CASE d # c
      <3>1. jobs[d] = <<>> /\ inbox'[c] = inbox[c]
        BY <2>1, <2>2, <2>4 DEF Lone, Takes
      <3>2. jobs' = jobs
        BY <1>2, <3>1 DEF DeliverEffect, Waiting
      <3> QED
        BY <2>1, <2>2, <3>1, <3>2 DEF LoneTrue, Disturbed, InDaemonInv, InDaemon, Open, Waiting,
           Newest, Reports, ReportTrue, LateLost
    <2> QED
      BY <2>3, <2>4
  <1>h. ASSUME SameShape, SameTold, SameOutcome, deaths' = deaths,
               \A d \in Clients : InboxGrows(d),
               \A k \in DOMAIN inbox'[c] : Reports(c, k)' => k \in DOMAIN inbox[c],
               Open' \subseteq Open, \A k \in DOMAIN calls' : calls'[k] \in Open /\ calls'[k] # running,
               running' # None => running' \in Open,
               phase = "answer" => running' = None /\ running \notin Open',
               phase' # "answer",
               running # None \/ inbox' = inbox
        PROVE  LoneTrue(c)'
    <2>1. CASE jobs[c] = <<>>
      BY <1>b, <1>c, <1>d, <1>h, <2>1
    <2>2. CASE jobs[c] # <<>>
      BY <1>a, <1>b, <1>h, <2>2, LoneQuiet
    <2> QED
      BY <2>1, <2>2
  <1>i. inbox' = inbox => /\ \A d \in Clients : InboxGrows(d)
                          /\ \A k \in DOMAIN inbox'[c] : Reports(c, k)' => k \in DOMAIN inbox[c]
    BY DEF InboxGrows
  <1>j. ASSUME Replies, running # None
        PROVE  /\ \A d \in Clients : InboxGrows(d)
               /\ \A k \in DOMAIN inbox'[c] : Reports(c, k)' => k \in DOMAIN inbox[c]
    <2>1. \A d \in Clients : InboxGrows(d)
      BY <1>j, InboxSteps, RunningCall
    <2>2. CASE c # running[1]
      BY <1>j, <2>1, <2>2 DEF Replies
    <2>3. CASE c = running[1]
      <3>1. /\ DOMAIN inbox'[c] = DOMAIN inbox[c] \cup {Len(inbox[c]) + 1}
            /\ inbox'[c][Len(inbox[c]) + 1] = <<"reply", running[2]>>
        BY <1>j, <2>3 DEF Replies, Receives
      <3>2. \A k : k = Len(inbox[c]) + 1 => ~Reports(c, k)'
        BY <3>1 DEF Reports
      <3> QED
        BY <2>1, <3>1, <3>2
    <2> QED
      BY <2>2, <2>3
  <1>k. running # None => running \in Open
    BY DEF Open
  <1>l. calls' = calls /\ running' = running => Open' = Open
    BY DEF Open
  <1>3. CASE AcquiredCallback
    <2>1. /\ jobs' = jobs /\ inbox' = inbox /\ calls' = calls /\ running' = running
          /\ deaths' = deaths /\ phase = "down" /\ phase' = "idle"
      BY <1>3 DEF AcquiredCallback
    <2> QED
      BY <1>e, <1>g, <1>h, <1>i, <1>k, <1>l, <2>1
  <1>4. CASE TakeCall
    <2>1. /\ jobs' = jobs /\ inbox' = inbox /\ deaths' = deaths
          /\ phase = "idle" /\ phase' = "prepare" /\ running = None
      BY <1>4 DEF TakeCall, CallsInv
    <2>2. Open' = Open
      BY <1>4, <2>1, OpenSteps
    <2>3. running' # None => running' \in Open
      BY <2>2 DEF Open
    <2>4. ASSUME NEW k \in DOMAIN calls'
          PROVE  calls'[k] \in Open /\ calls'[k] # running
      <3>1. calls'[k] \in Open
        BY <2>2 DEF Open
      <3>2. Lone(c)
        BY <1>b, <1>e, <2>1
      <3>3. \A x \in Open : x \in Clients \X Nat
        BY <3>2, LoneCalls
      <3>4. calls'[k] # None
        BY <3>1, <3>3 DEF None
      <3> QED
        BY <2>1, <3>1, <3>4
    <2> QED
      BY <1>e, <1>h, <1>i, <2>1, <2>2, <2>3, <2>4
  <1>5. CASE running # None /\ OpenTarget
    <2>1. /\ jobs' = jobs /\ inbox' = inbox /\ calls' = calls /\ running' = running
          /\ deaths' = deaths /\ phase = "prepare" /\ phase' = "check"
      BY <1>5 DEF OpenTarget
    <2> QED
      BY <1>e, <1>g, <1>h, <1>i, <1>k, <1>l, <2>1
  <1>6. CASE running # None /\ PreparedEffect
    <2>1. /\ SameShape /\ SameTold /\ SameOutcome /\ calls' = calls /\ running' = running
          /\ deaths' = deaths /\ phase = "check" /\ phase' = "copy" /\ (Replies \/ inbox' = inbox)
      BY <1>6 DEF PreparedEffect, Stays
    <2> QED
      BY <1>6, <1>g, <1>h, <1>i, <1>j, <1>k, <1>l, <2>1
  <1>7. CASE running # None /\ FailedEffect
    <2>1. SameShape /\ inbox' = inbox
      BY <1>7 DEF FailedEffect
    <2> QED
      BY <1>7, <1>a, <1>b, <1>d, <2>1, LoneFailed
  <1>8. CASE running # None /\ EmitFinishedEffect
    <2>1. /\ SameShape /\ SameTold /\ Signals("finished") /\ calls' = calls /\ deaths' = deaths
          /\ phase = "copy" /\ OutcomeBecomes(running, "finished")
          /\ \/ running' = None /\ phase' = "idle"
             \/ running' = running /\ phase' = "answer"
      BY <1>8 DEF EmitFinishedEffect, Stays
    <2>2. jobs[c] # <<>> /\ Lone(c) /\ LoneTrue(c)
      BY <1>8, <1>a, <1>b, <1>c, <2>1
    <2>3. running = <<c, Len(jobs[c])>> => Newest(c)'.outcome = "finished"
      BY <1>0, <2>1, <2>2, NewestKept
    <2> QED
      BY <1>8, <2>1, <2>2, <2>3, LoneSignal
  <1>9. CASE running # None /\ AnswerLateEffect
    <2>1. /\ SameShape /\ SameTold /\ SameOutcome /\ calls' = calls /\ running' = None
          /\ deaths' = deaths /\ phase = "answer" /\ phase' = "idle" /\ Replies
      BY <1>9 DEF AnswerLateEffect, Stays
    <2>2. running \notin Open' /\ Open' \subseteq Open
      BY <1>9, <1>f, <2>1, OpenSteps
    <2> QED
      BY <1>9, <1>g, <1>h, <1>j, <2>1, <2>2
  <1>10. CASE running # None /\ CompleteFailedEffect
    <2>1. /\ SameShape /\ SameTold /\ SameOutcome /\ calls' = calls /\ running' = running
          /\ deaths' = deaths /\ phase = "failing" /\ phase' = "report" /\ Replies
      BY <1>10 DEF CompleteFailedEffect, Stays
    <2> QED
      BY <1>10, <1>g, <1>h, <1>j, <1>k, <1>l, <2>1
  <1>11. CASE running # None /\ EmitErrorEffect
    <2>1. /\ jobs' = jobs /\ Signals("error") /\ calls' = calls /\ deaths' = deaths
          /\ phase = "report" /\ running' = None /\ phase' = "idle"
      BY <1>11 DEF EmitErrorEffect, Stays
    <2>2. jobs[c] # <<>> /\ Lone(c) /\ LoneTrue(c) /\ SameShape /\ SameTold
      BY <1>11, <1>a, <1>b, <1>c, <1>e, <2>1
    <2>3. running = <<c, Len(jobs[c])>> => Newest(c)'.outcome = "failed"
      <3> SUFFICES ASSUME running = <<c, Len(jobs[c])>>
                   PROVE  Newest(c)'.outcome = "failed"
        OBVIOUS
      <3>1. Job(running) = Newest(c)
        BY DEF Job, Newest
      <3>2. Job(running).outcome = "failed"
        BY <1>11, <2>1 DEF CallsInv
      <3> QED
        BY <2>1, <3>1, <3>2 DEF Newest
    <2> QED
      BY <1>11, <2>1, <2>2, <2>3, LoneSignal
  <1>12. CASE deaths < MaxDeaths /\ Gone
    <2>1. SameShape /\ Answers(c)
      BY <1>0, <1>12, GoneJobs, GoneInbox
    <2>2. CASE jobs[c] # <<>>
      BY <1>12, <1>a, <1>b, <2>1, <2>2, LoneGone
    <2>3. CASE jobs[c] = <<>>
      <3>1. inbox[c] = <<>> /\ Open = {}
        BY <1>a, <1>b, <1>c, <2>1, <2>3 DEF LoneTrue
      <3>2. Unanswered(c) = {} /\ DOMAIN inbox[c] = {}
        BY <3>1 DEF Unanswered
      <3>3. inbox'[c] \in Seq(Messages) /\ ~(1 \in DOMAIN inbox'[c])
        BY <2>1, <3>2, SMTT(60) DEF Answers
      <3>4. inbox'[c] = <<>>
        BY <3>3, NoFirst
      <3> QED
        BY <1>d, <2>1, <2>3, <3>1, <3>4
    <2> QED
      BY <2>2, <2>3
  <1>13. CASE Mount
    <2>1. UNCHANGED <<jobs, inbox, calls, running, phase, deaths>>
      BY <1>13 DEF Mount
    <2>2. LoneTrue(c)
      BY <1>a, <1>b, <1>e, <2>1
    <2> QED
      BY <2>1, <2>2 DEF LoneTrue, Disturbed, InDaemonInv, InDaemon, Open, Waiting, Newest,
         Reports, ReportTrue, LateLost
  <1> QED
    BY <1>1, <1>2, <1>3, <1>4, <1>5, <1>6, <1>7, <1>8, <1>9, <1>10, <1>11, <1>12, <1>13 DEF Step

-----------------------------------------------------------------------------
(* What was told stays true: only a job that has no outcome gets one, and  *)
(* of such a job nothing has been told.                                    *)
LEMMA ToldKept ==
    ASSUME TypeOK, ToldTheTruth, NEW c \in Clients, Lone(c), SameShape, SameTold,
           deaths' \in {deaths, deaths + 1},
           \A n \in DOMAIN jobs[c] :
              jobs[c][n].outcome # "open" => jobs'[c][n].outcome = jobs[c][n].outcome
    PROVE  \A n \in DOMAIN jobs'[c] : Told(jobs'[c][n]) \/ Disturbed(c, n)'
  <1>0. jobs \in [Clients -> Seq(JobType)] /\ jobs[c] \in Seq(JobType) /\ deaths \in Nat
    BY BoundsAssumption DEF TypeOK
  <1> SUFFICES ASSUME NEW n \in DOMAIN jobs[c], ~Disturbed(c, n)'
               PROVE  Told(jobs'[c][n])
    BY DEF SameShape
  <1>1. ~Disturbed(c, n)
    <2>1. deaths > 0 => deaths' > 0
      BY <1>0
    <2>2. \A m \in 1 .. n - 1 : m \in DOMAIN jobs[c] /\ jobs'[c][m].method = jobs[c][m].method
      BY <1>0 DEF SameShape
    <2> QED
      BY <2>1, <2>2 DEF Disturbed
  <1>2. Told(jobs[c][n])
    BY <1>1 DEF ToldTheTruth
  <1>3. jobs'[c][n].told = jobs[c][n].told
    BY DEF SameTold
  <1>4. CASE jobs[c][n].outcome = "open"
    BY <1>2, <1>3, <1>4 DEF Told
  <1>5. CASE jobs[c][n].outcome # "open"
    BY <1>2, <1>3, <1>5 DEF Told
  <1> QED
    BY <1>4, <1>5

LEMMA TruthPreserved ==
    ASSUME TypeOK, CallsInv, LoneInv, ToldTheTruth, Step
    PROVE  ToldTheTruth'
  <1> SUFFICES ASSUME NEW c \in Clients, Lone(c)'
               PROVE  \A n \in DOMAIN jobs'[c] : Told(jobs'[c][n]) \/ Disturbed(c, n)'
    BY DEF ToldTheTruth
  <1>0. /\ jobs \in [Clients -> Seq(JobType)] /\ jobs[c] \in Seq(JobType)
    BY DEF TypeOK
  <1>a. SameShape => Lone(c)
    BY <1>0, LoneShape
  <1>b. jobs' = jobs => SameShape /\ SameTold /\ SameOutcome
    BY <1>0, UnchangedEffect
  <1>c. ASSUME SameShape, SameTold, SameOutcome, deaths' = deaths
        PROVE  \A n \in DOMAIN jobs'[c] : Told(jobs'[c][n]) \/ Disturbed(c, n)'
    BY <1>a, <1>c, ToldKept DEF SameOutcome
  <1>d. ASSUME SameShape, SameTold, deaths' = deaths, running # None, Job(running).outcome = "open",
               NEW o, OutcomeBecomes(running, o)
        PROVE  \A n \in DOMAIN jobs'[c] : Told(jobs'[c][n]) \/ Disturbed(c, n)'
    <2>1. \A n \in DOMAIN jobs[c] : <<c, n>> = running => jobs[c][n].outcome = "open"
      BY <1>d DEF Job
    <2>2. \A n \in DOMAIN jobs[c] :
              jobs[c][n].outcome # "open" => jobs'[c][n].outcome = jobs[c][n].outcome
      BY <1>d, <2>1 DEF OutcomeBecomes
    <2> QED
      BY <1>a, <1>d, <2>2, ToldKept
  <1>1. ASSUME NEW d \in Clients, Starts(d)
        PROVE  \A n \in DOMAIN jobs'[c] : Told(jobs'[c][n]) \/ Disturbed(c, n)'
    <2>1. PICK job \in JobType :
             /\ NewJob(d, job)
             /\ \/ job.told = "nothing"
                \/ job.told = "error" /\ job.outcome = "refused"
      BY <1>1 DEF Starts
    <2>2. jobs'[d] # <<>>
      <3>1. Len(jobs'[d]) = Len(jobs[d]) + 1 /\ jobs[d] \in Seq(JobType)
        BY <1>0, <2>1 DEF NewJob
      <3>2. Len(jobs'[d]) # 0
        BY <3>1
      <3> QED
        BY <3>2
    <2>3. d = c /\ Lone(c) /\ deaths' = deaths
      BY <1>1, <2>1, <2>2 DEF NewJob, Lone, Starts
    <2>4. Told(job)
      BY <2>1 DEF Told
    <2>5. ASSUME NEW n \in DOMAIN jobs[c]
          PROVE  Told(jobs'[c][n]) \/ Disturbed(c, n)'
      <3>1. \A m \in 1 .. n - 1 : m \in DOMAIN jobs[c] /\ jobs'[c][m] = jobs[c][m]
        BY <1>0, <2>1, <2>3 DEF NewJob
      <3>2. Disturbed(c, n) => Disturbed(c, n)'
        BY <2>3, <3>1 DEF Disturbed
      <3>3. jobs'[c][n] = jobs[c][n]
        BY <2>1, <2>3 DEF NewJob
      <3>4. Told(jobs[c][n]) \/ Disturbed(c, n)
        BY <2>3 DEF ToldTheTruth
      <3> QED
        BY <3>2, <3>3, <3>4
    <2>6. /\ DOMAIN jobs'[c] = DOMAIN jobs[c] \cup {Len(jobs[c]) + 1}
          /\ jobs'[c][Len(jobs[c]) + 1] = job
      BY <2>1, <2>3 DEF NewJob
    <2> QED
      BY <2>4, <2>5, <2>6
  <1>2. ASSUME NEW d \in Clients, DeliverEffect(d)
        PROVE  \A n \in DOMAIN jobs'[c] : Told(jobs'[c][n]) \/ Disturbed(c, n)'
    <2> DEFINE s == IF inbox[d][1][1] = "finished" THEN "finished" ELSE "error"
    <2>1. /\ SameShape /\ SameOutcome /\ deaths' = deaths /\ 1 \in DOMAIN inbox[d]
      BY <1>2, <1>b DEF DeliverEffect, Stays
    <2>2. CASE jobs' = jobs
      BY <1>b, <1>c, <2>1, <2>2
    <2>3. CASE Reports(d, 1) /\ Waiting(d) /\ ToldBecomes(<<d, Len(jobs[d])>>, s)
      <3>1. d = c
        <4>1. jobs[d] # <<>> /\ Lone(c)
          BY <1>a, <2>1, <2>3 DEF Waiting
        <4> QED
          BY <4>1 DEF Lone
      <3>2. Lone(c) /\ jobs[c] # <<>>
        BY <1>a, <2>1, <2>3, <3>1 DEF Waiting
      <3>3. ASSUME NEW n \in DOMAIN jobs[c], ~Disturbed(c, n)'
            PROVE  Told(jobs'[c][n])
        <4>1. ~Disturbed(c, n)
          <5>1. \A m \in 1 .. n - 1 : m \in DOMAIN jobs[c] /\ jobs'[c][m].method = jobs[c][m].method
            BY <1>0, <2>1 DEF SameShape
          <5> QED
            BY <2>1, <3>3, <5>1 DEF Disturbed
        <4>2. Told(jobs[c][n]) /\ jobs'[c][n].outcome = jobs[c][n].outcome
          BY <2>1, <3>2, <4>1 DEF ToldTheTruth, SameOutcome
        <4>3. CASE n # Len(jobs[c])
          <5>1. jobs'[c][n].told = jobs[c][n].told
            BY <2>3, <3>1, <4>3 DEF ToldBecomes
          <5> QED
            BY <4>2, <5>1 DEF Told
        <4>4. CASE n = Len(jobs[c])
          <5>1. jobs'[c][n].told = s /\ Newest(c) = jobs[c][n]
            BY <2>3, <3>1, <4>4 DEF ToldBecomes, Newest
          <5>2. ReportTrue(c, 1)
            BY <2>1, <2>3, <3>1, <3>2, <4>1, <4>4 DEF LoneInv
          <5>3. inbox[c][1][1] \in {"noreply", "finished", "error"}
            BY <2>3, <3>1 DEF Reports
          <5>4. ~(\E j \in 1 .. 1 - 1 : inbox[c][j][1] = "finished")
            OBVIOUS
          <5>5. /\ inbox[c][1][1] = "finished" => Newest(c).outcome = "finished"
                /\ inbox[c][1][1] = "error" => Newest(c).outcome = "failed"
                /\ inbox[c][1][1] = "noreply" => Newest(c).outcome \in {"failed", "lost"}
            BY <2>3, <3>1, <5>2, <5>4 DEF ReportTrue
          <5> QED
            BY <3>1, <4>2, <5>1, <5>3, <5>5 DEF Told
        <4> QED
          BY <4>3, <4>4
      <3> QED
        BY <2>1, <3>3 DEF SameShape
    <2> QED
      BY <1>2, <2>2, <2>3 DEF DeliverEffect
  <1>3. CASE AcquiredCallback
    BY <1>b, <1>c, <1>3 DEF AcquiredCallback
  <1>4. CASE TakeCall
    BY <1>b, <1>c, <1>4 DEF TakeCall
  <1>5. CASE running # None /\ OpenTarget
    BY <1>b, <1>c, <1>5 DEF OpenTarget
  <1>6. CASE running # None /\ PreparedEffect
    BY <1>c, <1>6 DEF PreparedEffect, Stays
  <1>7. CASE running # None /\ FailedEffect
    <2>1. /\ SameShape /\ SameTold /\ deaths' = deaths /\ OutcomeBecomes(running, "failed")
          /\ phase \in {"prepare", "check", "copy"}
      BY <1>7 DEF FailedEffect, Stays
    <2>2. Job(running).outcome = "open"
      BY <1>7, <2>1 DEF CallsInv
    <2> QED
      BY <1>d, <1>7, <2>1, <2>2
  <1>8. CASE running # None /\ EmitFinishedEffect
    <2>1. /\ SameShape /\ SameTold /\ deaths' = deaths /\ OutcomeBecomes(running, "finished")
          /\ phase = "copy"
      BY <1>8 DEF EmitFinishedEffect, Stays
    <2>2. Job(running).outcome = "open"
      BY <1>8, <2>1 DEF CallsInv
    <2> QED
      BY <1>d, <1>8, <2>1, <2>2
  <1>9. CASE running # None /\ AnswerLateEffect
    BY <1>c, <1>9 DEF AnswerLateEffect, Stays
  <1>10. CASE running # None /\ CompleteFailedEffect
    BY <1>c, <1>10 DEF CompleteFailedEffect, Stays
  <1>11. CASE running # None /\ EmitErrorEffect
    BY <1>b, <1>c, <1>11 DEF EmitErrorEffect, Stays
  <1>12. CASE deaths < MaxDeaths /\ Gone
    <2>1. SameShape /\ SameTold /\ Loses /\ deaths' = deaths + 1
      BY <1>0, <1>12, GoneJobs DEF Gone
    <2>2. \A n \in DOMAIN jobs[c] :
              jobs[c][n].outcome # "open" => jobs'[c][n].outcome = jobs[c][n].outcome
      BY <2>1 DEF Loses
    <2> QED
      BY <1>a, <2>1, <2>2, ToldKept
  <1>13. CASE Mount
    BY <1>b, <1>c, <1>13 DEF Mount
  <1> QED
    BY <1>1, <1>2, <1>3, <1>4, <1>5, <1>6, <1>7, <1>8, <1>9, <1>10, <1>11, <1>12, <1>13 DEF Step
-----------------------------------------------------------------------------
(* The inductive invariant: what is told is true because the reports on    *)
(* their way are.                                                          *)
Inductive ==
    TypeOK /\ CallsInv /\ MessagesInv /\ AnswerInv /\ LoneInv /\ ToldTheTruth

LEMMA InitialState ==
    ASSUME Init
    PROVE  Inductive
  <1>1. \A c \in Clients : jobs[c] = <<>> /\ inbox[c] = <<>>
    BY DEF Init
  <1>2. \A c \in Clients : DOMAIN jobs[c] = {} /\ DOMAIN inbox[c] = {} /\ ~Waiting(c)
    BY <1>1 DEF Waiting
  <1>3. TypeOK
    <2>1. node \in [Paths -> {"absent", "device", "file"}]
      BY DEF Init, Paths
    <2>2. mounted \subseteq {d \in Devices : node[d] = "device"}
      BY DEF Init
    <2>3. /\ jobs \in [Clients -> Seq(JobType)] /\ inbox \in [Clients -> Seq(Messages)]
          /\ calls \in Seq(Clients \X Nat)
      BY DEF Init
    <2>4. deaths \in 0 .. MaxDeaths
      BY BoundsAssumption DEF Init
    <2> QED
      BY <2>1, <2>2, <2>3, <2>4 DEF TypeOK, Init
  <1>4. CallsInv
    BY DEF CallsInv, Init
  <1>5. MessagesInv /\ AnswerInv
    BY <1>2 DEF MessagesInv, AnswerInv
  <1>6. LoneInv
    BY <1>1 DEF LoneInv
  <1>7. ToldTheTruth
    BY <1>2 DEF ToldTheTruth
  <1> QED
    BY <1>3, <1>4, <1>5, <1>6, <1>7 DEF Inductive

LEMMA Stutter ==
    ASSUME Inductive, UNCHANGED vars
    PROVE  Inductive'
  <1>1. UNCHANGED <<node, mounted, jobs, inbox, calls, running, phase, deaths>>
    BY DEF vars
  <1>2. TypeOK' /\ CallsInv' /\ MessagesInv'
    BY <1>1 DEF Inductive, TypeOK, CallsInv, MessagesInv, IsCall, Job
  <1>3. AnswerInv' /\ ToldTheTruth'
    BY <1>1 DEF Inductive, AnswerInv, ToldTheTruth, Waiting, Newest, InDaemon, Open, Lone, Disturbed
  <1>4. LoneInv'
    <2> SUFFICES ASSUME NEW c \in Clients, Lone(c)'
                 PROVE  LoneTrue(c)'
      BY DEF LoneInv, LoneTrue
    <2>1. LoneTrue(c)
      BY <1>1 DEF Inductive, LoneInv, LoneTrue, Lone
    <2> QED
      BY <1>1, <2>1 DEF LoneTrue, Disturbed, InDaemonInv, InDaemon, Open, Waiting, Newest,
         Reports, ReportTrue, LateLost
  <1> QED
    BY <1>2, <1>3, <1>4 DEF Inductive

LEMMA InductiveStep ==
    Inductive /\ [Next]_vars => Inductive'
  <1> SUFFICES ASSUME Inductive, [Next]_vars
               PROVE  Inductive'
    OBVIOUS
  <1>1. CASE Next
    <2>1. Step
      BY <1>1, Steps DEF Inductive
    <2> QED
      BY <2>1, TypePreserved, CallsPreserved, MessagesPreserved, AnswerPreserved,
         LonePreserved, TruthPreserved DEF Inductive
  <1>2. CASE UNCHANGED vars
    BY <1>2, Stutter
  <1> QED
    BY <1>1, <1>2

(* Any number of clients may start any number of jobs, and the daemon may  *)
(* die at any step of any handler: a call is in one place and its job      *)
(* shows what was done for it; the answer to an open job is there, on its  *)
(* way, or the daemon still has the call, so that only an early reply or a *)
(* restore can leave an application without news.                          *)
THEOREM ServiceIsInvariant ==
    Spec => []ServiceInvariant
  <1>1. Init => Inductive
    BY InitialState
  <1>2. Inductive => ServiceInvariant
    BY AnswersBreakSilence DEF Inductive, ServiceInvariant
  <1> QED
    BY <1>1, <1>2, InductiveStep, PTL DEF Spec

(* What a lone application is told of a job is what became of the job, for *)
(* every number of jobs and deaths, but for the error of a late reply that *)
(* was lost.                                                               *)
THEOREM TruthIsTold ==
    Spec => []ToldTheTruth
  <1>1. Init => Inductive
    BY InitialState
  <1>2. Inductive => ToldTheTruth
    BY DEF Inductive
  <1> QED
    BY <1>1, <1>2, InductiveStep, PTL DEF Spec
=============================================================================
