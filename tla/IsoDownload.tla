---------------------------- MODULE IsoDownload ----------------------------
(***************************************************************************)
(* The uploadISO step (internal/pkg/provider/provision.go) up to the       *)
(* moment syncVM takes the ISO: machines that need the same ISO on the     *)
(* same node share one download through pendingISODownloads, a map in      *)
(* memory that is read and written under a mutex held over the calls.      *)
(*                                                                         *)
(* A download is a task of Proxmox.  It runs on when the provider is       *)
(* restarted, it may fail, and once it has ended Proxmox may forget it.    *)
(***************************************************************************)
EXTENDS Naturals, Sequences, FiniteSets

CONSTANTS
  Machines,     \* machine requests
  Nodes, Isos,  \* nodes, and the names of installation media
  Places,       \* what the machines may need: functions to Volumes
  NoMachine,    \* holder of a mutex nobody holds
  FaultBudgets  \* how often each kind of fault may happen: a bound for TLC

\* The ISO storage of a node has a file for each name.
Volumes == [node: Nodes, iso: Isos]

FaultKinds ==
  {"error",      \* a call fails without effect
   "lost",       \* a call takes effect but its answer or the commit is lost
   "crash",      \* the provider is restarted
   "fails",      \* a download fails
   "forgotten",  \* Proxmox forgets a task that has ended
   "removed"}    \* an administrator removes an ISO

ASSUME PlacesAssumption == Places \subseteq [Machines -> Volumes]
ASSUME NoMachineAssumption == NoMachine \notin Machines
ASSUME BudgetAssumption == FaultBudgets \subseteq [FaultKinds -> Nat]

VARIABLES
  place,    \* the ISO the machine needs, on the node it was placed on
  upload,   \* VolumeUploadTask as persisted in Omni; 0 is the empty task id
  pc,       \* the call the machine's reconcile performs next
  posted,   \* the task of a download that was requested and not recorded yet
  mu,       \* the holder of pendingISODownloadsMu
  pending,  \* pendingISODownloads; 0 stands for no entry
  tasks,    \* Proxmox: the downloads; a UPID is an index
  stored,   \* Proxmox: whether the ISO is there, or was before its removal
  calm,     \* history: the provider has missed nothing so far, see Misses
  faults    \* the faults still to happen

stepVars    == <<place, pc, upload, posted>>
processVars == <<mu, pending>>
proxmoxVars == <<tasks, stored>>
vars == <<stepVars, processVars, proxmoxVars, calm, faults>>

\* Faulty variant: nodes share an entry although they share no storage.
UploadIDOfName(v) == v.iso

\* isoUploadID
UploadID(v) == <<v.node, v.iso>>

UploadIDs == {UploadID(v) : v \in Volumes}

Critical == {"lookup", "ping", "download"}

Task ==
  [volume: Volumes, status: {"running", "ok", "failed", "forgotten"}]

\* The mutex is held by the machine that is in the critical section.
TypeOK ==
  /\ place \in [Machines -> Volumes]
  /\ upload \in [Machines -> 0..Len(tasks)]
  /\ pc \in [Machines -> {"idle", "lock", "posted", "syncVM", "created", "gone"}
                           \cup Critical]
  /\ posted \in [Machines -> 0..Len(tasks)]
  /\ mu \in Machines \cup {NoMachine}
  /\ \A m \in Machines : pc[m] \in Critical <=> mu = m
  /\ pending \in [UploadIDs -> 0..Len(tasks)]
  /\ tasks \in Seq(Task)
  /\ stored \in [Volumes -> {"absent", "present", "removed"}]
  /\ calm \in BOOLEAN
  /\ faults \in [FaultKinds -> Nat]

Init ==
  /\ place \in Places
  /\ upload = [m \in Machines |-> 0]
  /\ pc = [m \in Machines |-> "idle"]
  /\ posted = [m \in Machines |-> 0]
  /\ mu = NoMachine
  /\ pending = [id \in UploadIDs |-> 0]
  /\ tasks = <<>>
  /\ stored = [v \in Volumes |-> "absent"]
  /\ calm = TRUE
  /\ faults \in FaultBudgets

----------------------------------------------------------------------------
(* Helpers. *)

Goto(m, step) == pc' = [pc EXCEPT ![m] = step]

Spend(kind) ==
  /\ faults[kind] > 0
  /\ faults' = [faults EXCEPT ![kind] = @ - 1]

\* From here on a download may run that the provider does not know of.
Misses(kind) == Spend(kind) /\ calm' = FALSE

Entry(m) == pending[UploadID(place[m])]

SetEntry(m, i) == pending' = [pending EXCEPT ![UploadID(place[m])] = i]

\* Faulty variant: a download that still runs does not count.
LiveIfSuccessful(i) == tasks[i].status = "ok"

\* Faulty variant: a download counts for as long as Proxmox knows it.
LiveIfKnown(i) == tasks[i].status # "forgotten"

\* isTaskLive
Live(i) == tasks[i].status \in {"running", "ok"}

----------------------------------------------------------------------------
(* The uploadISO step. *)

\* A recorded download has succeeded: the step is done and does not look at
\* the ISO.  While the task runs the step is retried; when the task is
\* forgotten, Ping and with it the step fails: nothing changes.
CheckUpload(m) ==
  /\ pc[m] = "idle"
  /\ upload[m] # 0
  /\ tasks[upload[m]].status = "ok"
  /\ Goto(m, "syncVM")
  /\ UNCHANGED <<place, upload, posted, processVars, proxmoxVars, calm, faults>>

\* No download is recorded, or one that failed: the media is resolved.
ResolveMedia(m) ==
  /\ pc[m] = "idle"
  /\ upload[m] # 0 => tasks[upload[m]].status = "failed"
  /\ Goto(m, "lock")
  /\ UNCHANGED <<place, upload, posted, processVars, proxmoxVars, calm, faults>>

Lock(m) ==
  /\ pc[m] = "lock"
  /\ mu = NoMachine
  /\ mu' = m
  /\ Goto(m, "lookup")
  /\ UNCHANGED <<place, upload, posted, pending, proxmoxVars, calm, faults>>

\* storage.ISO finds the ISO: the step is done.
FindISO(m) ==
  /\ pc[m] = "lookup"
  /\ stored[place[m]] = "present"
  /\ SetEntry(m, 0)
  /\ mu' = NoMachine
  /\ Goto(m, "syncVM")
  /\ UNCHANGED <<place, upload, posted, proxmoxVars, calm, faults>>

\* Any error of storage.ISO counts as "not there".
MissISO(m) ==
  /\ pc[m] = "lookup"
  /\ \/ stored[place[m]] # "present" /\ UNCHANGED <<calm, faults>>
     \/ stored[place[m]] = "present" /\ Misses("error")
  /\ Goto(m, IF Entry(m) # 0 THEN "ping" ELSE "download")
  /\ UNCHANGED <<place, upload, posted, processVars, proxmoxVars>>

\* The pending download is live: it is recorded as the machine's own.
JoinDownload(m) ==
  /\ pc[m] = "ping"
  /\ Live(Entry(m))
  /\ upload' = [upload EXCEPT ![m] = Entry(m)]
  /\ mu' = NoMachine
  /\ Goto(m, "idle")
  /\ UNCHANGED <<place, posted, pending, proxmoxVars, calm, faults>>

\* It is not, or the ping failed: the entry is dropped.
DropEntry(m) ==
  /\ pc[m] = "ping"
  /\ \/ ~Live(Entry(m)) /\ UNCHANGED <<calm, faults>>
     \/ Live(Entry(m)) /\ Misses("error")
  /\ SetEntry(m, 0)
  /\ Goto(m, "download")
  /\ UNCHANGED <<place, upload, posted, mu, proxmoxVars>>

\* DownloadURL returns a task; the answer may be lost on the way.
Download(m) ==
  /\ pc[m] = "download"
  /\ tasks' = Append(tasks, [volume |-> place[m], status |-> "running"])
  /\ mu' = NoMachine
  /\ \/ /\ SetEntry(m, Len(tasks) + 1)
        /\ posted' = [posted EXCEPT ![m] = Len(tasks) + 1]
        /\ Goto(m, "posted")
        /\ UNCHANGED <<calm, faults>>
     \/ /\ Misses("lost")
        /\ Goto(m, "idle")
        /\ UNCHANGED <<pending, posted>>
  /\ UNCHANGED <<place, upload, stored>>

\* The record of the task is persisted, unless the commit fails.
Commit(m) ==
  /\ pc[m] = "posted"
  /\ \/ upload' = [upload EXCEPT ![m] = posted[m]] /\ UNCHANGED faults
     \/ Spend("lost") /\ UNCHANGED upload
  /\ posted' = [posted EXCEPT ![m] = 0]
  /\ Goto(m, "idle")
  /\ UNCHANGED <<place, processVars, proxmoxVars, calm>>

\* syncVM needs the ISO and fails without it; the next reconcile starts
\* again at uploadISO, with what is recorded.
TakeISO(m) ==
  /\ pc[m] = "syncVM"
  /\ Goto(m, IF stored[place[m]] = "present" THEN "created" ELSE "idle")
  /\ UNCHANGED <<place, upload, posted, processVars, proxmoxVars, calm, faults>>

\* Faulty variant: the mutex is not released on an error.
CallFailsLocked(m) ==
  /\ pc[m] \in {"download", "syncVM"}
  /\ Spend("error")
  /\ Goto(m, "idle")
  /\ UNCHANGED <<place, upload, posted, processVars, proxmoxVars, calm>>

\* DownloadURL, or a call of syncVM, fails.
CallFails(m) ==
  /\ pc[m] \in {"download", "syncVM"}
  /\ Spend("error")
  /\ mu' = IF mu = m THEN NoMachine ELSE mu
  /\ Goto(m, "idle")
  /\ UNCHANGED <<place, upload, posted, pending, proxmoxVars, calm>>

\* A machine is torn down between two reconciles; its download runs on.
TearDown(m) ==
  /\ pc[m] = "idle"
  /\ Goto(m, "gone")
  /\ UNCHANGED <<place, upload, posted, processVars, proxmoxVars, calm, faults>>

\* The provider is restarted: the map and every reconcile are forgotten.
Crash ==
  /\ Misses("crash")
  /\ mu' = NoMachine
  /\ pending' = [id \in UploadIDs |-> 0]
  /\ pc' = [m \in Machines |->
              IF pc[m] \in {"created", "gone"} THEN pc[m] ELSE "idle"]
  /\ posted' = [m \in Machines |-> 0]
  /\ UNCHANGED <<place, upload, proxmoxVars>>

----------------------------------------------------------------------------
(* Proxmox and its administrator. *)

\* A download appears in the storage when it is complete.  One that finds
\* the file there already may succeed or fail.
DownloadEnds(i) ==
  LET v == tasks[i].volume IN
  /\ tasks[i].status = "running"
  /\ \/ /\ tasks' = [tasks EXCEPT ![i].status = "ok"]
        /\ stored' = [stored EXCEPT ![v] = "present"]
        /\ UNCHANGED faults
     \/ /\ tasks' = [tasks EXCEPT ![i].status = "failed"]
        /\ IF stored[v] = "present" THEN UNCHANGED faults ELSE Spend("fails")
        /\ UNCHANGED stored
  /\ UNCHANGED <<stepVars, processVars, calm>>

\* What an old task has done cannot be told any more.
Forget(i) ==
  /\ tasks[i].status \in {"ok", "failed"}
  /\ Misses("forgotten")
  /\ tasks' = [tasks EXCEPT ![i].status = "forgotten"]
  /\ UNCHANGED <<stepVars, processVars, stored>>

AdminRemoves(v) ==
  /\ stored[v] = "present"
  /\ Spend("removed")
  /\ stored' = [stored EXCEPT ![v] = "removed"]
  /\ UNCHANGED <<stepVars, processVars, tasks, calm>>

----------------------------------------------------------------------------
(* The specification. *)

Reconcile(m) ==
  \/ CheckUpload(m)
  \/ ResolveMedia(m)
  \/ Lock(m)
  \/ FindISO(m)
  \/ MissISO(m)
  \/ JoinDownload(m)
  \/ DropEntry(m)
  \/ Download(m)
  \/ Commit(m)
  \/ TakeISO(m)

Next ==
  \/ \E m \in Machines : Reconcile(m) \/ CallFails(m) \/ TearDown(m)
  \/ Crash
  \/ \E i \in DOMAIN tasks : DownloadEnds(i) \/ Forget(i)
  \/ \E v \in Volumes : AdminRemoves(v)

Spec == Init /\ [][Next]_vars

\* Omni keeps reconciling, and Proxmox ends its downloads.
Fairness ==
  /\ \A m \in Machines : WF_vars(Reconcile(m))
  /\ WF_vars(\E i \in DOMAIN tasks : DownloadEnds(i))

FairSpec == Spec /\ Fairness

----------------------------------------------------------------------------
(* Properties. *)

Downloading(v) ==
  {i \in DOMAIN tasks : tasks[i].volume = v /\ tasks[i].status = "running"}

\* Machines that need an ISO on a node share one download, and none is
\* started for an ISO that is there: a dead entry is replaced once, whoever
\* finds it first.  It holds until the provider misses something: a restart,
\* a lost answer, a failing lookup or ping, or a forgotten task.
OneDownload ==
  calm => \A v \in Volumes :
            /\ Cardinality(Downloading(v)) <= 1
            /\ stored[v] = "present" => Downloading(v) = {}

\* A machine gets past uploadISO only when its ISO has landed on its node,
\* although it may never have looked at it and only trusts a task that
\* another machine started, before or after a restart.
PassesOnlyLanded ==
  \A m \in Machines :
    pc[m] \in {"syncVM", "created"} => stored[place[m]] # "absent"

Finishes(m) == pc[m] \in {"created", "gone"}

\* An ISO was removed, or the end of a download cannot be told any more.
Undone ==
  \/ \E v \in Volumes : stored[v] = "removed"
  \/ \E i \in DOMAIN tasks : tasks[i].status = "forgotten"

\* Failing calls and downloads, lost answers and restarts only delay a
\* machine: it gets its ISO unless it is torn down, or what a download has
\* done is undone, which may stop it for good (see DeadTaskIsReplaced).
UploadCompletes == \A m \in Machines : <>(Finishes(m) \/ Undone)

\* A download that will never deliver is replaced "instead of pinning every
\* machine to a dead task": no machine is stuck in uploadISO.
DeadTaskIsReplaced == \A m \in Machines : <>Finishes(m)

=============================================================================
