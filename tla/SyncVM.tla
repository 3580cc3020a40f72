------------------------------- MODULE SyncVM -------------------------------
(***************************************************************************)
(* The syncVM step from the choice of a storage to the create request, and *)
(* the end of Deprovision: how machines share resource pools of Proxmox    *)
(* (internal/pkg/provider/provision.go).  ensurePool and the request run   *)
(* under poolMu, and so does cleanupPool.                                  *)
(*                                                                         *)
(* The VM becomes a member of its pool only when the create task ends,     *)
(* after poolMu has been released.  Vmids, the ISO and the start of the VM *)
(* are the matter of other modules.                                        *)
(***************************************************************************)
EXTENDS VMOptions

CONSTANTS
  Machines,     \* machine requests
  NoMachine,    \* holder of a mutex nobody holds
  Pools,        \* pool ids, which include the ids of machine request sets
  Data,         \* the machine classes, a sequence of records as in VMOptions
  Scenarios,    \* how a behaviour may begin, see Init
  MaxVMs        \* how many VMs a machine may create: a bound for TLC

FaultKinds ==
  {"error",    \* a call fails without effect
   "lost",     \* the record of the create task is lost
   "crash",    \* the provider is restarted
   "fails",    \* a create task fails
   "admin"}    \* an administrator changes a pool

\* Who made a pool; "removed" is a pool an administrator has removed.
PoolStates == {"none", "ours", "foreign", "removed"}

Classes == DOMAIN Data

Scenario ==
  [class: [Machines -> Classes], active: SUBSET Machines,
   pools: [Pools -> {"none", "foreign"}], faults: [FaultKinds -> Nat]]

ASSUME NoMachineAssumption == NoMachine \notin Machines
ASSUME PoolsAssumption == "" \notin Pools
ASSUME DataAssumption == Data \in Seq(MachineClass)
ASSUME ClassesAssumption ==
  \A c \in Classes : PoolOf(Data[c]) \in Pools \cup {""}
ASSUME ScenariosAssumption == Scenarios \subseteq Scenario
ASSUME MaxVMsAssumption == MaxVMs \in Nat

VARIABLES
  class,   \* the class of each machine
  phase,   \* what Omni wants and knows of the machine
  rec,     \* MachineSpec: the VM created for the machine, 0 if none, and Pool
  pc,      \* the call the machine's reconcile performs next
  posted,  \* the VM that was requested and is not recorded yet
  poolMu,  \* the holder of poolMu
  pools,   \* Proxmox: the pools
  guests,  \* Proxmox: the pools into which an administrator has put a VM
  vms,     \* Proxmox: the VMs ever requested, in order
  calm,    \* history: see Disturbs
  faults   \* the faults still to happen

omniVars    == <<class, phase, rec>>
controlVars == <<pc, posted>>
proxmoxVars == <<pools, guests, vms>>
vars == <<omniVars, controlVars, poolMu, proxmoxVars, calm, faults>>

Ensuring == {"findPool", "newPool", "request"}
Cleaning == {"listPools", "loadPool", "deletePool"}

VM ==
  [owner: Machines, pool: Pools \cup {""}, member: BOOLEAN,
   status: {"creating", "there", "absent"}]

Init ==
  \E s \in Scenarios :
    /\ class = s.class
    /\ phase = [m \in Machines |->
                  IF m \in s.active THEN "provisioning" ELSE "gone"]
    /\ rec = [m \in Machines |-> [vm |-> 0, pool |-> ""]]
    /\ pc = [m \in Machines |-> "idle"]
    /\ posted = [m \in Machines |-> 0]
    /\ poolMu = NoMachine
    /\ pools = s.pools
    /\ guests = {}
    /\ vms = <<>>
    /\ calm = TRUE
    /\ faults = s.faults

----------------------------------------------------------------------------
(* Helpers. *)

Class(m) == Data[class[m]]

Pool(m) == PoolOf(Class(m))

Exists(p) == pools[p] \in {"ours", "foreign"}

Members(p) == {i \in DOMAIN vms : vms[i].member /\ vms[i].pool = p}

IsEmpty(p) == Members(p) = {} /\ p \notin guests

Goto(m, step) == pc' = [pc EXCEPT ![m] = step]

Holds(m) == poolMu = m

\* The step returns, and with it the deferred Unlock.
Return(m) ==
  /\ Goto(m, "idle")
  /\ poolMu' = IF Holds(m) THEN NoMachine ELSE poolMu

Gone(m) == phase' = [phase EXCEPT ![m] = "gone"]

Spend(kind) ==
  /\ faults[kind] > 0
  /\ faults' = [faults EXCEPT ![kind] = @ - 1]

\* From here on a pool of ours may be left behind.
Disturbs(kind) == Spend(kind) /\ calm' = FALSE

Acquire(m, from, next) ==
  /\ pc[m] = from
  /\ poolMu = NoMachine
  /\ poolMu' = m
  /\ Goto(m, next)
  /\ UNCHANGED <<omniVars, posted, proxmoxVars, calm, faults>>

----------------------------------------------------------------------------
(* The syncVM step. *)

\* A machine with no VM recorded picks the storage of its primary disk; if no
\* storage matches the step fails, and nothing has changed.  (With a create
\* task recorded the step only waits for it.)
PickPrimary(m) ==
  /\ pc[m] = "idle" /\ phase[m] = "provisioning"
  /\ rec[m].vm = 0
  /\ PickStorage(Class(m).disk.selector) # NoStorage
  /\ Goto(m, IF Pool(m) = "" THEN "request" ELSE "lockPool")
  /\ UNCHANGED <<omniVars, posted, poolMu, proxmoxVars, calm, faults>>

\* Faulty variant: the pool is ensured without the mutex.
LockPoolNever(m) ==
  /\ pc[m] = "lockPool"
  /\ Goto(m, "findPool")
  /\ UNCHANGED <<omniVars, posted, poolMu, proxmoxVars, calm, faults>>

LockPool(m) == Acquire(m, "lockPool", "findPool")

\* ensurePool: a pool that is not there is created only for the machine
\* request set itself.
FindPool(m) ==
  /\ pc[m] = "findPool"
  /\ \/ Exists(Pool(m)) /\ Goto(m, "request") /\ UNCHANGED poolMu
     \/ /\ ~Exists(Pool(m)) /\ Pool(m) = Class(m).set
        /\ Goto(m, "newPool")
        /\ UNCHANGED poolMu
     \/ ~Exists(Pool(m)) /\ Pool(m) # Class(m).set /\ Return(m)
  /\ UNCHANGED <<omniVars, posted, proxmoxVars, calm, faults>>

NewPool(m) ==
  /\ pc[m] = "newPool"
  /\ \/ /\ ~Exists(Pool(m))
        /\ pools' = [pools EXCEPT ![Pool(m)] = "ours"]
        /\ Goto(m, "request")
        /\ UNCHANGED poolMu
     \/ Exists(Pool(m)) /\ Return(m) /\ UNCHANGED pools
  /\ UNCHANGED <<omniVars, posted, guests, vms, calm, faults>>

\* The storages of the additional disks are picked, and Proxmox takes the
\* request, which names a pool that has to exist.
Accepted(m) ==
  /\ PicksDisks(Class(m))
  /\ Pool(m) # "" => Exists(Pool(m))
  /\ Cardinality({i \in DOMAIN vms : vms[i].owner = m}) < MaxVMs

\* Faulty variant: poolMu stays locked when the step fails.
RequestVMLocked(m) ==
  /\ pc[m] = "request"
  /\ \/ /\ Accepted(m)
        /\ vms' = Append(vms, [owner |-> m, pool |-> Pool(m), member |-> FALSE,
                               status |-> "creating"])
        /\ posted' = [posted EXCEPT ![m] = Len(vms) + 1]
        /\ poolMu' = IF Holds(m) THEN NoMachine ELSE poolMu
        /\ Goto(m, "posted")
        /\ UNCHANGED calm
     \/ /\ ~Accepted(m)
        /\ calm' = FALSE
        /\ Goto(m, "idle")
        /\ UNCHANGED <<posted, poolMu, vms>>
  /\ UNCHANGED <<omniVars, pools, guests, faults>>

RequestVM(m) ==
  /\ pc[m] = "request"
  /\ \/ /\ Accepted(m)
        /\ vms' = Append(vms, [owner |-> m, pool |-> Pool(m), member |-> FALSE,
                               status |-> "creating"])
        /\ posted' = [posted EXCEPT ![m] = Len(vms) + 1]
        /\ poolMu' = IF Holds(m) THEN NoMachine ELSE poolMu
        /\ Goto(m, "posted")
        /\ UNCHANGED calm
     \/ /\ ~Accepted(m)
        /\ calm' = FALSE
        /\ Return(m)
        /\ UNCHANGED <<posted, vms>>
  /\ UNCHANGED <<omniVars, pools, guests, faults>>

\* The create task and the pool are recorded, unless the commit fails.
Commit(m) ==
  /\ pc[m] = "posted"
  /\ \/ /\ rec' = [rec EXCEPT ![m] = [vm |-> posted[m], pool |-> Pool(m)]]
        /\ UNCHANGED <<calm, faults>>
     \/ Disturbs("lost") /\ UNCHANGED rec
  /\ posted' = [posted EXCEPT ![m] = 0]
  /\ Goto(m, "idle")
  /\ UNCHANGED <<class, phase, poolMu, proxmoxVars>>

\* A call fails between the lock and the answer to the request.
CallFails(m) ==
  /\ pc[m] \in Ensuring
  /\ Disturbs("error")
  /\ Return(m)
  /\ UNCHANGED <<omniVars, posted, proxmoxVars>>

----------------------------------------------------------------------------
(* Deprovision. *)

\* Faulty variant: the pool is cleaned up only after a VM that was found.
DeprovisionOnlyFound(m) ==
  LET i == rec[m].vm IN
  /\ pc[m] = "idle" /\ phase[m] = "tearingDown"
  /\ \/ /\ i # 0 /\ vms[i].status = "there"
        /\ vms' = [vms EXCEPT ![i].status = "absent", ![i].member = FALSE]
        /\ IF rec[m].pool = "" THEN Gone(m) /\ UNCHANGED pc
                               ELSE Goto(m, "lockCleanup") /\ UNCHANGED phase
     \/ /\ IF i = 0 THEN TRUE ELSE vms[i].status = "absent"
        /\ Gone(m)
        /\ UNCHANGED <<pc, vms>>
  /\ UNCHANGED <<class, rec, posted, poolMu, pools, guests, calm, faults>>

\* Deprovision up to the cleanup: with no VM recorded it returns; the VM, if
\* it is still there, is stopped and deleted.  One that is being created is
\* locked, and Deprovision fails until that has ended.
Deprovision(m) ==
  LET i == rec[m].vm IN
  /\ pc[m] = "idle" /\ phase[m] = "tearingDown"
  /\ \/ i = 0 /\ Gone(m) /\ UNCHANGED <<pc, vms>>
     \/ /\ i # 0 /\ vms[i].status # "creating"
        /\ vms' = [vms EXCEPT ![i].status = "absent", ![i].member = FALSE]
        /\ IF rec[m].pool = "" THEN Gone(m) /\ UNCHANGED pc
                               ELSE Goto(m, "lockCleanup") /\ UNCHANGED phase
  /\ UNCHANGED <<class, rec, posted, poolMu, pools, guests, calm, faults>>

LockCleanup(m) == Acquire(m, "lockCleanup", "listPools")

\* cleanupPool is done, whatever came of it: Deprovision returns nil.
CleanedUp(m) == Return(m) /\ Gone(m)

\* The pool is listed as ours, ...
ListPools(m) ==
  /\ pc[m] = "listPools"
  /\ \/ /\ pools[rec[m].pool] = "ours"
        /\ Goto(m, "loadPool")
        /\ UNCHANGED <<phase, poolMu>>
     \/ pools[rec[m].pool] # "ours" /\ CleanedUp(m)
  /\ UNCHANGED <<class, rec, posted, proxmoxVars, calm, faults>>

\* ... its detail says so too and shows no members, ...
LoadPool(m) ==
  LET p == rec[m].pool IN
  /\ pc[m] = "loadPool"
  /\ \/ /\ pools[p] = "ours" /\ IsEmpty(p)
        /\ Goto(m, "deletePool")
        /\ UNCHANGED <<phase, poolMu>>
     \/ ~(pools[p] = "ours" /\ IsEmpty(p)) /\ CleanedUp(m)
  /\ UNCHANGED <<class, rec, posted, proxmoxVars, calm, faults>>

\* ... and it is deleted, unless Proxmox finds a member by then.
DeletePool(m) ==
  LET p == rec[m].pool IN
  /\ pc[m] = "deletePool"
  /\ IF Exists(p) /\ IsEmpty(p)
     THEN pools' = [pools EXCEPT ![p] = "none"]
     ELSE UNCHANGED pools
  /\ CleanedUp(m)
  /\ UNCHANGED <<class, rec, posted, guests, vms, calm, faults>>

\* A failing call of the cleanup is logged only.
CleanupFails(m) ==
  /\ pc[m] \in Cleaning
  /\ Disturbs("error")
  /\ CleanedUp(m)
  /\ UNCHANGED <<class, rec, posted, proxmoxVars>>

----------------------------------------------------------------------------
(* Omni, Proxmox, administrators, and a restart. *)

RequestTeardown(m) ==
  /\ phase[m] = "provisioning"
  /\ phase' = [phase EXCEPT ![m] = "tearingDown"]
  /\ UNCHANGED <<class, rec, controlVars, poolMu, proxmoxVars, calm, faults>>

\* A create task ends: the VM joins its pool, if that still exists.
CreateEnds(i) ==
  /\ vms[i].status = "creating"
  /\ \/ /\ vms' = [vms EXCEPT
                     ![i].status = "there",
                     ![i].member = vms[i].pool # "" /\ Exists(vms[i].pool)]
        /\ UNCHANGED faults
     \/ /\ Spend("fails")
        /\ vms' = [vms EXCEPT ![i].status = "absent"]
  /\ UNCHANGED <<omniVars, controlVars, poolMu, pools, guests, calm>>

\* An administrator makes a pool, removes an empty one, or puts a VM into one.
AdminChanges(p) ==
  /\ Spend("admin")
  /\ \/ /\ ~Exists(p)
        /\ pools' = [pools EXCEPT ![p] = "foreign"]
        /\ UNCHANGED guests
     \/ /\ Exists(p) /\ IsEmpty(p)
        /\ pools' = [pools EXCEPT ![p] = "removed"]
        /\ UNCHANGED guests
     \/ Exists(p) /\ guests' = guests \cup {p} /\ UNCHANGED pools
  /\ UNCHANGED <<omniVars, controlVars, poolMu, vms, calm>>

Crash ==
  /\ Disturbs("crash")
  /\ poolMu' = NoMachine
  /\ pc' = [m \in Machines |-> "idle"]
  /\ posted' = [m \in Machines |-> 0]
  /\ UNCHANGED <<omniVars, proxmoxVars>>

----------------------------------------------------------------------------
(* The specification. *)

Sync(m) ==
  \/ PickPrimary(m)
  \/ FindPool(m)
  \/ NewPool(m)
  \/ RequestVM(m)
  \/ Commit(m)

TearDown(m) ==
  \/ Deprovision(m)
  \/ ListPools(m)
  \/ LoadPool(m)
  \/ DeletePool(m)

Locking(m) == LockPool(m) \/ LockCleanup(m)

Next ==
  \/ \E m \in Machines : Sync(m) \/ TearDown(m) \/ Locking(m)
  \/ \E m \in Machines : CallFails(m) \/ CleanupFails(m) \/ RequestTeardown(m)
  \/ \E i \in DOMAIN vms : CreateEnds(i)
  \/ \E p \in Pools : AdminChanges(p)
  \/ Crash

Spec == Init /\ [][Next]_vars

\* Omni keeps reconciling and Proxmox ends its tasks.  A goroutine that waits
\* for a sync.Mutex gets it, however often others take it: hence SF.
Fairness ==
  /\ \A m \in Machines : WF_vars(Sync(m) \/ TearDown(m)) /\ SF_vars(Locking(m))
  /\ WF_vars(\E i \in DOMAIN vms : CreateEnds(i))

FairSpec == Spec /\ Fairness

----------------------------------------------------------------------------
(* Properties. *)

\* poolMu is held by the machine that ensures its pool or cleans it up.
TypeOK ==
  /\ class \in [Machines -> Classes]
  /\ phase \in [Machines -> {"provisioning", "tearingDown", "gone"}]
  /\ rec \in [Machines -> [vm: 0..Len(vms), pool: Pools \cup {""}]]
  /\ pc \in [Machines -> {"idle", "lockPool", "lockCleanup", "posted"}
                           \cup Ensuring \cup Cleaning]
  /\ posted \in [Machines -> 0..Len(vms)]
  /\ poolMu \in Machines \cup {NoMachine}
  /\ \A m \in Machines :
       Holds(m) <=> \/ pc[m] \in Cleaning
                    \/ pc[m] \in Ensuring /\ Pool(m) # ""
  /\ pools \in [Pools -> PoolStates]
  /\ guests \in SUBSET Pools
  /\ vms \in Seq(VM)
  /\ calm \in BOOLEAN
  /\ faults \in [FaultKinds -> Nat]

\* A pool the provider deletes is one it made, without members, and no
\* machine is between finding that pool and sending the request that names
\* it: list, detail and delete of one machine do not overlap with list,
\* create and request of another.  That holds as long as an administrator
\* changes the pools once: a pool that is removed and made again between
\* detail and delete is deleted although it is not the provider's.
DeletesOnlyUnused ==
  [][\A p \in Pools : Exists(p) /\ pools'[p] = "none" =>
       /\ pools[p] = "ours" /\ IsEmpty(p)
       /\ \A m \in Machines : Pool(m) = p => pc[m] \notin Ensuring]_vars

\* As long as every failure is one of a create task, a pool of ours with no
\* members belongs to a machine that is not gone: the last one to go deletes
\* it, whichever order VMs are created, fail and are torn down in.  (A call
\* that fails after ensurePool, or in the cleanup, leaves the pool behind.)
NoPoolLeftBehind ==
  calm => \A p \in Pools : pools[p] = "ours" /\ IsEmpty(p) =>
            \E m \in Machines : Pool(m) = p /\ phase[m] # "gone"

\* Nobody waits for poolMu forever, although the step returns on many paths
\* and a machine whose pool is missing takes the mutex on every retry.
MutexIsFree ==
  \A m \in Machines :
    pc[m] \in {"lockPool", "lockCleanup"}
      ~> pc[m] \notin {"lockPool", "lockCleanup"}

\* The VM that Proxmox is asked for.
Asked(m) == Reads(Request(Options(m, Class(m))))

\* The VM that Proxmox is asked for is the one the class means: no setting is
\* dropped, misread or replaced by one that comes later in the request, and none
\* is there that the class does not ask for.  The exception is a ROM BAR, which
\* is on whatever the class says (Built): rombar set to false is lost.
AsksForTheClass ==
  \A m \in Machines : pc[m] = "posted" => Asked(m) = Built(m, Class(m))

=============================================================================
