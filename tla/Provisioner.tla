---------------------------- MODULE Provisioner ----------------------------
(***************************************************************************)
(* The life of the machines of the provider: the provision steps pickNode, *)
(* syncVM, startVM, registerHA and syncHARules, and Deprovision            *)
(* (internal/pkg/provider/provision.go and ha/manager.go).                 *)
(*                                                                         *)
(* Omni runs one reconcile of a machine at a time and reconciles different *)
(* machines concurrently.  A reconcile runs the steps from the first one;  *)
(* what a step assigns to the machine's state is persisted when it returns *)
(* nil or asks for a retry, and is lost when it returns any other error or *)
(* the provider dies.  Every remote call is an action of its own, and so   *)
(* is the commit that follows a call which changes something in Proxmox:   *)
(* between the two the provider may die (Crash) or the answer may be lost  *)
(* (ReplyLost).                                                            *)
(*                                                                         *)
(* Proxmox is external: VMs are named by a vmid only, a create, start,     *)
(* stop or delete request returns a task that ends later, and a VM with a  *)
(* running task is locked and refuses further requests.                    *)
(***************************************************************************)
EXTENDS Naturals, Sequences, FiniteSets

CONSTANTS
  Machines,      \* machine requests
  Nodes,         \* Proxmox nodes
  VMIDs,         \* ids Proxmox hands out, numbers greater than 0
  HAMachines,    \* the machines whose class has an ha: block at first
  NoNode,        \* the empty node name
  NoMachine,     \* owner of no VM
  FaultBudget,   \* how often each kind of fault may happen: a bound for TLC
  MaxRequests    \* how many requests of a kind Proxmox accepts for one
                 \* machine before it refuses more: a bound for TLC

FaultKinds ==
  {"error",        \* a call fails without effect, or an answer is a failure
   "lost",         \* a call takes effect but its answer or the commit is lost
   "crash",        \* the provider is restarted
   "createFails",  \* a create task ends in failure
   "startFails",   \* a start task ends in failure
   "removed",      \* an administrator removes a VM
   "migrated",     \* the HA manager moves a VM to another node
   "offline",      \* a node goes offline
   "edited"}       \* the ha: block is dropped from, or added to, the class

TaskKinds == {"create", "start", "stop", "delete"}

ASSUME VMIDsAssumption == VMIDs \subseteq Nat \ {0}
ASSUME HAAssumption == HAMachines \subseteq Machines
ASSUME NoNodeAssumption == NoNode \notin Nodes
ASSUME NoMachineAssumption == NoMachine \notin Machines
ASSUME BudgetAssumption == FaultBudget \in [FaultKinds -> Nat]
ASSUME MaxRequestsAssumption == MaxRequests \in [TaskKinds -> Nat]

VARIABLES
  phase,    \* what Omni wants and knows of the machine
  rec,      \* the machine state persisted in Omni (MachineSpec)
  wantsHA,  \* whether the machine class has an ha: block now
  pc,       \* the call or commit the machine's reconcile performs next
  work,     \* local variables of the reconcile in progress
  vm,       \* Proxmox: the VM under each vmid
  tasks,    \* Proxmox: the tasks started for each machine; a UPID is an index
  haRes,    \* Proxmox: the vmids that are HA resources
  online,   \* Proxmox: the nodes that are online
  faults    \* the faults still to happen

omniVars    == <<phase, rec, wantsHA>>
controlVars == <<pc, work>>
proxmoxVars == <<vm, tasks, haRes, online>>
vars == <<omniVars, controlVars, proxmoxVars, faults>>

----------------------------------------------------------------------------
(* State. *)

Phases == {"provisioning", "provisioned", "tearingDown", "gone"}

\* MachineSpec: task 0 stands for the empty task id, vmid 0 for no VM.
MachineSpec ==
  [node: Nodes \cup {NoNode}, createTask: Nat, vmid: VMIDs \cup {0},
   startTask: Nat, haRegistered: BOOLEAN]

NewMachine ==
  [node |-> NoNode, createTask |-> 0, vmid |-> 0,
   startTask |-> 0, haRegistered |-> FALSE]

\* The steps that wait to commit the effect of a call that has been made.
CommitSteps == {"created", "started", "registered"}

\* The steps at which a failing call ends the reconcile with nothing done.
CallSteps ==
  {"syncVM", "create", "startVM", "start", "registerHA", "syncHARules",
   "teardownHA", "listNodes", "scanNodes", "getVM", "stop", "awaitStop",
   "delete", "awaitDelete"}

Steps == {"idle"} \cup CommitSteps \cup CallSteps

\* vmid: NextID's answer; task: UPID of the last request; node, scan: where
\* Deprovision looks for the VM, and the nodes FindVMNode has yet to list.
Locals ==
  [vmid: VMIDs \cup {0}, task: Nat, node: Nodes \cup {NoNode},
   scan: SUBSET Nodes]

NoLocals == [vmid |-> 0, task |-> 0, node |-> NoNode, scan |-> {}]

\* owner is the machine a VM was created for, joins the machine whose join
\* configuration CloudInit attached last.
VM ==
  [status: {"absent", "stopped", "running"}, node: Nodes \cup {NoNode},
   owner: Machines \cup {NoMachine}, joins: Machines \cup {NoMachine}]

NoVM ==
  [status |-> "absent", node |-> NoNode, owner |-> NoMachine,
   joins |-> NoMachine]

Task ==
  [kind: TaskKinds, vmid: VMIDs,
   status: {"running", "ok", "failed"}]

Typed ==
  /\ phase \in [Machines -> Phases]
  /\ rec \in [Machines -> MachineSpec]
  /\ wantsHA \in [Machines -> BOOLEAN]
  /\ pc \in [Machines -> Steps]
  /\ work \in [Machines -> Locals]
  /\ vm \in [VMIDs -> VM]
  /\ tasks \in [Machines -> Seq(Task)]
  /\ haRes \in SUBSET VMIDs
  /\ online \in SUBSET Nodes
  /\ faults \in [FaultKinds -> Nat]

\* A reconcile that has passed NextID holds a vmid, and one that has passed
\* syncVM, or is tearing down, works on a machine whose vmid is recorded.
VMIDKnown ==
  \A m \in Machines :
    /\ pc[m] \in {"create", "created"} => work[m].vmid # 0
    /\ rec[m].createTask # 0 => rec[m].vmid # 0
    /\ pc[m] \notin {"idle", "syncVM", "create", "created"} => rec[m].vmid # 0

\* Every value is of its type, and a call that takes a vmid has one: 0, which
\* is that of no VM, is never sent.
TypeOK == Typed /\ VMIDKnown

Init ==
  /\ phase = [m \in Machines |-> "provisioning"]
  /\ rec = [m \in Machines |-> NewMachine]
  /\ wantsHA = [m \in Machines |-> m \in HAMachines]
  /\ pc = [m \in Machines |-> "idle"]
  /\ work = [m \in Machines |-> NoLocals]
  /\ vm = [v \in VMIDs |-> NoVM]
  /\ tasks = [m \in Machines |-> <<>>]
  /\ haRes = {}
  /\ online = Nodes
  /\ faults = FaultBudget

----------------------------------------------------------------------------
(* Proxmox, as the provider uses it. *)

IsFree(v) == vm[v].status = "absent"

\* A GET of VM v through node n finds it.
IsOn(v, n) == ~IsFree(v) /\ vm[v].node = n /\ n \in online

IsLocked(v) ==
  \E m \in Machines : \E i \in DOMAIN tasks[m] :
    tasks[m][i].vmid = v /\ tasks[m][i].status = "running"

WithinBound(m, kind) ==
  Cardinality({i \in DOMAIN tasks[m] : tasks[m][i].kind = kind})
    < MaxRequests[kind]

\* Proxmox accepts a request for the VM v of node n.
Accepts(m, kind, v, n) == IsOn(v, n) /\ ~IsLocked(v) /\ WithinBound(m, kind)

\* Proxmox accepts a request to create the VM v on node n.
AcceptsCreate(m, v, n) == IsFree(v) /\ n \in online /\ WithinBound(m, "create")

NextUPID(m) == Len(tasks[m]) + 1

\* A request for VM v is accepted; the task it returns is the last of m's.
Post(m, kind, v) ==
  tasks' = [tasks EXCEPT
              ![m] = Append(@, [kind |-> kind, vmid |-> v, status |-> "running"])]

EndTask(m, i, status) == tasks' = [tasks EXCEPT ![m][i].status = status]

Spend(kind) ==
  /\ faults[kind] > 0
  /\ faults' = [faults EXCEPT ![kind] = @ - 1]

----------------------------------------------------------------------------
(* Control of a reconcile. *)

Goto(m, step) == pc' = [pc EXCEPT ![m] = step]

\* A retry or an error: the next reconcile starts again at the first step.
EndReconcile(m) ==
  /\ Goto(m, "idle")
  /\ work' = [work EXCEPT ![m] = NoLocals]

TaskStatus(m, upid) == tasks[m][upid].status

\* The task is pinged through its node n, which has to be online, and has this
\* status (checkTaskStatus, waitForTaskToFinish).
PingedAs(m, upid, n, status) == n \in online /\ TaskStatus(m, upid) = status

----------------------------------------------------------------------------
(* The provision steps. *)

\* pickNode, the first step: a node is chosen once.  Which online node it is
\* is the matter of the scheduler; any of them is possible here.
PickNode(m) ==
  /\ pc[m] = "idle"
  /\ phase[m] = "provisioning"
  /\ \/ rec[m].node # NoNode /\ UNCHANGED rec
     \/ /\ rec[m].node = NoNode
        /\ \E n \in online : rec' = [rec EXCEPT ![m].node = n]
  /\ Goto(m, "syncVM")
  /\ UNCHANGED <<phase, wantsHA, work, proxmoxVars, faults>>

\* Faulty variant: every task that does not run any more counts as done.
CheckCreateTaskAnyEnd(m) ==
  /\ pc[m] = "syncVM"
  /\ rec[m].createTask # 0
  /\ \/ /\ ~PingedAs(m, rec[m].createTask, rec[m].node, "running")
        /\ Goto(m, "startVM")
        /\ UNCHANGED work
     \/ /\ PingedAs(m, rec[m].createTask, rec[m].node, "running")
        /\ EndReconcile(m)
  /\ UNCHANGED <<omniVars, proxmoxVars, faults>>

\* Faulty variant: a task that has not succeeded is forgotten.
CheckCreateTaskForgets(m) ==
  /\ pc[m] = "syncVM"
  /\ rec[m].createTask # 0
  /\ \/ /\ PingedAs(m, rec[m].createTask, rec[m].node, "ok")
        /\ Goto(m, "startVM")
        /\ UNCHANGED <<rec, work>>
     \/ /\ ~PingedAs(m, rec[m].createTask, rec[m].node, "ok")
        /\ rec' = [rec EXCEPT ![m].createTask = 0]
        /\ EndReconcile(m)
  /\ UNCHANGED <<phase, wantsHA, proxmoxVars, faults>>

\* syncVM with a create task recorded waits for it.  A failed task is an
\* error, and the task stays recorded.
CheckCreateTask(m) ==
  /\ pc[m] = "syncVM"
  /\ rec[m].createTask # 0
  /\ \/ /\ PingedAs(m, rec[m].createTask, rec[m].node, "ok")
        /\ Goto(m, "startVM")
        /\ UNCHANGED work
     \/ /\ ~PingedAs(m, rec[m].createTask, rec[m].node, "ok")
        /\ EndReconcile(m)
  /\ UNCHANGED <<omniVars, proxmoxVars, faults>>

\* Faulty variant: the answer is recorded before the VM is created.
NextIDRecorded(m) ==
  /\ pc[m] = "syncVM"
  /\ rec[m].createTask = 0
  /\ \E v \in VMIDs :
       /\ IsFree(v)
       /\ \A u \in VMIDs : IsFree(u) => v <= u
       /\ work' = [work EXCEPT ![m].vmid = v]
       /\ rec' = [rec EXCEPT ![m].vmid = v]
  /\ Goto(m, "create")
  /\ UNCHANGED <<phase, wantsHA, proxmoxVars, faults>>

\* Proxmox answers the lowest vmid that is free now, if any, and reserves
\* nothing.
NextID(m) ==
  /\ pc[m] = "syncVM"
  /\ rec[m].createTask = 0
  /\ \/ \E v \in VMIDs :
          /\ IsFree(v)
          /\ \A u \in VMIDs : IsFree(u) => v <= u
          /\ work' = [work EXCEPT ![m].vmid = v]
          /\ Goto(m, "create")
     \/ /\ \A v \in VMIDs : ~IsFree(v)
        /\ EndReconcile(m)
  /\ UNCHANGED <<omniVars, proxmoxVars, faults>>

\* Faulty variant: the VM is created by force, over one that exists.
CreateVMByForce(m) ==
  LET v == work[m].vmid  n == rec[m].node IN
  /\ pc[m] = "create"
  /\ n \in online
  /\ vm' = [vm EXCEPT ![v] = [status |-> "stopped", node |-> n,
                              owner |-> m, joins |-> NoMachine]]
  /\ Post(m, "create", v)
  /\ work' = [work EXCEPT ![m].task = NextUPID(m)]
  /\ Goto(m, "created")
  /\ UNCHANGED <<omniVars, haRes, online, faults>>

\* The create request is accepted only while the vmid is free.
CreateVM(m) ==
  LET v == work[m].vmid  n == rec[m].node IN
  /\ pc[m] = "create"
  /\ \/ /\ AcceptsCreate(m, v, n)
        /\ vm' = [vm EXCEPT ![v] = [status |-> "stopped", node |-> n,
                                    owner |-> m, joins |-> NoMachine]]
        /\ Post(m, "create", v)
        /\ work' = [work EXCEPT ![m].task = NextUPID(m)]
        /\ Goto(m, "created")
     \/ /\ ~AcceptsCreate(m, v, n)
        /\ EndReconcile(m)
        /\ UNCHANGED <<vm, tasks>>
  /\ UNCHANGED <<omniVars, haRes, online, faults>>

CommitCreate(m) ==
  /\ pc[m] = "created"
  /\ rec' = [rec EXCEPT ![m].createTask = work[m].task,
                        ![m].vmid = work[m].vmid]
  /\ EndReconcile(m)
  /\ UNCHANGED <<phase, wantsHA, proxmoxVars, faults>>

\* Faulty variant: a start task that still runs counts as done.
CheckStartTaskEarly(m) ==
  /\ pc[m] = "startVM"
  /\ rec[m].startTask # 0
  /\ \/ /\ ~PingedAs(m, rec[m].startTask, rec[m].node, "failed")
        /\ Goto(m, "registerHA")
        /\ UNCHANGED <<rec, work>>
     \/ /\ PingedAs(m, rec[m].startTask, rec[m].node, "failed")
        /\ rec' = [rec EXCEPT ![m].startTask = 0]
        /\ EndReconcile(m)
  /\ UNCHANGED <<phase, wantsHA, proxmoxVars, faults>>

\* Faulty variant: a failed start task is checked forever.
CheckStartTaskForever(m) ==
  /\ pc[m] = "startVM"
  /\ rec[m].startTask # 0
  /\ \/ /\ PingedAs(m, rec[m].startTask, rec[m].node, "ok")
        /\ Goto(m, "registerHA")
        /\ UNCHANGED work
     \/ /\ ~PingedAs(m, rec[m].startTask, rec[m].node, "ok")
        /\ EndReconcile(m)
  /\ UNCHANGED <<omniVars, proxmoxVars, faults>>

\* startVM with a start task recorded waits for it; a failed one is forgotten,
\* so that the next reconcile starts the VM again.
CheckStartTask(m) ==
  /\ pc[m] = "startVM"
  /\ rec[m].startTask # 0
  /\ \/ /\ PingedAs(m, rec[m].startTask, rec[m].node, "ok")
        /\ Goto(m, "registerHA")
        /\ UNCHANGED <<rec, work>>
     \/ /\ \A s \in {"ok", "failed"} :
             ~PingedAs(m, rec[m].startTask, rec[m].node, s)
        /\ EndReconcile(m)
        /\ UNCHANGED rec
     \/ /\ PingedAs(m, rec[m].startTask, rec[m].node, "failed")
        /\ rec' = [rec EXCEPT ![m].startTask = 0]
        /\ EndReconcile(m)
  /\ UNCHANGED <<phase, wantsHA, proxmoxVars, faults>>

\* Faulty variant: a VM that has a join configuration is not given another.
InjectConfigOnce(m) ==
  LET v == rec[m].vmid IN
  /\ pc[m] = "startVM"
  /\ rec[m].startTask = 0
  /\ \/ /\ IsOn(v, rec[m].node) /\ ~IsLocked(v) /\ vm[v].joins = NoMachine
        /\ vm' = [vm EXCEPT ![v].joins = m]
        /\ Goto(m, "start")
        /\ UNCHANGED work
     \/ /\ ~IsOn(v, rec[m].node) \/ IsLocked(v) \/ vm[v].joins # NoMachine
        /\ EndReconcile(m)
        /\ UNCHANGED vm
  /\ UNCHANGED <<omniVars, tasks, haRes, online, faults>>

\* getVM and CloudInit: the machine's join configuration is attached to
\* whatever VM is under the recorded vmid on the recorded node.
InjectConfig(m) ==
  LET v == rec[m].vmid IN
  /\ pc[m] = "startVM"
  /\ rec[m].startTask = 0
  /\ \/ /\ IsOn(v, rec[m].node) /\ ~IsLocked(v)
        /\ vm' = [vm EXCEPT ![v].joins = m]
        /\ Goto(m, "start")
        /\ UNCHANGED work
     \/ /\ ~IsOn(v, rec[m].node) \/ IsLocked(v)
        /\ EndReconcile(m)
        /\ UNCHANGED vm
  /\ UNCHANGED <<omniVars, tasks, haRes, online, faults>>

StartVM(m) ==
  LET v == rec[m].vmid IN
  /\ pc[m] = "start"
  /\ \/ /\ Accepts(m, "start", v, rec[m].node)
        /\ Post(m, "start", v)
        /\ work' = [work EXCEPT ![m].task = NextUPID(m)]
        /\ Goto(m, "started")
     \/ /\ ~Accepts(m, "start", v, rec[m].node)
        /\ EndReconcile(m)
        /\ UNCHANGED tasks
  /\ UNCHANGED <<omniVars, vm, haRes, online, faults>>

CommitStart(m) ==
  /\ pc[m] = "started"
  /\ rec' = [rec EXCEPT ![m].startTask = work[m].task]
  /\ EndReconcile(m)
  /\ UNCHANGED <<phase, wantsHA, proxmoxVars, faults>>

\* The ha: block is gone although the machine is registered, or no vmid is
\* recorded: config returns an error to both HA steps.
HAConfigRefused(m) ==
  \/ ~wantsHA[m] /\ rec[m].haRegistered
  \/ wantsHA[m] /\ rec[m].vmid = 0

\* registerHA: an HA resource that exists already is adopted.
RegisterHA(m) ==
  /\ pc[m] = "registerHA"
  /\ \/ /\ HAConfigRefused(m)
        /\ EndReconcile(m)
        /\ UNCHANGED haRes
     \/ /\ ~HAConfigRefused(m) /\ ~wantsHA[m]
        /\ Goto(m, "syncHARules")
        /\ UNCHANGED <<work, haRes>>
     \/ /\ ~HAConfigRefused(m) /\ wantsHA[m]
        /\ haRes' = haRes \cup {rec[m].vmid}
        /\ Goto(m, "registered")
        /\ UNCHANGED work
  /\ UNCHANGED <<omniVars, vm, tasks, online, faults>>

CommitRegister(m) ==
  /\ pc[m] = "registered"
  /\ rec' = [rec EXCEPT ![m].haRegistered = TRUE]
  /\ Goto(m, "syncHARules")
  /\ UNCHANGED <<phase, wantsHA, work, proxmoxVars, faults>>

\* syncHARules, the last step.  A machine it succeeds for is provisioned and
\* is not reconciled again until it is torn down.
SyncHARules(m) ==
  /\ pc[m] = "syncHARules"
  /\ phase' = [phase EXCEPT ![m] =
                 IF @ = "provisioning" /\ ~HAConfigRefused(m)
                 THEN "provisioned" ELSE @]
  /\ EndReconcile(m)
  /\ UNCHANGED <<rec, wantsHA, proxmoxVars, faults>>

----------------------------------------------------------------------------
(* Deprovision: it is called again until it returns nil. *)

Gone(m) ==
  /\ phase' = [phase EXCEPT ![m] = "gone"]
  /\ EndReconcile(m)

\* Faulty variant: the VM is torn down with its HA resource in place.
BeginDeprovisionUnderHA(m) ==
  /\ pc[m] = "idle"
  /\ phase[m] = "tearingDown"
  /\ \/ rec[m].vmid = 0 /\ Gone(m)
     \/ /\ rec[m].vmid # 0
        /\ Goto(m, "listNodes")
        /\ UNCHANGED <<phase, work>>
  /\ UNCHANGED <<rec, wantsHA, proxmoxVars, faults>>

\* Faulty variant: a machine with no vmid is torn down like any other.
BeginDeprovisionOfNothing(m) ==
  /\ pc[m] = "idle"
  /\ phase[m] = "tearingDown"
  /\ \/ rec[m].haRegistered /\ Goto(m, "teardownHA") /\ UNCHANGED work
     \/ /\ ~rec[m].haRegistered
        /\ Goto(m, "getVM")
        /\ work' = [work EXCEPT ![m].node = rec[m].node]
  /\ UNCHANGED <<phase, rec, wantsHA, proxmoxVars, faults>>

\* A machine with no vmid has nothing to tear down.  The VM of a machine that
\* was never registered is looked up on the node it was placed on.
BeginDeprovision(m) ==
  /\ pc[m] = "idle"
  /\ phase[m] = "tearingDown"
  /\ \/ rec[m].vmid = 0 /\ Gone(m)
     \/ /\ rec[m].vmid # 0 /\ rec[m].haRegistered
        /\ Goto(m, "teardownHA")
        /\ UNCHANGED <<phase, work>>
     \/ /\ rec[m].vmid # 0 /\ ~rec[m].haRegistered
        /\ Goto(m, "getVM")
        /\ work' = [work EXCEPT ![m].node = rec[m].node]
        /\ UNCHANGED phase
  /\ UNCHANGED <<rec, wantsHA, proxmoxVars, faults>>

\* Faulty variant: the recorded node is trusted although HA moves VMs.
TeardownHATrustingNode(m) ==
  /\ pc[m] = "teardownHA"
  /\ haRes' = haRes \ {rec[m].vmid}
  /\ work' = [work EXCEPT ![m].node = rec[m].node]
  /\ Goto(m, "getVM")
  /\ UNCHANGED <<omniVars, vm, tasks, online, faults>>

\* A resource that is not there any more is as good as deregistered.
TeardownHA(m) ==
  /\ pc[m] = "teardownHA"
  /\ haRes' = haRes \ {rec[m].vmid}
  /\ Goto(m, "listNodes")
  /\ UNCHANGED <<omniVars, work, vm, tasks, online, faults>>

\* FindVMNode looks at the nodes that are online when it lists them ...
ListNodes(m) ==
  /\ pc[m] = "listNodes"
  /\ work' = [work EXCEPT ![m].scan = online]
  /\ Goto(m, "scanNodes")
  /\ UNCHANGED <<omniVars, proxmoxVars, faults>>

\* ... one after the other, skipping one it cannot reach any more, or failing
\* on it.  A VM it does not find has no node: the machine is done.
ScanNode(m) ==
  /\ pc[m] = "scanNodes"
  /\ \E n \in work[m].scan :
       \/ /\ IsOn(rec[m].vmid, n)
          /\ work' = [work EXCEPT ![m].node = n, ![m].scan = {}]
          /\ Goto(m, "getVM")
       \/ /\ ~IsOn(rec[m].vmid, n)
          /\ work' = [work EXCEPT ![m].scan = @ \ {n}]
          /\ UNCHANGED pc
       \/ /\ n \notin online
          /\ EndReconcile(m)
  /\ UNCHANGED <<omniVars, proxmoxVars, faults>>

FindNothing(m) ==
  /\ pc[m] = "scanNodes"
  /\ work[m].scan = {}
  /\ Gone(m)
  /\ UNCHANGED <<rec, wantsHA, proxmoxVars, faults>>

\* Faulty variant: a VM that is not there fails the call like any error.
GetVMStrict(m) ==
  /\ pc[m] = "getVM"
  /\ \/ /\ IsOn(rec[m].vmid, work[m].node)
        /\ Goto(m, "stop")
        /\ UNCHANGED work
     \/ /\ ~IsOn(rec[m].vmid, work[m].node)
        /\ EndReconcile(m)
  /\ UNCHANGED <<omniVars, proxmoxVars, faults>>

\* A VM that is not on the node is gone; a node that cannot be reached either
\* counts as gone (its name does not resolve) or fails the call.
GetVM(m) ==
  LET v == rec[m].vmid  n == work[m].node IN
  /\ pc[m] = "getVM"
  /\ \/ /\ IsOn(v, n)
        /\ Goto(m, "stop")
        /\ UNCHANGED <<phase, work>>
     \/ ~IsOn(v, n) /\ Gone(m)
     \/ /\ n \notin online
        /\ EndReconcile(m)
        /\ UNCHANGED phase
  /\ UNCHANGED <<rec, wantsHA, proxmoxVars, faults>>

\* Stop and Delete address the VM by node and vmid.
Request(m, kind, from, next) ==
  LET v == rec[m].vmid IN
  /\ pc[m] = from
  /\ \/ /\ Accepts(m, kind, v, work[m].node)
        /\ Post(m, kind, v)
        /\ work' = [work EXCEPT ![m].task = NextUPID(m)]
        /\ Goto(m, next)
     \/ /\ ~Accepts(m, kind, v, work[m].node)
        /\ EndReconcile(m)
        /\ UNCHANGED tasks
  /\ UNCHANGED <<omniVars, vm, haRes, online, faults>>

StopVM(m) == Request(m, "stop", "stop", "awaitStop")

DeleteVM(m) == Request(m, "delete", "delete", "awaitDelete")

\* waitForTaskToFinish: the wait ends with the task, or with its node.
AwaitedFails(m) ==
  \/ work[m].node \notin online
  \/ TaskStatus(m, work[m].task) = "failed"

AwaitStop(m) ==
  /\ pc[m] = "awaitStop"
  /\ \/ /\ PingedAs(m, work[m].task, work[m].node, "ok")
        /\ Goto(m, "delete")
        /\ UNCHANGED work
     \/ AwaitedFails(m) /\ EndReconcile(m)
  /\ UNCHANGED <<omniVars, proxmoxVars, faults>>

AwaitDelete(m) ==
  /\ pc[m] = "awaitDelete"
  /\ \/ PingedAs(m, work[m].task, work[m].node, "ok") /\ Gone(m)
     \/ /\ AwaitedFails(m)
        /\ EndReconcile(m)
        /\ UNCHANGED phase
  /\ UNCHANGED <<rec, wantsHA, proxmoxVars, faults>>

----------------------------------------------------------------------------
(* Proxmox ends the tasks, as long as the node of the VM is online. *)

Running(m, i, kind) ==
  /\ tasks[m][i].kind = kind
  /\ tasks[m][i].status = "running"
  /\ vm[tasks[m][i].vmid].node \in online

\* A create task that fails leaves no VM, and its vmid is free again.
CreateTaskEnds(m, i) ==
  /\ Running(m, i, "create")
  /\ \/ EndTask(m, i, "ok") /\ UNCHANGED <<vm, faults>>
     \/ /\ Spend("createFails")
        /\ EndTask(m, i, "failed")
        /\ vm' = [vm EXCEPT ![tasks[m][i].vmid] = NoVM]

\* A VM that runs already cannot be started.
StartTaskEnds(m, i) ==
  LET v == tasks[m][i].vmid IN
  /\ Running(m, i, "start")
  /\ \/ /\ vm[v].status = "stopped"
        /\ EndTask(m, i, "ok")
        /\ vm' = [vm EXCEPT ![v].status = "running"]
        /\ UNCHANGED faults
     \/ /\ vm[v].status = "running"
        /\ EndTask(m, i, "failed")
        /\ UNCHANGED <<vm, faults>>
     \/ /\ Spend("startFails")
        /\ EndTask(m, i, "failed")
        /\ UNCHANGED vm

StopTaskEnds(m, i) ==
  LET v == tasks[m][i].vmid IN
  /\ Running(m, i, "stop")
  /\ EndTask(m, i, "ok")
  /\ vm' = [vm EXCEPT ![v].status = "stopped"]
  /\ UNCHANGED faults

\* A VM that runs cannot be deleted.
DeleteTaskEnds(m, i) ==
  LET v == tasks[m][i].vmid IN
  /\ Running(m, i, "delete")
  /\ \/ /\ vm[v].status = "stopped"
        /\ EndTask(m, i, "ok")
        /\ vm' = [vm EXCEPT ![v] = NoVM]
     \/ /\ vm[v].status = "running"
        /\ EndTask(m, i, "failed")
        /\ UNCHANGED vm
  /\ UNCHANGED faults

TaskEnds(m) ==
  /\ \E i \in DOMAIN tasks[m] :
       \/ CreateTaskEnds(m, i)
       \/ StartTaskEnds(m, i)
       \/ StopTaskEnds(m, i)
       \/ DeleteTaskEnds(m, i)
  /\ UNCHANGED <<omniVars, controlVars, haRes, online>>

NodeUp(n) ==
  /\ n \notin online
  /\ online' = online \cup {n}
  /\ UNCHANGED <<omniVars, controlVars, vm, tasks, haRes, faults>>

----------------------------------------------------------------------------
(* Requests of the user, and faults. *)

RequestTeardown(m) ==
  /\ phase[m] \in {"provisioning", "provisioned"}
  /\ phase' = [phase EXCEPT ![m] = "tearingDown"]
  /\ UNCHANGED <<rec, wantsHA, controlVars, proxmoxVars, faults>>

EditHA(m) ==
  /\ Spend("edited")
  /\ wantsHA' = [wantsHA EXCEPT ![m] = ~@]
  /\ UNCHANGED <<phase, rec, controlVars, proxmoxVars>>

\* A call fails, without effect or with a failure as its answer.
CallFails(m) ==
  /\ Spend("error")
  /\ pc[m] \in CallSteps
  /\ EndReconcile(m)
  /\ UNCHANGED <<omniVars, proxmoxVars>>

\* A call took effect, but its answer or the commit after it is lost.
ReplyLost(m) ==
  /\ Spend("lost")
  /\ pc[m] \in CommitSteps
  /\ EndReconcile(m)
  /\ UNCHANGED <<omniVars, proxmoxVars>>

\* The provider dies and is started again: every reconcile is forgotten.
Crash ==
  /\ Spend("crash")
  /\ pc' = [m \in Machines |-> "idle"]
  /\ work' = [m \in Machines |-> NoLocals]
  /\ UNCHANGED <<omniVars, proxmoxVars>>

AdminRemovesVM(v) ==
  /\ Spend("removed")
  /\ ~IsFree(v) /\ ~IsLocked(v)
  /\ vm' = [vm EXCEPT ![v] = NoVM]
  /\ UNCHANGED <<omniVars, controlVars, tasks, haRes, online>>

\* The HA manager moves the VMs it manages.
MigrateVM(v, n) ==
  /\ Spend("migrated")
  /\ v \in haRes /\ ~IsFree(v) /\ ~IsLocked(v)
  /\ n \in online \ {vm[v].node}
  /\ vm' = [vm EXCEPT ![v].node = n]
  /\ UNCHANGED <<omniVars, controlVars, tasks, haRes, online>>

NodeDown(n) ==
  /\ Spend("offline")
  /\ n \in online
  /\ online' = online \ {n}
  /\ UNCHANGED <<omniVars, controlVars, vm, tasks, haRes>>

----------------------------------------------------------------------------
(* The specification. *)

Provision(m) ==
  \/ PickNode(m)
  \/ CheckCreateTask(m)
  \/ NextID(m)
  \/ CreateVM(m)
  \/ CommitCreate(m)
  \/ CheckStartTask(m)
  \/ InjectConfig(m)
  \/ StartVM(m)
  \/ CommitStart(m)
  \/ RegisterHA(m)
  \/ CommitRegister(m)
  \/ SyncHARules(m)

Deprovision(m) ==
  \/ BeginDeprovision(m)
  \/ TeardownHA(m)
  \/ ListNodes(m)
  \/ ScanNode(m)
  \/ FindNothing(m)
  \/ GetVM(m)
  \/ StopVM(m)
  \/ AwaitStop(m)
  \/ DeleteVM(m)
  \/ AwaitDelete(m)

Fault ==
  \/ Crash
  \/ \E m \in Machines : EditHA(m) \/ CallFails(m) \/ ReplyLost(m)
  \/ \E v \in VMIDs : AdminRemovesVM(v)
  \/ \E v \in VMIDs, n \in Nodes : MigrateVM(v, n)
  \/ \E n \in Nodes : NodeDown(n)

Next ==
  \/ \E m \in Machines : Provision(m)
  \/ \E m \in Machines : Deprovision(m)
  \/ \E m \in Machines : TaskEnds(m)
  \/ \E m \in Machines : RequestTeardown(m)
  \/ \E n \in Nodes : NodeUp(n)
  \/ Fault

Spec == Init /\ [][Next]_vars

\* Omni keeps reconciling a machine that is not provisioned or gone, Proxmox
\* ends its tasks and nodes come back.  Users and faults owe nothing.
Fairness ==
  /\ \A m \in Machines : /\ WF_vars(Provision(m) \/ Deprovision(m))
                         /\ WF_vars(TaskEnds(m))
  /\ \A n \in Nodes : WF_vars(NodeUp(n))

FairSpec == Spec /\ Fairness

----------------------------------------------------------------------------
(* Safety. *)

RecordedCreate(m) == tasks[m][rec[m].createTask]
RecordedStart(m)  == tasks[m][rec[m].startTask]

\* A machine is never ahead of Proxmox: a vmid is recorded together with the
\* task that creates it, a start task only after that task has succeeded, and
\* neither the HA registration nor the end of provisioning comes before a
\* start task of that very vmid has succeeded.  This must survive every retry,
\* lost answer, restart and change of the ha: block, because each step trusts
\* what an earlier reconcile recorded.
StepOrder ==
  \A m \in Machines :
    /\ rec[m].vmid # 0 <=> rec[m].createTask # 0
    /\ rec[m].createTask # 0 =>
         /\ RecordedCreate(m).kind = "create"
         /\ RecordedCreate(m).vmid = rec[m].vmid
    /\ rec[m].startTask # 0 =>
         /\ rec[m].createTask # 0 /\ RecordedCreate(m).status = "ok"
         /\ RecordedStart(m).kind = "start"
         /\ RecordedStart(m).vmid = rec[m].vmid
    /\ rec[m].haRegistered \/ phase[m] = "provisioned" =>
         rec[m].startTask # 0 /\ RecordedStart(m).status = "ok"

\* A machine Omni is told is provisioned has a VM of its own that runs with
\* the machine's own join configuration and, when its class asks for HA, is an
\* HA resource.  The steps check tasks and records of earlier reconciles, not
\* the VM, while other machines are created and torn down.
ProvisionedMeansRunning ==
  \A m \in Machines : phase[m] = "provisioned" =>
    /\ vm[rec[m].vmid].owner = m
    /\ vm[rec[m].vmid].status = "running"
    /\ vm[rec[m].vmid].joins = m
    /\ wantsHA[m] => rec[m].haRegistered /\ rec[m].vmid \in haRes

\* No VM of a machine is left when Deprovision has returned nil for it,
\* wherever HA moved it and however often the tear-down was retried.  (When a
\* call may fail, for two machines only: a third that gets the vmid of a VM that
\* was torn down in error inherits the HA resource of that VM.)
GoneMeansNoVM ==
  \A m \in Machines : phase[m] = "gone" => \A v \in VMIDs : vm[v].owner # m

\* No HA resource is left that no living machine would deregister.
NoStrandedHAResource ==
  \A v \in haRes : \E m \in Machines : phase[m] # "gone" /\ rec[m].vmid = v

\* A machine never has two VMs, although the create request and the record of
\* its task are two steps.
AtMostOneVM ==
  \A m \in Machines : Cardinality({v \in VMIDs : vm[v].owner = m}) <= 1

\* Two machines that are not being torn down, and whose create tasks did not
\* fail, never record the same vmid, although NextID reserves nothing and
\* reconciles run concurrently.  A vmid that was freed behind the provider's
\* back is another matter (recycled vmids).
VMIDsAreExclusive ==
  \A m1, m2 \in Machines :
    /\ m1 # m2
    /\ \A m \in {m1, m2} :
         /\ phase[m] \in {"provisioning", "provisioned"}
         /\ rec[m].createTask # 0
         /\ TaskStatus(m, rec[m].createTask) # "failed"
    => rec[m1].vmid # rec[m2].vmid

\* Deprovision stops and deletes no VM of another machine, also when its own
\* VM was removed out-of-band and there is nothing left to tear down.
TearsDownOnlyOwnVM ==
  [][\A m \in Machines :
       LET n == Len(tasks'[m]) IN
         n > Len(tasks[m]) /\ tasks'[m][n].kind \in {"stop", "delete"} =>
           vm'[tasks'[m][n].vmid].owner = m]_vars

\* A request sent for a machine addresses a VM created for that machine: the
\* provider knows a VM only by a vmid it may have recorded long ago.
ActsOnlyOnOwnVM ==
  [][\A m \in Machines : Len(tasks'[m]) > Len(tasks[m]) =>
       vm'[tasks'[m][Len(tasks'[m])].vmid].owner = m]_vars

\* A VM is an HA resource no more when it is deleted.
DeregisteredBeforeDelete ==
  [][\A v \in VMIDs : ~IsFree(v) /\ IsFree(v)' => v \notin haRes]_vars

\* Provisioning of a machine whose ha: block was dropped does not end while
\* its VM is an HA resource: nobody would deregister it later.
DroppedHAIsRefused ==
  [][\A m \in Machines :
       phase[m] # phase'[m] /\ phase'[m] = "provisioned" /\ ~wantsHA[m] =>
         rec[m].vmid \notin haRes]_vars

----------------------------------------------------------------------------
(* Liveness. *)

\* Whatever went wrong before, a machine that is to be torn down is in the end.
TeardownCompletes ==
  \A m \in Machines : phase[m] = "tearingDown" ~> phase[m] = "gone"

\* The VM that m has recorded is not there any more: its create task failed,
\* or another machine's tear-down took it away together with its vmid.
LostVM(m) == rec[m].createTask # 0 /\ vm[rec[m].vmid].owner # m

\* A machine is provisioned in the end, unless it is torn down first or has
\* lost its VM: a call that fails, a start task that fails, and what is done
\* for other machines at the same time only delay it.  A VM that is lost is
\* not created again: the provider waits for its task, or looks for it, until
\* Omni gives the machine up.
ProvisioningCompletes ==
  \A m \in Machines :
    phase[m] = "provisioning" ~> phase[m] # "provisioning" \/ LostVM(m)

----------------------------------------------------------------------------
(* What all of it comes to for one machine and its VM. *)

Ended(m, kind) ==
  \E i \in DOMAIN tasks[m] :
    tasks[m][i].kind = kind /\ tasks[m][i].status = "ok"

VMsOf(m) == {v \in VMIDs : vm[v].owner = m}

\* How far m's VM is in its life, by what Proxmox has and what it has done.
Guest(m) ==
  IF VMsOf(m) = {} THEN IF Ended(m, "delete") THEN "removed" ELSE "none"
  ELSE IF \E v \in VMsOf(m) : vm[v].status = "running" THEN "running"
  ELSE IF Ended(m, "stop") THEN "stopped" ELSE "made"

Guests == [m \in Machines |-> Guest(m)]

Protected == {m \in Machines : VMsOf(m) \cap haRes # {}}

Life == INSTANCE MachineLife WITH guest <- Guests, protected <- Protected

\* However reconciles, tasks and HA interleave, and however often a step is
\* repeated, the VM of a machine goes through one life, in order: made and
\* started once, protected before the machine counts as provisioned, and
\* neither stopped nor removed while it is protected or not to be torn down.
LivesAsPromised == Life!Spec

=============================================================================
