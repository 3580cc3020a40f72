-------------------------- MODULE StepOrder_proofs --------------------------
(* The proof that no machine is ever ahead of Proxmox (StepOrder). *)
EXTENDS Provisioner_proofs

\* Entry i of m's task log is a task of this kind for the VM v.
IsTask(m, i, kind, v) ==
  i \in DOMAIN tasks[m] /\ tasks[m][i].kind = kind /\ tasks[m][i].vmid = v

Done(m, i) == i \in DOMAIN tasks[m] /\ tasks[m][i].status = "ok"

\* What is recorded of machine m is in order ...
RecordOrdered(m) ==
  /\ rec[m].vmid # 0 <=> rec[m].createTask # 0
  /\ rec[m].createTask # 0 => IsTask(m, rec[m].createTask, "create", rec[m].vmid)
  /\ rec[m].startTask # 0 =>
       /\ rec[m].createTask # 0 /\ Done(m, rec[m].createTask)
       /\ IsTask(m, rec[m].startTask, "start", rec[m].vmid)
  /\ rec[m].haRegistered \/ phase[m] = "provisioned" =>
       rec[m].startTask # 0 /\ Done(m, rec[m].startTask)

AfterCreate == {"startVM", "start", "started", "registerHA", "registered",
                "syncHARules"}
AfterStart  == {"registerHA", "registered", "syncHARules"}
InCreate    == {"create", "created"}
InStart     == {"start", "started"}

\* ... and the reconcile in progress has reached no step whose predecessors are
\* not done, and holds the task it is about to record: the guard of a step has
\* been evaluated by an earlier action, so the invariant must remember it.
ReconcileOrdered(m) ==
  /\ pc[m] \in InCreate => rec[m].createTask = 0
  /\ pc[m] = "created" =>
       work[m].task # 0 /\ IsTask(m, work[m].task, "create", work[m].vmid)
  /\ pc[m] \in AfterCreate => rec[m].createTask # 0 /\ Done(m, rec[m].createTask)
  /\ pc[m] \in InStart => rec[m].startTask = 0
  /\ pc[m] = "started" =>
       work[m].task # 0 /\ IsTask(m, work[m].task, "start", rec[m].vmid)
  /\ pc[m] \in AfterStart => rec[m].startTask # 0 /\ Done(m, rec[m].startTask)

Ordered == \A m \in Machines : RecordOrdered(m) /\ ReconcileOrdered(m)

OrderInv == TypeOK /\ Ordered

\* The task logs keep their entries, and a task that is done stays done.
LogKept ==
  \A x \in Machines : \A i \in DOMAIN tasks[x] :
    /\ i \in DOMAIN tasks'[x]
    /\ tasks'[x][i].kind = tasks[x][i].kind
    /\ tasks'[x][i].vmid = tasks[x][i].vmid
    /\ tasks[x][i].status = "ok" => tasks'[x][i].status = "ok"

\* A step that leaves x's record alone and brings its reconcile to no step
\* that ReconcileOrdered speaks of.
Quiet(x) ==
  /\ rec'[x] = rec[x]
  /\ phase'[x] = "provisioned" => phase[x] = "provisioned"
  /\ \/ pc'[x] = pc[x] /\ work'[x] = work[x]
     \/ pc'[x] \notin InCreate \cup AfterCreate

----------------------------------------------------------------------------
(* The task logs. *)

LEMMA UnchangedKeepsLog == ASSUME UNCHANGED tasks PROVE LogKept
  BY DEF LogKept

LEMMA PostKeepsLog ==
  ASSUME Typed, NEW m \in Machines, NEW kind \in TaskKinds, NEW v \in VMIDs,
         Post(m, kind, v)
  PROVE  /\ LogKept
         /\ \A n : n = NextUPID(m) => n # 0 /\ IsTask(m, n, kind, v)'
  <1> DEFINE t == [kind |-> kind, vmid |-> v, status |-> "running"]
  <1>1. tasks[m] \in Seq(Task) /\ t \in Task
    BY DEF Typed, Task
  <1>2. tasks' = [tasks EXCEPT ![m] = Append(tasks[m], t)]
    BY DEF Post
  <1>3. \A x \in Machines :
          tasks'[x] = IF x = m THEN Append(tasks[m], t) ELSE tasks[x]
    BY <1>2 DEF Typed
  <1>4. LogKept
    <2>1. \A i \in DOMAIN tasks[m] :
            i \in DOMAIN Append(tasks[m], t) /\ Append(tasks[m], t)[i] = tasks[m][i]
      BY <1>1
    <2> HIDE DEF t
    <2> QED BY <1>3, <2>1 DEF LogKept
  <1>5. ASSUME NEW n, n = NextUPID(m)
        PROVE  n # 0 /\ IsTask(m, n, kind, v)'
    <2>1. n \in Nat \ {0}
      BY <1>5, NextUPIDTyped
    <2>2. n \in DOMAIN Append(tasks[m], t) /\ Append(tasks[m], t)[n] = t
      BY <1>1, <1>5 DEF NextUPID
    <2>3. n \in DOMAIN tasks'[m] /\ tasks'[m][n] = t
      <3> HIDE DEF t
      <3> QED BY <1>3, <2>2
    <2> QED BY <2>1, <2>3 DEF IsTask
  <1> QED BY <1>4, <1>5

LEMMA EndTaskKeepsLog ==
  ASSUME Typed, NEW m \in Machines, NEW i \in DOMAIN tasks[m],
         tasks[m][i].status = "running",
         NEW status \in {"ok", "failed"}, EndTask(m, i, status)
  PROVE  LogKept
  <1> DEFINE t == [tasks[m][i] EXCEPT !.status = status]
  <1>1. tasks[m] \in Seq(Task) /\ i \in 1 .. Len(tasks[m])
    BY DEF Typed
  <1>2. tasks[m][i] \in Task
    BY <1>1
  <1>3. t.kind = tasks[m][i].kind /\ t.vmid = tasks[m][i].vmid
    BY <1>2 DEF Task
  <1>4. \A x \in Machines :
          tasks'[x] = IF x = m THEN [tasks[m] EXCEPT ![i] = t] ELSE tasks[x]
    BY DEF EndTask, Typed
  <1> HIDE DEF t
  <1>5. DOMAIN [tasks[m] EXCEPT ![i] = t] = DOMAIN tasks[m]
    BY <1>1
  <1>6. \A j \in DOMAIN tasks[m] :
          [tasks[m] EXCEPT ![i] = t][j] = IF j = i THEN t ELSE tasks[m][j]
    BY <1>1
  <1> QED BY <1>3, <1>4, <1>5, <1>6 DEF LogKept

----------------------------------------------------------------------------
(* How Ordered is preserved machine by machine. *)

LEMMA RecordStays ==
  ASSUME LogKept, NEW x \in Machines, RecordOrdered(x), rec'[x] = rec[x],
         phase'[x] = "provisioned" => phase[x] = "provisioned"
  PROVE  RecordOrdered(x)'
  BY DEF RecordOrdered, IsTask, Done, LogKept

LEMMA QuietOrdered ==
  ASSUME LogKept, NEW x \in Machines, RecordOrdered(x), ReconcileOrdered(x),
         Quiet(x)
  PROVE  RecordOrdered(x)' /\ ReconcileOrdered(x)'
  <1>1. RecordOrdered(x)'
    BY RecordStays DEF Quiet
  <1>2. CASE pc'[x] = pc[x] /\ work'[x] = work[x]
    <2>1. ReconcileOrdered(x)'
      BY <1>2 DEF ReconcileOrdered, Quiet, IsTask, Done, LogKept
    <2> QED BY <1>1, <2>1
  <1>3. CASE pc'[x] \notin InCreate \cup AfterCreate
    <2>1. ReconcileOrdered(x)'
      BY <1>3 DEF ReconcileOrdered, InCreate, AfterCreate, InStart, AfterStart
    <2> QED BY <1>1, <2>1
  <1> QED BY <1>2, <1>3 DEF Quiet

LEMMA AllQuiet ==
  ASSUME Ordered, LogKept, \A x \in Machines : Quiet(x)
  PROVE  Ordered'
  BY QuietOrdered DEF Ordered

\* Only machine m moves.
LEMMA OneMoves ==
  ASSUME Ordered, LogKept, NEW m \in Machines,
         \A x \in Machines \ {m} : Quiet(x),
         RecordOrdered(m)', ReconcileOrdered(m)'
  PROVE  Ordered'
  BY QuietOrdered DEF Ordered

----------------------------------------------------------------------------
(* The initial states and the steps of the environment. *)

LEMMA OrderInit == Init => Ordered
  BY DEF Init, Ordered, RecordOrdered, ReconcileOrdered, NewMachine, IsTask,
         InCreate, AfterCreate, InStart, AfterStart

LEMMA TaskEndsKeepsLog ==
  ASSUME Typed, NEW m \in Machines, TaskEnds(m)
  PROVE  LogKept
  <1>1. PICK i \in DOMAIN tasks[m] :
          \/ CreateTaskEnds(m, i) \/ StartTaskEnds(m, i)
          \/ StopTaskEnds(m, i)   \/ DeleteTaskEnds(m, i)
    BY DEF TaskEnds
  <1>2. tasks[m][i].status = "running"
    BY <1>1 DEF CreateTaskEnds, StartTaskEnds, StopTaskEnds, DeleteTaskEnds, Running
  <1>3. PICK status \in {"ok", "failed"} : EndTask(m, i, status)
    BY <1>1 DEF CreateTaskEnds, StartTaskEnds, StopTaskEnds, DeleteTaskEnds
  <1> QED BY <1>2, <1>3, EndTaskKeepsLog

LEMMA EnvironmentOrdered ==
  ASSUME Typed, Ordered,
         \/ \E m \in Machines : TaskEnds(m) \/ RequestTeardown(m)
         \/ \E n \in Nodes : NodeUp(n)
         \/ Fault
  PROVE  Ordered'
  <1> USE DEF omniVars, controlVars, proxmoxVars
  <1>1. CASE \E m \in Machines : TaskEnds(m)
    <2>1. LogKept
      BY <1>1, TaskEndsKeepsLog
    <2>2. \A x \in Machines : Quiet(x)
      BY <1>1 DEF TaskEnds, Quiet
    <2> QED BY <2>1, <2>2, AllQuiet
  <1>2. CASE \E m \in Machines : RequestTeardown(m)
    <2>1. \A x \in Machines : Quiet(x)
      BY <1>2 DEF RequestTeardown, Quiet, Typed
    <2>2. LogKept
      BY <1>2, UnchangedKeepsLog DEF RequestTeardown
    <2> QED BY <2>1, <2>2, AllQuiet
  <1>3. CASE \E m \in Machines : CallFails(m) \/ ReplyLost(m)
    <2>1. \A x \in Machines : Quiet(x)
      BY <1>3, EndReconcileTyped
         DEF CallFails, ReplyLost, Quiet, InCreate, AfterCreate
    <2>2. LogKept
      BY <1>3, UnchangedKeepsLog DEF CallFails, ReplyLost
    <2> QED BY <2>1, <2>2, AllQuiet
  <1>4. CASE Crash
    <2>1. \A x \in Machines : Quiet(x)
      BY <1>4 DEF Crash, Quiet, InCreate, AfterCreate
    <2>2. LogKept
      BY <1>4, UnchangedKeepsLog DEF Crash
    <2> QED BY <2>1, <2>2, AllQuiet
  <1>5. CASE \/ \E m \in Machines : EditHA(m)
             \/ \E v \in VMIDs : AdminRemovesVM(v)
             \/ \E v \in VMIDs, n \in Nodes : MigrateVM(v, n)
             \/ \E n \in Nodes : NodeDown(n) \/ NodeUp(n)
    <2>1. UNCHANGED <<rec, phase, pc, work, tasks>>
      BY <1>5 DEF EditHA, AdminRemovesVM, MigrateVM, NodeDown, NodeUp
    <2>2. LogKept /\ \A x \in Machines : Quiet(x)
      BY <2>1, UnchangedKeepsLog DEF Quiet
    <2> QED BY <2>2, AllQuiet
  <1> QED BY <1>1, <1>2, <1>3, <1>4, <1>5 DEF Fault

----------------------------------------------------------------------------
(* Deprovision records nothing, and goes through steps of its own. *)

LEMMA EndedIsQuiet ==
  ASSUME Typed, NEW m \in Machines, EndReconcile(m), UNCHANGED <<rec, phase>>
  PROVE  \A x \in Machines : Quiet(x)
  BY EndReconcileTyped DEF Quiet, InCreate, AfterCreate

LEMMA GoneIsQuiet ==
  ASSUME Typed, NEW m \in Machines, Gone(m), UNCHANGED rec
  PROVE  \A x \in Machines : Quiet(x)
  BY EndReconcileTyped DEF Gone, Quiet, InCreate, AfterCreate, Typed

LEMMA MovedIsQuiet ==
  ASSUME Typed, NEW m \in Machines,
         NEW step \in Steps \ (InCreate \cup AfterCreate), Goto(m, step),
         \A x \in Machines \ {m} : work'[x] = work[x], UNCHANGED <<rec, phase>>
  PROVE  \A x \in Machines : Quiet(x)
  BY GotoTyped DEF Quiet

LEMMA RequestOrdered ==
  ASSUME TypeOK, Ordered, NEW m \in Machines, NEW kind \in TaskKinds,
         NEW from \in Steps \ {"idle", "syncVM", "create", "created"},
         NEW next \in Steps \ (InCreate \cup AfterCreate),
         Request(m, kind, from, next)
  PROVE  Ordered'
  <1> USE DEF omniVars
  <1>1. CASE /\ Post(m, kind, rec[m].vmid) /\ Goto(m, next)
             /\ work' = [work EXCEPT ![m].task = NextUPID(m)]
    <2>1. rec[m].vmid \in VMIDs
      BY DEF Request, TypeOK, Typed, VMIDKnown, MachineSpec
    <2>2. LogKept
      BY <1>1, <2>1, PostKeepsLog DEF TypeOK
    <2>3. \A x \in Machines \ {m} : work'[x] = work[x]
      BY <1>1
    <2>4. \A x \in Machines : Quiet(x)
      BY <1>1, <2>3, MovedIsQuiet DEF Request, TypeOK
    <2> QED BY <2>2, <2>4, AllQuiet
  <1>2. CASE EndReconcile(m) /\ UNCHANGED tasks
    BY <1>2, EndedIsQuiet, UnchangedKeepsLog, AllQuiet DEF Request, TypeOK
  <1> QED BY <1>1, <1>2 DEF Request

LEMMA DeprovisionOrdered ==
  ASSUME TypeOK, Ordered, NEW m \in Machines, Deprovision(m)
  PROVE  Ordered'
  <1> USE DEF omniVars, controlVars, proxmoxVars
  <1>1. {"teardownHA", "listNodes", "scanNodes", "getVM", "stop", "awaitStop",
         "delete", "awaitDelete"} \subseteq Steps \ (InCreate \cup AfterCreate)
    BY DEF Steps, CallSteps, InCreate, AfterCreate
  <1>2. CASE BeginDeprovision(m)
    <2>1. LogKept
      BY <1>2, UnchangedKeepsLog DEF BeginDeprovision
    <2>2. \A x \in Machines : Quiet(x)
      <3>1. CASE Gone(m)
        BY <1>2, <3>1, GoneIsQuiet DEF BeginDeprovision, TypeOK
      <3>2. CASE ~Gone(m)
        BY <1>2, <3>2 DEF BeginDeprovision, Goto, Quiet, InCreate, AfterCreate,
                          TypeOK, Typed
      <3> QED BY <3>1, <3>2
    <2> QED BY <2>1, <2>2, AllQuiet
  <1>3. CASE TeardownHA(m) \/ ListNodes(m)
    <2>1. LogKept
      BY <1>3, UnchangedKeepsLog DEF TeardownHA, ListNodes
    <2>2. \A x \in Machines : Quiet(x)
      BY <1>3 DEF TeardownHA, ListNodes, Goto, Quiet, InCreate, AfterCreate,
                  TypeOK, Typed
    <2> QED BY <2>1, <2>2, AllQuiet
  <1>4. CASE ScanNode(m)
    <2>1. LogKept
      BY <1>4, UnchangedKeepsLog DEF ScanNode
    <2>2. UNCHANGED <<rec, phase>>
      BY <1>4 DEF ScanNode
    <2>3. CASE EndReconcile(m)
      BY <2>1, <2>3, <2>2, EndedIsQuiet, AllQuiet DEF TypeOK
    <2>4. CASE ~EndReconcile(m)
      <3>1. \A x \in Machines \ {m} : work'[x] = work[x] /\ pc'[x] = pc[x]
        BY <1>4, <2>4 DEF ScanNode, Goto, TypeOK, Typed
      <3>2. pc'[m] \in {"scanNodes", "getVM"}
        BY <1>4, <2>4 DEF ScanNode, Goto, TypeOK, Typed
      <3>3. ASSUME NEW x \in Machines PROVE Quiet(x)
        BY <2>2, <3>1, <3>2 DEF Quiet, InCreate, AfterCreate
      <3> QED BY <2>1, <3>3, AllQuiet
    <2> QED BY <2>3, <2>4
  <1>5. CASE FindNothing(m) \/ GetVM(m)
    <2>1. LogKept
      BY <1>5, UnchangedKeepsLog DEF FindNothing, GetVM
    <2>2. \A x \in Machines : Quiet(x)
      BY <1>5, GoneIsQuiet, EndedIsQuiet
         DEF FindNothing, GetVM, Goto, Quiet, InCreate, AfterCreate,
             TypeOK, Typed
    <2> QED BY <2>1, <2>2, AllQuiet
  <1>6. CASE StopVM(m) \/ DeleteVM(m)
    <2>1. {"stop", "delete"} \subseteq TaskKinds
      BY DEF TaskKinds
    <2> QED BY <1>1, <1>6, <2>1, RequestOrdered
            DEF StopVM, DeleteVM, InCreate, Steps, CallSteps
  <1>7. CASE AwaitStop(m) \/ AwaitDelete(m)
    <2>1. LogKept
      BY <1>7, UnchangedKeepsLog DEF AwaitStop, AwaitDelete
    <2>2. \A x \in Machines : Quiet(x)
      BY <1>7, GoneIsQuiet, EndedIsQuiet
         DEF AwaitStop, AwaitDelete, Goto, Quiet, InCreate, AfterCreate,
             TypeOK, Typed
    <2> QED BY <2>1, <2>2, AllQuiet
  <1> QED BY <1>2, <1>3, <1>4, <1>5, <1>6, <1>7 DEF Deprovision

----------------------------------------------------------------------------
(* The provision steps. *)

\* Only m's reconcile moves, by one of these assignments.
OthersStay(m) ==
  \A x \in Machines \ {m} :
    /\ rec'[x] = rec[x] /\ phase'[x] = phase[x]
    /\ pc'[x] = pc[x] /\ work'[x] = work[x]

LEMMA OneMovesAlone ==
  ASSUME Ordered, LogKept, NEW m \in Machines, OthersStay(m),
         RecordOrdered(m)', ReconcileOrdered(m)'
  PROVE  Ordered'
  BY OneMoves DEF OthersStay, Quiet

\* A reconcile that goes on with its next step and records nothing.
LEMMA AdvanceOrdered ==
  ASSUME Typed, Ordered, LogKept, NEW m \in Machines, NEW step \in Steps,
         Goto(m, step), UNCHANGED <<rec, phase>>,
         \A x \in Machines \ {m} : work'[x] = work[x],
         (step \in InCreate => rec[m].createTask = 0)',
         (step = "created" =>
           work[m].task # 0 /\ IsTask(m, work[m].task, "create", work[m].vmid))',
         (step \in AfterCreate =>
           rec[m].createTask # 0 /\ Done(m, rec[m].createTask))',
         (step \in InStart => rec[m].startTask = 0)',
         (step = "started" =>
           work[m].task # 0 /\ IsTask(m, work[m].task, "start", rec[m].vmid))',
         (step \in AfterStart =>
           rec[m].startTask # 0 /\ Done(m, rec[m].startTask))'
  PROVE  Ordered'
  <1>1. pc'[m] = step /\ OthersStay(m)
    BY GotoTyped DEF OthersStay
  <1>2. RecordOrdered(m)'
    BY RecordStays DEF Ordered
  <1>3. ReconcileOrdered(m)'
    BY <1>1 DEF ReconcileOrdered
  <1> QED BY <1>1, <1>2, <1>3, OneMovesAlone

LEMMA EndedOrdered ==
  ASSUME Typed, Ordered, LogKept, NEW m \in Machines, EndReconcile(m),
         UNCHANGED <<rec, phase>>
  PROVE  Ordered'
  BY EndedIsQuiet, AllQuiet

\* A reconcile that ends with machine m's record changed to an ordered one.
LEMMA CommitOrdered ==
  ASSUME Typed, Ordered, LogKept, NEW m \in Machines, NEW r \in MachineSpec,
         rec' = [rec EXCEPT ![m] = r], EndReconcile(m), UNCHANGED phase,
         RecordOrdered(m)'
  PROVE  Ordered'
  <1>1. OthersStay(m) /\ pc'[m] = "idle"
    BY EndReconcileTyped, RecordTyped DEF OthersStay
  <1>2. ReconcileOrdered(m)'
    BY <1>1 DEF ReconcileOrdered, InCreate, AfterCreate, InStart, AfterStart
  <1> QED BY <1>1, <1>2, OneMovesAlone

LEMMA PickNodeOrdered ==
  ASSUME TypeOK, Ordered, NEW m \in Machines, PickNode(m)
  PROVE  Ordered'
  <1> USE DEF proxmoxVars
  <1>1. LogKept
    BY UnchangedKeepsLog DEF PickNode
  <1>2. PICK n : \/ UNCHANGED rec
                 \/ rec' = [rec EXCEPT ![m] = [rec[m] EXCEPT !.node = n]]
    BY DEF PickNode
  <1>3. /\ pc'[m] = "syncVM" /\ OthersStay(m)
        /\ phase'[m] = phase[m]
    <2>1. "syncVM" \in Steps
      BY DEF Steps, CallSteps
    <2>2. \A x \in Machines \ {m} : rec'[x] = rec[x]
      BY <1>2 DEF TypeOK, Typed
    <2> QED BY <2>1, <2>2, GotoTyped DEF PickNode, OthersStay, TypeOK
  <1>4. /\ rec'[m].vmid = rec[m].vmid /\ rec'[m].createTask = rec[m].createTask
        /\ rec'[m].startTask = rec[m].startTask
        /\ rec'[m].haRegistered = rec[m].haRegistered
    <2>1. rec[m] \in MachineSpec /\ m \in DOMAIN rec
      BY DEF TypeOK, Typed
    <2> QED BY <1>2, <2>1 DEF MachineSpec
  <1>5. RecordOrdered(m)'
    <2>1. RecordOrdered(m)
      BY DEF Ordered
    <2> QED BY <1>1, <1>3, <1>4, <2>1 DEF RecordOrdered, IsTask, Done, LogKept
  <1>6. ReconcileOrdered(m)'
    BY <1>3 DEF ReconcileOrdered, InCreate, AfterCreate, InStart, AfterStart
  <1> QED BY <1>1, <1>3, <1>5, <1>6, OneMovesAlone

LEMMA CheckCreateTaskOrdered ==
  ASSUME TypeOK, Ordered, NEW m \in Machines, CheckCreateTask(m)
  PROVE  Ordered'
  <1> USE DEF omniVars, proxmoxVars
  <1>1. LogKept /\ UNCHANGED <<rec, phase, tasks>>
    BY UnchangedKeepsLog DEF CheckCreateTask
  <1>2. CASE EndReconcile(m)
    BY <1>1, <1>2, EndedOrdered DEF TypeOK
  <1>3. CASE ~EndReconcile(m)
    <2>1. rec[m].createTask # 0 /\ Done(m, rec[m].createTask)
      BY <1>3 DEF CheckCreateTask, PingedAs, TaskStatus, Done, Ordered,
                  RecordOrdered, IsTask
    <2>2. "startVM" \in Steps
      BY DEF Steps, CallSteps
    <2> QED BY <1>1, <1>3, <2>1, <2>2, AdvanceOrdered
            DEF CheckCreateTask, InCreate, AfterCreate, InStart, AfterStart,
                Done, TypeOK
  <1> QED BY <1>2, <1>3

LEMMA NextIDOrdered ==
  ASSUME TypeOK, Ordered, NEW m \in Machines, NextID(m)
  PROVE  Ordered'
  <1> USE DEF omniVars, proxmoxVars
  <1>1. LogKept /\ UNCHANGED <<rec, phase, tasks>>
    BY UnchangedKeepsLog DEF NextID
  <1>2. CASE EndReconcile(m)
    BY <1>1, <1>2, EndedOrdered DEF TypeOK
  <1>3. CASE ~EndReconcile(m)
    <2>1. Goto(m, "create") /\ rec[m].createTask = 0
      BY <1>3 DEF NextID
    <2>2. "create" \in Steps
      BY DEF Steps, CallSteps
    <2>3. \A x \in Machines \ {m} : work'[x] = work[x]
      BY <1>3 DEF NextID, TypeOK, Typed
    <2> QED BY <1>1, <2>1, <2>2, <2>3, AdvanceOrdered
            DEF InCreate, AfterCreate, InStart, AfterStart, TypeOK
  <1> QED BY <1>2, <1>3

LEMMA CreateVMOrdered ==
  ASSUME TypeOK, Ordered, NEW m \in Machines, CreateVM(m)
  PROVE  Ordered'
  <1> USE DEF omniVars
  <1>1. UNCHANGED <<rec, phase>>
    BY DEF CreateVM
  <1>2. CASE EndReconcile(m) /\ UNCHANGED tasks
    BY <1>1, <1>2, UnchangedKeepsLog, EndedOrdered DEF TypeOK
  <1>3. CASE /\ Post(m, "create", work[m].vmid) /\ Goto(m, "created")
             /\ work' = [work EXCEPT ![m].task = NextUPID(m)]
    <2>1. work[m].vmid \in VMIDs /\ pc[m] = "create"
      BY DEF CreateVM, TypeOK, Typed, VMIDKnown, Locals
    <2>2. /\ LogKept
          /\ \A n : n = NextUPID(m) => n # 0 /\ IsTask(m, n, "create", work[m].vmid)'
      BY <1>3, <2>1, PostKeepsLog DEF TypeOK, TaskKinds
    <2>3. /\ work'[m].task = NextUPID(m) /\ work'[m].vmid = work[m].vmid
          /\ \A x \in Machines \ {m} : work'[x] = work[x]
      BY <1>3 DEF TypeOK, Typed, Locals
    <2>4. rec[m].createTask = 0
      BY <2>1 DEF Ordered, ReconcileOrdered, InCreate
    <2>5. "created" \in Steps
      BY DEF Steps, CommitSteps
    <2> QED BY <1>1, <1>3, <2>2, <2>3, <2>4, <2>5, AdvanceOrdered
            DEF InCreate, AfterCreate, InStart, AfterStart, TypeOK, IsTask
  <1> QED BY <1>2, <1>3 DEF CreateVM

LEMMA CommitCreateOrdered ==
  ASSUME TypeOK, Ordered, NEW m \in Machines, CommitCreate(m)
  PROVE  Ordered'
  <1> USE DEF proxmoxVars
  <1> DEFINE r == [rec[m] EXCEPT !.createTask = work[m].task,
                                 !.vmid = work[m].vmid]
  <1>1. pc[m] = "created" /\ LogKept
    BY UnchangedKeepsLog DEF CommitCreate
  <1>2. /\ rec[m].createTask = 0 /\ work[m].task # 0 /\ work[m].vmid # 0
        /\ IsTask(m, work[m].task, "create", work[m].vmid)
    BY <1>1 DEF TypeOK, VMIDKnown, Ordered, ReconcileOrdered, InCreate
  <1>3. rec[m] \in MachineSpec /\ work[m] \in Locals
    BY DEF TypeOK, Typed
  <1>4. /\ r \in MachineSpec
        /\ r.createTask = work[m].task /\ r.vmid = work[m].vmid
        /\ r.startTask = rec[m].startTask /\ r.haRegistered = rec[m].haRegistered
    BY <1>3 DEF MachineSpec, Locals
  <1>5. rec' = [rec EXCEPT ![m] = r]
    BY DEF CommitCreate
  <1> HIDE DEF r
  <1>6. rec'[m] = r
    BY <1>4, <1>5, RecordTyped DEF TypeOK
  <1>7. RecordOrdered(m)'
    <2>1. rec[m].startTask = 0 /\ ~rec[m].haRegistered /\ phase[m] # "provisioned"
      BY <1>2 DEF Ordered, RecordOrdered
    <2> QED BY <1>2, <1>4, <1>6, <2>1 DEF CommitCreate, RecordOrdered, IsTask
  <1> QED BY <1>1, <1>4, <1>5, <1>7, CommitOrdered DEF CommitCreate, TypeOK

LEMMA CheckStartTaskOrdered ==
  ASSUME TypeOK, Ordered, NEW m \in Machines, CheckStartTask(m)
  PROVE  Ordered'
  <1> USE DEF proxmoxVars
  <1>1. /\ LogKept /\ UNCHANGED <<phase, tasks>>
        /\ pc[m] = "startVM" /\ rec[m].startTask # 0
    BY UnchangedKeepsLog DEF CheckStartTask
  <1>2. /\ Done(m, rec[m].createTask) /\ rec[m].createTask # 0
        /\ IsTask(m, rec[m].startTask, "start", rec[m].vmid)
        /\ RecordOrdered(m)
    BY <1>1 DEF Ordered, RecordOrdered
  <1>3. CASE EndReconcile(m) /\ UNCHANGED rec
    BY <1>1, <1>3, EndedOrdered DEF TypeOK
  <1>4. CASE Goto(m, "registerHA") /\ UNCHANGED <<rec, work>>
             /\ PingedAs(m, rec[m].startTask, rec[m].node, "ok")
    <2>1. Done(m, rec[m].startTask)
      BY <1>2, <1>4 DEF PingedAs, TaskStatus, Done, IsTask
    <2>2. "registerHA" \in Steps
      BY DEF Steps, CallSteps
    <2> QED BY <1>1, <1>2, <1>4, <2>1, <2>2, AdvanceOrdered
            DEF InCreate, AfterCreate, InStart, AfterStart, Done, TypeOK
  <1>5. CASE /\ PingedAs(m, rec[m].startTask, rec[m].node, "failed")
             /\ rec' = [rec EXCEPT ![m].startTask = 0]
             /\ EndReconcile(m)
    <2> DEFINE r == [rec[m] EXCEPT !.startTask = 0]
    <2>1. rec[m] \in MachineSpec
      BY DEF TypeOK, Typed
    <2>2. /\ r \in MachineSpec
          /\ r.createTask = rec[m].createTask /\ r.vmid = rec[m].vmid
          /\ r.startTask = 0 /\ r.haRegistered = rec[m].haRegistered
      BY <2>1 DEF MachineSpec
    <2>3. rec' = [rec EXCEPT ![m] = r]
      BY <1>5
    <2> HIDE DEF r
    <2>4. rec'[m] = r
      BY <2>2, <2>3, RecordTyped DEF TypeOK
    <2>5. ~rec[m].haRegistered /\ phase[m] # "provisioned"
      BY <1>2, <1>5 DEF PingedAs, TaskStatus, RecordOrdered, Done
    <2>6. RecordOrdered(m)'
      BY <1>1, <1>2, <2>2, <2>4, <2>5 DEF RecordOrdered, IsTask
    <2> QED BY <1>1, <1>5, <2>2, <2>3, <2>6, CommitOrdered DEF TypeOK
  <1> QED BY <1>3, <1>4, <1>5 DEF CheckStartTask

LEMMA InjectConfigOrdered ==
  ASSUME TypeOK, Ordered, NEW m \in Machines, InjectConfig(m)
  PROVE  Ordered'
  <1> USE DEF omniVars
  <1>1. /\ LogKept /\ UNCHANGED <<rec, phase, tasks>>
        /\ pc[m] = "startVM" /\ rec[m].startTask = 0
    BY UnchangedKeepsLog DEF InjectConfig
  <1>2. CASE EndReconcile(m)
    BY <1>1, <1>2, EndedOrdered DEF TypeOK
  <1>3. CASE Goto(m, "start") /\ UNCHANGED work
    <2>1. rec[m].createTask # 0 /\ Done(m, rec[m].createTask)
      BY <1>1 DEF Ordered, ReconcileOrdered, AfterCreate
    <2>2. "start" \in Steps
      BY DEF Steps, CallSteps
    <2> QED BY <1>1, <1>3, <2>1, <2>2, AdvanceOrdered
            DEF InCreate, AfterCreate, InStart, AfterStart, Done, TypeOK
  <1> QED BY <1>2, <1>3 DEF InjectConfig

LEMMA StartVMOrdered ==
  ASSUME TypeOK, Ordered, NEW m \in Machines, StartVM(m)
  PROVE  Ordered'
  <1> USE DEF omniVars
  <1>1. UNCHANGED <<rec, phase>>
    BY DEF StartVM
  <1>2. CASE EndReconcile(m) /\ UNCHANGED tasks
    BY <1>1, <1>2, UnchangedKeepsLog, EndedOrdered DEF TypeOK
  <1>3. CASE /\ Post(m, "start", rec[m].vmid) /\ Goto(m, "started")
             /\ work' = [work EXCEPT ![m].task = NextUPID(m)]
    <2>1. rec[m].vmid \in VMIDs /\ pc[m] = "start"
      BY DEF StartVM, TypeOK, Typed, VMIDKnown, MachineSpec
    <2>2. /\ LogKept
          /\ \A n : n = NextUPID(m) => n # 0 /\ IsTask(m, n, "start", rec[m].vmid)'
      <3>1. PICK v \in VMIDs : v = rec[m].vmid /\ v = rec'[m].vmid
        BY <1>1, <2>1
      <3>2. /\ LogKept
            /\ \A n : n = NextUPID(m) => n # 0 /\ IsTask(m, n, "start", v)'
        BY <1>3, <3>1, PostKeepsLog DEF TypeOK, TaskKinds
      <3> QED BY <3>1, <3>2 DEF IsTask
    <2>3. /\ work'[m].task = NextUPID(m)
          /\ \A x \in Machines \ {m} : work'[x] = work[x]
      BY <1>3 DEF TypeOK, Typed, Locals
    <2>4. /\ rec[m].startTask = 0
          /\ rec[m].createTask # 0 /\ Done(m, rec[m].createTask)
      BY <2>1 DEF Ordered, ReconcileOrdered, InStart, AfterCreate
    <2>5. Done(m, rec[m].createTask)'
      BY <1>1, <2>2, <2>4 DEF LogKept, Done
    <2>6. "started" \in Steps
      BY DEF Steps, CommitSteps
    <2>7. work'[m].task # 0 /\ IsTask(m, work[m].task, "start", rec[m].vmid)'
      BY <1>1, <2>2, <2>3 DEF IsTask
    <2>8. (rec[m].startTask = 0 /\ rec[m].createTask # 0)'
      BY <1>1, <2>4
    <2>9. pc'[m] = "started" /\ OthersStay(m)
      BY <1>1, <1>3, <2>3, <2>6, GotoTyped DEF OthersStay, TypeOK
    <2>10. RecordOrdered(m)'
      BY <1>1, <2>2, RecordStays DEF Ordered
    <2>11. ReconcileOrdered(m)'
      BY <2>5, <2>7, <2>8, <2>9 DEF ReconcileOrdered, InCreate, AfterStart
    <2> QED BY <2>2, <2>9, <2>10, <2>11, OneMovesAlone
  <1> QED BY <1>2, <1>3 DEF StartVM

LEMMA CommitStartOrdered ==
  ASSUME TypeOK, Ordered, NEW m \in Machines, CommitStart(m)
  PROVE  Ordered'
  <1> USE DEF proxmoxVars
  <1> DEFINE r == [rec[m] EXCEPT !.startTask = work[m].task]
  <1>1. pc[m] = "started" /\ LogKept
    BY UnchangedKeepsLog DEF CommitStart
  <1>2. /\ rec[m].createTask # 0 /\ Done(m, rec[m].createTask)
        /\ rec[m].startTask = 0 /\ work[m].task # 0
        /\ IsTask(m, work[m].task, "start", rec[m].vmid)
        /\ RecordOrdered(m)
    BY <1>1 DEF Ordered, ReconcileOrdered, AfterCreate, InStart
  <1>3. rec[m] \in MachineSpec /\ work[m] \in Locals
    BY DEF TypeOK, Typed
  <1>4. /\ r \in MachineSpec
        /\ r.createTask = rec[m].createTask /\ r.vmid = rec[m].vmid
        /\ r.startTask = work[m].task /\ r.haRegistered = rec[m].haRegistered
    BY <1>3 DEF MachineSpec, Locals
  <1>5. rec' = [rec EXCEPT ![m] = r]
    BY DEF CommitStart
  <1> HIDE DEF r
  <1>6. rec'[m] = r
    BY <1>4, <1>5, RecordTyped DEF TypeOK
  <1>7. RecordOrdered(m)'
    BY <1>2, <1>4, <1>6 DEF CommitStart, RecordOrdered, IsTask, Done
  <1> QED BY <1>1, <1>4, <1>5, <1>7, CommitOrdered DEF CommitStart, TypeOK

LEMMA RegisterHAOrdered ==
  ASSUME TypeOK, Ordered, NEW m \in Machines, RegisterHA(m)
  PROVE  Ordered'
  <1> USE DEF omniVars
  <1>1. /\ LogKept /\ UNCHANGED <<rec, phase, tasks>>
        /\ pc[m] = "registerHA"
    BY UnchangedKeepsLog DEF RegisterHA
  <1>2. CASE EndReconcile(m)
    BY <1>1, <1>2, EndedOrdered DEF TypeOK
  <1>3. CASE ~EndReconcile(m)
    <2>1. PICK step \in {"registered", "syncHARules"} :
            Goto(m, step) /\ UNCHANGED work
      BY <1>3 DEF RegisterHA
    <2>2. /\ rec[m].createTask # 0 /\ Done(m, rec[m].createTask)
          /\ rec[m].startTask # 0 /\ Done(m, rec[m].startTask)
      BY <1>1 DEF Ordered, ReconcileOrdered, AfterCreate, AfterStart
    <2>3. step \in Steps
      BY DEF Steps, CommitSteps, CallSteps
    <2> QED BY <1>1, <2>1, <2>2, <2>3, AdvanceOrdered
            DEF InCreate, InStart, Done, TypeOK
  <1> QED BY <1>2, <1>3

LEMMA CommitRegisterOrdered ==
  ASSUME TypeOK, Ordered, NEW m \in Machines, CommitRegister(m)
  PROVE  Ordered'
  <1> USE DEF proxmoxVars
  <1> DEFINE r == [rec[m] EXCEPT !.haRegistered = TRUE]
  <1>1. pc[m] = "registered" /\ LogKept
    BY UnchangedKeepsLog DEF CommitRegister
  <1>2. /\ rec[m].createTask # 0 /\ Done(m, rec[m].createTask)
        /\ rec[m].startTask # 0 /\ Done(m, rec[m].startTask)
        /\ RecordOrdered(m)
    BY <1>1 DEF Ordered, ReconcileOrdered, AfterCreate, AfterStart
  <1>3. rec[m] \in MachineSpec
    BY DEF TypeOK, Typed
  <1>4. /\ r \in MachineSpec
        /\ r.createTask = rec[m].createTask /\ r.vmid = rec[m].vmid
        /\ r.startTask = rec[m].startTask
    BY <1>3 DEF MachineSpec
  <1>5. rec' = [rec EXCEPT ![m] = r]
    BY DEF CommitRegister
  <1> HIDE DEF r
  <1>6. /\ rec'[m] = r
        /\ \A x \in Machines \ {m} : rec'[x] = rec[x]
    BY <1>4, <1>5, RecordTyped DEF TypeOK
  <1>7. pc'[m] = "syncHARules" /\ OthersStay(m)
    <2>1. "syncHARules" \in Steps
      BY DEF Steps, CallSteps
    <2> QED BY <1>6, <2>1, GotoTyped DEF CommitRegister, OthersStay, TypeOK
  <1>8. UNCHANGED tasks
    BY DEF CommitRegister
  <1>9. RecordOrdered(m)'
    BY <1>2, <1>4, <1>6, <1>8 DEF RecordOrdered, IsTask, Done
  <1>10. ReconcileOrdered(m)'
    BY <1>2, <1>4, <1>6, <1>7, <1>8
       DEF ReconcileOrdered, InCreate, InStart, Done
  <1> QED BY <1>1, <1>7, <1>9, <1>10, OneMovesAlone

LEMMA SyncHARulesOrdered ==
  ASSUME TypeOK, Ordered, NEW m \in Machines, SyncHARules(m)
  PROVE  Ordered'
  <1> USE DEF proxmoxVars
  <1>1. LogKept /\ UNCHANGED <<rec, tasks>> /\ pc[m] = "syncHARules"
    BY UnchangedKeepsLog DEF SyncHARules
  <1>2. pc'[m] = "idle" /\ OthersStay(m)
    BY EndReconcileTyped DEF SyncHARules, OthersStay, TypeOK, Typed
  <1>3. /\ RecordOrdered(m)
        /\ rec[m].startTask # 0 /\ Done(m, rec[m].startTask)
    BY <1>1 DEF Ordered, ReconcileOrdered, AfterStart
  <1>4. RecordOrdered(m)'
    BY <1>1, <1>3 DEF RecordOrdered, IsTask, Done
  <1>5. ReconcileOrdered(m)'
    BY <1>2 DEF ReconcileOrdered, InCreate, AfterCreate, InStart, AfterStart
  <1> QED BY <1>1, <1>2, <1>4, <1>5, OneMovesAlone

----------------------------------------------------------------------------
(* The theorem. *)

LEMMA OrderNext == TypeOK /\ Ordered /\ [Next]_vars => Ordered'
  <1> SUFFICES ASSUME TypeOK, Ordered, [Next]_vars PROVE Ordered'
    OBVIOUS
  <1>1. CASE UNCHANGED vars
    <2>1. UNCHANGED <<rec, phase, pc, work, tasks>>
      BY <1>1 DEF vars, omniVars, controlVars, proxmoxVars
    <2>2. LogKept /\ \A x \in Machines : Quiet(x)
      BY <2>1, UnchangedKeepsLog DEF Quiet
    <2> QED BY <2>2, AllQuiet
  <1>2. CASE \E m \in Machines : Provision(m)
    BY <1>2, PickNodeOrdered, CheckCreateTaskOrdered, NextIDOrdered,
       CreateVMOrdered, CommitCreateOrdered, CheckStartTaskOrdered,
       InjectConfigOrdered, StartVMOrdered, CommitStartOrdered,
       RegisterHAOrdered, CommitRegisterOrdered, SyncHARulesOrdered
    DEF Provision
  <1>3. CASE \E m \in Machines : Deprovision(m)
    BY <1>3, DeprovisionOrdered
  <1>4. CASE \/ \E m \in Machines : TaskEnds(m) \/ RequestTeardown(m)
             \/ \E n \in Nodes : NodeUp(n)
             \/ Fault
    BY <1>4, EnvironmentOrdered DEF TypeOK
  <1> QED BY <1>1, <1>2, <1>3, <1>4 DEF Next

\* In every history, of any number of machines, with any faults, a machine is
\* never ahead of Proxmox: the vmid, the start task and the HA registration it
\* has recorded each rest on a task that Proxmox has done for that very vmid,
\* although provision.go checks each of them only once and in another
\* reconcile than the one that relies on it.
THEOREM StepOrderHolds == Spec => []StepOrder
  <1>1. Init => Ordered
    BY OrderInit
  <1>2. TypeOK /\ Ordered /\ [Next]_vars => Ordered'
    BY OrderNext
  <1>3. Ordered => StepOrder
    BY DEF Ordered, RecordOrdered, StepOrder, RecordedCreate, RecordedStart,
           IsTask, Done
  <1> QED BY <1>1, <1>2, <1>3, TypeInit, TypeNext, PTL DEF Spec
=============================================================================
