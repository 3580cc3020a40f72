---------------------------- MODULE OwnVM_proofs ----------------------------
(***************************************************************************)
(* The proof that machines keep out of each other's VMs: the vmids that    *)
(* are recorded for machines in use are exclusive, and a request sent for  *)
(* a machine meets the VM that was created for it.                         *)
(***************************************************************************)
EXTENDS Provisioner_proofs

\* The faults after which a machine may meet a VM that is not its own: what
\* it has recorded then outlives the VM, whose vmid is handed out again.
Disruptions == {"error", "crash", "createFails", "removed", "offline"}

TeardownSteps ==
  {"teardownHA", "listNodes", "scanNodes", "getVM", "stop", "awaitStop",
   "delete", "awaitDelete"}

Owner(v) == vm[v].owner

\* m waits for a delete task that has succeeded already.
Deleted(m) ==
  /\ pc[m] = "awaitDelete"
  /\ tasks[m][work[m].task].status = "ok"

\* m knows that it waits for the deletion of its own VM, on a node that can be
\* asked, and no other delete task of it runs.
AwaitsOwnDelete(m) ==
  /\ pc[m] = "awaitDelete" =>
       /\ work[m].task \in DOMAIN tasks[m]
       /\ tasks[m][work[m].task].vmid = rec[m].vmid
       /\ work[m].node \in online
  /\ \A i \in DOMAIN tasks[m] :
       tasks[m][i].kind = "delete" /\ tasks[m][i].status = "running" =>
         pc[m] = "awaitDelete" /\ work[m].task = i

\* The VM that m has created, or has recorded, is its own until it is deleted.
Owned(m) ==
  /\ phase[m] = "gone" => pc[m] = "idle"
  /\ pc[m] \in TeardownSteps => phase[m] = "tearingDown"
  /\ AwaitsOwnDelete(m)
  /\ pc[m] = "created" => Owner(work[m].vmid) = m
  /\ phase[m] # "gone" /\ rec[m].vmid # 0 /\ ~Deleted(m) =>
       Owner(rec[m].vmid) = m

FreeUnowned == \A v \in VMIDs : IsFree(v) => Owner(v) = NoMachine

Undisrupted ==
  /\ \A k \in Disruptions : faults[k] = 0
  /\ online = Nodes

OwnInv == Undisrupted /\ FreeUnowned /\ \A m \in Machines : Owned(m)

\* A request posted for m in this step addresses a VM of its own.
ActsOnOwn(m) ==
  Len(tasks'[m]) > Len(tasks[m]) =>
    vm'[tasks'[m][Len(tasks'[m])].vmid].owner = m

\* What every step is shown to do.
KeepsOwners ==
  /\ FreeUnowned'
  /\ \A m \in Machines : Owned(m)' /\ ActsOnOwn(m)

\* A step that is m's alone and takes no VM from another machine.
StepOf(m) ==
  /\ \A x \in Machines \ {m} :
       /\ phase'[x] = phase[x] /\ rec'[x] = rec[x] /\ pc'[x] = pc[x]
       /\ work'[x] = work[x] /\ tasks'[x] = tasks[x]
       /\ \A v \in VMIDs : Owner(v) = x => Owner(v)' = x
  /\ online' = online

----------------------------------------------------------------------------
(* What a step does to the others, and to the task logs. *)

LEMMA OthersKeepOwners ==
  ASSUME TypeOK, OwnInv, NEW m \in Machines, StepOf(m),
         FreeUnowned', Owned(m)', ActsOnOwn(m)
  PROVE  KeepsOwners
  <1>1. ASSUME NEW x \in Machines, x # m
        PROVE  Owned(x)' /\ ActsOnOwn(x)
    <2>1. /\ phase'[x] = phase[x] /\ rec'[x] = rec[x] /\ pc'[x] = pc[x]
          /\ work'[x] = work[x] /\ tasks'[x] = tasks[x]
          /\ \A v \in VMIDs : Owner(v) = x => Owner(v)' = x
          /\ online' = online
      BY <1>1 DEF StepOf
    <2>2. Owned(x)
      BY DEF OwnInv
    <2>3. AwaitsOwnDelete(x)'
      BY <2>1, <2>2 DEF Owned, AwaitsOwnDelete
    <2>4. pc'[x] = "created" => Owner(work[x].vmid)' = x
      <3>1. pc[x] = "created" => work[x].vmid \in VMIDs
        BY DEF TypeOK, Typed, VMIDKnown, Locals
      <3> QED BY <2>1, <2>2, <3>1 DEF Owned, Owner
    <2>5. /\ phase'[x] # "gone" /\ rec'[x].vmid # 0 /\ ~Deleted(x)'
          => Owner(rec[x].vmid)' = x
      <3>1. rec[x].vmid # 0 => rec[x].vmid \in VMIDs
        BY DEF TypeOK, Typed, MachineSpec
      <3>2. Deleted(x)' <=> Deleted(x)
        BY <2>1 DEF Deleted
      <3> QED BY <2>1, <2>2, <3>1, <3>2 DEF Owned, Owner
    <2>6. Owned(x)'
      BY <2>1, <2>2, <2>3, <2>4, <2>5 DEF Owned
    <2>7. tasks[x] \in Seq(Task)
      BY DEF TypeOK, Typed
    <2>8. ActsOnOwn(x)
      BY <2>1, <2>7 DEF ActsOnOwn
    <2> QED BY <2>6, <2>8
  <1> QED BY <1>1 DEF KeepsOwners

LEMMA PostAppends ==
  ASSUME Typed, NEW m \in Machines, NEW kind \in TaskKinds, NEW v \in VMIDs,
         Post(m, kind, v)
  PROVE  /\ \A x \in Machines \ {m} : tasks'[x] = tasks[x]
         /\ Len(tasks'[m]) = NextUPID(m)
         /\ DOMAIN tasks'[m] = DOMAIN tasks[m] \cup {NextUPID(m)}
         /\ NextUPID(m) \notin DOMAIN tasks[m]
         /\ \A i \in DOMAIN tasks[m] : tasks'[m][i] = tasks[m][i]
         /\ tasks'[m][NextUPID(m)].kind = kind
         /\ tasks'[m][NextUPID(m)].vmid = v
         /\ tasks'[m][NextUPID(m)].status = "running"
  <1> DEFINE t == [kind |-> kind, vmid |-> v, status |-> "running"]
  <1>1. tasks[m] \in Seq(Task) /\ t \in Task
    BY DEF Typed, Task
  <1>2. t.kind = kind /\ t.vmid = v /\ t.status = "running"
    OBVIOUS
  <1>3. tasks' = [tasks EXCEPT ![m] = Append(tasks[m], t)]
    BY DEF Post
  <1> HIDE DEF t
  <1>4. /\ tasks'[m] = Append(tasks[m], t)
        /\ \A x \in Machines \ {m} : tasks'[x] = tasks[x]
    BY <1>3 DEF Typed
  <1>5. /\ Len(Append(tasks[m], t)) = NextUPID(m)
        /\ DOMAIN Append(tasks[m], t) = DOMAIN tasks[m] \cup {NextUPID(m)}
        /\ NextUPID(m) \notin DOMAIN tasks[m]
        /\ \A i \in DOMAIN tasks[m] : Append(tasks[m], t)[i] = tasks[m][i]
        /\ Append(tasks[m], t)[NextUPID(m)] = t
    BY <1>1 DEF NextUPID
  <1> QED BY <1>2, <1>4, <1>5

LEMMA EndTaskEnds ==
  ASSUME Typed, NEW m \in Machines, NEW i \in DOMAIN tasks[m],
         NEW status \in {"ok", "failed"}, EndTask(m, i, status)
  PROVE  /\ \A x \in Machines \ {m} : tasks'[x] = tasks[x]
         /\ DOMAIN tasks'[m] = DOMAIN tasks[m]
         /\ Len(tasks'[m]) = Len(tasks[m])
         /\ \A j \in DOMAIN tasks[m] :
              /\ tasks'[m][j].kind = tasks[m][j].kind
              /\ tasks'[m][j].vmid = tasks[m][j].vmid
              /\ tasks'[m][j].status = IF j = i THEN status
                                       ELSE tasks[m][j].status
  <1> DEFINE t == [tasks[m][i] EXCEPT !.status = status]
  <1>1. tasks[m] \in Seq(Task) /\ i \in 1 .. Len(tasks[m])
    BY DEF Typed
  <1>2. tasks[m][i] \in Task
    BY <1>1
  <1>3. /\ t.kind = tasks[m][i].kind /\ t.vmid = tasks[m][i].vmid
        /\ t.status = status /\ t \in Task
    BY <1>2 DEF Task
  <1>4. /\ tasks'[m] = [tasks[m] EXCEPT ![i] = t]
        /\ \A x \in Machines \ {m} : tasks'[x] = tasks[x]
    BY DEF EndTask, Typed
  <1> HIDE DEF t
  <1>5. /\ [tasks[m] EXCEPT ![i] = t] \in Seq(Task)
        /\ Len([tasks[m] EXCEPT ![i] = t]) = Len(tasks[m])
    BY <1>1, <1>3, ExceptSeq
  <1>6. /\ DOMAIN [tasks[m] EXCEPT ![i] = t] = DOMAIN tasks[m]
        /\ \A j \in DOMAIN tasks[m] :
             [tasks[m] EXCEPT ![i] = t][j] = IF j = i THEN t ELSE tasks[m][j]
    BY <1>1
  <1> QED BY <1>3, <1>4, <1>5, <1>6

\* A step of m's reconcile that posts nothing and touches no VM's owner.
Moves(m) ==
  /\ UNCHANGED <<tasks, online>>
  /\ \A v \in VMIDs : IsFree(v)' = IsFree(v) /\ Owner(v)' = Owner(v)
  /\ \A x \in Machines \ {m} :
       /\ phase'[x] = phase[x] /\ rec'[x] = rec[x]
       /\ pc'[x] = pc[x] /\ work'[x] = work[x]

LEMMA MovesKeepOwners ==
  ASSUME TypeOK, OwnInv, NEW m \in Machines, Moves(m),
         pc[m] # "awaitDelete",
         rec'[m].vmid = rec[m].vmid,
         phase[m] # "gone", phase'[m] # "gone",
         pc'[m] \notin {"created", "awaitDelete"},
         pc'[m] \in TeardownSteps => phase'[m] = "tearingDown"
  PROVE  KeepsOwners
  <1>1. FreeUnowned'
    BY DEF OwnInv, FreeUnowned, Moves
  <1>2. StepOf(m)
    BY DEF Moves, StepOf
  <1>3. tasks'[m] = tasks[m] /\ tasks[m] \in Seq(Task) /\ online' = online
    BY DEF Moves, TypeOK, Typed
  <1>4. ActsOnOwn(m)
    BY <1>3 DEF ActsOnOwn
  <1>5. Owned(m)
    BY DEF OwnInv
  <1>6. AwaitsOwnDelete(m)'
    BY <1>3, <1>5 DEF Owned, AwaitsOwnDelete
  <1>7. rec[m].vmid # 0 => rec[m].vmid \in VMIDs /\ Owner(rec[m].vmid) = m
    BY <1>5 DEF TypeOK, Typed, MachineSpec, Owned, Deleted
  <1>8. rec'[m].vmid # 0 => Owner(rec[m].vmid)' = m
    BY <1>7 DEF Moves, Owner
  <1>9. Owned(m)'
    BY <1>6, <1>8 DEF Owned
  <1> QED BY <1>1, <1>2, <1>4, <1>9, OthersKeepOwners

----------------------------------------------------------------------------
(* Steps of a reconcile that neither create nor request anything. *)

\* Only m's reconcile moves, and no VM is touched.
Alone(m) ==
  /\ \A x \in Machines \ {m} :
       /\ phase'[x] = phase[x] /\ rec'[x] = rec[x]
       /\ pc'[x] = pc[x] /\ work'[x] = work[x]
  /\ UNCHANGED <<vm, tasks, online>>

LEMMA AloneMoves ==
  ASSUME NEW m \in Machines, Alone(m)
  PROVE  Moves(m)
  BY DEF Alone, Moves, IsFree, Owner

LEMMA EndKeepsOwners ==
  ASSUME TypeOK, OwnInv, NEW m \in Machines, EndReconcile(m),
         UNCHANGED <<phase, rec, vm, tasks, online>>,
         pc[m] # "awaitDelete", phase[m] # "gone"
  PROVE  KeepsOwners
  <1>1. Alone(m) /\ pc'[m] = "idle"
    BY EndReconcileTyped DEF Alone, TypeOK
  <1> QED BY <1>1, AloneMoves, MovesKeepOwners DEF TeardownSteps

LEMMA QuietProvisionKeepsOwners ==
  ASSUME TypeOK, OwnInv, NEW m \in Machines,
         \/ PickNode(m) \/ CheckCreateTask(m) \/ NextID(m) \/ CheckStartTask(m)
         \/ CommitStart(m) \/ RegisterHA(m) \/ CommitRegister(m)
         \/ SyncHARules(m)
  PROVE  KeepsOwners
  <1> USE DEF omniVars, proxmoxVars
  <1>1. Owned(m)
    BY DEF OwnInv
  <1>2. phase[m] # "gone" /\ pc[m] # "awaitDelete"
    BY <1>1 DEF Owned, PickNode, CheckCreateTask, NextID, CheckStartTask,
       CommitStart, RegisterHA, CommitRegister, SyncHARules
  <1>3. /\ UNCHANGED <<vm, tasks, online>>
        /\ \A x \in Machines \ {m} : pc'[x] = pc[x] /\ work'[x] = work[x]
    BY DEF PickNode, CheckCreateTask, NextID, CheckStartTask, CommitStart,
       RegisterHA, CommitRegister, SyncHARules, Goto, EndReconcile,
       TypeOK, Typed
  <1>4. /\ \A x \in Machines \ {m} : rec'[x] = rec[x]
        /\ rec'[m].vmid = rec[m].vmid
    BY DEF PickNode, CheckCreateTask, NextID, CheckStartTask, CommitStart,
       RegisterHA, CommitRegister, SyncHARules, TypeOK, Typed, MachineSpec
  <1>5. /\ \A x \in Machines \ {m} : phase'[x] = phase[x]
        /\ phase'[m] # "gone"
    BY <1>2 DEF PickNode, CheckCreateTask, NextID, CheckStartTask, CommitStart,
       RegisterHA, CommitRegister, SyncHARules, TypeOK, Typed
  <1>6. pc'[m] \notin {"created"} \cup TeardownSteps
    BY DEF PickNode, CheckCreateTask, NextID, CheckStartTask, CommitStart,
       RegisterHA, CommitRegister, SyncHARules, Goto, EndReconcile,
       TypeOK, Typed, TeardownSteps
  <1>7. Moves(m)
    BY <1>3, <1>4, <1>5, AloneMoves DEF Alone
  <1> QED BY <1>2, <1>4, <1>5, <1>6, <1>7, MovesKeepOwners DEF TeardownSteps

LEMMA InjectConfigKeepsOwners ==
  ASSUME TypeOK, OwnInv, NEW m \in Machines, InjectConfig(m)
  PROVE  KeepsOwners
  <1> USE DEF omniVars
  <1>1. pc[m] = "startVM" /\ rec[m].vmid \in VMIDs
    BY DEF InjectConfig, TypeOK, Typed, VMIDKnown, MachineSpec
  <1>2. phase[m] # "gone"
    BY <1>1 DEF OwnInv, Owned
  <1>3. UNCHANGED <<phase, rec, tasks, online>>
    BY DEF InjectConfig
  <1>4. CASE EndReconcile(m) /\ UNCHANGED vm
    BY <1>1, <1>2, <1>3, <1>4, EndKeepsOwners
  <1>5. CASE /\ vm' = [vm EXCEPT ![rec[m].vmid].joins = m]
             /\ Goto(m, "start") /\ UNCHANGED work
    <2>1. \A v \in VMIDs : IsFree(v)' = IsFree(v) /\ Owner(v)' = Owner(v)
      BY <1>1, <1>5 DEF IsFree, Owner, TypeOK, Typed, VM
    <2>2. /\ pc'[m] = "start"
          /\ \A x \in Machines \ {m} : pc'[x] = pc[x]
      BY <1>5 DEF Goto, TypeOK, Typed
    <2>3. Moves(m)
      BY <1>3, <1>5, <2>1, <2>2 DEF Moves
    <2> QED BY <1>1, <1>2, <1>3, <2>2, <2>3, MovesKeepOwners DEF TeardownSteps
  <1> QED BY <1>4, <1>5 DEF InjectConfig

LEMMA GoneKeepsOwners ==
  ASSUME TypeOK, OwnInv, NEW m \in Machines, Gone(m),
         UNCHANGED <<rec, vm, tasks, online>>,
         pc[m] = "awaitDelete" => Deleted(m)
  PROVE  KeepsOwners
  <1>1. /\ phase'[m] = "gone" /\ pc'[m] = "idle"
        /\ Alone(m)
    BY EndReconcileTyped DEF Gone, Alone, TypeOK, Typed
  <1>2. FreeUnowned'
    BY DEF OwnInv, FreeUnowned, IsFree, Owner
  <1>3. StepOf(m)
    BY <1>1, AloneMoves DEF Moves, StepOf
  <1>4. ActsOnOwn(m)
    <2>1. tasks[m] \in Seq(Task)
      BY DEF TypeOK, Typed
    <2> QED BY <2>1 DEF ActsOnOwn
  <1>5. Owned(m)'
    BY <1>1 DEF OwnInv, Owned, AwaitsOwnDelete, Deleted, TeardownSteps
  <1> QED BY <1>2, <1>3, <1>4, <1>5, OthersKeepOwners

LEMMA QuietDeprovisionKeepsOwners ==
  ASSUME TypeOK, OwnInv, NEW m \in Machines,
         \/ BeginDeprovision(m) \/ TeardownHA(m) \/ ListNodes(m)
         \/ ScanNode(m) \/ FindNothing(m) \/ GetVM(m) \/ AwaitStop(m)
  PROVE  KeepsOwners
  <1> USE DEF omniVars, proxmoxVars
  <1>1. UNCHANGED <<rec, vm, tasks, online>> /\ pc[m] # "awaitDelete"
    BY DEF BeginDeprovision, TeardownHA, ListNodes, ScanNode, FindNothing,
       GetVM, AwaitStop
  <1>2. CASE Gone(m)
    BY <1>1, <1>2, GoneKeepsOwners
  <1>3. CASE ~Gone(m)
    <2>1. Owned(m)
      BY DEF OwnInv
    <2>2. phase[m] = "tearingDown"
      BY <2>1 DEF Owned, TeardownSteps, BeginDeprovision, TeardownHA, ListNodes,
         ScanNode, FindNothing, GetVM, AwaitStop
    <2>3. UNCHANGED phase
      BY <1>3 DEF BeginDeprovision, TeardownHA, ListNodes, ScanNode,
         FindNothing, GetVM, AwaitStop
    <2>4. /\ \A x \in Machines \ {m} : pc'[x] = pc[x] /\ work'[x] = work[x]
          /\ pc'[m] \notin {"created", "awaitDelete"}
      BY <1>1, <1>3 DEF BeginDeprovision, TeardownHA, ListNodes, ScanNode,
         FindNothing, GetVM, AwaitStop, Goto, EndReconcile, TypeOK, Typed
    <2>5. Moves(m)
      BY <1>1, <2>3, <2>4, AloneMoves DEF Alone
    <2> QED BY <1>1, <2>2, <2>3, <2>4, <2>5, MovesKeepOwners
  <1> QED BY <1>2, <1>3

----------------------------------------------------------------------------
(* Creating, requesting and deleting a VM. *)

LEMMA CreateVMKeepsOwners ==
  ASSUME TypeOK, OwnInv, NEW m \in Machines, CreateVM(m)
  PROVE  KeepsOwners
  <1> USE DEF omniVars
  <1>0. PICK v \in VMIDs : v = work[m].vmid
    BY DEF CreateVM, TypeOK, Typed, VMIDKnown, Locals
  <1>1. pc[m] = "create" /\ UNCHANGED <<phase, rec, online>>
    BY DEF CreateVM
  <1>2. phase[m] # "gone" /\ Owned(m)
    BY <1>1 DEF OwnInv, Owned
  <1>3. CASE EndReconcile(m) /\ UNCHANGED <<vm, tasks>>
    BY <1>1, <1>2, <1>3, EndKeepsOwners
  <1>4. CASE /\ AcceptsCreate(m, v, rec[m].node)
             /\ vm' = [vm EXCEPT ![v] = [status |-> "stopped",
                         node |-> rec[m].node, owner |-> m,
                         joins |-> NoMachine]]
             /\ Post(m, "create", v)
             /\ work' = [work EXCEPT ![m].task = NextUPID(m)]
             /\ Goto(m, "created")
    <2>1. IsFree(v) /\ Owner(v) = NoMachine
      BY <1>1, <1>4 DEF AcceptsCreate, OwnInv, FreeUnowned
    <2>2. /\ Owner(v)' = m /\ ~IsFree(v)'
          /\ \A u \in VMIDs \ {v} :
               IsFree(u)' = IsFree(u) /\ Owner(u)' = Owner(u)
      BY <1>1, <1>4 DEF Owner, IsFree, TypeOK, Typed
    <2>3. /\ work'[m].vmid = v /\ pc'[m] = "created"
          /\ \A x \in Machines \ {m} : work'[x] = work[x] /\ pc'[x] = pc[x]
      BY <1>0, <1>4 DEF Goto, TypeOK, Typed, Locals
    <2> DEFINE n == NextUPID(m)
    <2>4. /\ \A x \in Machines \ {m} : tasks'[x] = tasks[x]
          /\ Len(tasks'[m]) = n
          /\ DOMAIN tasks'[m] = DOMAIN tasks[m] \cup {n}
          /\ \A i \in DOMAIN tasks[m] : tasks'[m][i] = tasks[m][i]
          /\ tasks'[m][n].kind = "create" /\ tasks'[m][n].vmid = v
      BY <1>1, <1>4, PostAppends DEF TypeOK, TaskKinds
    <2> HIDE DEF n
    <2>5. FreeUnowned'
      BY <2>2 DEF OwnInv, FreeUnowned
    <2>6. StepOf(m)
      BY <1>1, <2>1, <2>2, <2>3, <2>4, NoMachineAssumption DEF StepOf
    <2>7. ActsOnOwn(m)
      BY <2>2, <2>4 DEF ActsOnOwn, Owner
    <2>8. AwaitsOwnDelete(m)'
      BY <1>1, <1>2, <2>3, <2>4 DEF Owned, AwaitsOwnDelete
    <2>9. rec[m].vmid # 0 => rec[m].vmid \in VMIDs /\ Owner(rec[m].vmid) = m
      BY <1>1, <1>2 DEF Owned, Deleted, TypeOK, Typed, MachineSpec
    <2>10. rec'[m].vmid # 0 => Owner(rec[m].vmid)' = m
      BY <1>1, <2>2, <2>9 DEF Owner
    <2>11. Owner(work[m].vmid)' = m
      BY <2>2, <2>3 DEF Owner
    <2>12. Owned(m)'
      BY <1>1, <1>2, <2>3, <2>8, <2>10, <2>11 DEF Owned, TeardownSteps
    <2> QED BY <2>5, <2>6, <2>7, <2>12, OthersKeepOwners
  <1> QED BY <1>0, <1>3, <1>4 DEF CreateVM

LEMMA CommitCreateKeepsOwners ==
  ASSUME TypeOK, OwnInv, NEW m \in Machines, CommitCreate(m)
  PROVE  KeepsOwners
  <1> USE DEF proxmoxVars
  <1>1. /\ pc[m] = "created" /\ Owned(m)
        /\ UNCHANGED <<phase, vm, tasks, online>>
    BY DEF CommitCreate, OwnInv
  <1>2. /\ rec'[m].vmid = work[m].vmid
        /\ \A x \in Machines \ {m} : rec'[x] = rec[x]
    BY DEF CommitCreate, TypeOK, Typed, MachineSpec
  <1>3. /\ pc'[m] = "idle"
        /\ \A x \in Machines \ {m} : pc'[x] = pc[x] /\ work'[x] = work[x]
    BY EndReconcileTyped DEF CommitCreate, TypeOK
  <1>4. FreeUnowned' /\ StepOf(m)
    BY <1>1, <1>2, <1>3 DEF OwnInv, FreeUnowned, IsFree, Owner, StepOf
  <1>5. ActsOnOwn(m)
    <2>1. tasks[m] \in Seq(Task)
      BY DEF TypeOK, Typed
    <2> QED BY <1>1, <2>1 DEF ActsOnOwn
  <1>6. Owner(rec[m].vmid)' = m
    BY <1>1, <1>2 DEF Owned, Owner
  <1>7. Owned(m)'
    BY <1>1, <1>3, <1>6 DEF Owned, AwaitsOwnDelete, TeardownSteps
  <1> QED BY <1>4, <1>5, <1>7, OthersKeepOwners

\* A request for the recorded VM: Start, and Stop and Delete of Deprovision.
LEMMA PostKeepsOwners ==
  ASSUME TypeOK, OwnInv, NEW m \in Machines,
         NEW kind \in {"start", "stop", "delete"},
         NEW step \in Steps \ {"created"},
         pc[m] \notin {"idle", "syncVM", "create", "created", "awaitDelete"},
         Post(m, kind, rec[m].vmid), Goto(m, step),
         work' = [work EXCEPT ![m].task = NextUPID(m)],
         UNCHANGED <<phase, rec, vm, online>>,
         kind = "delete" <=> step = "awaitDelete",
         step \in TeardownSteps => phase[m] = "tearingDown",
         step = "awaitDelete" => work[m].node \in online
  PROVE  KeepsOwners
  <1> DEFINE v == rec[m].vmid
             n == NextUPID(m)
  <1>1. v \in VMIDs /\ v # 0
    BY DEF TypeOK, Typed, VMIDKnown, MachineSpec
  <1>2. /\ phase[m] # "gone" /\ Owned(m) /\ Owner(v) = m
        /\ \A i \in DOMAIN tasks[m] :
             tasks[m][i].kind = "delete" => tasks[m][i].status # "running"
    BY <1>1 DEF OwnInv, Owned, Deleted, AwaitsOwnDelete
  <1>3. /\ pc'[m] = step /\ work'[m].task = n
        /\ work'[m].node = work[m].node
        /\ \A x \in Machines \ {m} : pc'[x] = pc[x] /\ work'[x] = work[x]
    BY DEF Goto, TypeOK, Typed, Locals
  <1>4. /\ \A x \in Machines \ {m} : tasks'[x] = tasks[x]
        /\ Len(tasks'[m]) = n
        /\ DOMAIN tasks'[m] = DOMAIN tasks[m] \cup {n}
        /\ \A i \in DOMAIN tasks[m] : tasks'[m][i] = tasks[m][i]
        /\ tasks'[m][n].kind = kind /\ tasks'[m][n].vmid = v
    <2>1. kind \in TaskKinds
      BY DEF TaskKinds
    <2> QED BY <1>1, <2>1, PostAppends DEF TypeOK
  <1>5. tasks'[m][n].status = "running"
    <2>1. kind \in TaskKinds
      BY DEF TaskKinds
    <2> QED BY <1>1, <2>1, PostAppends DEF TypeOK
  <1> HIDE DEF n
  <1>6. FreeUnowned' /\ StepOf(m)
    BY <1>3, <1>4 DEF OwnInv, FreeUnowned, IsFree, Owner, StepOf
  <1>7. Owner(v)' = m
    BY <1>2 DEF Owner
  <1>8. ActsOnOwn(m)
    BY <1>4, <1>7 DEF ActsOnOwn, Owner
  <1>9. AwaitsOwnDelete(m)'
    <2>1. pc'[m] = "awaitDelete" =>
            /\ work'[m].task \in DOMAIN tasks'[m]
            /\ tasks'[m][work'[m].task].vmid = rec'[m].vmid
            /\ work'[m].node \in online'
      BY <1>3, <1>4
    <2>2. ASSUME NEW i \in DOMAIN tasks'[m], tasks'[m][i].kind = "delete",
                 tasks'[m][i].status = "running"
          PROVE  pc'[m] = "awaitDelete" /\ work'[m].task = i
      <3>1. i = n
        BY <1>2, <1>4, <2>2
      <3> QED BY <1>3, <1>4, <2>2, <3>1
    <2> QED BY <2>1, <2>2 DEF AwaitsOwnDelete
  <1>10. Owned(m)'
    BY <1>2, <1>3, <1>7, <1>9 DEF Owned
  <1> QED BY <1>6, <1>8, <1>10, OthersKeepOwners

LEMMA RequestsKeepOwners ==
  ASSUME TypeOK, OwnInv, NEW m \in Machines,
         StartVM(m) \/ StopVM(m) \/ DeleteVM(m)
  PROVE  KeepsOwners
  <1> USE DEF omniVars
  <1>1. /\ UNCHANGED <<phase, rec, vm, online>>
        /\ pc[m] \in {"start", "stop", "delete"}
    BY DEF StartVM, StopVM, DeleteVM, Request
  <1>2. phase[m] # "gone" /\ (pc[m] # "start" => phase[m] = "tearingDown")
    BY <1>1 DEF OwnInv, Owned, TeardownSteps
  <1>3. CASE EndReconcile(m) /\ UNCHANGED tasks
    BY <1>1, <1>2, <1>3, EndKeepsOwners
  <1>4. CASE StartVM(m) /\ ~(EndReconcile(m) /\ UNCHANGED tasks)
    <2>1. /\ Post(m, "start", rec[m].vmid) /\ Goto(m, "started")
          /\ work' = [work EXCEPT ![m].task = NextUPID(m)]
      BY <1>4 DEF StartVM
    <2>2. "started" \in Steps \ {"created"} /\ "started" \notin TeardownSteps
      BY DEF Steps, CommitSteps, TeardownSteps
    <2> QED BY <1>1, <2>1, <2>2, PostKeepsOwners
  <1>5. CASE StopVM(m) /\ ~(EndReconcile(m) /\ UNCHANGED tasks)
    <2>1. /\ Post(m, "stop", rec[m].vmid) /\ Goto(m, "awaitStop")
          /\ work' = [work EXCEPT ![m].task = NextUPID(m)]
          /\ pc[m] = "stop"
      BY <1>5 DEF StopVM, Request
    <2>2. "awaitStop" \in Steps \ {"created"}
      BY DEF Steps, CallSteps
    <2> QED BY <1>1, <1>2, <2>1, <2>2, PostKeepsOwners
  <1>6. CASE DeleteVM(m) /\ ~(EndReconcile(m) /\ UNCHANGED tasks)
    <2>1. /\ Post(m, "delete", rec[m].vmid) /\ Goto(m, "awaitDelete")
          /\ work' = [work EXCEPT ![m].task = NextUPID(m)]
          /\ pc[m] = "delete" /\ work[m].node \in online
      BY <1>6 DEF DeleteVM, Request, Accepts, IsOn
    <2>2. "awaitDelete" \in Steps \ {"created"}
      BY DEF Steps, CallSteps
    <2> QED BY <1>1, <1>2, <2>1, <2>2, PostKeepsOwners
  <1> QED BY <1>3, <1>4, <1>5, <1>6

LEMMA AwaitDeleteKeepsOwners ==
  ASSUME TypeOK, OwnInv, NEW m \in Machines, AwaitDelete(m)
  PROVE  KeepsOwners
  <1> USE DEF proxmoxVars
  <1>1. /\ pc[m] = "awaitDelete" /\ Owned(m)
        /\ UNCHANGED <<rec, vm, tasks, online>>
    BY DEF AwaitDelete, OwnInv
  <1>2. CASE /\ PingedAs(m, work[m].task, work[m].node, "ok")
             /\ Gone(m)
    BY <1>1, <1>2, GoneKeepsOwners DEF PingedAs, TaskStatus, Deleted
  <1>3. CASE AwaitedFails(m) /\ EndReconcile(m) /\ UNCHANGED phase
    <2>1. tasks[m][work[m].task].status = "failed"
      BY <1>1, <1>3 DEF AwaitedFails, Owned, AwaitsOwnDelete, TaskStatus
    <2>2. Alone(m) /\ pc'[m] = "idle"
      BY <1>1, <1>3, EndReconcileTyped DEF Alone, TypeOK
    <2>3. FreeUnowned' /\ StepOf(m)
      BY <1>1, <2>2, AloneMoves
         DEF OwnInv, FreeUnowned, IsFree, Owner, Moves, StepOf
    <2>4. ActsOnOwn(m)
      <3>1. tasks[m] \in Seq(Task)
        BY DEF TypeOK, Typed
      <3> QED BY <1>1, <3>1 DEF ActsOnOwn
    <2>5. Owned(m)'
      BY <1>1, <1>3, <2>1, <2>2
         DEF Owned, AwaitsOwnDelete, Deleted, Owner, TeardownSteps
    <2> QED BY <2>3, <2>4, <2>5, OthersKeepOwners
  <1> QED BY <1>2, <1>3 DEF AwaitDelete

----------------------------------------------------------------------------
(* Proxmox, users and faults. *)

\* Without a failing create task, only a delete task takes a VM away.
LEMMA TaskEffect ==
  ASSUME TypeOK, OwnInv, NEW m \in Machines, NEW i \in DOMAIN tasks[m],
         NEW v \in VMIDs, v = tasks[m][i].vmid,
         \/ CreateTaskEnds(m, i) \/ StartTaskEnds(m, i)
         \/ StopTaskEnds(m, i) \/ DeleteTaskEnds(m, i)
  PROVE  \E status \in {"ok", "failed"} :
           /\ EndTask(m, i, status)
           /\ \/ /\ tasks[m][i].kind = "delete" /\ status = "ok"
                 /\ vm' = [vm EXCEPT ![v] = NoVM]
              \/ \A u \in VMIDs : /\ Owner(u)' = Owner(u)
                                  /\ IsFree(u)' => IsFree(u)
  <1>1. CASE CreateTaskEnds(m, i)
    <2>1. ~Spend("createFails")
      BY DEF OwnInv, Undisrupted, Disruptions, Spend
    <2> QED BY <1>1, <2>1 DEF CreateTaskEnds, Owner, IsFree
  <1>2. CASE StartTaskEnds(m, i)
    <2>1. CASE UNCHANGED vm
      BY <1>2, <2>1 DEF StartTaskEnds, Owner, IsFree
    <2>2. CASE vm' = [vm EXCEPT ![v].status = "running"]
      <3>1. \A u \in VMIDs : /\ vm'[u].owner = vm[u].owner
                             /\ vm'[u].status = "absent" =>
                                  vm[u].status = "absent"
        BY <2>2 DEF TypeOK, Typed, VM
      <3> QED BY <1>2, <3>1 DEF StartTaskEnds, Owner, IsFree
    <2> QED BY <1>2, <2>1, <2>2 DEF StartTaskEnds
  <1>3. CASE StopTaskEnds(m, i)
    <2>1. vm' = [vm EXCEPT ![v].status = "stopped"]
      BY <1>3 DEF StopTaskEnds
    <2>2. \A u \in VMIDs : /\ vm'[u].owner = vm[u].owner
                           /\ vm'[u].status = "absent" =>
                                vm[u].status = "absent"
      BY <2>1 DEF TypeOK, Typed, VM
    <2> QED BY <1>3, <2>2 DEF StopTaskEnds, Owner, IsFree
  <1>4. CASE DeleteTaskEnds(m, i)
    <2>1. tasks[m][i].kind = "delete"
      BY <1>4 DEF DeleteTaskEnds, Running
    <2> QED BY <1>4, <2>1 DEF DeleteTaskEnds, Owner, IsFree
  <1> QED BY <1>1, <1>2, <1>3, <1>4

LEMMA TaskEndsKeepsOwners ==
  ASSUME TypeOK, OwnInv, NEW m \in Machines, TaskEnds(m)
  PROVE  KeepsOwners
  <1> USE DEF omniVars, controlVars
  <1>1. /\ UNCHANGED <<phase, rec, pc, work, online>>
        /\ Owned(m)
    BY DEF TaskEnds, OwnInv
  <1>2. PICK i \in DOMAIN tasks[m] :
          \/ CreateTaskEnds(m, i) \/ StartTaskEnds(m, i)
          \/ StopTaskEnds(m, i) \/ DeleteTaskEnds(m, i)
    BY DEF TaskEnds
  <1>3. tasks[m][i].status = "running"
    BY <1>2 DEF CreateTaskEnds, StartTaskEnds, StopTaskEnds, DeleteTaskEnds,
                Running
  <1>4. PICK v \in VMIDs : v = tasks[m][i].vmid
    <2>1. tasks[m] \in Seq(Task) /\ i \in 1 .. Len(tasks[m])
      BY DEF TypeOK, Typed
    <2>2. tasks[m][i] \in Task
      BY <2>1
    <2> QED BY <2>2 DEF Task
  <1>5. PICK status \in {"ok", "failed"} :
          /\ EndTask(m, i, status)
          /\ \/ /\ tasks[m][i].kind = "delete" /\ status = "ok"
                /\ vm' = [vm EXCEPT ![v] = NoVM]
             \/ \A u \in VMIDs : /\ Owner(u)' = Owner(u)
                                 /\ IsFree(u)' => IsFree(u)
    BY <1>2, <1>4, TaskEffect
  <1>6. /\ \A x \in Machines \ {m} : tasks'[x] = tasks[x]
        /\ DOMAIN tasks'[m] = DOMAIN tasks[m]
        /\ Len(tasks'[m]) = Len(tasks[m])
        /\ \A j \in DOMAIN tasks[m] :
             /\ tasks'[m][j].kind = tasks[m][j].kind
             /\ tasks'[m][j].vmid = tasks[m][j].vmid
             /\ tasks'[m][j].status = IF j = i THEN status
                                      ELSE tasks[m][j].status
    BY <1>5, EndTaskEnds DEF TypeOK
  <1>7. ActsOnOwn(m)
    <2>1. tasks[m] \in Seq(Task)
      BY DEF TypeOK, Typed
    <2> QED BY <1>6, <2>1 DEF ActsOnOwn
  <1>8. AwaitsOwnDelete(m)'
    BY <1>1, <1>6 DEF Owned, AwaitsOwnDelete
  <1>9. Deleted(m) => Deleted(m)'
    BY <1>1, <1>3, <1>6 DEF Owned, AwaitsOwnDelete, Deleted
  <1>10. CASE /\ tasks[m][i].kind = "delete" /\ status = "ok"
              /\ vm' = [vm EXCEPT ![v] = NoVM]
    <2>1. /\ pc[m] = "awaitDelete" /\ work[m].task = i
          /\ rec[m].vmid = v /\ phase[m] = "tearingDown"
      BY <1>1, <1>3, <1>4, <1>10 DEF Owned, AwaitsOwnDelete, TeardownSteps
    <2>2. Owner(v) = m
      BY <1>1, <1>3, <2>1, VMIDsAssumption DEF Owned, Deleted
    <2>3. /\ Owner(v)' = NoMachine
          /\ \A u \in VMIDs \ {v} : vm'[u] = vm[u]
      BY <1>10 DEF Owner, NoVM, TypeOK, Typed
    <2>4. FreeUnowned'
      BY <2>3 DEF OwnInv, FreeUnowned, IsFree, Owner
    <2>5. StepOf(m)
      BY <1>1, <1>6, <2>2, <2>3 DEF StepOf, Owner
    <2>6. Deleted(m)'
      BY <1>1, <1>6, <1>10, <2>1 DEF Owned, AwaitsOwnDelete, Deleted
    <2>7. Owned(m)'
      BY <1>1, <1>8, <2>1, <2>6 DEF Owned
    <2> QED BY <1>7, <2>4, <2>5, <2>7, OthersKeepOwners
  <1>11. CASE \A u \in VMIDs : /\ Owner(u)' = Owner(u)
                               /\ IsFree(u)' => IsFree(u)
    <2>1. FreeUnowned'
      BY <1>11 DEF OwnInv, FreeUnowned
    <2>2. StepOf(m)
      BY <1>1, <1>6, <1>11 DEF StepOf
    <2>3. /\ pc[m] = "created" => work[m].vmid \in VMIDs
          /\ rec[m].vmid # 0 => rec[m].vmid \in VMIDs
      BY DEF TypeOK, Typed, VMIDKnown, Locals, MachineSpec
    <2>4. pc'[m] = "created" => Owner(work[m].vmid)' = m
      BY <1>1, <1>11, <2>3 DEF Owned, Owner
    <2>5. phase'[m] # "gone" /\ rec'[m].vmid # 0 /\ ~Deleted(m)'
          => Owner(rec[m].vmid)' = m
      BY <1>1, <1>9, <1>11, <2>3 DEF Owned, Owner
    <2>6. Owned(m)'
      BY <1>1, <1>8, <2>4, <2>5 DEF Owned
    <2> QED BY <1>7, <2>1, <2>2, <2>6, OthersKeepOwners
  <1> QED BY <1>5, <1>10, <1>11

\* A step that leaves reconciles, records, logs and owners alone.
LEMMA OutsideKeepsOwners ==
  ASSUME TypeOK, OwnInv,
         UNCHANGED <<phase, rec, pc, work, tasks, online>>,
         \A v \in VMIDs : IsFree(v)' = IsFree(v) /\ Owner(v)' = Owner(v)
  PROVE  KeepsOwners
  <1>1. FreeUnowned'
    BY DEF OwnInv, FreeUnowned
  <1>2. ASSUME NEW m \in Machines PROVE Owned(m)' /\ ActsOnOwn(m)
    <2>1. Owned(m) /\ tasks[m] \in Seq(Task)
      BY DEF OwnInv, TypeOK, Typed
    <2>2. /\ pc[m] = "created" => work[m].vmid \in VMIDs
          /\ rec[m].vmid # 0 => rec[m].vmid \in VMIDs
      BY DEF TypeOK, Typed, VMIDKnown, Locals, MachineSpec
    <2>3. Owned(m)'
      BY <2>1, <2>2 DEF Owned, AwaitsOwnDelete, Deleted, Owner
    <2> QED BY <2>1, <2>3 DEF ActsOnOwn
  <1> QED BY <1>1, <1>2 DEF KeepsOwners

LEMMA RequestTeardownKeepsOwners ==
  ASSUME TypeOK, OwnInv, NEW m \in Machines, RequestTeardown(m)
  PROVE  KeepsOwners
  <1> USE DEF controlVars, proxmoxVars
  <1>1. /\ UNCHANGED <<rec, pc, work, vm, tasks, online>>
        /\ phase[m] # "gone" /\ phase'[m] = "tearingDown"
        /\ \A x \in Machines \ {m} : phase'[x] = phase[x]
    BY DEF RequestTeardown, TypeOK, Typed
  <1>2. FreeUnowned' /\ StepOf(m)
    BY <1>1 DEF OwnInv, FreeUnowned, IsFree, Owner, StepOf
  <1>3. Owned(m) /\ tasks[m] \in Seq(Task)
    BY DEF OwnInv, TypeOK, Typed
  <1>4. Owned(m)'
    BY <1>1, <1>3 DEF Owned, AwaitsOwnDelete, Deleted, Owner
  <1>5. ActsOnOwn(m)
    BY <1>1, <1>3 DEF ActsOnOwn
  <1> QED BY <1>2, <1>4, <1>5, OthersKeepOwners

LEMMA FaultKeepsOwners ==
  ASSUME TypeOK, OwnInv, Fault \/ \E n \in Nodes : NodeUp(n)
  PROVE  KeepsOwners
  <1> USE DEF omniVars, controlVars, proxmoxVars
  <1>1. \A k \in Disruptions : ~Spend(k)
    BY DEF OwnInv, Undisrupted, Spend
  <1>2. /\ ~Crash
        /\ \A m \in Machines : ~CallFails(m)
        /\ \A v \in VMIDs : ~AdminRemovesVM(v)
        /\ \A n \in Nodes : ~NodeDown(n) /\ ~NodeUp(n)
    BY <1>1 DEF Crash, CallFails, AdminRemovesVM, NodeDown, NodeUp,
                Disruptions, OwnInv, Undisrupted
  <1>3. ASSUME NEW m \in Machines, EditHA(m) PROVE KeepsOwners
    BY <1>3, OutsideKeepsOwners DEF EditHA, IsFree, Owner
  <1>4. ASSUME NEW m \in Machines, ReplyLost(m) PROVE KeepsOwners
    <2>1. /\ pc[m] # "awaitDelete" /\ pc[m] # "idle"
          /\ Owned(m)
      BY <1>4 DEF ReplyLost, CommitSteps, OwnInv
    <2>2. phase[m] # "gone"
      BY <2>1 DEF Owned
    <2> QED BY <1>4, <2>1, <2>2, EndKeepsOwners DEF ReplyLost
  <1>5. ASSUME NEW v \in VMIDs, NEW n \in Nodes, MigrateVM(v, n)
        PROVE  KeepsOwners
    <2>1. \A u \in VMIDs : /\ vm'[u].owner = vm[u].owner
                           /\ vm'[u].status = vm[u].status
      BY <1>5 DEF MigrateVM, TypeOK, Typed, VM
    <2> QED BY <1>5, <2>1, OutsideKeepsOwners DEF MigrateVM, IsFree, Owner
  <1> QED BY <1>2, <1>3, <1>4, <1>5 DEF Fault

----------------------------------------------------------------------------
(* The theorems. *)

LEMMA OwnInit ==
  ASSUME \A k \in Disruptions : FaultBudget[k] = 0, Init
  PROVE  OwnInv
  <1>1. /\ \A v \in VMIDs : vm[v] = NoVM
        /\ \A m \in Machines :
             /\ phase[m] = "provisioning" /\ pc[m] = "idle"
             /\ rec[m].vmid = 0 /\ tasks[m] = <<>>
    BY DEF Init, NewMachine
  <1>2. Undisrupted
    BY DEF Init, Undisrupted
  <1>3. FreeUnowned
    BY <1>1 DEF FreeUnowned, Owner, NoVM
  <1>4. \A m \in Machines : Owned(m)
    BY <1>1 DEF Owned, AwaitsOwnDelete, Deleted, TeardownSteps
  <1> QED BY <1>2, <1>3, <1>4 DEF OwnInv

\* Faults are spent by their kind: one that may not happen any more never will.
LEMMA NoFaultsCome ==
  ASSUME TypeOK, [Next]_vars, NEW k \in FaultKinds, faults[k] = 0
  PROVE  faults'[k] = 0
  <1> USE DEF omniVars, controlVars, proxmoxVars
  <1>1. UNCHANGED faults \/ \E kind \in FaultKinds : Spend(kind)
    <2>2. CASE UNCHANGED vars
      BY <2>2 DEF vars
    <2>3. CASE \E m \in Machines : Provision(m)
      BY <2>3 DEF Provision, PickNode, CheckCreateTask, NextID, CreateVM,
         CommitCreate, CheckStartTask, InjectConfig, StartVM, CommitStart,
         RegisterHA, CommitRegister, SyncHARules
    <2>4. CASE \E m \in Machines : Deprovision(m)
      BY <2>4 DEF Deprovision, BeginDeprovision, TeardownHA, ListNodes,
         ScanNode, FindNothing, GetVM, StopVM, AwaitStop, DeleteVM,
         AwaitDelete, Request
    <2>5. CASE \E m \in Machines : TaskEnds(m) \/ RequestTeardown(m)
      BY <2>5 DEF TaskEnds, RequestTeardown, CreateTaskEnds, StartTaskEnds,
         StopTaskEnds, DeleteTaskEnds, FaultKinds
    <2>6. CASE Fault \/ \E n \in Nodes : NodeUp(n)
      BY <2>6 DEF Fault, Crash, EditHA, CallFails, ReplyLost, AdminRemovesVM,
         MigrateVM, NodeDown, NodeUp, FaultKinds
    <2> QED BY <2>2, <2>3, <2>4, <2>5, <2>6 DEF Next
  <1>2. ASSUME NEW kind \in FaultKinds, Spend(kind)
        PROVE  faults'[k] = faults[k]
    BY <1>2 DEF Spend, TypeOK, Typed
  <1> QED BY <1>1, <1>2

\* No node comes or goes either.
LEMMA StaysUndisrupted ==
  ASSUME TypeOK, OwnInv, [Next]_vars
  PROVE  Undisrupted'
  <1> USE DEF omniVars, controlVars, proxmoxVars
  <1>1. \A k \in Disruptions : ~Spend(k) /\ k \in FaultKinds
    BY DEF OwnInv, Undisrupted, Spend, Disruptions, FaultKinds
  <1>3. online' = online
    <2>1. \A n \in Nodes : ~NodeDown(n) /\ ~NodeUp(n)
      BY <1>1 DEF NodeDown, NodeUp, Disruptions, OwnInv, Undisrupted
    <2>2. CASE UNCHANGED vars
      BY <2>2 DEF vars
    <2>3. CASE \E m \in Machines : Provision(m)
      BY <2>3 DEF Provision, PickNode, CheckCreateTask, NextID, CreateVM,
         CommitCreate, CheckStartTask, InjectConfig, StartVM, CommitStart,
         RegisterHA, CommitRegister, SyncHARules
    <2>4. CASE \E m \in Machines : Deprovision(m)
      BY <2>4 DEF Deprovision, BeginDeprovision, TeardownHA, ListNodes,
         ScanNode, FindNothing, GetVM, StopVM, AwaitStop, DeleteVM,
         AwaitDelete, Request
    <2>5. CASE \E m \in Machines : TaskEnds(m) \/ RequestTeardown(m)
      BY <2>5 DEF TaskEnds, RequestTeardown
    <2>6. CASE Fault
      BY <2>1, <2>6 DEF Fault, Crash, EditHA, CallFails, ReplyLost,
         AdminRemovesVM, MigrateVM
    <2> QED BY <2>1, <2>2, <2>3, <2>4, <2>5, <2>6 DEF Next
  <1> QED BY <1>1, <1>3, NoFaultsCome DEF OwnInv, Undisrupted

LEMMA NextKeepsOwners ==
  ASSUME TypeOK, OwnInv, [Next]_vars
  PROVE  KeepsOwners
  <1>1. CASE UNCHANGED vars
    BY <1>1, OutsideKeepsOwners
       DEF vars, omniVars, controlVars, proxmoxVars, IsFree, Owner
  <1>2. CASE \E m \in Machines : Provision(m)
    BY <1>2, QuietProvisionKeepsOwners, InjectConfigKeepsOwners,
       CreateVMKeepsOwners, CommitCreateKeepsOwners, RequestsKeepOwners
    DEF Provision
  <1>3. CASE \E m \in Machines : Deprovision(m)
    BY <1>3, QuietDeprovisionKeepsOwners, RequestsKeepOwners,
       AwaitDeleteKeepsOwners DEF Deprovision
  <1> QED BY <1>1, <1>2, <1>3, TaskEndsKeepsOwners,
             RequestTeardownKeepsOwners, FaultKeepsOwners DEF Next

LEMMA OwnNext == TypeOK /\ OwnInv /\ [Next]_vars => OwnInv'
  BY StaysUndisrupted, NextKeepsOwners DEF OwnInv, KeepsOwners

LEMMA OwnersAreExclusive ==
  ASSUME TypeOK, OwnInv
  PROVE  VMIDsAreExclusive
  <1> SUFFICES ASSUME NEW m \in Machines,
                      phase[m] \in {"provisioning", "provisioned"},
                      rec[m].createTask # 0
               PROVE  Owner(rec[m].vmid) = m
    BY DEF VMIDsAreExclusive
  <1>1. rec[m].vmid # 0
    BY DEF TypeOK, VMIDKnown
  <1>2. ~Deleted(m)
    BY DEF OwnInv, Owned, Deleted, TeardownSteps
  <1> QED BY <1>1, <1>2 DEF OwnInv, Owned

\* Two machines in use never record the same vmid, however many reconciles of
\* provision.go ask NextID at the same time, as long as the provider is not
\* interrupted and Proxmox does what it accepted: start tasks may fail,
\* answers to creations get lost, VMs move and ha: blocks change all the same.
THEOREM VMIDsAreExclusiveHolds ==
  ASSUME \A k \in Disruptions : FaultBudget[k] = 0
  PROVE  Spec => []VMIDsAreExclusive
  <1>1. Init => OwnInv
    BY OwnInit
  <1>2. TypeOK /\ OwnInv => VMIDsAreExclusive
    BY OwnersAreExclusive
  <1> QED BY <1>1, <1>2, TypeInit, TypeNext, OwnNext, PTL DEF Spec

\* Under the same conditions no Start, Stop or Delete request of provision.go
\* ever meets the VM of another machine: between the moment a vmid is recorded
\* and the tear-down that deletes it, that vmid is not handed out again.
THEOREM ActsOnlyOnOwnVMHolds ==
  ASSUME \A k \in Disruptions : FaultBudget[k] = 0
  PROVE  Spec => ActsOnlyOnOwnVM
  <1>1. Init => OwnInv
    BY OwnInit
  <1>2. TypeOK /\ OwnInv /\ [Next]_vars =>
          [\A m \in Machines : Len(tasks'[m]) > Len(tasks[m]) =>
             vm'[tasks'[m][Len(tasks'[m])].vmid].owner = m]_vars
    BY NextKeepsOwners DEF KeepsOwners, ActsOnOwn
  <1> QED BY <1>1, <1>2, TypeInit, TypeNext, OwnNext, PTL
          DEF Spec, ActsOnlyOnOwnVM
=============================================================================
