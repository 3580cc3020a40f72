------------------------- MODULE Provisioner_proofs -------------------------
(* Proofs about Provisioner. *)
EXTENDS Provisioner, SequenceTheorems, TLAPS

\* What Post and EndTask leave in the task log is a task log.
LEMMA PostTyped ==
  ASSUME Typed, NEW m \in Machines, NEW kind \in TaskKinds, NEW v \in VMIDs,
         Post(m, kind, v)
  PROVE  tasks' \in [Machines -> Seq(Task)]
  <1>1. tasks[m] \in Seq(Task)
    BY DEF Typed
  <1>2. [kind |-> kind, vmid |-> v, status |-> "running"] \in Task
    BY DEF Task
  <1>3. Append(tasks[m], [kind |-> kind, vmid |-> v, status |-> "running"])
          \in Seq(Task)
    BY <1>1, <1>2, AppendProperties
  <1> QED BY <1>3 DEF Typed, Post

LEMMA EndTaskTyped ==
  ASSUME Typed, NEW m \in Machines, NEW i \in DOMAIN tasks[m],
         NEW status \in {"running", "ok", "failed"}, EndTask(m, i, status)
  PROVE  tasks' \in [Machines -> Seq(Task)]
  <1> DEFINE t == [tasks[m][i] EXCEPT !.status = status]
  <1>1. tasks[m] \in Seq(Task) /\ i \in 1 .. Len(tasks[m])
    BY DEF Typed
  <1>2. tasks[m][i] \in Task
    BY <1>1
  <1>3. t \in Task
    BY <1>2 DEF Task
  <1>4. [tasks[m] EXCEPT ![i] = t] \in Seq(Task)
    BY <1>1, <1>3, ExceptSeq
  <1>5. tasks' = [tasks EXCEPT ![m] = [tasks[m] EXCEPT ![i] = t]]
    BY DEF EndTask, Typed
  <1> QED BY <1>4, <1>5 DEF Typed

LEMMA TypeInit == Init => TypeOK
  <1> SUFFICES ASSUME Init PROVE TypeOK
    OBVIOUS
  <1> USE VMIDsAssumption, HAAssumption, BudgetAssumption
  <1>1. tasks \in [Machines -> Seq(Task)]
    BY DEF Init
  <1>2. Typed
    BY <1>1 DEF Init, Typed, Phases, MachineSpec, NewMachine, Steps, Locals,
       NoLocals, VM, NoVM
  <1>3. VMIDKnown
    BY DEF Init, VMIDKnown, NewMachine
  <1> QED BY <1>2, <1>3 DEF TypeOK

----------------------------------------------------------------------------
(* What the assignments of the actions do, machine by machine. *)

LEMMA GotoTyped ==
  ASSUME Typed, NEW m \in Machines, NEW step \in Steps, Goto(m, step)
  PROVE  /\ pc' \in [Machines -> Steps]
         /\ \A x \in Machines : pc'[x] = IF x = m THEN step ELSE pc[x]
  BY DEF Typed, Goto

LEMMA EndReconcileTyped ==
  ASSUME Typed, NEW m \in Machines, EndReconcile(m)
  PROVE  /\ pc' \in [Machines -> Steps]
         /\ \A x \in Machines : pc'[x] = IF x = m THEN "idle" ELSE pc[x]
         /\ work' \in [Machines -> Locals]
         /\ \A x \in Machines : work'[x] = IF x = m THEN NoLocals ELSE work[x]
  <1>1. NoLocals \in Locals
    BY DEF NoLocals, Locals
  <1>2. "idle" \in Steps
    BY DEF Steps
  <1> QED BY <1>1, <1>2, GotoTyped DEF Typed, EndReconcile

LEMMA RecordTyped ==
  ASSUME Typed, NEW m \in Machines, NEW r \in MachineSpec,
         rec' = [rec EXCEPT ![m] = r]
  PROVE  /\ rec' \in [Machines -> MachineSpec]
         /\ \A x \in Machines : rec'[x] = IF x = m THEN r ELSE rec[x]
  BY DEF Typed

LEMMA LocalsTyped ==
  ASSUME Typed, NEW m \in Machines, NEW w \in Locals,
         work' = [work EXCEPT ![m] = w]
  PROVE  /\ work' \in [Machines -> Locals]
         /\ \A x \in Machines : work'[x] = IF x = m THEN w ELSE work[x]
  BY DEF Typed

LEMMA VMTyped ==
  ASSUME Typed, NEW v \in VMIDs, NEW x \in VM, vm' = [vm EXCEPT ![v] = x]
  PROVE  vm' \in [VMIDs -> VM]
  BY DEF Typed

LEMMA SpendTyped ==
  ASSUME Typed, NEW kind \in FaultKinds, Spend(kind)
  PROVE  faults' \in [FaultKinds -> Nat]
  BY DEF Typed, Spend

\* The task a request returns is a number.
LEMMA NextUPIDTyped ==
  ASSUME Typed, NEW m \in Machines
  PROVE  NextUPID(m) \in Nat \ {0}
  <1>1. tasks[m] \in Seq(Task)
    BY DEF Typed
  <1> QED BY <1>1, LenProperties DEF NextUPID

----------------------------------------------------------------------------
(* The provision steps preserve TypeOK. *)

\* A reconcile that goes on with a later step, or ends, and records nothing.
LEMMA AdvanceTyped ==
  ASSUME TypeOK, NEW m \in Machines, NEW step \in Steps \ {"create", "created"},
         Goto(m, step), UNCHANGED <<rec, work>>, rec[m].vmid # 0
  PROVE  pc' \in [Machines -> Steps] /\ VMIDKnown'
  BY GotoTyped DEF TypeOK, VMIDKnown

LEMMA AbandonTyped ==
  ASSUME TypeOK, NEW m \in Machines, EndReconcile(m), UNCHANGED rec
  PROVE  /\ pc' \in [Machines -> Steps]
         /\ work' \in [Machines -> Locals]
         /\ VMIDKnown'
  BY EndReconcileTyped DEF TypeOK, VMIDKnown

LEMMA PickNodeTyped ==
  ASSUME TypeOK, NEW m \in Machines, PickNode(m)
  PROVE  TypeOK'
  <1>1. PICK n \in Nodes \cup {NoNode} :
          rec' = [rec EXCEPT ![m] = [rec[m] EXCEPT !.node = n]]
    <2>1. CASE UNCHANGED rec
      <3>1. rec[m].node \in Nodes \cup {NoNode} /\ rec[m] \in MachineSpec
        BY DEF TypeOK, Typed, MachineSpec
      <3>2. rec[m] = [rec[m] EXCEPT !.node = rec[m].node]
        BY <3>1 DEF MachineSpec
      <3> QED BY <2>1, <3>1, <3>2 DEF TypeOK, Typed
    <2>2. CASE \E n \in online : rec' = [rec EXCEPT ![m].node = n]
      BY <2>2 DEF TypeOK, Typed
    <2> QED BY <2>1, <2>2 DEF PickNode
  <1> DEFINE r == [rec[m] EXCEPT !.node = n]
  <1>2. r \in MachineSpec /\ r.createTask = rec[m].createTask /\ r.vmid = rec[m].vmid
    BY DEF TypeOK, Typed, MachineSpec
  <1> HIDE DEF r
  <1>3. /\ rec' \in [Machines -> MachineSpec]
        /\ \A x \in Machines : rec'[x] = IF x = m THEN r ELSE rec[x]
    BY <1>1, <1>2, RecordTyped DEF TypeOK, r
  <1>4. /\ pc' \in [Machines -> Steps]
        /\ \A x \in Machines : pc'[x] = IF x = m THEN "syncVM" ELSE pc[x]
    BY GotoTyped DEF TypeOK, PickNode, Steps, CallSteps
  <1>5. Typed'
    BY <1>3, <1>4 DEF TypeOK, Typed, PickNode, proxmoxVars
  <1>6. VMIDKnown'
    BY <1>2, <1>3, <1>4 DEF TypeOK, VMIDKnown, PickNode
  <1> QED BY <1>5, <1>6 DEF TypeOK

LEMMA CheckCreateTaskTyped ==
  ASSUME TypeOK, NEW m \in Machines, CheckCreateTask(m)
  PROVE  TypeOK'
  <1>1. rec[m].vmid # 0 /\ UNCHANGED rec
    BY DEF CheckCreateTask, TypeOK, VMIDKnown, omniVars
  <1>2. CASE Goto(m, "startVM") /\ UNCHANGED work
    <2>1. pc' \in [Machines -> Steps] /\ VMIDKnown'
      BY <1>1, <1>2, AdvanceTyped DEF Steps, CallSteps
    <2> QED
      BY <1>2, <2>1 DEF TypeOK, Typed, CheckCreateTask, omniVars, proxmoxVars
  <1>3. CASE EndReconcile(m)
    BY <1>1, <1>3, AbandonTyped
       DEF TypeOK, Typed, CheckCreateTask, omniVars, proxmoxVars
  <1> QED BY <1>2, <1>3 DEF CheckCreateTask

LEMMA NextIDTyped ==
  ASSUME TypeOK, NEW m \in Machines, NextID(m)
  PROVE  TypeOK'
  <1>1. CASE \E v \in VMIDs : work' = [work EXCEPT ![m].vmid = v] /\ Goto(m, "create")
    <2>1. PICK v \in VMIDs :
            /\ work' = [work EXCEPT ![m] = [work[m] EXCEPT !.vmid = v]]
            /\ Goto(m, "create")
      BY <1>1 DEF TypeOK, Typed
    <2> DEFINE w == [work[m] EXCEPT !.vmid = v]
    <2>2. w \in Locals /\ w.vmid # 0
      BY VMIDsAssumption DEF TypeOK, Typed, Locals
    <2> HIDE DEF w
    <2>3. /\ work' \in [Machines -> Locals]
          /\ \A x \in Machines : work'[x] = IF x = m THEN w ELSE work[x]
      BY <2>1, <2>2, LocalsTyped DEF TypeOK, w
    <2>4. /\ pc' \in [Machines -> Steps]
          /\ \A x \in Machines : pc'[x] = IF x = m THEN "create" ELSE pc[x]
      BY <2>1, GotoTyped DEF TypeOK, Steps, CallSteps
    <2>5. Typed'
      BY <2>3, <2>4 DEF TypeOK, Typed, NextID, omniVars, proxmoxVars
    <2>6. VMIDKnown'
      BY <2>2, <2>3, <2>4 DEF TypeOK, VMIDKnown, NextID, omniVars
    <2> QED BY <2>5, <2>6 DEF TypeOK
  <1>2. CASE EndReconcile(m)
    <2>1. UNCHANGED rec
      BY DEF NextID, omniVars
    <2> QED BY <1>2, <2>1, AbandonTyped
            DEF TypeOK, Typed, NextID, omniVars, proxmoxVars
  <1> QED BY <1>1, <1>2 DEF NextID

LEMMA CreateVMTyped ==
  ASSUME TypeOK, NEW m \in Machines, CreateVM(m)
  PROVE  TypeOK'
  <1> DEFINE v == work[m].vmid
             n == rec[m].node
             new == [status |-> "stopped", node |-> n, owner |-> m,
                     joins |-> NoMachine]
  <1>1. v \in VMIDs /\ UNCHANGED rec
    BY DEF CreateVM, TypeOK, Typed, VMIDKnown, Locals, omniVars
  <1>2. CASE EndReconcile(m) /\ UNCHANGED <<vm, tasks>>
    BY <1>1, <1>2, AbandonTyped DEF TypeOK, Typed, CreateVM, omniVars
  <1>3. CASE /\ vm' = [vm EXCEPT ![v] = new]
             /\ Post(m, "create", v)
             /\ work' = [work EXCEPT ![m].task = NextUPID(m)]
             /\ Goto(m, "created")
    <2> DEFINE w == [work[m] EXCEPT !.task = NextUPID(m)]
    <2>1. w \in Locals /\ w.vmid = v
      BY NextUPIDTyped DEF TypeOK, Typed, Locals
    <2>2. work' = [work EXCEPT ![m] = w]
      BY <1>3
    <2>3. new \in VM
      BY DEF TypeOK, Typed, MachineSpec, VM
    <2>4. tasks' \in [Machines -> Seq(Task)]
      BY <1>1, <1>3, PostTyped DEF TypeOK, TaskKinds
    <2> HIDE DEF w, new, v
    <2>5. vm' \in [VMIDs -> VM]
      BY <1>1, <1>3, <2>3, VMTyped DEF TypeOK
    <2>6. /\ work' \in [Machines -> Locals]
          /\ \A x \in Machines : work'[x] = IF x = m THEN w ELSE work[x]
      BY <2>1, <2>2, LocalsTyped DEF TypeOK
    <2>7. /\ pc' \in [Machines -> Steps]
          /\ \A x \in Machines : pc'[x] = IF x = m THEN "created" ELSE pc[x]
      BY <1>3, GotoTyped DEF TypeOK, Steps, CommitSteps
    <2>8. VMIDKnown'
      BY <1>1, <2>1, <2>6, <2>7, VMIDsAssumption DEF TypeOK, VMIDKnown
    <2> QED
      BY <2>4, <2>5, <2>6, <2>7, <2>8 DEF TypeOK, Typed, CreateVM, omniVars
  <1> QED BY <1>2, <1>3 DEF CreateVM

LEMMA CommitCreateTyped ==
  ASSUME TypeOK, NEW m \in Machines, CommitCreate(m)
  PROVE  TypeOK'
  <1> DEFINE r == [rec[m] EXCEPT !.createTask = work[m].task, !.vmid = work[m].vmid]
  <1>1. r \in MachineSpec /\ r.vmid = work[m].vmid /\ r.vmid # 0
    <2>1. /\ rec[m] \in MachineSpec /\ work[m].vmid # 0
          /\ work[m].task \in Nat /\ work[m].vmid \in VMIDs \cup {0}
      BY DEF CommitCreate, TypeOK, Typed, VMIDKnown, Locals
    <2> QED BY <2>1 DEF MachineSpec
  <1>2. rec' = [rec EXCEPT ![m] = r]
    BY DEF CommitCreate, TypeOK, Typed
  <1> HIDE DEF r
  <1>3. /\ rec' \in [Machines -> MachineSpec]
        /\ \A x \in Machines : rec'[x] = IF x = m THEN r ELSE rec[x]
    BY <1>1, <1>2, RecordTyped DEF TypeOK
  <1>4. Typed'
    BY <1>3, EndReconcileTyped DEF TypeOK, Typed, CommitCreate, proxmoxVars
  <1>5. VMIDKnown'
    BY <1>1, <1>3, EndReconcileTyped DEF TypeOK, VMIDKnown, CommitCreate
  <1> QED BY <1>4, <1>5 DEF TypeOK

\* The machine's record changes in a field that is neither the create task nor
\* the vmid, and the reconcile ends or goes on with a later step.
LEMMA RecordKeepsVMID ==
  ASSUME TypeOK, NEW m \in Machines, NEW r \in MachineSpec,
         rec' = [rec EXCEPT ![m] = r],
         r.createTask = rec[m].createTask, r.vmid = rec[m].vmid
  PROVE  /\ rec' \in [Machines -> MachineSpec]
         /\ EndReconcile(m) => VMIDKnown'
         /\ \A step \in Steps \ {"create", "created"} :
              Goto(m, step) /\ UNCHANGED work /\ rec[m].vmid # 0 => VMIDKnown'
  <1>1. /\ rec' \in [Machines -> MachineSpec]
        /\ \A x \in Machines : rec'[x] = IF x = m THEN r ELSE rec[x]
    BY RecordTyped DEF TypeOK
  <1>2. EndReconcile(m) => VMIDKnown'
    BY <1>1, EndReconcileTyped DEF TypeOK, VMIDKnown
  <1>3. ASSUME NEW step \in Steps \ {"create", "created"},
               Goto(m, step), UNCHANGED work, rec[m].vmid # 0
        PROVE  VMIDKnown'
    BY <1>1, <1>3, GotoTyped DEF TypeOK, VMIDKnown
  <1> QED BY <1>1, <1>2, <1>3

LEMMA CheckStartTaskTyped ==
  ASSUME TypeOK, NEW m \in Machines, CheckStartTask(m)
  PROVE  TypeOK'
  <1>1. rec[m].vmid # 0
    BY DEF CheckStartTask, TypeOK, VMIDKnown
  <1>2. CASE Goto(m, "registerHA") /\ UNCHANGED <<rec, work>>
    <2>1. pc' \in [Machines -> Steps] /\ VMIDKnown'
      BY <1>1, <1>2, AdvanceTyped DEF Steps, CallSteps
    <2> QED BY <1>2, <2>1 DEF TypeOK, Typed, CheckStartTask, proxmoxVars
  <1>3. CASE EndReconcile(m) /\ UNCHANGED rec
    BY <1>3, AbandonTyped DEF TypeOK, Typed, CheckStartTask, proxmoxVars
  <1>4. CASE rec' = [rec EXCEPT ![m].startTask = 0] /\ EndReconcile(m)
    <2> DEFINE r == [rec[m] EXCEPT !.startTask = 0]
    <2>1. /\ r \in MachineSpec
          /\ r.createTask = rec[m].createTask /\ r.vmid = rec[m].vmid
      BY DEF TypeOK, Typed, MachineSpec
    <2>2. rec' = [rec EXCEPT ![m] = r]
      BY <1>4
    <2> HIDE DEF r
    <2>3. rec' \in [Machines -> MachineSpec] /\ VMIDKnown'
      BY <1>4, <2>1, <2>2, RecordKeepsVMID
    <2> QED BY <1>4, <2>3, EndReconcileTyped
            DEF TypeOK, Typed, CheckStartTask, proxmoxVars
  <1> QED BY <1>2, <1>3, <1>4 DEF CheckStartTask

LEMMA InjectConfigTyped ==
  ASSUME TypeOK, NEW m \in Machines, InjectConfig(m)
  PROVE  TypeOK'
  <1>1. rec[m].vmid \in VMIDs /\ UNCHANGED rec
    BY DEF InjectConfig, TypeOK, Typed, VMIDKnown, MachineSpec, omniVars
  <1>2. CASE /\ vm' = [vm EXCEPT ![rec[m].vmid].joins = m]
             /\ Goto(m, "start") /\ UNCHANGED work
    <2>1. [vm[rec[m].vmid] EXCEPT !.joins = m] \in VM
      <3>1. vm[rec[m].vmid] \in VM
        BY <1>1 DEF TypeOK, Typed
      <3> QED BY <3>1 DEF VM
    <2>2. vm' \in [VMIDs -> VM]
      BY <1>1, <1>2, <2>1, VMTyped DEF TypeOK
    <2>3. pc' \in [Machines -> Steps] /\ VMIDKnown'
      BY <1>1, <1>2, AdvanceTyped, VMIDsAssumption DEF Steps, CallSteps
    <2> QED BY <1>2, <2>2, <2>3 DEF TypeOK, Typed, InjectConfig, omniVars
  <1>3. CASE EndReconcile(m) /\ UNCHANGED vm
    BY <1>1, <1>3, AbandonTyped DEF TypeOK, Typed, InjectConfig, omniVars
  <1> QED BY <1>2, <1>3 DEF InjectConfig

\* A request for the recorded VM: startVM, and Stop and Delete of Deprovision.
LEMMA RequestTyped ==
  ASSUME TypeOK, NEW m \in Machines, NEW kind \in TaskKinds,
         NEW step \in Steps \ {"create", "created"},
         UNCHANGED <<rec, phase, wantsHA, vm, haRes, online, faults>>,
         rec[m].vmid # 0,
         \/ /\ Post(m, kind, rec[m].vmid)
            /\ work' = [work EXCEPT ![m].task = NextUPID(m)]
            /\ Goto(m, step)
         \/ EndReconcile(m) /\ UNCHANGED tasks
  PROVE  TypeOK'
  <1>1. CASE /\ Post(m, kind, rec[m].vmid)
             /\ work' = [work EXCEPT ![m].task = NextUPID(m)]
             /\ Goto(m, step)
    <2> DEFINE w == [work[m] EXCEPT !.task = NextUPID(m)]
    <2>1. w \in Locals
      BY NextUPIDTyped DEF TypeOK, Typed, Locals
    <2>2. work' = [work EXCEPT ![m] = w]
      BY <1>1
    <2>3. rec[m].vmid \in VMIDs
      BY DEF TypeOK, Typed, MachineSpec
    <2>4. tasks' \in [Machines -> Seq(Task)]
      BY <1>1, <2>3, PostTyped DEF TypeOK
    <2> HIDE DEF w
    <2>5. /\ work' \in [Machines -> Locals]
          /\ \A x \in Machines : work'[x] = IF x = m THEN w ELSE work[x]
      BY <2>1, <2>2, LocalsTyped DEF TypeOK
    <2>6. /\ pc' \in [Machines -> Steps]
          /\ \A x \in Machines : pc'[x] = IF x = m THEN step ELSE pc[x]
      BY <1>1, GotoTyped DEF TypeOK
    <2>7. VMIDKnown'
      BY <2>5, <2>6 DEF TypeOK, VMIDKnown
    <2> QED BY <2>4, <2>5, <2>6, <2>7 DEF TypeOK, Typed
  <1>2. CASE EndReconcile(m) /\ UNCHANGED tasks
    BY <1>2, AbandonTyped DEF TypeOK, Typed
  <1> QED BY <1>1, <1>2

LEMMA StartVMTyped ==
  ASSUME TypeOK, NEW m \in Machines, StartVM(m)
  PROVE  TypeOK'
  <1>1. rec[m].vmid # 0
    BY DEF StartVM, TypeOK, VMIDKnown
  <1>2. "start" \in TaskKinds /\ "started" \in Steps \ {"create", "created"}
    BY DEF TaskKinds, Steps, CommitSteps
  <1> QED BY <1>1, <1>2, RequestTyped DEF StartVM, omniVars

LEMMA CommitStartTyped ==
  ASSUME TypeOK, NEW m \in Machines, CommitStart(m)
  PROVE  TypeOK'
  <1> DEFINE r == [rec[m] EXCEPT !.startTask = work[m].task]
  <1>1. /\ r \in MachineSpec
        /\ r.createTask = rec[m].createTask /\ r.vmid = rec[m].vmid
    <2>1. rec[m] \in MachineSpec /\ work[m].task \in Nat
      BY DEF TypeOK, Typed, Locals
    <2> QED BY <2>1 DEF MachineSpec
  <1>2. rec' = [rec EXCEPT ![m] = r]
    BY DEF CommitStart
  <1> HIDE DEF r
  <1>3. rec' \in [Machines -> MachineSpec] /\ VMIDKnown'
    BY <1>1, <1>2, RecordKeepsVMID DEF CommitStart
  <1> QED BY <1>3, EndReconcileTyped
          DEF TypeOK, Typed, CommitStart, proxmoxVars

LEMMA RegisterHATyped ==
  ASSUME TypeOK, NEW m \in Machines, RegisterHA(m)
  PROVE  TypeOK'
  <1>1. rec[m].vmid \in VMIDs /\ rec[m].vmid # 0 /\ UNCHANGED rec
    BY DEF RegisterHA, TypeOK, Typed, VMIDKnown, MachineSpec, omniVars
  <1>2. CASE EndReconcile(m) /\ UNCHANGED haRes
    BY <1>1, <1>2, AbandonTyped DEF TypeOK, Typed, RegisterHA, omniVars
  <1>3. ASSUME NEW step \in {"syncHARules", "registered"},
               Goto(m, step), UNCHANGED work, haRes' \in SUBSET VMIDs
        PROVE  TypeOK'
    <2>1. pc' \in [Machines -> Steps] /\ VMIDKnown'
      BY <1>1, <1>3, AdvanceTyped DEF Steps, CallSteps, CommitSteps
    <2> QED BY <1>3, <2>1 DEF TypeOK, Typed, RegisterHA, omniVars
  <1> QED BY <1>1, <1>2, <1>3 DEF RegisterHA, TypeOK, Typed

LEMMA CommitRegisterTyped ==
  ASSUME TypeOK, NEW m \in Machines, CommitRegister(m)
  PROVE  TypeOK'
  <1> DEFINE r == [rec[m] EXCEPT !.haRegistered = TRUE]
  <1>1. /\ r \in MachineSpec
        /\ r.createTask = rec[m].createTask /\ r.vmid = rec[m].vmid
    BY DEF TypeOK, Typed, MachineSpec
  <1>2. rec' = [rec EXCEPT ![m] = r]
    BY DEF CommitRegister
  <1> HIDE DEF r
  <1>3. "syncHARules" \in Steps \ {"create", "created"} /\ rec[m].vmid # 0
    BY DEF CommitRegister, TypeOK, VMIDKnown, Steps, CallSteps
  <1>4. rec' \in [Machines -> MachineSpec] /\ VMIDKnown'
    BY <1>1, <1>2, <1>3, RecordKeepsVMID DEF CommitRegister
  <1>5. pc' \in [Machines -> Steps]
    BY <1>3, GotoTyped DEF TypeOK, CommitRegister
  <1> QED BY <1>4, <1>5 DEF TypeOK, Typed, CommitRegister, proxmoxVars

LEMMA SyncHARulesTyped ==
  ASSUME TypeOK, NEW m \in Machines, SyncHARules(m)
  PROVE  TypeOK'
  <1>1. phase' \in [Machines -> Phases]
    BY DEF SyncHARules, TypeOK, Typed, Phases
  <1> QED BY <1>1, AbandonTyped DEF TypeOK, Typed, SyncHARules, proxmoxVars

LEMMA ProvisionTyped ==
  ASSUME TypeOK, NEW m \in Machines, Provision(m)
  PROVE  TypeOK'
  BY PickNodeTyped, CheckCreateTaskTyped, NextIDTyped, CreateVMTyped,
     CommitCreateTyped, CheckStartTaskTyped, InjectConfigTyped, StartVMTyped,
     CommitStartTyped, RegisterHATyped, CommitRegisterTyped, SyncHARulesTyped
  DEF Provision

----------------------------------------------------------------------------
(* Deprovision preserves TypeOK. *)

\* Deprovision returns nil.
LEMMA GoneTyped ==
  ASSUME TypeOK, NEW m \in Machines, Gone(m),
         UNCHANGED <<rec, wantsHA, vm, tasks, haRes, online, faults>>
  PROVE  TypeOK'
  <1>1. phase' \in [Machines -> Phases]
    BY DEF Gone, TypeOK, Typed, Phases
  <1> QED BY <1>1, AbandonTyped DEF Gone, TypeOK, Typed

\* Deprovision goes on, with other local variables.
LEMMA SearchTyped ==
  ASSUME TypeOK, NEW m \in Machines, NEW w \in Locals, NEW step \in Steps,
         step \notin {"create", "created"}, rec[m].vmid # 0,
         work' = [work EXCEPT ![m] = w], pc' = [pc EXCEPT ![m] = step],
         UNCHANGED <<phase, rec, wantsHA, vm, tasks, haRes, online, faults>>
  PROVE  TypeOK'
  <1>1. /\ work' \in [Machines -> Locals]
        /\ \A x \in Machines : work'[x] = IF x = m THEN w ELSE work[x]
    BY LocalsTyped DEF TypeOK
  <1>2. /\ pc' \in [Machines -> Steps]
        /\ \A x \in Machines : pc'[x] = IF x = m THEN step ELSE pc[x]
    BY GotoTyped DEF TypeOK, Goto
  <1>3. VMIDKnown'
    BY <1>1, <1>2 DEF TypeOK, VMIDKnown
  <1> QED BY <1>1, <1>2, <1>3 DEF TypeOK, Typed

LEMMA BeginDeprovisionTyped ==
  ASSUME TypeOK, NEW m \in Machines, BeginDeprovision(m)
  PROVE  TypeOK'
  <1> USE DEF BeginDeprovision, proxmoxVars
  <1>1. CASE Gone(m)
    BY <1>1, GoneTyped
  <1>2. CASE /\ rec[m].vmid # 0
             /\ Goto(m, "teardownHA") /\ UNCHANGED <<phase, work>>
    <2>1. pc' \in [Machines -> Steps] /\ VMIDKnown'
      BY <1>2, AdvanceTyped DEF Steps, CallSteps
    <2> QED BY <1>2, <2>1 DEF TypeOK, Typed
  <1>3. CASE /\ rec[m].vmid # 0 /\ Goto(m, "getVM") /\ UNCHANGED phase
             /\ work' = [work EXCEPT ![m].node = rec[m].node]
    <2> DEFINE w == [work[m] EXCEPT !.node = rec[m].node]
    <2>1. w \in Locals
      <3>1. work[m] \in Locals /\ rec[m].node \in Nodes \cup {NoNode}
        BY DEF TypeOK, Typed, MachineSpec
      <3> QED BY <3>1 DEF Locals
    <2>2. work' = [work EXCEPT ![m] = w]
      BY <1>3
    <2> HIDE DEF w
    <2> QED BY <1>3, <2>1, <2>2, SearchTyped DEF Goto, Steps, CallSteps
  <1> QED BY <1>1, <1>2, <1>3

LEMMA TeardownHATyped ==
  ASSUME TypeOK, NEW m \in Machines, TeardownHA(m)
  PROVE  TypeOK'
  <1>1. rec[m].vmid # 0 /\ UNCHANGED <<rec, work>>
    BY DEF TeardownHA, TypeOK, VMIDKnown, omniVars
  <1>2. pc' \in [Machines -> Steps] /\ VMIDKnown'
    BY <1>1, AdvanceTyped DEF TeardownHA, Steps, CallSteps
  <1> QED BY <1>2 DEF TypeOK, Typed, TeardownHA, omniVars

LEMMA ListNodesTyped ==
  ASSUME TypeOK, NEW m \in Machines, ListNodes(m)
  PROVE  TypeOK'
  <1> DEFINE w == [work[m] EXCEPT !.scan = online]
  <1>1. w \in Locals
    <2>1. work[m] \in Locals /\ online \in SUBSET Nodes
      BY DEF TypeOK, Typed
    <2> QED BY <2>1 DEF Locals
  <1>2. work' = [work EXCEPT ![m] = w]
    BY DEF ListNodes
  <1>3. rec[m].vmid # 0
    BY DEF ListNodes, TypeOK, VMIDKnown
  <1> HIDE DEF w
  <1> QED BY <1>1, <1>2, <1>3, SearchTyped
          DEF ListNodes, Goto, Steps, CallSteps, omniVars, proxmoxVars

LEMMA ScanNodeTyped ==
  ASSUME TypeOK, NEW m \in Machines, ScanNode(m)
  PROVE  TypeOK'
  <1>1. /\ rec[m].vmid # 0 /\ pc[m] = "scanNodes"
        /\ work[m] \in Locals
        /\ UNCHANGED <<phase, rec, wantsHA, vm, tasks, haRes, online, faults>>
    BY DEF ScanNode, TypeOK, Typed, VMIDKnown, omniVars, proxmoxVars
  <1>2. PICK n \in Nodes :
          \/ /\ work' = [work EXCEPT ![m].node = n, ![m].scan = {}]
             /\ Goto(m, "getVM")
          \/ /\ work' = [work EXCEPT ![m].scan = @ \ {n}]
             /\ UNCHANGED pc
          \/ EndReconcile(m)
    BY <1>1 DEF ScanNode, Locals
  <1>3. CASE /\ work' = [work EXCEPT ![m].node = n, ![m].scan = {}]
             /\ Goto(m, "getVM")
    <2> DEFINE w == [work[m] EXCEPT !.node = n, !.scan = {}]
    <2>1. w \in Locals
      BY <1>1 DEF Locals
    <2>2. work' = [work EXCEPT ![m] = w]
      BY <1>3 DEF TypeOK, Typed
    <2> HIDE DEF w
    <2> QED BY <1>1, <1>3, <2>1, <2>2, SearchTyped DEF Goto, Steps, CallSteps
  <1>4. CASE /\ work' = [work EXCEPT ![m].scan = @ \ {n}]
             /\ UNCHANGED pc
    <2> DEFINE w == [work[m] EXCEPT !.scan = work[m].scan \ {n}]
    <2>1. w \in Locals
      BY <1>1 DEF Locals
    <2>2. work' = [work EXCEPT ![m] = w]
      BY <1>4 DEF TypeOK, Typed
    <2>3. pc' = [pc EXCEPT ![m] = "scanNodes"]
      BY <1>1, <1>4 DEF TypeOK, Typed
    <2> HIDE DEF w
    <2> QED BY <1>1, <2>1, <2>2, <2>3, SearchTyped DEF Steps, CallSteps
  <1>5. CASE EndReconcile(m)
    BY <1>1, <1>5, AbandonTyped DEF TypeOK, Typed
  <1> QED BY <1>2, <1>3, <1>4, <1>5

LEMMA GetVMTyped ==
  ASSUME TypeOK, NEW m \in Machines, GetVM(m)
  PROVE  TypeOK'
  <1> USE DEF GetVM, proxmoxVars
  <1>1. CASE Goto(m, "stop") /\ UNCHANGED <<phase, work>>
    <2>1. rec[m].vmid # 0
      BY DEF TypeOK, VMIDKnown
    <2>2. pc' \in [Machines -> Steps] /\ VMIDKnown'
      BY <1>1, <2>1, AdvanceTyped DEF Steps, CallSteps
    <2> QED BY <1>1, <2>2 DEF TypeOK, Typed
  <1>2. CASE Gone(m)
    BY <1>2, GoneTyped
  <1>3. CASE EndReconcile(m) /\ UNCHANGED phase
    BY <1>3, AbandonTyped DEF TypeOK, Typed
  <1> QED BY <1>1, <1>2, <1>3

LEMMA StopOrDeleteTyped ==
  ASSUME TypeOK, NEW m \in Machines, StopVM(m) \/ DeleteVM(m)
  PROVE  TypeOK'
  <1>1. rec[m].vmid # 0
    BY DEF StopVM, DeleteVM, Request, TypeOK, VMIDKnown
  <1>2. /\ {"stop", "delete"} \subseteq TaskKinds
        /\ {"awaitStop", "awaitDelete"} \subseteq Steps \ {"create", "created"}
    BY DEF TaskKinds, Steps, CallSteps
  <1>3. CASE StopVM(m)
    BY <1>1, <1>2, <1>3, RequestTyped DEF StopVM, Request, omniVars
  <1>4. CASE DeleteVM(m)
    BY <1>1, <1>2, <1>4, RequestTyped DEF DeleteVM, Request, omniVars
  <1> QED BY <1>3, <1>4

LEMMA AwaitStopTyped ==
  ASSUME TypeOK, NEW m \in Machines, AwaitStop(m)
  PROVE  TypeOK'
  <1> USE DEF AwaitStop, omniVars, proxmoxVars
  <1>1. CASE Goto(m, "delete") /\ UNCHANGED work
    <2>1. rec[m].vmid # 0
      BY DEF TypeOK, VMIDKnown
    <2>2. pc' \in [Machines -> Steps] /\ VMIDKnown'
      BY <1>1, <2>1, AdvanceTyped DEF Steps, CallSteps
    <2> QED BY <1>1, <2>2 DEF TypeOK, Typed
  <1>2. CASE EndReconcile(m)
    BY <1>2, AbandonTyped DEF TypeOK, Typed
  <1> QED BY <1>1, <1>2

LEMMA AwaitDeleteTyped ==
  ASSUME TypeOK, NEW m \in Machines, AwaitDelete(m)
  PROVE  TypeOK'
  <1> USE DEF AwaitDelete, proxmoxVars
  <1>1. CASE Gone(m)
    BY <1>1, GoneTyped
  <1>2. CASE EndReconcile(m) /\ UNCHANGED phase
    BY <1>2, AbandonTyped DEF TypeOK, Typed
  <1> QED BY <1>1, <1>2

LEMMA DeprovisionTyped ==
  ASSUME TypeOK, NEW m \in Machines, Deprovision(m)
  PROVE  TypeOK'
  <1>1. CASE FindNothing(m)
    BY <1>1, GoneTyped DEF FindNothing, proxmoxVars
  <1> QED
    BY <1>1, BeginDeprovisionTyped, TeardownHATyped, ListNodesTyped,
       ScanNodeTyped, GetVMTyped, StopOrDeleteTyped, AwaitStopTyped,
       AwaitDeleteTyped
    DEF Deprovision

----------------------------------------------------------------------------
(* Proxmox, the user and the faults preserve TypeOK. *)

LEMMA TaskEndsTyped ==
  ASSUME TypeOK, NEW m \in Machines, TaskEnds(m)
  PROVE  TypeOK'
  <1>1. PICK i \in DOMAIN tasks[m] :
          \/ CreateTaskEnds(m, i) \/ StartTaskEnds(m, i)
          \/ StopTaskEnds(m, i)   \/ DeleteTaskEnds(m, i)
    BY DEF TaskEnds
  <1> DEFINE v == tasks[m][i].vmid
  <1>2. v \in VMIDs /\ vm[v] \in VM
    <2>1. tasks[m] \in Seq(Task) /\ vm \in [VMIDs -> VM]
      BY DEF TypeOK, Typed
    <2>2. tasks[m][i] \in Task
      BY <2>1
    <2> QED BY <2>1, <2>2 DEF Task
  <1>3. /\ NoVM \in VM
        /\ [vm[v] EXCEPT !.status = "stopped"] \in VM
        /\ [vm[v] EXCEPT !.status = "running"] \in VM
    BY <1>2 DEF NoVM, VM
  <1>4. PICK status \in {"running", "ok", "failed"} : EndTask(m, i, status)
    BY <1>1 DEF CreateTaskEnds, StartTaskEnds, StopTaskEnds, DeleteTaskEnds
  <1>5. tasks' \in [Machines -> Seq(Task)]
    BY <1>4, EndTaskTyped DEF TypeOK
  <1>6. faults' \in [FaultKinds -> Nat]
    <2>1. {"createFails", "startFails"} \subseteq FaultKinds
      BY DEF FaultKinds
    <2>2. UNCHANGED faults => faults' \in [FaultKinds -> Nat]
      BY DEF TypeOK, Typed
    <2> QED BY <1>1, <2>1, <2>2, SpendTyped
            DEF TypeOK, CreateTaskEnds, StartTaskEnds, StopTaskEnds, DeleteTaskEnds
  <1>7. \/ UNCHANGED vm
        \/ vm' = [vm EXCEPT ![v] = NoVM]
        \/ vm' = [vm EXCEPT ![v] = [vm[v] EXCEPT !.status = "stopped"]]
        \/ vm' = [vm EXCEPT ![v] = [vm[v] EXCEPT !.status = "running"]]
    BY <1>1 DEF CreateTaskEnds, StartTaskEnds, StopTaskEnds, DeleteTaskEnds
  <1>8. vm' \in [VMIDs -> VM]
    <2>1. UNCHANGED vm => vm' \in [VMIDs -> VM]
      BY DEF TypeOK, Typed
    <2> HIDE DEF v
    <2> QED BY <1>2, <1>3, <1>7, <2>1, VMTyped DEF TypeOK
  <1> QED BY <1>5, <1>6, <1>8
          DEF TypeOK, Typed, VMIDKnown, TaskEnds, omniVars, controlVars

LEMMA UserTyped ==
  ASSUME TypeOK, NEW m \in Machines, RequestTeardown(m) \/ EditHA(m)
  PROVE  TypeOK'
  <1>1. CASE RequestTeardown(m)
    BY <1>1 DEF RequestTeardown, TypeOK, Typed, VMIDKnown, Phases,
                controlVars, proxmoxVars
  <1>2. CASE EditHA(m)
    <2>1. faults' \in [FaultKinds -> Nat]
      BY <1>2, SpendTyped DEF EditHA, TypeOK, FaultKinds
    <2> QED BY <1>2, <2>1 DEF EditHA, TypeOK, Typed, VMIDKnown,
                              controlVars, proxmoxVars
  <1> QED BY <1>1, <1>2

\* A failing call, a lost answer and a restart only end reconciles.
LEMMA InterruptionTyped ==
  ASSUME TypeOK, Crash \/ \E m \in Machines : CallFails(m) \/ ReplyLost(m)
  PROVE  TypeOK'
  <1>1. faults' \in [FaultKinds -> Nat]
    BY SpendTyped DEF Crash, CallFails, ReplyLost, TypeOK, FaultKinds
  <1>2. CASE Crash
    <2>1. "idle" \in Steps /\ NoLocals \in Locals
      BY DEF Steps, NoLocals, Locals
    <2>2. /\ pc' \in [Machines -> Steps]
          /\ work' \in [Machines -> Locals]
          /\ VMIDKnown'
      BY <1>2, <2>1 DEF Crash, TypeOK, VMIDKnown, omniVars
    <2> QED BY <1>1, <1>2, <2>2
            DEF Crash, TypeOK, Typed, omniVars, proxmoxVars
  <1>3. ASSUME NEW m \in Machines, CallFails(m) \/ ReplyLost(m)
        PROVE  TypeOK'
    BY <1>1, <1>3, AbandonTyped
       DEF CallFails, ReplyLost, TypeOK, Typed, omniVars, proxmoxVars
  <1> QED BY <1>2, <1>3

LEMMA OutOfBandTyped ==
  ASSUME TypeOK,
         \/ \E v \in VMIDs : AdminRemovesVM(v)
         \/ \E v \in VMIDs, n \in Nodes : MigrateVM(v, n)
         \/ \E n \in Nodes : NodeDown(n) \/ NodeUp(n)
  PROVE  TypeOK'
  <1> USE DEF omniVars, controlVars
  <1>1. VMIDKnown'
    BY DEF AdminRemovesVM, MigrateVM, NodeDown, NodeUp, TypeOK, VMIDKnown
  <1>2. /\ UNCHANGED <<omniVars, controlVars, tasks, haRes>>
        /\ online' \in SUBSET Nodes
    BY DEF AdminRemovesVM, MigrateVM, NodeDown, NodeUp, TypeOK, Typed
  <1>3. faults' \in [FaultKinds -> Nat]
    <2>1. UNCHANGED faults => faults' \in [FaultKinds -> Nat]
      BY DEF TypeOK, Typed
    <2> QED BY <2>1, SpendTyped DEF AdminRemovesVM, MigrateVM, NodeDown, NodeUp,
                                    TypeOK, FaultKinds
  <1>4. vm' \in [VMIDs -> VM]
    <2>1. CASE \E v \in VMIDs : AdminRemovesVM(v)
      <3>1. NoVM \in VM
        BY DEF NoVM, VM
      <3> QED BY <2>1, <3>1, VMTyped DEF AdminRemovesVM, TypeOK
    <2>2. CASE \E v \in VMIDs, n \in Nodes : MigrateVM(v, n)
      <3>1. PICK v \in VMIDs, n \in Nodes :
              vm' = [vm EXCEPT ![v] = [vm[v] EXCEPT !.node = n]]
        BY <2>2 DEF MigrateVM
      <3>2. vm[v] \in VM
        BY DEF TypeOK, Typed
      <3>3. [vm[v] EXCEPT !.node = n] \in VM
        BY <3>2 DEF VM
      <3> QED BY <3>1, <3>3, VMTyped DEF TypeOK
    <2>3. CASE \E n \in Nodes : NodeDown(n) \/ NodeUp(n)
      BY <2>3 DEF NodeDown, NodeUp, TypeOK, Typed
    <2> QED BY <2>1, <2>2, <2>3
  <1> QED BY <1>1, <1>2, <1>3, <1>4 DEF TypeOK, Typed

LEMMA TypeNext == TypeOK /\ [Next]_vars => TypeOK'
  <1> SUFFICES ASSUME TypeOK, [Next]_vars PROVE TypeOK'
    OBVIOUS
  <1>1. CASE UNCHANGED vars
    BY <1>1 DEF TypeOK, Typed, VMIDKnown, vars, omniVars, controlVars, proxmoxVars
  <1>2. CASE Next
    BY <1>2, ProvisionTyped, DeprovisionTyped, TaskEndsTyped, UserTyped,
       InterruptionTyped, OutOfBandTyped DEF Next, Fault
  <1> QED BY <1>1, <1>2

\* The state is always one the program and Proxmox can be in, and a reconcile
\* that creates, starts, registers or tears down a VM always has its vmid: the
\* steps rely on what an earlier reconcile recorded and do not look again.
THEOREM TypeCorrect == Spec => []TypeOK
  BY TypeInit, TypeNext, PTL DEF Spec
=============================================================================
