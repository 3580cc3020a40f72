---------------------------- MODULE VMLife_proofs ----------------------------
(***************************************************************************)
(* The proof that the provider loses nothing it has made in Proxmox: every *)
(* VM is the one its machine has recorded or is about to record, every HA  *)
(* resource is one that a living machine knows it has registered, and a    *)
(* machine is gone only when its VM is.                                    *)
(***************************************************************************)
EXTENDS StepOrder_proofs, OwnVM_proofs, FiniteSetTheorems

----------------------------------------------------------------------------
(* Part 1: what survives every fault that does not interrupt a reconcile   *)
(* between the effect of a call and its commit.                            *)

Interruptions == {"crash", "lost"}

\* The steps of Deprovision after the HA resource has been deregistered.
Deregistered == TeardownSteps \ {"teardownHA"}

\* m knows of the VM v, or will with its next commit.
Names(m, v) == rec[m].vmid = v \/ (pc[m] = "created" /\ work[m].vmid = v)

Named == \A v \in VMIDs, m \in Machines : Owner(v) = m => Names(m, v)

\* The tear-down of m is going to deregister the VM v.
Registers(m, v) ==
  /\ rec[m].vmid = v
  /\ phase[m] # "gone"
  /\ rec[m].haRegistered \/ pc[m] = "registered"
  /\ pc[m] \notin Deregistered

Answered == \A v \in haRes : \E m \in Machines : Registers(m, v)

InPhase(m) ==
  /\ phase[m] = "gone" => pc[m] = "idle"
  /\ pc[m] \in TeardownSteps => phase[m] = "tearingDown"

KnownInv == Named /\ Answered /\ \A m \in Machines : InPhase(m)

Uninterrupted == \A k \in Interruptions : faults[k] = 0

\* A VM keeps its owner, loses it, or is m's from now on.
GivesTo(m) ==
  \A v \in VMIDs : \/ Owner(v)' = Owner(v)
                   \/ Owner(v)' = NoMachine
                   \/ Owner(v)' = m /\ Names(m, v)'

\* A step of m's reconcile that forgets nothing m has made.
Remembers(m) ==
  /\ OthersStay(m)
  /\ GivesTo(m)
  /\ InPhase(m)'
  /\ \A v \in VMIDs : Names(m, v) => Names(m, v)'
  /\ \A v \in haRes' : v \in haRes \/ Registers(m, v)'
  /\ \A v \in haRes' : Registers(m, v) => Registers(m, v)'

LEMMA RemembersKeeps ==
  ASSUME TypeOK, KnownInv, NEW m \in Machines, Remembers(m)
  PROVE  KnownInv'
  <1>1. ASSUME NEW x \in Machines, x # m
        PROVE  /\ InPhase(x)'
               /\ \A v : Names(x, v) => Names(x, v)'
               /\ \A v : Registers(x, v) => Registers(x, v)'
    BY <1>1 DEF KnownInv, InPhase, Names, Registers, Remembers, OthersStay
  <1>2. Named'
    <2> SUFFICES ASSUME NEW v \in VMIDs, NEW x \in Machines, Owner(v)' = x
                 PROVE  Names(x, v)'
      BY DEF Named
    <2>1. CASE Owner(v) = x
      BY <1>1, <2>1 DEF KnownInv, Named, Remembers
    <2>2. CASE Owner(v) # x
      BY <2>2, NoMachineAssumption DEF Remembers, GivesTo
    <2> QED BY <2>1, <2>2
  <1>3. Answered'
    <2> SUFFICES ASSUME NEW v \in haRes'
                 PROVE  \E x \in Machines : Registers(x, v)'
      BY DEF Answered
    <2>1. CASE Registers(m, v)'
      BY <2>1
    <2>2. CASE ~Registers(m, v)'
      <3>1. v \in haRes /\ ~Registers(m, v)
        BY <2>2 DEF Remembers
      <3>2. PICK x \in Machines : Registers(x, v)
        BY <3>1 DEF KnownInv, Answered
      <3> QED BY <1>1, <3>1, <3>2
    <2> QED BY <2>1, <2>2
  <1> QED BY <1>1, <1>2, <1>3 DEF KnownInv, Remembers

\* A step that records no vmid and registers nothing, and gives up an HA
\* registration only when there is none.
LEMMA SteadyKeeps ==
  ASSUME TypeOK, KnownInv, NEW m \in Machines, OthersStay(m),
         UNCHANGED haRes,
         \A v \in VMIDs : Owner(v)' = Owner(v),
         pc[m] \notin {"created", "registered"},
         rec'[m].vmid = rec[m].vmid,
         rec[m].haRegistered => rec'[m].haRegistered,
         InPhase(m)',
         /\ rec[m].haRegistered /\ rec[m].vmid # 0
         /\ phase[m] # "gone" /\ pc[m] \notin Deregistered
         => phase'[m] # "gone" /\ pc'[m] \notin Deregistered
  PROVE  KnownInv'
  <1>1. haRes \subseteq VMIDs /\ 0 \notin VMIDs
    BY VMIDsAssumption DEF TypeOK, Typed
  <1>2. GivesTo(m)
    BY DEF GivesTo
  <1>3. \A v \in VMIDs : Names(m, v) => Names(m, v)'
    BY DEF Names
  <1>4. \A v \in VMIDs : Registers(m, v) => Registers(m, v)'
    BY <1>1 DEF Registers
  <1> QED BY <1>1, <1>2, <1>3, <1>4, RemembersKeeps DEF Remembers

----------------------------------------------------------------------------
(* The steps of a reconcile. *)

LEMMA SteadyProvisionKnown ==
  ASSUME TypeOK, KnownInv, NEW m \in Machines,
         \/ PickNode(m) \/ CheckCreateTask(m) \/ NextID(m)
         \/ CheckStartTask(m) \/ StartVM(m) \/ CommitStart(m)
         \/ SyncHARules(m)
  PROVE  KnownInv'
  <1> USE DEF omniVars, proxmoxVars
  <1>1. UNCHANGED <<vm, haRes>> /\ pc[m] \notin {"created", "registered"}
    BY DEF PickNode, CheckCreateTask, NextID, CheckStartTask, StartVM,
       CommitStart, SyncHARules
  <1>2. \A x \in Machines \ {m} : pc'[x] = pc[x] /\ work'[x] = work[x]
    BY DEF PickNode, CheckCreateTask, NextID, CheckStartTask, StartVM,
       CommitStart, SyncHARules, Goto, EndReconcile, TypeOK, Typed
  <1>3. /\ \A x \in Machines \ {m} : rec'[x] = rec[x]
        /\ rec'[m].vmid = rec[m].vmid
        /\ rec'[m].haRegistered = rec[m].haRegistered
    BY DEF PickNode, CheckCreateTask, NextID, CheckStartTask, StartVM,
       CommitStart, SyncHARules, TypeOK, Typed, MachineSpec
  <1>4. /\ \A x \in Machines \ {m} : phase'[x] = phase[x]
        /\ phase'[m] # "gone"
    BY DEF PickNode, CheckCreateTask, NextID, CheckStartTask, StartVM,
       CommitStart, SyncHARules, TypeOK, Typed, KnownInv, InPhase
  <1>5. pc'[m] \notin TeardownSteps
    BY DEF PickNode, CheckCreateTask, NextID, CheckStartTask, StartVM,
       CommitStart, SyncHARules, Goto, EndReconcile, TypeOK, Typed,
       TeardownSteps
  <1>6. OthersStay(m) /\ InPhase(m)' /\ \A v \in VMIDs : Owner(v)' = Owner(v)
    BY <1>1, <1>2, <1>3, <1>4, <1>5 DEF OthersStay, InPhase, Owner
  <1> QED BY <1>1, <1>3, <1>4, <1>5, <1>6, SteadyKeeps DEF Deregistered

LEMMA InjectConfigKnown ==
  ASSUME TypeOK, KnownInv, NEW m \in Machines, InjectConfig(m)
  PROVE  KnownInv'
  <1> USE DEF omniVars
  <1>1. /\ pc[m] = "startVM" /\ rec[m].vmid \in VMIDs
        /\ UNCHANGED <<phase, rec, haRes>>
    BY DEF InjectConfig, TypeOK, Typed, VMIDKnown, MachineSpec
  <1>2. \A v \in VMIDs : vm'[v].owner = vm[v].owner
    <2>1. CASE vm' = [vm EXCEPT ![rec[m].vmid].joins = m]
      BY <1>1, <2>1 DEF TypeOK, Typed, VM
    <2> QED BY <2>1 DEF InjectConfig
  <1>3. /\ \A x \in Machines \ {m} : pc'[x] = pc[x] /\ work'[x] = work[x]
        /\ pc'[m] \notin TeardownSteps
    <2>1. EndReconcile(m) \/ (Goto(m, "start") /\ UNCHANGED work)
      BY DEF InjectConfig
    <2> QED BY <2>1 DEF Goto, EndReconcile, TypeOK, Typed, TeardownSteps
  <1>4. phase[m] # "gone"
    BY <1>1 DEF KnownInv, InPhase
  <1>5. OthersStay(m) /\ InPhase(m)' /\ \A v \in VMIDs : Owner(v)' = Owner(v)
    BY <1>1, <1>2, <1>3, <1>4 DEF OthersStay, InPhase, Owner
  <1> QED BY <1>1, <1>3, <1>4, <1>5, SteadyKeeps DEF Deregistered

\* The vmid of the new VM is the one the next commit records.
LEMMA CreateVMKnown ==
  ASSUME TypeOK, KnownInv, NEW m \in Machines, CreateVM(m)
  PROVE  KnownInv'
  <1> USE DEF omniVars
  <1>0. PICK v \in VMIDs : v = work[m].vmid
    BY DEF CreateVM, TypeOK, Typed, VMIDKnown, Locals
  <1>1. pc[m] = "create" /\ UNCHANGED <<phase, rec, haRes>>
    BY DEF CreateVM
  <1>2. phase[m] # "gone"
    BY <1>1 DEF KnownInv, InPhase
  <1>3. CASE EndReconcile(m) /\ UNCHANGED vm
    <2>1. OthersStay(m) /\ pc'[m] = "idle"
      BY <1>1, <1>3, EndReconcileTyped DEF OthersStay, TypeOK
    <2>2. InPhase(m)' /\ \A u \in VMIDs : Owner(u)' = Owner(u)
      BY <1>1, <1>2, <1>3, <2>1 DEF InPhase, TeardownSteps, Owner
    <2> QED BY <1>1, <2>1, <2>2, <1>2, SteadyKeeps DEF Deregistered, TeardownSteps
  <1>4. CASE /\ vm' = [vm EXCEPT ![v] = [status |-> "stopped",
                         node |-> rec[m].node, owner |-> m,
                         joins |-> NoMachine]]
             /\ work' = [work EXCEPT ![m].task = NextUPID(m)]
             /\ Goto(m, "created")
    <2>1. /\ Owner(v)' = m
          /\ \A u \in VMIDs \ {v} : Owner(u)' = Owner(u)
      BY <1>4 DEF Owner, TypeOK, Typed
    <2>2. /\ work'[m].vmid = v /\ pc'[m] = "created"
          /\ \A x \in Machines \ {m} : work'[x] = work[x] /\ pc'[x] = pc[x]
      BY <1>0, <1>4 DEF Goto, TypeOK, Typed, Locals
    <2>3. OthersStay(m) /\ InPhase(m)' /\ GivesTo(m)
      BY <1>1, <1>2, <2>1, <2>2 DEF OthersStay, InPhase, GivesTo, Names,
         TeardownSteps
    <2>4. \A u : Names(m, u) => Names(m, u)'
      BY <1>1, <2>2 DEF Names
    <2>5. \A u : Registers(m, u) => Registers(m, u)'
      BY <1>1, <2>2 DEF Registers, Deregistered, TeardownSteps
    <2> QED BY <1>1, <2>3, <2>4, <2>5, RemembersKeeps DEF Remembers
  <1> QED BY <1>0, <1>3, <1>4 DEF CreateVM

LEMMA CommitCreateKnown ==
  ASSUME TypeOK, Ordered, KnownInv, NEW m \in Machines, CommitCreate(m)
  PROVE  KnownInv'
  <1> USE DEF proxmoxVars
  <1>1. /\ pc[m] = "created" /\ UNCHANGED <<phase, vm, haRes>>
        /\ haRes \subseteq VMIDs /\ 0 \notin VMIDs
    BY VMIDsAssumption DEF CommitCreate, TypeOK, Typed
  <1>2. /\ rec'[m].vmid = work[m].vmid
        /\ rec[m].vmid = 0
        /\ \A x \in Machines \ {m} : rec'[x] = rec[x]
    BY <1>1 DEF CommitCreate, TypeOK, Typed, MachineSpec, Ordered,
       RecordOrdered, ReconcileOrdered, InCreate
  <1>3. /\ pc'[m] = "idle"
        /\ \A x \in Machines \ {m} : pc'[x] = pc[x] /\ work'[x] = work[x]
    BY EndReconcileTyped DEF CommitCreate, TypeOK
  <1>4. OthersStay(m) /\ InPhase(m)' /\ GivesTo(m)
    BY <1>1, <1>2, <1>3 DEF OthersStay, InPhase, TeardownSteps, GivesTo, Owner
  <1>5. \A v \in VMIDs : Names(m, v) => Names(m, v)'
    BY <1>1, <1>2 DEF Names
  <1>6. \A v \in VMIDs : ~Registers(m, v)
    BY <1>1, <1>2 DEF Registers
  <1> QED BY <1>1, <1>4, <1>5, <1>6, RemembersKeeps DEF Remembers

\* The HA resource is m's to deregister from the moment it exists ...
LEMMA RegisterHAKnown ==
  ASSUME TypeOK, KnownInv, NEW m \in Machines, RegisterHA(m)
  PROVE  KnownInv'
  <1> USE DEF omniVars
  <1>1. /\ pc[m] = "registerHA" /\ UNCHANGED <<phase, rec, vm>>
        /\ rec[m].vmid \in VMIDs
    BY DEF RegisterHA, TypeOK, Typed, VMIDKnown, MachineSpec
  <1>2. phase[m] # "gone"
    BY <1>1 DEF KnownInv, InPhase
  <1>3. /\ \A x \in Machines \ {m} : pc'[x] = pc[x] /\ work'[x] = work[x]
        /\ pc'[m] \in {"idle", "registered", "syncHARules"}
    BY DEF RegisterHA, Goto, EndReconcile, TypeOK, Typed
  <1>4. OthersStay(m) /\ InPhase(m)' /\ \A v \in VMIDs : Owner(v)' = Owner(v)
    BY <1>1, <1>2, <1>3 DEF OthersStay, InPhase, TeardownSteps, Owner
  <1>5. CASE UNCHANGED haRes
    BY <1>1, <1>3, <1>4, <1>5, <1>2, SteadyKeeps DEF Deregistered, TeardownSteps
  <1>6. CASE haRes' = haRes \cup {rec[m].vmid} /\ Goto(m, "registered")
    <2>1. pc'[m] = "registered"
      BY <1>6 DEF Goto, TypeOK, Typed
    <2>2. Registers(m, rec[m].vmid)'
      BY <1>1, <1>2, <2>1 DEF Registers, Deregistered, TeardownSteps
    <2>3. \A v : /\ Names(m, v) => Names(m, v)'
                 /\ Registers(m, v) => Registers(m, v)'
      BY <1>1, <2>1, <2>2 DEF Names, Registers
    <2>4. GivesTo(m)
      BY <1>4 DEF GivesTo
    <2>5. \A v \in haRes' : v \in haRes \/ Registers(m, v)'
      BY <1>1, <1>6, <2>2
    <2> QED BY <1>4, <2>3, <2>4, <2>5, RemembersKeeps DEF Remembers
  <1> QED BY <1>5, <1>6 DEF RegisterHA

\* ... and recorded as such by the commit.
LEMMA CommitRegisterKnown ==
  ASSUME TypeOK, KnownInv, NEW m \in Machines, CommitRegister(m)
  PROVE  KnownInv'
  <1> USE DEF proxmoxVars
  <1>1. /\ pc[m] = "registered" /\ UNCHANGED <<phase, work, vm, haRes>>
        /\ phase[m] # "gone"
    BY DEF CommitRegister, KnownInv, InPhase
  <1>2. /\ rec'[m].vmid = rec[m].vmid /\ rec'[m].haRegistered
        /\ \A x \in Machines \ {m} : rec'[x] = rec[x]
    BY DEF CommitRegister, TypeOK, Typed, MachineSpec
  <1>3. pc'[m] = "syncHARules" /\ \A x \in Machines \ {m} : pc'[x] = pc[x]
    BY DEF CommitRegister, Goto, TypeOK, Typed
  <1>4. OthersStay(m) /\ InPhase(m)' /\ GivesTo(m)
    BY <1>1, <1>2, <1>3 DEF OthersStay, InPhase, TeardownSteps, GivesTo, Owner
  <1>5. \A v : /\ Names(m, v) => Names(m, v)'
               /\ Registers(m, v) => Registers(m, v)'
    BY <1>1, <1>2, <1>3 DEF Names, Registers, Deregistered, TeardownSteps
  <1> QED BY <1>1, <1>4, <1>5, RemembersKeeps DEF Remembers

LEMMA TeardownHAKnown ==
  ASSUME TypeOK, KnownInv, NEW m \in Machines, TeardownHA(m)
  PROVE  KnownInv'
  <1> USE DEF omniVars
  <1>1. /\ pc[m] = "teardownHA" /\ UNCHANGED <<phase, rec, work, vm>>
        /\ haRes' = haRes \ {rec[m].vmid}
        /\ phase[m] = "tearingDown"
    BY DEF TeardownHA, KnownInv, InPhase, TeardownSteps
  <1>2. pc'[m] = "listNodes" /\ \A x \in Machines \ {m} : pc'[x] = pc[x]
    BY DEF TeardownHA, Goto, TypeOK, Typed
  <1>3. OthersStay(m) /\ InPhase(m)' /\ GivesTo(m)
    BY <1>1, <1>2 DEF OthersStay, InPhase, GivesTo, Owner
  <1>4. \A v : Names(m, v) => Names(m, v)'
    BY <1>1 DEF Names
  <1>5. \A v \in haRes' : v \in haRes /\ ~Registers(m, v)
    BY <1>1 DEF Registers
  <1> QED BY <1>3, <1>4, <1>5, RemembersKeeps DEF Remembers

\* Deprovision skips deregistration only when nothing is registered, and
\* returns nil only after it.
LEMMA DeprovisionKnown ==
  ASSUME TypeOK, KnownInv, NEW m \in Machines, Deprovision(m), ~TeardownHA(m)
  PROVE  KnownInv'
  <1> USE DEF omniVars, proxmoxVars
  <1>1. UNCHANGED <<rec, vm, haRes>> /\ pc[m] \notin {"created", "registered"}
    BY DEF Deprovision, BeginDeprovision, ListNodes, ScanNode, FindNothing,
       GetVM, StopVM, AwaitStop, DeleteVM, AwaitDelete, Request
  <1>2. /\ \A x \in Machines \ {m} : pc'[x] = pc[x] /\ work'[x] = work[x]
        /\ pc'[m] \in TeardownSteps \cup {"idle"}
    BY DEF Deprovision, BeginDeprovision, ListNodes, ScanNode, FindNothing,
       GetVM, StopVM, AwaitStop, DeleteVM, AwaitDelete, Request, Gone,
       EndReconcile, Goto, TeardownSteps, TypeOK, Typed
  <1>3. phase[m] = "tearingDown"
    BY DEF Deprovision, BeginDeprovision, ListNodes, ScanNode, FindNothing,
       GetVM, StopVM, AwaitStop, DeleteVM, AwaitDelete, Request, KnownInv,
       InPhase, TeardownSteps
  <1>4. /\ \A x \in Machines \ {m} : phase'[x] = phase[x]
        /\ \/ phase'[m] = phase[m]
           \/ Gone(m) /\ phase'[m] = "gone" /\ pc'[m] = "idle"
    <2>1. CASE Gone(m)
      BY <2>1, EndReconcileTyped DEF Gone, TypeOK, Typed
    <2>2. CASE ~Gone(m)
      BY <2>2 DEF Deprovision, BeginDeprovision, ListNodes, ScanNode,
         FindNothing, GetVM, StopVM, AwaitStop, DeleteVM, AwaitDelete, Request
    <2> QED BY <2>1, <2>2
  <1>5. OthersStay(m) /\ InPhase(m)' /\ \A v \in VMIDs : Owner(v)' = Owner(v)
    BY <1>1, <1>2, <1>3, <1>4 DEF OthersStay, InPhase, Owner, TeardownSteps
  <1>6. ASSUME rec[m].haRegistered, rec[m].vmid # 0, pc[m] \notin Deregistered
        PROVE  pc'[m] = "teardownHA" /\ phase'[m] # "gone"
    <2>1. BeginDeprovision(m) /\ Goto(m, "teardownHA") /\ UNCHANGED phase
      BY <1>6 DEF Deprovision, BeginDeprovision, ListNodes, ScanNode,
         FindNothing, GetVM, StopVM, AwaitStop, DeleteVM, AwaitDelete,
         Request, Deregistered, TeardownSteps
    <2> QED BY <1>3, <2>1 DEF Goto, TypeOK, Typed
  <1> QED BY <1>1, <1>5, <1>6, SteadyKeeps DEF Deregistered

----------------------------------------------------------------------------
(* Proxmox, users and faults. *)

LEMMA OutsideKnown ==
  ASSUME TypeOK, KnownInv, UNCHANGED <<rec, pc, work, haRes>>,
         \A v \in VMIDs : Owner(v)' \in {Owner(v), NoMachine},
         \A m \in Machines : \/ phase'[m] = phase[m]
                             \/ phase[m] # "gone" /\ phase'[m] = "tearingDown"
  PROVE  KnownInv'
  <1>1. Named'
    <2> SUFFICES ASSUME NEW v \in VMIDs, NEW m \in Machines, Owner(v)' = m
                 PROVE  Names(m, v)'
      BY DEF Named
    <2>1. Owner(v) = m
      BY NoMachineAssumption
    <2> QED BY <2>1 DEF KnownInv, Named, Names
  <1>2. Answered'
    BY DEF KnownInv, Answered, Registers
  <1>3. \A m \in Machines : InPhase(m)'
    BY DEF KnownInv, InPhase
  <1> QED BY <1>1, <1>2, <1>3 DEF KnownInv

LEMMA TaskEndsKnown ==
  ASSUME TypeOK, KnownInv, NEW m \in Machines, TaskEnds(m)
  PROVE  KnownInv'
  <1> USE DEF omniVars, controlVars
  <1>1. UNCHANGED <<phase, rec, pc, work, haRes>>
    BY DEF TaskEnds
  <1>2. PICK i \in DOMAIN tasks[m] :
          \/ CreateTaskEnds(m, i) \/ StartTaskEnds(m, i)
          \/ StopTaskEnds(m, i) \/ DeleteTaskEnds(m, i)
    BY DEF TaskEnds
  <1>3. PICK v \in VMIDs : v = tasks[m][i].vmid
    <2>1. tasks[m] \in Seq(Task) /\ i \in 1 .. Len(tasks[m])
      BY DEF TypeOK, Typed
    <2>2. tasks[m][i] \in Task
      BY <2>1
    <2> QED BY <2>2 DEF Task
  <1>4. \/ vm' = vm
        \/ vm' = [vm EXCEPT ![v] = NoVM]
        \/ \E s \in {"running", "stopped"} : vm' = [vm EXCEPT ![v].status = s]
    BY <1>2, <1>3 DEF CreateTaskEnds, StartTaskEnds, StopTaskEnds,
       DeleteTaskEnds
  <1>5. \A u \in VMIDs : vm'[u].owner \in {vm[u].owner, NoMachine}
    <2>1. CASE vm' = [vm EXCEPT ![v] = NoVM]
      BY <2>1 DEF NoVM, TypeOK, Typed
    <2>2. ASSUME NEW s \in {"running", "stopped"},
                 vm' = [vm EXCEPT ![v].status = s]
          PROVE  \A u \in VMIDs : vm'[u].owner = vm[u].owner
      BY <2>2 DEF TypeOK, Typed, VM
    <2> QED BY <1>4, <2>1, <2>2
  <1> QED BY <1>1, <1>5, OutsideKnown DEF Owner

LEMMA FaultKnown ==
  ASSUME TypeOK, KnownInv, Uninterrupted,
         Fault \/ \E n \in Nodes : NodeUp(n)
  PROVE  KnownInv'
  <1> USE DEF omniVars, controlVars, proxmoxVars
  <1>1. ~Crash /\ \A m \in Machines : ~ReplyLost(m)
    BY DEF Crash, ReplyLost, Spend, Uninterrupted, Interruptions
  <1>2. CASE \E m \in Machines : EditHA(m)
    BY <1>2, OutsideKnown DEF EditHA, Owner
  <1>3. ASSUME NEW m \in Machines, CallFails(m) PROVE KnownInv'
    <2>1. /\ UNCHANGED <<phase, rec, vm, haRes>>
          /\ pc[m] \notin {"idle", "created", "registered"}
      BY <1>3 DEF CallFails, CallSteps
    <2>2. OthersStay(m) /\ pc'[m] = "idle"
      BY <1>3, <2>1, EndReconcileTyped DEF CallFails, OthersStay, TypeOK
    <2>3. InPhase(m)' /\ phase[m] # "gone"
      BY <2>1, <2>2 DEF KnownInv, InPhase, TeardownSteps
    <2>4. \A v \in VMIDs : Owner(v)' = Owner(v)
      BY <2>1 DEF Owner
    <2> QED BY <2>1, <2>2, <2>3, <2>4, SteadyKeeps
            DEF Deregistered, TeardownSteps
  <1>4. CASE \E v \in VMIDs : AdminRemovesVM(v)
    <2>1. \A u \in VMIDs : vm'[u].owner \in {vm[u].owner, NoMachine}
      BY <1>4 DEF AdminRemovesVM, NoVM, TypeOK, Typed
    <2> QED BY <1>4, <2>1, OutsideKnown DEF AdminRemovesVM, Owner
  <1>5. CASE \E v \in VMIDs, n \in Nodes : MigrateVM(v, n)
    <2>1. \A u \in VMIDs : vm'[u].owner = vm[u].owner
      BY <1>5 DEF MigrateVM, TypeOK, Typed, VM
    <2> QED BY <1>5, <2>1, OutsideKnown DEF MigrateVM, Owner
  <1>6. CASE \E n \in Nodes : NodeDown(n) \/ NodeUp(n)
    BY <1>6, OutsideKnown DEF NodeDown, NodeUp, Owner
  <1> QED BY <1>1, <1>2, <1>3, <1>4, <1>5, <1>6 DEF Fault

LEMMA KnownNext ==
  ASSUME TypeOK, Ordered, KnownInv, Uninterrupted, [Next]_vars
  PROVE  KnownInv'
  <1>1. CASE UNCHANGED vars
    BY <1>1, OutsideKnown DEF vars, omniVars, controlVars, proxmoxVars, Owner
  <1>2. CASE \E m \in Machines : Provision(m)
    BY <1>2, SteadyProvisionKnown, InjectConfigKnown, CreateVMKnown,
       CommitCreateKnown, RegisterHAKnown, CommitRegisterKnown DEF Provision
  <1>3. CASE \E m \in Machines : Deprovision(m)
    BY <1>3, TeardownHAKnown, DeprovisionKnown
  <1>4. ASSUME NEW m \in Machines, RequestTeardown(m) PROVE KnownInv'
    <2>1. UNCHANGED <<rec, pc, work, vm, haRes>>
      BY <1>4 DEF RequestTeardown, controlVars, proxmoxVars
    <2>2. \A x \in Machines : \/ phase'[x] = phase[x]
                              \/ phase[x] # "gone" /\ phase'[x] = "tearingDown"
      <3>1. \A x \in Machines :
              phase'[x] = IF x = m THEN "tearingDown" ELSE phase[x]
        BY <1>4 DEF RequestTeardown, TypeOK, Typed
      <3>2. phase[m] # "gone"
        BY <1>4 DEF RequestTeardown
      <3> QED BY <3>1, <3>2
    <2>3. \A v \in VMIDs : Owner(v)' = Owner(v)
      BY <2>1 DEF Owner
    <2> QED BY <2>1, <2>2, <2>3, OutsideKnown
  <1> QED BY <1>1, <1>2, <1>3, <1>4, TaskEndsKnown, FaultKnown DEF Next

LEMMA KnownInit == ASSUME Init PROVE KnownInv
  <1>1. /\ \A v \in VMIDs : vm[v] = NoVM
        /\ haRes = {}
        /\ \A m \in Machines : phase[m] = "provisioning" /\ pc[m] = "idle"
    BY DEF Init
  <1>2. Named
    BY <1>1, NoMachineAssumption DEF Named, Owner, NoVM
  <1>3. Answered /\ \A m \in Machines : InPhase(m)
    BY <1>1 DEF Answered, InPhase, TeardownSteps
  <1> QED BY <1>2, <1>3 DEF KnownInv

LEMMA StaysUninterrupted ==
  ASSUME TypeOK, Uninterrupted, [Next]_vars
  PROVE  Uninterrupted'
  BY NoFaultsCome DEF Uninterrupted, Interruptions, FaultKinds

LEMMA UninterruptedInit ==
  ASSUME \A k \in Interruptions : FaultBudget[k] = 0, Init
  PROVE  Uninterrupted
  BY DEF Init, Uninterrupted

\* What a machine knows of its VM is one vmid: the recorded one or, before the
\* commit, the one it has just created.
LEMMA NamedOnce ==
  ASSUME TypeOK, Ordered, KnownInv
  PROVE  AtMostOneVM
  <1> SUFFICES ASSUME NEW m \in Machines
               PROVE  Cardinality({v \in VMIDs : vm[v].owner = m}) <= 1
    BY DEF AtMostOneVM
  <1> DEFINE S == {v \in VMIDs : vm[v].owner = m}
  <1>1. ASSUME NEW u \in S, NEW v \in S PROVE u = v
    <2>1. Names(m, u) /\ Names(m, v) /\ u # 0 /\ v # 0
      BY VMIDsAssumption DEF KnownInv, Named, Owner
    <2>2. pc[m] = "created" => rec[m].vmid = 0
      BY DEF Ordered, RecordOrdered, ReconcileOrdered, InCreate
    <2> QED BY <2>1, <2>2 DEF Names
  <1> HIDE DEF S
  <1>2. S = {} \/ \E v : S = {v}
    BY <1>1
  <1>3. Cardinality(S) = 0 \/ Cardinality(S) = 1
    BY <1>2, FS_EmptySet, FS_Singleton
  <1> QED BY <1>3 DEF S

\* A machine never has two VMs in Proxmox: provision.go asks for a vmid and
\* creates a VM only while none is recorded, and records what it has created
\* before it returns.  Calls may fail, tasks may fail, VMs may be removed or
\* moved and nodes may go away; only a provider that dies, or an answer that is
\* lost, between the request and the record leaves a VM nobody knows.
THEOREM AtMostOneVMHolds ==
  ASSUME \A k \in Interruptions : FaultBudget[k] = 0
  PROVE  Spec => []AtMostOneVM
  <1> DEFINE Inv == TypeOK /\ Ordered /\ Uninterrupted /\ KnownInv
  <1>1. Init => Inv
    BY TypeInit, OrderInit, UninterruptedInit, KnownInit
  <1>2. Inv /\ [Next]_vars => Inv'
    BY TypeNext, OrderNext, StaysUninterrupted, KnownNext
  <1>3. Inv => AtMostOneVM
    BY NamedOnce
  <1> QED BY <1>1, <1>2, <1>3, PTL DEF Spec

\* Under the same conditions no HA resource outlives the machine it was made
\* for: registerHA records the registration before it returns, Deprovision
\* deregisters what is recorded before it looks for the VM, and a machine is
\* not gone before that, whatever fails on the way and however often the ha:
\* block of the class is edited.
THEOREM NoStrandedHAResourceHolds ==
  ASSUME \A k \in Interruptions : FaultBudget[k] = 0
  PROVE  Spec => []NoStrandedHAResource
  <1> DEFINE Inv == TypeOK /\ Ordered /\ Uninterrupted /\ KnownInv
  <1>1. Init => Inv
    BY TypeInit, OrderInit, UninterruptedInit, KnownInit
  <1>2. Inv /\ [Next]_vars => Inv'
    BY TypeNext, OrderNext, StaysUninterrupted, KnownNext
  <1>3. Inv => NoStrandedHAResource
    BY DEF KnownInv, Answered, Registers, NoStrandedHAResource
  <1> QED BY <1>1, <1>2, <1>3, PTL DEF Spec

----------------------------------------------------------------------------
(* Part 2: where the VM of a machine is.  Deprovision finds it there, and  *)
(* nowhere else, as long as nothing happens that OwnVM_proofs excludes and *)
(* no answer is lost.                                                      *)

\* The steps of Deprovision that address the VM through work's node.
Addressing == {"getVM", "stop", "awaitStop", "delete", "awaitDelete"}

\* m's VM v is where Deprovision is going to look for it; only the VM of a
\* registered machine may have left the node it was placed on.
At(m, v) ==
  /\ phase[m] # "gone" /\ ~Deleted(m) /\ vm[v].node \in Nodes
  /\ ~rec[m].haRegistered /\ pc[m] # "registered" => vm[v].node = rec[m].node
  /\ pc[m] = "scanNodes" => vm[v].node \in work[m].scan
  /\ pc[m] \in Addressing => vm[v].node = work[m].node

Tracked(m) ==
  /\ pc[m] = "awaitDelete" => tasks[m][work[m].task].kind = "delete"
  /\ \A v \in VMIDs : Owner(v) = m => At(m, v)

Undisturbed == Uninterrupted /\ OwnInv

TrackInv == \A m \in Machines : Tracked(m)

\* What the lemmas below assume of the state a step starts from.
LifeInv == TypeOK /\ Ordered /\ KnownInv /\ Undisturbed /\ TrackInv

\* A step that changes nothing of the other machines, their VMs included.
OnlyOf(m) ==
  /\ OthersStay(m)
  /\ \A x \in Machines \ {m} : tasks'[x] = tasks[x]
  /\ \A v \in VMIDs : \/ Owner(v)' \in {m, NoMachine}
                      \/ Owner(v)' = Owner(v) /\ vm'[v].node = vm[v].node

LEMMA OthersTracked ==
  ASSUME TrackInv, NEW m \in Machines, OnlyOf(m), Tracked(m)'
  PROVE  TrackInv'
  <1> SUFFICES ASSUME NEW x \in Machines, x # m PROVE Tracked(x)'
    BY DEF TrackInv
  <1>1. /\ rec'[x] = rec[x] /\ phase'[x] = phase[x] /\ pc'[x] = pc[x]
        /\ work'[x] = work[x] /\ tasks'[x] = tasks[x]
    BY DEF OnlyOf, OthersStay
  <1>2. Tracked(x)
    BY DEF TrackInv
  <1>3. ASSUME NEW v \in VMIDs, Owner(v)' = x PROVE At(x, v)'
    <2>1. Owner(v) = x /\ vm'[v].node = vm[v].node
      BY <1>3, NoMachineAssumption DEF OnlyOf
    <2>2. Deleted(x)' <=> Deleted(x)
      BY <1>1 DEF Deleted
    <2> QED BY <1>1, <1>2, <2>1, <2>2 DEF Tracked, At
  <1> QED BY <1>1, <1>2, <1>3 DEF Tracked

\* A step of m's reconcile that touches no VM and comes to no step that needs
\* to know where the VM is.
LEMMA SteadyTracked ==
  ASSUME LifeInv, NEW m \in Machines, OnlyOf(m),
         \A v \in VMIDs : Owner(v)' = Owner(v) /\ vm'[v].node = vm[v].node,
         phase'[m] # "gone",
         pc'[m] \notin {"scanNodes"} \cup Addressing,
         rec'[m].node = rec[m].node \/ rec[m].node = NoNode,
         rec[m].haRegistered \/ pc[m] = "registered" =>
           rec'[m].haRegistered \/ pc'[m] = "registered"
  PROVE  TrackInv'
  <1>1. ASSUME NEW v \in VMIDs, Owner(v)' = m PROVE At(m, v)'
    <2>1. At(m, v)
      BY <1>1 DEF LifeInv, TrackInv, Tracked
    <2> QED BY <2>1, NoNodeAssumption DEF At, Deleted, Addressing
  <1>2. Tracked(m)'
    BY <1>1 DEF Tracked, Addressing
  <1> QED BY <1>2, OthersTracked DEF LifeInv

LEMMA ProvisionTracked ==
  ASSUME LifeInv, NEW m \in Machines,
         \/ PickNode(m) \/ CheckCreateTask(m) \/ NextID(m) \/ CommitCreate(m)
         \/ CheckStartTask(m) \/ StartVM(m) \/ CommitStart(m)
         \/ RegisterHA(m) \/ CommitRegister(m) \/ SyncHARules(m)
  PROVE  TrackInv'
  <1> USE DEF omniVars, proxmoxVars, LifeInv
  <1>1. UNCHANGED vm
    BY DEF PickNode, CheckCreateTask, NextID, CommitCreate, CheckStartTask,
       StartVM, CommitStart, RegisterHA, CommitRegister, SyncHARules
  <1>2. /\ \A x \in Machines \ {m} : pc'[x] = pc[x] /\ work'[x] = work[x]
        /\ pc'[m] \notin {"scanNodes"} \cup Addressing
    BY DEF PickNode, CheckCreateTask, NextID, CommitCreate, CheckStartTask,
       StartVM, CommitStart, RegisterHA, CommitRegister, SyncHARules, Goto,
       EndReconcile, TypeOK, Typed, Addressing
  <1>3. /\ \A x \in Machines \ {m} : rec'[x] = rec[x]
        /\ rec'[m].node = rec[m].node \/ rec[m].node = NoNode
        /\ rec[m].haRegistered => rec'[m].haRegistered
    <2>1. CASE \E n : rec' = [rec EXCEPT ![m].node = n] /\ rec[m].node = NoNode
      BY <2>1 DEF TypeOK, Typed, MachineSpec
    <2>2. CASE CommitCreate(m)
      BY <2>2 DEF CommitCreate, TypeOK, Typed, MachineSpec
    <2>3. CASE CheckStartTask(m) \/ CommitStart(m) \/ CommitRegister(m)
      BY <2>3 DEF CheckStartTask, CommitStart, CommitRegister,
         TypeOK, Typed, MachineSpec
    <2>4. CASE UNCHANGED rec
      BY <2>4
    <2> QED BY <2>1, <2>2, <2>3, <2>4 DEF PickNode, CheckCreateTask, NextID,
               StartVM, RegisterHA, SyncHARules
  <1>4. pc[m] = "registered" => rec'[m].haRegistered
    BY DEF PickNode, CheckCreateTask, NextID, CommitCreate, CheckStartTask,
       StartVM, CommitStart, RegisterHA, CommitRegister, SyncHARules,
       TypeOK, Typed, MachineSpec
  <1>5. /\ \A x \in Machines \ {m} : phase'[x] = phase[x]
        /\ phase'[m] # "gone"
    BY DEF PickNode, CheckCreateTask, NextID, CommitCreate, CheckStartTask,
       StartVM, CommitStart, RegisterHA, CommitRegister, SyncHARules,
       TypeOK, Typed, KnownInv, InPhase
  <1>6. \A x \in Machines \ {m} : tasks'[x] = tasks[x]
    BY DEF PickNode, CheckCreateTask, NextID, CommitCreate, CheckStartTask,
       StartVM, CommitStart, RegisterHA, CommitRegister, SyncHARules, Post,
       TypeOK, Typed
  <1>7. \A v \in VMIDs : Owner(v)' = Owner(v) /\ vm'[v].node = vm[v].node
    BY <1>1 DEF Owner
  <1>8. OnlyOf(m)
    BY <1>2, <1>3, <1>5, <1>6, <1>7 DEF OnlyOf, OthersStay
  <1> QED BY <1>2, <1>3, <1>4, <1>5, <1>7, <1>8, SteadyTracked

LEMMA InjectConfigTracked ==
  ASSUME LifeInv, NEW m \in Machines, InjectConfig(m)
  PROVE  TrackInv'
  <1> USE DEF omniVars, LifeInv
  <1>1. /\ pc[m] = "startVM" /\ rec[m].vmid \in VMIDs
        /\ UNCHANGED <<phase, rec, tasks>>
    BY DEF InjectConfig, TypeOK, Typed, VMIDKnown, MachineSpec
  <1>2. \A v \in VMIDs : vm'[v].owner = vm[v].owner /\ vm'[v].node = vm[v].node
    <2>1. CASE vm' = [vm EXCEPT ![rec[m].vmid].joins = m]
      BY <1>1, <2>1 DEF TypeOK, Typed, VM
    <2> QED BY <2>1 DEF InjectConfig
  <1>3. /\ \A x \in Machines \ {m} : pc'[x] = pc[x] /\ work'[x] = work[x]
        /\ pc'[m] \in {"idle", "start"}
    <2>1. EndReconcile(m) \/ (Goto(m, "start") /\ UNCHANGED work)
      BY DEF InjectConfig
    <2> QED BY <2>1 DEF Goto, EndReconcile, TypeOK, Typed
  <1>4. phase[m] # "gone"
    BY <1>1 DEF KnownInv, InPhase
  <1>5. OnlyOf(m)
    BY <1>1, <1>2, <1>3 DEF OnlyOf, OthersStay, Owner
  <1> QED BY <1>1, <1>2, <1>3, <1>4, <1>5, SteadyTracked DEF Owner, Addressing

\* The VM is created on the node that is recorded for its machine.
LEMMA CreateVMTracked ==
  ASSUME LifeInv, NEW m \in Machines, CreateVM(m)
  PROVE  TrackInv'
  <1> USE DEF omniVars, LifeInv
  <1>0. PICK v \in VMIDs : v = work[m].vmid
    BY DEF CreateVM, TypeOK, Typed, VMIDKnown, Locals
  <1>1. pc[m] = "create" /\ UNCHANGED <<phase, rec>>
    BY DEF CreateVM
  <1>2. phase[m] # "gone"
    BY <1>1 DEF KnownInv, InPhase
  <1>3. CASE EndReconcile(m) /\ UNCHANGED <<vm, tasks>>
    <2>1. OthersStay(m) /\ pc'[m] = "idle"
      BY <1>1, <1>3, EndReconcileTyped DEF OthersStay, TypeOK
    <2>2. \A u \in VMIDs : Owner(u)' = Owner(u) /\ vm'[u].node = vm[u].node
      BY <1>3 DEF Owner
    <2>3. OnlyOf(m)
      BY <1>3, <2>1, <2>2 DEF OnlyOf
    <2> QED BY <1>1, <1>2, <2>1, <2>2, <2>3, SteadyTracked DEF Addressing
  <1>4. CASE /\ AcceptsCreate(m, v, rec[m].node)
             /\ vm' = [vm EXCEPT ![v] = [status |-> "stopped",
                         node |-> rec[m].node, owner |-> m,
                         joins |-> NoMachine]]
             /\ Post(m, "create", v)
             /\ work' = [work EXCEPT ![m].task = NextUPID(m)]
             /\ Goto(m, "created")
    <2>1. /\ Owner(v)' = m /\ vm'[v].node = rec[m].node
          /\ \A u \in VMIDs \ {v} : vm'[u] = vm[u]
      BY <1>4 DEF Owner, TypeOK, Typed
    <2>2. /\ pc'[m] = "created"
          /\ \A x \in Machines \ {m} : work'[x] = work[x] /\ pc'[x] = pc[x]
      BY <1>4 DEF Goto, TypeOK, Typed, Locals
    <2>3. \A x \in Machines \ {m} : tasks'[x] = tasks[x]
      BY <1>4 DEF Post, TypeOK, Typed
    <2>4. rec[m].node \in Nodes
      BY <1>4 DEF AcceptsCreate, TypeOK, Typed
    <2>5. \A u \in VMIDs : Owner(u) # m
      <3>1. rec[m].vmid = 0
        BY <1>1 DEF Ordered, RecordOrdered, ReconcileOrdered, InCreate
      <3> QED BY <1>1, <3>1, VMIDsAssumption DEF KnownInv, Named, Names
    <2>6. OnlyOf(m)
      BY <1>1, <2>1, <2>2, <2>3 DEF OnlyOf, OthersStay, Owner
    <2>7. Tracked(m)'
      BY <1>1, <1>2, <2>1, <2>2, <2>4, <2>5
         DEF Tracked, At, Deleted, Owner, Addressing
    <2> QED BY <2>6, <2>7, OthersTracked
  <1> QED BY <1>0, <1>3, <1>4 DEF CreateVM

----------------------------------------------------------------------------
(* The steps of Deprovision. *)

\* A step of Deprovision leaves VMs and records alone.
LEMMA DeprovisionTouches ==
  ASSUME LifeInv, NEW m \in Machines, Deprovision(m)
  PROVE  /\ UNCHANGED <<rec, vm>> /\ OnlyOf(m)
         /\ phase[m] = "tearingDown" /\ pc[m] \notin {"created", "registered"}
         /\ phase'[m] # "gone" \/ Gone(m)
  <1> USE DEF omniVars, proxmoxVars, LifeInv
  <1>1. /\ UNCHANGED <<rec, vm>>
        /\ phase[m] = "tearingDown" /\ pc[m] \notin {"created", "registered"}
    BY DEF Deprovision, BeginDeprovision, TeardownHA, ListNodes, ScanNode,
       FindNothing, GetVM, StopVM, AwaitStop, DeleteVM, AwaitDelete, Request,
       KnownInv, InPhase, TeardownSteps
  <1>2. \A x \in Machines \ {m} : pc'[x] = pc[x] /\ work'[x] = work[x]
    BY DEF Deprovision, BeginDeprovision, TeardownHA, ListNodes, ScanNode,
       FindNothing, GetVM, StopVM, AwaitStop, DeleteVM, AwaitDelete, Request,
       Gone, EndReconcile, Goto, TypeOK, Typed
  <1>3. UNCHANGED phase \/ Gone(m)
    BY DEF Deprovision, BeginDeprovision, TeardownHA, ListNodes, ScanNode,
       FindNothing, GetVM, StopVM, AwaitStop, DeleteVM, AwaitDelete, Request
  <1>4. \A x \in Machines \ {m} : phase'[x] = phase[x]
    BY <1>3 DEF Gone, TypeOK, Typed
  <1>5. \A x \in Machines \ {m} : tasks'[x] = tasks[x]
    BY DEF Deprovision, BeginDeprovision, TeardownHA, ListNodes, ScanNode,
       FindNothing, GetVM, StopVM, AwaitStop, DeleteVM, AwaitDelete, Request,
       Post, TypeOK, Typed
  <1>6. OnlyOf(m)
    BY <1>1, <1>2, <1>4, <1>5 DEF OnlyOf, OthersStay, Owner
  <1> QED BY <1>1, <1>3, <1>6

\* A machine that has a VM is not gone: Deprovision finds the VM.
LEMMA GoneTracked ==
  ASSUME LifeInv, NEW m \in Machines, Deprovision(m), Gone(m)
  PROVE  TrackInv'
  <1> USE DEF omniVars, proxmoxVars, LifeInv
  <1>1. UNCHANGED <<rec, vm>> /\ OnlyOf(m)
    BY DeprovisionTouches
  <1>2. pc'[m] = "idle" /\ phase'[m] = "gone" /\ work'[m] = NoLocals
    BY EndReconcileTyped DEF Gone, TypeOK, Typed
  <1>3. ASSUME NEW v \in VMIDs, Owner(v) = m PROVE FALSE
    <2>1. /\ rec[m].vmid = v /\ At(m, v)
      BY <1>3, DeprovisionTouches
         DEF KnownInv, Named, Names, TrackInv, Tracked
    <2>2. IsOn(v, vm[v].node)
      BY <1>3, <2>1, NoMachineAssumption
         DEF At, IsOn, Undisturbed, OwnInv, Undisrupted, FreeUnowned
    <2>3. CASE BeginDeprovision(m)
      <3>1. rec[m].vmid = 0
        BY <2>3, <1>2 DEF BeginDeprovision, Goto, TypeOK, Typed
      <3> QED BY <2>1, <3>1, VMIDsAssumption
    <2>4. CASE FindNothing(m)
      BY <2>1, <2>4 DEF FindNothing, At
    <2>5. CASE GetVM(m)
      <3>1. ~IsOn(v, work[m].node)
        BY <1>2, <2>1, <2>2, <2>5
           DEF GetVM, At, Addressing, Goto, IsOn, TypeOK, Typed
      <3> QED BY <2>1, <2>2, <2>5, <3>1 DEF GetVM, At, Addressing
    <2>6. CASE AwaitDelete(m)
      <3>1. ~Deleted(m) /\ work[m].node \in online
        BY <2>1, <2>2, <2>6 DEF AwaitDelete, At, Addressing, IsOn
      <3>2. UNCHANGED phase
        BY <2>6, <3>1 DEF AwaitDelete, PingedAs, TaskStatus, Deleted
      <3> QED BY <1>2, <2>1, <3>2 DEF At
    <2>7. CASE /\ Deprovision(m) /\ ~BeginDeprovision(m) /\ ~FindNothing(m)
               /\ ~GetVM(m) /\ ~AwaitDelete(m)
      <3>1. UNCHANGED phase
        BY <2>7 DEF Deprovision, TeardownHA, ListNodes, ScanNode, StopVM,
           AwaitStop, DeleteVM, Request
      <3> QED BY <1>2, <2>1, <3>1 DEF At
    <2> QED BY <2>3, <2>4, <2>5, <2>6, <2>7
  <1>4. Tracked(m)'
    BY <1>1, <1>2, <1>3 DEF Tracked, Owner
  <1> QED BY <1>1, <1>4, OthersTracked

LEMMA SearchTracked ==
  ASSUME LifeInv, NEW m \in Machines, ~Gone(m),
         \/ BeginDeprovision(m) \/ TeardownHA(m) \/ ListNodes(m) \/ ScanNode(m)
  PROVE  TrackInv'
  <1> USE DEF omniVars, proxmoxVars, LifeInv
  <1>1. /\ UNCHANGED <<rec, vm>> /\ OnlyOf(m)
        /\ phase'[m] # "gone" /\ pc[m] # "registered"
    BY DeprovisionTouches DEF Deprovision
  <1>2. ASSUME pc'[m] \notin {"scanNodes"} \cup Addressing PROVE TrackInv'
    BY <1>1, <1>2, SteadyTracked DEF Owner
  <1>3. ASSUME pc'[m] \notin {"awaitDelete"},
               NEW v \in VMIDs, Owner(v) = m,
               /\ pc'[m] = "scanNodes" => vm[v].node \in work'[m].scan
               /\ pc'[m] \in Addressing => vm[v].node = work'[m].node
        PROVE  At(m, v)'
    <2>1. At(m, v)
      BY <1>3 DEF TrackInv, Tracked
    <2> QED BY <1>1, <1>3, <2>1 DEF At, Deleted
  <1>4. ASSUME pc'[m] \in {"scanNodes"} \cup (Addressing \ {"awaitDelete"})
        PROVE  \A v \in VMIDs : Owner(v) = m =>
                 /\ pc'[m] = "scanNodes" => vm[v].node \in work'[m].scan
                 /\ pc'[m] \in Addressing => vm[v].node = work'[m].node
    <2> SUFFICES ASSUME NEW v \in VMIDs, Owner(v) = m
                 PROVE  /\ pc'[m] = "scanNodes" => vm[v].node \in work'[m].scan
                        /\ pc'[m] \in Addressing => vm[v].node = work'[m].node
      OBVIOUS
    <2>1. At(m, v) /\ ~IsFree(v) /\ online = Nodes
      BY NoMachineAssumption DEF TrackInv, Tracked, Undisturbed, OwnInv,
         FreeUnowned, Undisrupted
    <2>2. pc[m] # "created" => rec[m].vmid = v
      BY DEF KnownInv, Named, Names
    <2>3. CASE BeginDeprovision(m)
      BY <1>4, <2>1, <2>3 DEF BeginDeprovision, At, Goto, TypeOK, Typed,
         Locals, Addressing
    <2>4. CASE TeardownHA(m)
      BY <1>4, <2>4 DEF TeardownHA, Goto, TypeOK, Typed, Addressing
    <2>5. CASE ListNodes(m)
      BY <2>1, <2>5 DEF ListNodes, At, Goto, TypeOK, Typed, Locals, Addressing
    <2>6. CASE ScanNode(m)
      <3>1. pc[m] = "scanNodes" /\ vm[v].node \in work[m].scan
        BY <2>1, <2>6 DEF ScanNode, At
      <3>2. PICK n \in work[m].scan :
              \/ /\ IsOn(rec[m].vmid, n)
                 /\ work' = [work EXCEPT ![m].node = n, ![m].scan = {}]
                 /\ Goto(m, "getVM")
              \/ /\ ~IsOn(rec[m].vmid, n)
                 /\ work' = [work EXCEPT ![m].scan = @ \ {n}]
                 /\ UNCHANGED pc
              \/ n \notin online /\ EndReconcile(m)
        BY <2>6 DEF ScanNode
      <3>3. n \in online
        BY <2>1, <3>2 DEF TypeOK, Typed, Locals
      <3>4. CASE /\ IsOn(rec[m].vmid, n)
                 /\ work' = [work EXCEPT ![m].node = n, ![m].scan = {}]
                 /\ Goto(m, "getVM")
        <4>1. vm[v].node = n
          BY <2>2, <3>1, <3>4 DEF IsOn
        <4>2. pc'[m] = "getVM" /\ work'[m].node = n
          BY <3>4 DEF Goto, TypeOK, Typed, Locals
        <4> QED BY <4>1, <4>2
      <3>5. CASE /\ ~IsOn(rec[m].vmid, n)
                 /\ work' = [work EXCEPT ![m].scan = @ \ {n}]
                 /\ UNCHANGED pc
        <4>1. vm[v].node # n
          BY <2>1, <2>2, <3>1, <3>3, <3>5 DEF IsOn
        <4>2. pc'[m] = "scanNodes" /\ work'[m].scan = work[m].scan \ {n}
          BY <3>1, <3>5 DEF TypeOK, Typed, Locals
        <4> QED BY <3>1, <4>1, <4>2 DEF Addressing
      <3> QED BY <3>2, <3>3, <3>4, <3>5
    <2> QED BY <2>3, <2>4, <2>5, <2>6
  <1>5. pc'[m] \in {"idle", "teardownHA", "listNodes", "scanNodes", "getVM"}
    BY DEF BeginDeprovision, TeardownHA, ListNodes, ScanNode, Gone,
       EndReconcile, Goto, TypeOK, Typed
  <1>6. CASE pc'[m] \in {"scanNodes", "getVM"}
    <2>1. \A v \in VMIDs : Owner(v) = m => At(m, v)'
      BY <1>3, <1>4, <1>6 DEF Addressing
    <2>2. Tracked(m)'
      BY <1>1, <1>6, <2>1 DEF Tracked, Owner
    <2> QED BY <1>1, <2>2, OthersTracked
  <1> QED BY <1>2, <1>5, <1>6 DEF Addressing

LEMMA RemoveTracked ==
  ASSUME LifeInv, NEW m \in Machines, ~Gone(m),
         GetVM(m) \/ StopVM(m) \/ AwaitStop(m) \/ DeleteVM(m) \/ AwaitDelete(m)
  PROVE  TrackInv'
  <1> USE DEF omniVars, proxmoxVars, LifeInv
  <1>1. /\ UNCHANGED <<rec, vm>> /\ OnlyOf(m)
        /\ phase'[m] # "gone" /\ pc[m] # "registered"
    BY DeprovisionTouches DEF Deprovision
  <1>2. CASE EndReconcile(m)
    <2>1. pc'[m] = "idle"
      BY <1>2, EndReconcileTyped DEF TypeOK
    <2> QED BY <1>1, <2>1, SteadyTracked DEF Owner, Addressing
  <1>3. CASE ~EndReconcile(m)
    <2>1. /\ pc[m] \in Addressing
          /\ pc'[m] \in {"stop", "awaitStop", "delete", "awaitDelete"}
          /\ work'[m].node = work[m].node
      BY <1>3 DEF GetVM, StopVM, AwaitStop, DeleteVM, AwaitDelete, Request,
         Gone, Goto, TypeOK, Typed, Locals, Addressing
    <2>2. pc'[m] = "awaitDelete" =>
            /\ tasks'[m][work'[m].task].kind = "delete"
            /\ tasks'[m][work'[m].task].status = "running"
      <3> SUFFICES ASSUME pc'[m] = "awaitDelete"
                   PROVE  /\ tasks'[m][work'[m].task].kind = "delete"
                          /\ tasks'[m][work'[m].task].status = "running"
        OBVIOUS
      <3>1. /\ Post(m, "delete", rec[m].vmid) /\ pc[m] = "delete"
            /\ work' = [work EXCEPT ![m].task = NextUPID(m)]
        BY <1>3 DEF GetVM, StopVM, AwaitStop, DeleteVM, AwaitDelete, Request,
           Gone, Goto, TypeOK, Typed
      <3>2. work'[m].task = NextUPID(m)
        BY <3>1 DEF TypeOK, Typed, Locals
      <3>3. PICK v \in VMIDs : v = rec[m].vmid
        BY <3>1 DEF TypeOK, Typed, VMIDKnown, MachineSpec
      <3> QED BY <3>1, <3>2, <3>3, PostAppends DEF TypeOK, TaskKinds
    <2>3. ASSUME NEW v \in VMIDs, Owner(v) = m PROVE At(m, v)'
      <3>1. At(m, v)
        BY <2>3 DEF TrackInv, Tracked
      <3>2. ~Deleted(m)'
        BY <2>2 DEF Deleted
      <3> QED BY <1>1, <2>1, <3>1, <3>2 DEF At
    <2>4. Tracked(m)'
      BY <1>1, <2>2, <2>3 DEF Tracked, Owner
    <2> QED BY <1>1, <2>4, OthersTracked
  <1> QED BY <1>2, <1>3

LEMMA DeprovisionTracked ==
  ASSUME LifeInv, NEW m \in Machines, Deprovision(m)
  PROVE  TrackInv'
  <1>1. CASE FindNothing(m)
    BY <1>1, GoneTracked DEF FindNothing
  <1> QED BY <1>1, GoneTracked, SearchTracked, RemoveTracked DEF Deprovision

----------------------------------------------------------------------------
(* Proxmox, users and faults. *)

\* The VM that a delete task takes away is the one its machine waits for.
LEMMA DeletesOwn ==
  ASSUME LifeInv, NEW m \in Machines, NEW i \in DOMAIN tasks[m],
         tasks[m][i].kind = "delete", tasks[m][i].status = "running"
  PROVE  /\ pc[m] = "awaitDelete" /\ work[m].task = i
         /\ tasks[m][i].vmid = rec[m].vmid /\ rec[m].vmid \in VMIDs
         /\ phase[m] = "tearingDown" /\ Owner(rec[m].vmid) = m
  <1> USE DEF LifeInv
  <1>1. Owned(m)
    BY DEF Undisturbed, OwnInv
  <1>2. /\ pc[m] = "awaitDelete" /\ work[m].task = i
        /\ tasks[m][i].vmid = rec[m].vmid /\ phase[m] = "tearingDown"
    BY <1>1 DEF Owned, AwaitsOwnDelete, TeardownSteps
  <1>3. rec[m].vmid # 0 /\ rec[m].vmid \in VMIDs
    BY <1>2 DEF TypeOK, Typed, VMIDKnown, MachineSpec
  <1> QED BY <1>1, <1>2, <1>3 DEF Owned, Deleted

LEMMA TaskEndsTracked ==
  ASSUME LifeInv, NEW m \in Machines, TaskEnds(m)
  PROVE  TrackInv'
  <1> USE DEF omniVars, controlVars, LifeInv
  <1>1. /\ UNCHANGED <<phase, rec, pc, work>>
        /\ Tracked(m)
    BY DEF TaskEnds, TrackInv
  <1>2. PICK i \in DOMAIN tasks[m] :
          \/ CreateTaskEnds(m, i) \/ StartTaskEnds(m, i)
          \/ StopTaskEnds(m, i) \/ DeleteTaskEnds(m, i)
    BY DEF TaskEnds
  <1>3. tasks[m][i].status = "running"
    BY <1>2 DEF CreateTaskEnds, StartTaskEnds, StopTaskEnds, DeleteTaskEnds,
                Running
  <1>4. PICK v \in VMIDs : v = tasks[m][i].vmid
    <2>1. tasks[m] \in Seq(Task) /\ i \in 1 .. Len(tasks[m])
      BY DEF TypeOK, Typed
    <2>2. tasks[m][i] \in Task
      BY <2>1
    <2> QED BY <2>2 DEF Task
  <1>5. PICK status \in {"ok", "failed"} : EndTask(m, i, status)
    BY <1>2 DEF CreateTaskEnds, StartTaskEnds, StopTaskEnds, DeleteTaskEnds
  <1>6. /\ \A x \in Machines \ {m} : tasks'[x] = tasks[x]
        /\ \A j \in DOMAIN tasks[m] :
             /\ tasks'[m][j].kind = tasks[m][j].kind
             /\ tasks'[m][j].status = IF j = i THEN status
                                      ELSE tasks[m][j].status
    BY <1>5, EndTaskEnds DEF TypeOK
  <1>7. \/ vm' = [vm EXCEPT ![v] = NoVM]
        \/ \A u \in VMIDs : Owner(u)' = Owner(u) /\ vm'[u].node = vm[u].node
    <2>1. \/ vm' = vm
          \/ vm' = [vm EXCEPT ![v] = NoVM]
          \/ \E s \in {"running", "stopped"} : vm' = [vm EXCEPT ![v].status = s]
      BY <1>2, <1>4 DEF CreateTaskEnds, StartTaskEnds, StopTaskEnds,
         DeleteTaskEnds
    <2>2. ASSUME NEW s \in {"running", "stopped"},
                 vm' = [vm EXCEPT ![v].status = s]
          PROVE  \A u \in VMIDs : /\ vm'[u].owner = vm[u].owner
                                  /\ vm'[u].node = vm[u].node
      BY <2>2 DEF TypeOK, Typed, VM
    <2> QED BY <2>1, <2>2 DEF Owner
  <1>8. \A u \in VMIDs : \/ Owner(u)' = NoMachine
                         \/ Owner(u)' = Owner(u) /\ vm'[u].node = vm[u].node
    <2>1. CASE vm' = [vm EXCEPT ![v] = NoVM]
      <3>1. /\ vm'[v].owner = NoMachine
            /\ \A u \in VMIDs \ {v} : vm'[u] = vm[u]
        BY <2>1 DEF NoVM, TypeOK, Typed
      <3> QED BY <3>1 DEF Owner
    <2> QED BY <1>7, <2>1
  <1>9. OnlyOf(m)
    BY <1>1, <1>6, <1>8 DEF OnlyOf, OthersStay
  <1>10. pc[m] = "awaitDelete" => work[m].task \in DOMAIN tasks[m]
    BY DEF Undisturbed, OwnInv, Owned, AwaitsOwnDelete
  <1>11. ASSUME NEW u \in VMIDs, Owner(u)' = m PROVE At(m, u)'
    <2>1. Owner(u) = m /\ vm'[u].node = vm[u].node
      BY <1>8, <1>11, NoMachineAssumption
    <2>2. At(m, u)
      BY <2>1 DEF Tracked, TrackInv
    <2>3. ~Deleted(m)'
      <3> SUFFICES ASSUME Deleted(m)' PROVE FALSE
        OBVIOUS
      <3>1. pc[m] = "awaitDelete" /\ work[m].task = i /\ status = "ok"
        BY <1>1, <1>6, <1>10, <2>2 DEF Deleted, At
      <3>2. DeleteTaskEnds(m, i)
        BY <1>1, <1>2, <3>1 DEF Tracked, CreateTaskEnds, StartTaskEnds,
           StopTaskEnds, Running
      <3>3. tasks'[m][i].status = "ok"
        BY <1>6, <3>1
      <3>4. vm' = [vm EXCEPT ![v] = NoVM]
        <4>1. CASE EndTask(m, i, "failed")
          <5>1. tasks'[m][i].status = "failed"
            BY <4>1, EndTaskEnds DEF TypeOK
          <5> QED BY <3>3, <5>1
        <4> QED BY <1>4, <3>2, <4>1 DEF DeleteTaskEnds
      <3>5. v = rec[m].vmid /\ u = rec[m].vmid
        BY <1>1, <1>3, <1>4, <2>1, <3>1, DeletesOwn
           DEF Tracked, KnownInv, Named, Names
      <3> QED BY <1>11, <3>4, <3>5, NoMachineAssumption
              DEF Owner, NoVM, TypeOK, Typed
    <2> QED BY <1>1, <2>1, <2>2, <2>3 DEF At
  <1>12. Tracked(m)'
    BY <1>1, <1>6, <1>10, <1>11 DEF Tracked
  <1> QED BY <1>9, <1>12, OthersTracked

\* A step that leaves reconciles, records and logs alone.
LEMMA OutsideTracked ==
  ASSUME TrackInv, UNCHANGED <<rec, pc, work, tasks>>,
         \A m \in Machines : phase'[m] = "gone" => phase[m] = "gone",
         \A v \in VMIDs : /\ Owner(v)' = Owner(v)
                          /\ \/ vm'[v].node = vm[v].node
                             \/ \A m \in Machines :
                                  Owner(v) = m /\ At(m, v) => At(m, v)'
  PROVE  TrackInv'
  <1> SUFFICES ASSUME NEW m \in Machines PROVE Tracked(m)'
    BY DEF TrackInv
  <1>1. ASSUME NEW v \in VMIDs, Owner(v)' = m PROVE At(m, v)'
    BY <1>1 DEF TrackInv, Tracked, At, Deleted
  <1> QED BY <1>1 DEF TrackInv, Tracked

\* A VM that is an HA resource belongs to the machine that will deregister it.
LEMMA RegistrarOwns ==
  ASSUME LifeInv, NEW v \in haRes
  PROVE  \E m \in Machines : Registers(m, v) /\ Owner(v) = m
  <1> USE DEF LifeInv
  <1>1. PICK m \in Machines : Registers(m, v)
    BY DEF KnownInv, Answered
  <1>2. Owned(m) /\ v # 0
    BY VMIDsAssumption DEF Undisturbed, OwnInv, TypeOK, Typed
  <1> QED BY <1>1, <1>2
          DEF Registers, Owned, Deleted, Deregistered, TeardownSteps

\* HA moves a VM only while its machine does not rely on where it is.
LEMMA MigrateTracked ==
  ASSUME LifeInv, NEW v \in VMIDs, NEW n \in Nodes, MigrateVM(v, n)
  PROVE  TrackInv'
  <1> USE DEF omniVars, controlVars, LifeInv
  <1>1. /\ \A u \in VMIDs : Owner(u)' = Owner(u)
        /\ \A u \in VMIDs \ {v} : vm'[u].node = vm[u].node
        /\ vm'[v].node = n
    BY DEF MigrateVM, Owner, TypeOK, Typed, VM
  <1>2. UNCHANGED <<phase, rec, pc, work, tasks>>
    BY DEF MigrateVM
  <1>3. ASSUME NEW m \in Machines, Owner(v) = m, At(m, v) PROVE At(m, v)'
    <2>1. Registers(m, v)
      BY <1>3, RegistrarOwns DEF MigrateVM
    <2> QED BY <1>1, <1>2, <1>3, <2>1
            DEF At, Registers, Deleted, Deregistered, Addressing, TeardownSteps
  <1> QED BY <1>1, <1>2, <1>3, OutsideTracked

LEMMA FaultTracked ==
  ASSUME LifeInv, Fault \/ \E n \in Nodes : NodeUp(n)
  PROVE  TrackInv'
  <1> USE DEF omniVars, controlVars, proxmoxVars
  <1>1. \A k \in Disruptions \cup {"lost"} : ~Spend(k)
    BY DEF LifeInv, Undisturbed, OwnInv, Undisrupted, Uninterrupted,
       Interruptions, Spend
  <1>2. /\ ~Crash
        /\ \A m \in Machines : ~CallFails(m) /\ ~ReplyLost(m)
        /\ \A v \in VMIDs : ~AdminRemovesVM(v)
        /\ \A n \in Nodes : ~NodeDown(n) /\ ~NodeUp(n)
    BY <1>1 DEF Crash, CallFails, ReplyLost, AdminRemovesVM, NodeDown, NodeUp,
                Disruptions, LifeInv, Undisturbed, OwnInv, Undisrupted
  <1>3. ASSUME NEW m \in Machines, EditHA(m) PROVE TrackInv'
    BY <1>3, OutsideTracked DEF EditHA, Owner, LifeInv
  <1> QED BY <1>2, <1>3, MigrateTracked DEF Fault

LEMMA TrackNext ==
  ASSUME LifeInv, [Next]_vars
  PROVE  TrackInv'
  <1>1. CASE UNCHANGED vars
    BY <1>1, OutsideTracked
       DEF vars, omniVars, controlVars, proxmoxVars, Owner, LifeInv
  <1>2. CASE \E m \in Machines : Provision(m)
    BY <1>2, ProvisionTracked, InjectConfigTracked, CreateVMTracked
       DEF Provision
  <1>3. CASE \E m \in Machines : Deprovision(m)
    BY <1>3, DeprovisionTracked
  <1>4. ASSUME NEW m \in Machines, RequestTeardown(m) PROVE TrackInv'
    <2>1. UNCHANGED <<rec, pc, work, vm, tasks>>
      BY <1>4 DEF RequestTeardown, controlVars, proxmoxVars
    <2>2. \A x \in Machines : phase'[x] = "gone" => phase[x] = "gone"
      BY <1>4 DEF RequestTeardown, LifeInv, TypeOK, Typed
    <2> QED BY <2>1, <2>2, OutsideTracked DEF Owner, LifeInv
  <1> QED BY <1>1, <1>2, <1>3, <1>4, TaskEndsTracked, FaultTracked DEF Next

LEMMA LifeInit ==
  ASSUME \A k \in Disruptions \cup {"lost"} : FaultBudget[k] = 0, Init
  PROVE  LifeInv
  <1>1. TypeOK /\ Ordered /\ KnownInv /\ OwnInv
    BY TypeInit, OrderInit, KnownInit, OwnInit
  <1>2. Uninterrupted
    BY UninterruptedInit DEF Interruptions, Disruptions
  <1>3. TrackInv
    <2>1. /\ \A v \in VMIDs : vm[v] = NoVM
          /\ \A m \in Machines : pc[m] = "idle"
      BY DEF Init
    <2> QED BY <2>1, NoMachineAssumption DEF TrackInv, Tracked, Owner, NoVM
  <1> QED BY <1>1, <1>2, <1>3 DEF LifeInv, Undisturbed

LEMMA LifeNext == LifeInv /\ [Next]_vars => LifeInv'
  <1> SUFFICES ASSUME LifeInv, [Next]_vars PROVE LifeInv'
    OBVIOUS
  <1>1. TypeOK' /\ Ordered' /\ KnownInv'
    BY TypeNext, OrderNext, KnownNext DEF LifeInv, Undisturbed
  <1>2. Undisturbed'
    BY OwnNext, StaysUninterrupted DEF LifeInv, Undisturbed
  <1> QED BY <1>1, <1>2, TrackNext DEF LifeInv

\* When Deprovision of provision.go has returned nil for a machine, no VM of it
\* is left, although HA moves VMs behind the provider's back, start tasks fail
\* and the ha: block is edited: a VM that was never registered is where it was
\* created, and FindVMNode finds one that was wherever HA left it, because it is
\* deregistered, and so moves no more, before the nodes are listed.
THEOREM GoneMeansNoVMHolds ==
  ASSUME \A k \in Disruptions \cup {"lost"} : FaultBudget[k] = 0
  PROVE  Spec => []GoneMeansNoVM
  <1>1. Init => LifeInv
    BY LifeInit
  <1>2. LifeInv => GoneMeansNoVM
    BY DEF LifeInv, TrackInv, Tracked, At, Owner, GoneMeansNoVM
  <1> QED BY <1>1, <1>2, LifeNext, PTL DEF Spec

\* Only a delete task that its own machine waits for takes a VM away, and that
\* machine's tear-down is past deregistering.
LEMMA DeletesDeregistered ==
  ASSUME LifeInv, [Next]_vars, NEW v \in VMIDs, ~IsFree(v), IsFree(v)'
  PROVE  v \notin haRes
  <1> USE DEF omniVars, controlVars, proxmoxVars
  <1> SUFFICES ASSUME v \in haRes PROVE FALSE
    OBVIOUS
  <1>1. PICK x \in Machines : Registers(x, v) /\ Owner(v) = x
    BY RegistrarOwns
  <1>2. CASE \E m \in Machines : TaskEnds(m)
    <2>0. PICK m \in Machines : TaskEnds(m)
      BY <1>2
    <2>1. PICK i \in DOMAIN tasks[m] :
            \/ CreateTaskEnds(m, i) \/ StartTaskEnds(m, i)
            \/ StopTaskEnds(m, i) \/ DeleteTaskEnds(m, i)
      BY <2>0 DEF TaskEnds
    <2>2. PICK u \in VMIDs : u = tasks[m][i].vmid
      <3>1. tasks[m] \in Seq(Task) /\ i \in 1 .. Len(tasks[m])
        BY DEF LifeInv, TypeOK, Typed
      <3>2. tasks[m][i] \in Task
        BY <3>1
      <3> QED BY <3>2 DEF Task
    <2>3. /\ tasks[m][i].kind = "delete"
          /\ vm' = [vm EXCEPT ![u] = NoVM]
      BY <2>1, <2>2, TaskEffect DEF LifeInv, Undisturbed
    <2>4. tasks[m][i].status = "running" /\ u = v
      BY <2>1, <2>3 DEF CreateTaskEnds, StartTaskEnds, StopTaskEnds,
         DeleteTaskEnds, Running, IsFree, LifeInv, TypeOK, Typed
    <2>5. /\ pc[m] = "awaitDelete" /\ tasks[m][i].vmid = rec[m].vmid
          /\ Owner(rec[m].vmid) = m
      BY <2>3, <2>4, DeletesOwn
    <2>6. Owner(v) = m
      BY <2>2, <2>4, <2>5
    <2> QED BY <1>1, <2>5, <2>6 DEF Registers, Deregistered, TeardownSteps
  <1>3. CASE Fault \/ \E n \in Nodes : NodeUp(n)
    <2>1. \A u \in VMIDs : ~AdminRemovesVM(u)
      BY DEF AdminRemovesVM, Spend, LifeInv, Undisturbed, OwnInv, Undisrupted,
         Disruptions
    <2>2. \A u \in VMIDs, n \in Nodes :
            MigrateVM(u, n) => vm'[v].status = vm[v].status
      BY DEF MigrateVM, LifeInv, TypeOK, Typed, VM
    <2> QED BY <1>3, <2>1, <2>2 DEF Fault, Crash, EditHA, CallFails,
               ReplyLost, NodeDown, NodeUp, IsFree
  <1>4. CASE \E m \in Machines : Provision(m)
    <2>1. PICK m \in Machines : Provision(m)
      BY <1>4
    <2>2. CASE CreateVM(m)
      <3>1. PICK w \in VMIDs : w = work[m].vmid
        BY <2>2 DEF CreateVM, LifeInv, TypeOK, Typed, VMIDKnown, Locals
      <3>2. CASE vm' = [vm EXCEPT ![w] = [status |-> "stopped",
                          node |-> rec[m].node, owner |-> m,
                          joins |-> NoMachine]]
        BY <3>2 DEF IsFree, LifeInv, TypeOK, Typed
      <3> QED BY <2>2, <3>1, <3>2 DEF CreateVM, IsFree
    <2>3. CASE InjectConfig(m)
      <3>1. rec[m].vmid \in VMIDs
        BY <2>3 DEF InjectConfig, LifeInv, TypeOK, Typed, VMIDKnown,
           MachineSpec
      <3>2. CASE vm' = [vm EXCEPT ![rec[m].vmid].joins = m]
        <4>1. vm'[v].status = vm[v].status
          BY <3>1, <3>2 DEF LifeInv, TypeOK, Typed, VM
        <4> QED BY <4>1 DEF IsFree
      <3> QED BY <2>3, <3>2 DEF InjectConfig, IsFree
    <2> QED BY <2>1, <2>2, <2>3 DEF Provision, PickNode, CheckCreateTask,
               NextID, CommitCreate, CheckStartTask, StartVM, CommitStart,
               RegisterHA, CommitRegister, SyncHARules, IsFree
  <1>5. CASE \/ \E m \in Machines : Deprovision(m)
             \/ \E m \in Machines : RequestTeardown(m)
             \/ UNCHANGED vars
    BY <1>5, DeprovisionTouches DEF RequestTeardown, vars, IsFree
  <1> QED BY <1>2, <1>3, <1>4, <1>5 DEF Next

\* Under the same conditions a VM is an HA resource no more when Proxmox
\* deletes it: only Deprovision asks for a deletion, after TeardownHA has
\* deregistered what it or an earlier reconcile may have registered.
THEOREM DeregisteredBeforeDeleteHolds ==
  ASSUME \A k \in Disruptions \cup {"lost"} : FaultBudget[k] = 0
  PROVE  Spec => DeregisteredBeforeDelete
  <1>1. Init => LifeInv
    BY LifeInit
  <1>2. LifeInv /\ [Next]_vars =>
          [\A v \in VMIDs : ~IsFree(v) /\ IsFree(v)' => v \notin haRes]_vars
    BY DeletesDeregistered
  <1> QED BY <1>1, <1>2, LifeNext, PTL DEF Spec, DeregisteredBeforeDelete

----------------------------------------------------------------------------
(* Part 3: the VM of a machine in use is not touched by anyone else, so    *)
(* what its tasks and its HA registration once achieved still holds.       *)

InUse(m) == phase[m] \in {"provisioning", "provisioned"}

\* What m's tasks tell of m's VM.
TasksTell(m) ==
  /\ \A i \in DOMAIN tasks[m] :
       /\ tasks[m][i].kind \in {"stop", "delete"} => ~InUse(m)
       /\ tasks[m][i].status = "running" => Owner(tasks[m][i].vmid) = m
       /\ tasks[m][i].kind = "start" =>
            /\ tasks[m][i].vmid = rec[m].vmid
            /\ Owner(rec[m].vmid) = m => vm[rec[m].vmid].joins = m
            /\ InUse(m) /\ tasks[m][i].status = "ok" =>
                 vm[rec[m].vmid].status = "running"
  /\ \A i, j \in DOMAIN tasks[m] :
       tasks[m][i].status = "running" /\ tasks[m][j].status = "running" => i = j
  /\ pc[m] = "start" => vm[rec[m].vmid].joins = m

\* m's VM is an HA resource as soon and as long as it has to be.
HAKept(m) ==
  /\ (InUse(m) /\ rec[m].haRegistered) \/ pc[m] = "registered" =>
       rec[m].vmid \in haRes
  /\ wantsHA[m] /\ (pc[m] = "syncHARules" \/ phase[m] = "provisioned") =>
       rec[m].haRegistered

RunInv ==
  /\ LifeInv
  /\ faults["edited"] = 0
  /\ \A m \in Machines : TasksTell(m) /\ HAKept(m)

\* A step that changes nothing of the other machines, their VMs and the HA
\* resources of their VMs included.
Spares(m) ==
  /\ OthersStay(m)
  /\ \A x \in Machines \ {m} : tasks'[x] = tasks[x]
  /\ UNCHANGED wantsHA
  /\ \A v \in VMIDs : Owner(v) \notin {m, NoMachine} =>
       /\ Owner(v)' = Owner(v)
       /\ vm'[v].joins = vm[v].joins /\ vm'[v].status = vm[v].status
  /\ \A v \in VMIDs : Owner(v)' \in {m, NoMachine, Owner(v)}
  /\ \A v \in haRes : v \notin haRes' => Owner(v) = m

\* A machine that has a VM recorded and is not past its tear-down owns it.
LEMMA RecordedIsOwned ==
  ASSUME LifeInv, NEW m \in Machines, rec[m].vmid # 0,
         phase[m] # "gone", ~Deleted(m)
  PROVE  rec[m].vmid \in VMIDs /\ Owner(rec[m].vmid) = m
  BY DEF LifeInv, Undisturbed, OwnInv, Owned, TypeOK, Typed, MachineSpec

\* In particular while it is in use or being provisioned.
LEMMA InUseOwns ==
  ASSUME LifeInv, NEW m \in Machines, rec[m].vmid # 0,
         InUse(m) \/ pc[m] \notin {"idle", "awaitDelete"}
  PROVE  rec[m].vmid \in VMIDs /\ Owner(rec[m].vmid) = m
  <1>1. phase[m] # "gone" /\ ~Deleted(m)
    BY DEF LifeInv, KnownInv, InPhase, InUse, Deleted, TeardownSteps
  <1> QED BY <1>1, RecordedIsOwned

LEMMA TaskTyped ==
  ASSUME Typed, NEW m \in Machines, NEW i \in DOMAIN tasks[m]
  PROVE  tasks[m][i].vmid \in VMIDs /\ tasks[m][i].vmid # 0
  <1>1. tasks[m] \in Seq(Task) /\ i \in 1 .. Len(tasks[m])
    BY DEF Typed
  <1>2. tasks[m][i] \in Task
    BY <1>1
  <1> QED BY <1>2, VMIDsAssumption DEF Task

LEMMA OthersRun ==
  ASSUME RunInv, NEW m \in Machines, Spares(m),
         NEW x \in Machines, x # m
  PROVE  TasksTell(x)' /\ HAKept(x)'
  <1> USE DEF RunInv
  <1>1. /\ rec'[x] = rec[x] /\ phase'[x] = phase[x] /\ pc'[x] = pc[x]
        /\ tasks'[x] = tasks[x] /\ wantsHA'[x] = wantsHA[x]
    BY DEF Spares, OthersStay
  <1>2. ASSUME NEW v \in VMIDs, Owner(v) = x
        PROVE  /\ Owner(v)' = x /\ vm'[v].joins = vm[v].joins
               /\ vm'[v].status = vm[v].status
               /\ v \in haRes => v \in haRes'
    BY <1>2, NoMachineAssumption DEF Spares
  <1>3. ASSUME NEW v \in VMIDs, Owner(v)' = x PROVE Owner(v) = x
    BY <1>3, NoMachineAssumption DEF Spares
  <1>4. TasksTell(x) /\ HAKept(x)
    OBVIOUS
  <1>5. ASSUME NEW i \in DOMAIN tasks'[x]
        PROVE  /\ tasks'[x][i].kind \in {"stop", "delete"} => ~InUse(x)'
               /\ tasks'[x][i].status = "running" => Owner(tasks[x][i].vmid)' = x
               /\ tasks'[x][i].kind = "start" =>
                    /\ tasks'[x][i].vmid = rec'[x].vmid
                    /\ Owner(rec[x].vmid)' = x => vm'[rec[x].vmid].joins = x
                    /\ InUse(x)' /\ tasks'[x][i].status = "ok" =>
                         vm'[rec[x].vmid].status = "running"
    <2>1. i \in DOMAIN tasks[x] /\ tasks[x][i].vmid \in VMIDs
          /\ tasks[x][i].vmid # 0
      BY <1>1, <1>5, TaskTyped DEF LifeInv, TypeOK
    <2>2. tasks[x][i].kind \in {"stop", "delete"} => ~InUse(x)'
      BY <1>1, <1>4, <2>1 DEF TasksTell, InUse
    <2>3. tasks[x][i].status = "running" => Owner(tasks[x][i].vmid)' = x
      BY <1>1, <1>2, <1>4, <2>1 DEF TasksTell, Owner
    <2>4. ASSUME tasks[x][i].kind = "start"
          PROVE  /\ tasks[x][i].vmid = rec[x].vmid
                 /\ Owner(rec[x].vmid)' = x => vm'[rec[x].vmid].joins = x
                 /\ InUse(x) /\ tasks[x][i].status = "ok" =>
                      vm'[rec[x].vmid].status = "running"
      <3>1. tasks[x][i].vmid = rec[x].vmid
        BY <1>4, <2>1, <2>4 DEF TasksTell
      <3>2. Owner(rec[x].vmid)' = x => vm'[rec[x].vmid].joins = x
        BY <1>1, <1>2, <1>3, <1>4, <2>1, <2>4, <3>1 DEF TasksTell, Owner
      <3>3. InUse(x) => Owner(rec[x].vmid) = x
        BY <2>1, <3>1, InUseOwns
      <3>4. InUse(x) /\ tasks[x][i].status = "ok" =>
              vm'[rec[x].vmid].status = "running"
        BY <1>2, <1>4, <2>1, <2>4, <3>1, <3>3 DEF TasksTell
      <3> QED BY <3>1, <3>2, <3>4
    <2> QED BY <1>1, <2>2, <2>3, <2>4 DEF InUse
  <1>6. pc'[x] = "start" => vm'[rec[x].vmid].joins = x
    <2> SUFFICES ASSUME pc[x] = "start" PROVE vm'[rec[x].vmid].joins = x
      BY <1>1
    <2>1. rec[x].vmid # 0
      BY DEF LifeInv, TypeOK, VMIDKnown
    <2>2. rec[x].vmid \in VMIDs /\ Owner(rec[x].vmid) = x
      BY <2>1, InUseOwns
    <2> QED BY <1>2, <1>4, <2>2 DEF TasksTell
  <1>7. TasksTell(x)'
    BY <1>1, <1>4, <1>5, <1>6 DEF TasksTell, Owner
  <1>8. HAKept(x)'
    <2> SUFFICES ASSUME (InUse(x) /\ rec[x].haRegistered) \/ pc[x] = "registered"
                 PROVE  rec[x].vmid \in haRes'
      BY <1>1, <1>4 DEF HAKept, InUse
    <2>1. rec[x].vmid \in haRes /\ rec[x].vmid # 0
      BY <1>4, VMIDsAssumption DEF HAKept, LifeInv, TypeOK, Typed
    <2>2. rec[x].vmid \in VMIDs /\ Owner(rec[x].vmid) = x
      BY <2>1, InUseOwns
    <2> QED BY <1>2, <2>1, <2>2
  <1> QED BY <1>7, <1>8

Runs == \A m \in Machines : TasksTell(m) /\ HAKept(m)

LEMMA SparesRuns ==
  ASSUME RunInv, NEW m \in Machines, Spares(m), TasksTell(m)', HAKept(m)'
  PROVE  Runs'
  BY OthersRun DEF Runs

\* A step of m's reconcile that posts nothing, touches no VM but for its node,
\* and deregisters no VM but m's own.
LEMMA SteadyRuns ==
  ASSUME RunInv, NEW m \in Machines, OthersStay(m), UNCHANGED <<tasks, wantsHA>>,
         \A v \in VMIDs : /\ Owner(v)' = Owner(v)
                          /\ vm'[v].joins = vm[v].joins
                          /\ vm'[v].status = vm[v].status,
         rec'[m].vmid = rec[m].vmid,
         InUse(m)' => InUse(m),
         pc'[m] # "start",
         \A v \in haRes : v \notin haRes' => Owner(v) = m,
         HAKept(m)'
  PROVE  Runs'
  <1> USE DEF RunInv
  <1>1. Spares(m)
    BY DEF Spares
  <1>2. ASSUME NEW i \in DOMAIN tasks[m]
        PROVE  /\ tasks[m][i].kind \in {"stop", "delete"} => ~InUse(m)'
               /\ tasks[m][i].status = "running" =>
                    vm'[tasks[m][i].vmid].owner = m
               /\ tasks[m][i].kind = "start" =>
                    /\ tasks[m][i].vmid = rec[m].vmid
                    /\ vm'[rec[m].vmid].owner = m => vm'[rec[m].vmid].joins = m
                    /\ InUse(m)' /\ tasks[m][i].status = "ok" =>
                         vm'[rec[m].vmid].status = "running"
    <2>1. tasks[m][i].vmid \in VMIDs
      BY TaskTyped DEF LifeInv, TypeOK
    <2>2. TasksTell(m)
      OBVIOUS
    <2> QED BY <2>1, <2>2 DEF TasksTell, Owner
  <1>3. TasksTell(m)'
    BY <1>2 DEF TasksTell, Owner
  <1> QED BY <1>1, <1>3, SparesRuns

\* A step after which m has no more of a claim to HA than before.
LEMMA SteadyHA ==
  ASSUME NEW m \in Machines, HAKept(m), UNCHANGED <<haRes, wantsHA>>,
         rec'[m].vmid = rec[m].vmid,
         rec'[m].haRegistered = rec[m].haRegistered,
         InUse(m)' => InUse(m),
         phase'[m] = "provisioned" => phase[m] = "provisioned",
         pc'[m] \notin {"registered", "syncHARules"}
  PROVE  HAKept(m)'
  BY DEF HAKept

LEMMA QuietProvisionRuns ==
  ASSUME RunInv, NEW m \in Machines,
         \/ PickNode(m) \/ CheckCreateTask(m) \/ NextID(m)
         \/ CheckStartTask(m) \/ CommitStart(m)
  PROVE  Runs'
  <1> USE DEF omniVars, proxmoxVars, RunInv
  <1>1. UNCHANGED <<phase, wantsHA, vm, tasks, haRes>>
    BY DEF PickNode, CheckCreateTask, NextID, CheckStartTask, CommitStart
  <1>2. /\ \A x \in Machines \ {m} : pc'[x] = pc[x] /\ work'[x] = work[x]
        /\ pc'[m] \notin {"registered", "syncHARules", "start"}
    BY DEF PickNode, CheckCreateTask, NextID, CheckStartTask, CommitStart, Goto,
       EndReconcile, LifeInv, TypeOK, Typed
  <1>3. /\ \A x \in Machines \ {m} : rec'[x] = rec[x]
        /\ rec'[m].vmid = rec[m].vmid
        /\ rec'[m].haRegistered = rec[m].haRegistered
    BY DEF PickNode, CheckCreateTask, NextID, CheckStartTask, CommitStart,
       LifeInv, TypeOK, Typed, MachineSpec
  <1>4. InUse(m)' <=> InUse(m)
    BY <1>1 DEF InUse
  <1>5. HAKept(m)'
    BY <1>1, <1>2, <1>3, <1>4, SteadyHA
  <1>6. OthersStay(m)
    BY <1>1, <1>2, <1>3 DEF OthersStay
  <1> QED BY <1>1, <1>2, <1>3, <1>4, <1>5, <1>6, SteadyRuns DEF Owner

LEMMA RegistrationRuns ==
  ASSUME RunInv, NEW m \in Machines,
         RegisterHA(m) \/ CommitRegister(m) \/ SyncHARules(m)
  PROVE  Runs'
  <1> USE DEF omniVars, proxmoxVars, RunInv
  <1>1. /\ UNCHANGED <<wantsHA, vm, tasks>>
        /\ haRes \subseteq haRes'
    BY DEF RegisterHA, CommitRegister, SyncHARules
  <1>2. /\ \A x \in Machines \ {m} : pc'[x] = pc[x] /\ work'[x] = work[x]
        /\ pc'[m] # "start"
    BY DEF RegisterHA, CommitRegister, SyncHARules, Goto, EndReconcile,
       LifeInv, TypeOK, Typed
  <1>3. /\ \A x \in Machines \ {m} : rec'[x] = rec[x] /\ phase'[x] = phase[x]
        /\ rec'[m].vmid = rec[m].vmid
        /\ InUse(m)' => InUse(m)
    BY DEF RegisterHA, CommitRegister, SyncHARules, InUse, LifeInv, TypeOK,
       Typed, MachineSpec
  <1>4. HAKept(m)'
    <2>1. HAKept(m)
      OBVIOUS
    <2>2. CASE RegisterHA(m)
      BY <1>1, <1>3, <2>1, <2>2 DEF RegisterHA, HAKept, HAConfigRefused, Goto,
         EndReconcile, InUse, LifeInv, TypeOK, Typed
    <2>3. CASE CommitRegister(m)
      BY <2>1, <2>3 DEF CommitRegister, HAKept, Goto, InUse, LifeInv, TypeOK,
         Typed, MachineSpec
    <2>4. CASE SyncHARules(m)
      BY <2>1, <2>4 DEF SyncHARules, HAKept, EndReconcile, Goto, InUse,
         LifeInv, TypeOK, Typed
    <2> QED BY <2>2, <2>3, <2>4
  <1>5. OthersStay(m)
    BY <1>2, <1>3 DEF OthersStay
  <1> QED BY <1>1, <1>2, <1>3, <1>4, <1>5, SteadyRuns DEF Owner

LEMMA QuietDeprovisionRuns ==
  ASSUME RunInv, NEW m \in Machines, Deprovision(m), UNCHANGED tasks
  PROVE  Runs'
  <1> USE DEF omniVars, proxmoxVars, RunInv
  <1>1. /\ UNCHANGED <<rec, vm>> /\ OthersStay(m)
        /\ phase[m] = "tearingDown"
    BY DeprovisionTouches DEF OnlyOf
  <1>2. UNCHANGED wantsHA /\ phase'[m] \notin {"provisioning", "provisioned"}
    BY <1>1 DEF Deprovision, BeginDeprovision, TeardownHA, ListNodes, ScanNode,
       FindNothing, GetVM, StopVM, AwaitStop, DeleteVM, AwaitDelete, Request,
       Gone, LifeInv, TypeOK, Typed
  <1>3. pc'[m] \notin {"registered", "syncHARules", "start"}
    BY DEF Deprovision, BeginDeprovision, TeardownHA, ListNodes, ScanNode,
       FindNothing, GetVM, StopVM, AwaitStop, DeleteVM, AwaitDelete, Request,
       Gone, EndReconcile, Goto, LifeInv, TypeOK, Typed
  <1>4. \A v \in haRes : v \notin haRes' => Owner(v) = m
    <2>1. CASE TeardownHA(m)
      <3>1. /\ pc[m] = "teardownHA" /\ rec[m].vmid # 0
            /\ haRes' = haRes \ {rec[m].vmid}
        BY <2>1 DEF TeardownHA, LifeInv, TypeOK, VMIDKnown
      <3> QED BY <3>1, InUseOwns
    <2> QED BY <2>1 DEF Deprovision, BeginDeprovision, ListNodes, ScanNode,
         FindNothing, GetVM, StopVM, AwaitStop, DeleteVM, AwaitDelete, Request
  <1>5. HAKept(m)'
    BY <1>2, <1>3 DEF HAKept, InUse
  <1> QED BY <1>1, <1>2, <1>3, <1>4, <1>5, SteadyRuns DEF Owner, InUse

\* Before a vmid is recorded there are no tasks that tell of it, and no VM
\* that could have any running.
LEMMA NothingBefore ==
  ASSUME RunInv, NEW m \in Machines, pc[m] \in InCreate
  PROVE  /\ rec[m].vmid = 0 /\ ~rec[m].haRegistered
         /\ phase[m] \notin {"gone", "provisioned"}
         /\ \A i \in DOMAIN tasks[m] : tasks[m][i].kind # "start"
         /\ pc[m] = "create" =>
              \A i \in DOMAIN tasks[m] : tasks[m][i].status # "running"
  <1> USE DEF RunInv
  <1>1. /\ rec[m].vmid = 0 /\ ~rec[m].haRegistered
        /\ phase[m] \notin {"gone", "provisioned"}
    BY DEF LifeInv, KnownInv, InPhase, Ordered, RecordOrdered,
       ReconcileOrdered, InCreate
  <1>2. ASSUME NEW i \in DOMAIN tasks[m]
        PROVE  /\ tasks[m][i].kind # "start"
               /\ pc[m] = "create" => tasks[m][i].status # "running"
    <2>1. tasks[m][i].vmid \in VMIDs /\ tasks[m][i].vmid # 0
      BY TaskTyped DEF LifeInv, TypeOK
    <2>2. pc[m] = "create" => Owner(tasks[m][i].vmid) # m
      BY <1>1, <2>1 DEF LifeInv, KnownInv, Named, Names
    <2> QED BY <1>1, <2>1, <2>2 DEF TasksTell
  <1> QED BY <1>1, <1>2

LEMMA CommitCreateRuns ==
  ASSUME RunInv, NEW m \in Machines, CommitCreate(m)
  PROVE  Runs'
  <1> USE DEF proxmoxVars, RunInv
  <1>1. /\ UNCHANGED <<phase, wantsHA, vm, tasks, haRes>>
        /\ pc[m] = "created"
    BY DEF CommitCreate
  <1>2. /\ rec'[m].haRegistered = rec[m].haRegistered
        /\ \A x \in Machines \ {m} : rec'[x] = rec[x]
    BY DEF CommitCreate, LifeInv, TypeOK, Typed, MachineSpec
  <1>3. /\ pc'[m] = "idle"
        /\ \A x \in Machines \ {m} : pc'[x] = pc[x] /\ work'[x] = work[x]
    BY EndReconcileTyped DEF CommitCreate, LifeInv, TypeOK
  <1>4. /\ ~rec[m].haRegistered /\ phase[m] # "provisioned"
        /\ \A i \in DOMAIN tasks[m] : tasks[m][i].kind # "start"
    BY <1>1, NothingBefore DEF InCreate
  <1>5. Spares(m)
    BY <1>1, <1>2, <1>3 DEF Spares, OthersStay, Owner
  <1>6. TasksTell(m)'
    BY <1>1, <1>3, <1>4 DEF TasksTell, InUse, Owner
  <1>7. HAKept(m)'
    BY <1>1, <1>2, <1>3, <1>4 DEF HAKept
  <1> QED BY <1>5, <1>6, <1>7, SparesRuns

LEMMA CreateVMRuns ==
  ASSUME RunInv, NEW m \in Machines, CreateVM(m)
  PROVE  Runs'
  <1> USE DEF omniVars, RunInv
  <1>0. PICK v \in VMIDs : v = work[m].vmid
    BY DEF CreateVM, LifeInv, TypeOK, Typed, VMIDKnown, Locals
  <1>1. pc[m] = "create" /\ UNCHANGED <<phase, rec, wantsHA, haRes>>
    BY DEF CreateVM
  <1>2. /\ ~rec[m].haRegistered /\ phase[m] # "provisioned"
        /\ \A i \in DOMAIN tasks[m] : /\ tasks[m][i].kind # "start"
                                      /\ tasks[m][i].status # "running"
    BY <1>1, NothingBefore DEF InCreate
  <1>3. CASE EndReconcile(m) /\ UNCHANGED <<vm, tasks>>
    <2>1. OthersStay(m) /\ pc'[m] = "idle"
      BY <1>1, <1>3, EndReconcileTyped DEF OthersStay, LifeInv, TypeOK
    <2>2. HAKept(m)'
      BY <1>1, <1>2, <2>1 DEF HAKept
    <2> QED BY <1>1, <1>3, <2>1, <2>2, SteadyRuns DEF Owner, InUse
  <1>4. CASE /\ AcceptsCreate(m, v, rec[m].node)
             /\ vm' = [vm EXCEPT ![v] = [status |-> "stopped",
                         node |-> rec[m].node, owner |-> m,
                         joins |-> NoMachine]]
             /\ Post(m, "create", v)
             /\ work' = [work EXCEPT ![m].task = NextUPID(m)]
             /\ Goto(m, "created")
    <2>1. Owner(v) = NoMachine
      BY <1>4 DEF AcceptsCreate, LifeInv, Undisturbed, OwnInv, FreeUnowned
    <2>2. /\ vm'[v].owner = m
          /\ \A u \in VMIDs \ {v} : vm'[u] = vm[u]
      BY <1>4 DEF LifeInv, TypeOK, Typed
    <2>3. /\ pc'[m] = "created"
          /\ \A x \in Machines \ {m} : work'[x] = work[x] /\ pc'[x] = pc[x]
      BY <1>4 DEF Goto, LifeInv, TypeOK, Typed, Locals
    <2> DEFINE n == NextUPID(m)
    <2>4. /\ \A x \in Machines \ {m} : tasks'[x] = tasks[x]
          /\ DOMAIN tasks'[m] = DOMAIN tasks[m] \cup {n}
          /\ \A i \in DOMAIN tasks[m] : tasks'[m][i] = tasks[m][i]
          /\ tasks'[m][n].kind = "create" /\ tasks'[m][n].vmid = v
      BY <1>4, PostAppends DEF LifeInv, TypeOK, TaskKinds
    <2> HIDE DEF n
    <2>5. Spares(m)
      BY <1>1, <2>1, <2>2, <2>3, <2>4 DEF Spares, OthersStay, Owner
    <2>6. \A i \in DOMAIN tasks'[m] :
            /\ tasks'[m][i].kind \in {"stop", "delete"} => ~InUse(m)
            /\ tasks'[m][i].kind # "start"
            /\ tasks'[m][i].status = "running" =>
                 i = n /\ vm'[tasks'[m][i].vmid].owner = m
      BY <1>2, <2>2, <2>4 DEF TasksTell
    <2>7. TasksTell(m)'
      BY <1>1, <2>3, <2>6 DEF TasksTell, InUse, Owner
    <2>8. HAKept(m)'
      BY <1>1, <1>2, <2>3 DEF HAKept
    <2> QED BY <2>5, <2>7, <2>8, SparesRuns
  <1> QED BY <1>0, <1>3, <1>4 DEF CreateVM

\* m attaches its configuration to a VM of its own.
LEMMA InjectConfigRuns ==
  ASSUME RunInv, NEW m \in Machines, InjectConfig(m)
  PROVE  Runs'
  <1> USE DEF omniVars, RunInv
  <1>1. /\ pc[m] = "startVM" /\ rec[m].vmid # 0
        /\ UNCHANGED <<phase, rec, wantsHA, tasks, haRes>>
    BY DEF InjectConfig, LifeInv, TypeOK, VMIDKnown
  <1>2. PICK v \in VMIDs : v = rec[m].vmid /\ Owner(v) = m
    BY <1>1, InUseOwns
  <1>3. CASE EndReconcile(m) /\ UNCHANGED vm
    <2>1. OthersStay(m) /\ pc'[m] = "idle"
      BY <1>1, <1>3, EndReconcileTyped DEF OthersStay, LifeInv, TypeOK
    <2>2. HAKept(m)'
      BY <1>1, <2>1, SteadyHA DEF InUse
    <2> QED BY <1>1, <1>3, <2>1, <2>2, SteadyRuns DEF Owner, InUse
  <1>4. CASE /\ vm' = [vm EXCEPT ![v].joins = m]
             /\ Goto(m, "start") /\ UNCHANGED work
    <2>1. /\ vm'[v].joins = m /\ \A u \in VMIDs \ {v} : vm'[u] = vm[u]
          /\ \A u \in VMIDs : /\ vm'[u].owner = vm[u].owner
                              /\ vm'[u].status = vm[u].status
      BY <1>4 DEF LifeInv, TypeOK, Typed, VM
    <2>2. pc'[m] = "start" /\ \A x \in Machines \ {m} : pc'[x] = pc[x]
      BY <1>4 DEF Goto, LifeInv, TypeOK, Typed
    <2>3. Spares(m)
      BY <1>1, <1>2, <1>4, <2>1, <2>2 DEF Spares, OthersStay, Owner
    <2>4. HAKept(m)'
      BY <1>1, <2>2, SteadyHA DEF InUse
    <2>5. ASSUME NEW i \in DOMAIN tasks[m]
          PROVE  /\ tasks[m][i].kind \in {"stop", "delete"} => ~InUse(m)
                 /\ tasks[m][i].status = "running" =>
                      vm'[tasks[m][i].vmid].owner = m
                 /\ tasks[m][i].kind = "start" =>
                      /\ tasks[m][i].vmid = v
                      /\ InUse(m) /\ tasks[m][i].status = "ok" =>
                           vm'[v].status = "running"
      <3>1. tasks[m][i].vmid \in VMIDs
        BY TaskTyped DEF LifeInv, TypeOK
      <3>2. TasksTell(m)
        OBVIOUS
      <3> QED BY <1>2, <2>1, <3>1, <3>2 DEF TasksTell, Owner
    <2>6. \A i, j \in DOMAIN tasks[m] :
            tasks[m][i].status = "running" /\ tasks[m][j].status = "running"
            => i = j
      BY DEF TasksTell
    <2>7. TasksTell(m)'
      BY <1>1, <1>2, <2>1, <2>5, <2>6 DEF TasksTell, InUse, Owner
    <2> QED BY <2>3, <2>4, <2>7, SparesRuns
  <1> QED BY <1>2, <1>3, <1>4 DEF InjectConfig

\* A request for m's VM is accepted only while no other one runs.
LEMMA PostRuns ==
  ASSUME RunInv, NEW m \in Machines,
         NEW kind \in {"start", "stop", "delete"},
         NEW step \in {"started", "awaitStop", "awaitDelete"},
         pc[m] \in {"start", "stop", "delete"},
         kind = "start" <=> pc[m] = "start",
         ~IsLocked(rec[m].vmid), Post(m, kind, rec[m].vmid), Goto(m, step),
         work' = [work EXCEPT ![m].task = NextUPID(m)],
         UNCHANGED <<phase, rec, wantsHA, vm, haRes>>
  PROVE  Runs'
  <1> USE DEF RunInv
  <1>1. /\ rec[m].vmid # 0
        /\ pc[m] # "start" => phase[m] = "tearingDown"
    BY DEF LifeInv, TypeOK, VMIDKnown, KnownInv, InPhase, TeardownSteps
  <1>2. PICK v \in VMIDs : v = rec[m].vmid /\ Owner(v) = m
    BY <1>1, InUseOwns
  <1>3. /\ pc'[m] = step
        /\ \A x \in Machines \ {m} : work'[x] = work[x] /\ pc'[x] = pc[x]
    BY DEF Goto, LifeInv, TypeOK, Typed, Locals
  <1> DEFINE n == NextUPID(m)
  <1>4. /\ \A x \in Machines \ {m} : tasks'[x] = tasks[x]
        /\ DOMAIN tasks'[m] = DOMAIN tasks[m] \cup {n}
        /\ \A i \in DOMAIN tasks[m] : tasks'[m][i] = tasks[m][i]
        /\ tasks'[m][n].kind = kind /\ tasks'[m][n].vmid = v
        /\ tasks'[m][n].status = "running"
    BY <1>2, PostAppends DEF LifeInv, TypeOK, TaskKinds
  <1> HIDE DEF n
  <1>5. Spares(m)
    BY <1>3, <1>4 DEF Spares, OthersStay, Owner
  <1>6. HAKept(m)'
    BY <1>3, SteadyHA DEF InUse
  <1>7. ASSUME NEW i \in DOMAIN tasks[m] PROVE tasks[m][i].status # "running"
    <2> SUFFICES ASSUME tasks[m][i].status = "running" PROVE FALSE
      OBVIOUS
    <2>1. tasks[m][i].vmid \in VMIDs /\ Owner(tasks[m][i].vmid) = m
      BY TaskTyped DEF LifeInv, TypeOK, TasksTell
    <2>2. tasks[m][i].vmid = rec[m].vmid
      BY <2>1 DEF LifeInv, KnownInv, Named, Names
    <2> QED BY <2>2 DEF IsLocked
  <1>8. kind = "start" => vm[v].joins = m
    BY <1>2 DEF TasksTell
  <1>9. ASSUME NEW i \in DOMAIN tasks'[m]
        PROVE  /\ tasks'[m][i].kind \in {"stop", "delete"} => ~InUse(m)
               /\ tasks'[m][i].status = "running" =>
                    i = n /\ tasks'[m][i].vmid = v
               /\ tasks'[m][i].kind = "start" =>
                    /\ tasks'[m][i].vmid = v
                    /\ vm[v].joins = m
                    /\ InUse(m) /\ tasks'[m][i].status = "ok" =>
                         vm[v].status = "running"
    <2>1. CASE i \in DOMAIN tasks[m]
      <3>1. TasksTell(m) /\ tasks'[m][i] = tasks[m][i]
        BY <1>4, <2>1
      <3> QED BY <1>2, <1>7, <2>1, <3>1 DEF TasksTell
    <2>2. CASE i = n
      BY <1>1, <1>4, <1>8, <2>2 DEF InUse
    <2> QED BY <1>4, <1>9, <2>1, <2>2
  <1>10. TasksTell(m)'
    BY <1>2, <1>3, <1>9 DEF TasksTell, InUse, Owner
  <1> QED BY <1>5, <1>6, <1>10, SparesRuns

LEMMA RequestsRun ==
  ASSUME RunInv, NEW m \in Machines, StartVM(m) \/ StopVM(m) \/ DeleteVM(m)
  PROVE  Runs'
  <1> USE DEF omniVars, RunInv
  <1>1. UNCHANGED <<phase, rec, wantsHA, vm, haRes>>
    BY DEF StartVM, StopVM, DeleteVM, Request
  <1>2. CASE EndReconcile(m) /\ UNCHANGED tasks
    <2>1. OthersStay(m) /\ pc'[m] = "idle"
      BY <1>1, <1>2, EndReconcileTyped DEF OthersStay, LifeInv, TypeOK
    <2>2. HAKept(m)'
      BY <1>1, <2>1, SteadyHA DEF InUse
    <2> QED BY <1>1, <1>2, <2>1, <2>2, SteadyRuns DEF Owner, InUse
  <1>3. CASE ~(EndReconcile(m) /\ UNCHANGED tasks)
    <2>1. ~IsLocked(rec[m].vmid)
      BY <1>3 DEF StartVM, StopVM, DeleteVM, Request, Accepts
    <2>2. work' = [work EXCEPT ![m].task = NextUPID(m)]
      BY <1>3 DEF StartVM, StopVM, DeleteVM, Request
    <2>3. CASE StartVM(m)
      <3>1. /\ Post(m, "start", rec[m].vmid) /\ Goto(m, "started")
            /\ pc[m] = "start"
        BY <1>3, <2>3 DEF StartVM
      <3> QED BY <1>1, <2>1, <2>2, <3>1, PostRuns
    <2>4. CASE StopVM(m)
      <3>1. /\ Post(m, "stop", rec[m].vmid) /\ Goto(m, "awaitStop")
            /\ pc[m] = "stop"
        BY <1>3, <2>4 DEF StopVM, Request
      <3> QED BY <1>1, <2>1, <2>2, <3>1, PostRuns
    <2>5. CASE DeleteVM(m)
      <3>1. /\ Post(m, "delete", rec[m].vmid) /\ Goto(m, "awaitDelete")
            /\ pc[m] = "delete"
        BY <1>3, <2>5 DEF DeleteVM, Request
      <3> QED BY <1>1, <2>1, <2>2, <3>1, PostRuns
    <2> QED BY <2>3, <2>4, <2>5
  <1> QED BY <1>2, <1>3

----------------------------------------------------------------------------
(* Proxmox, users and faults. *)

\* A task changes the VM of its own machine only: it starts a VM that is
\* stopped, or it belongs to a tear-down.
LEMMA TaskEndsRuns ==
  ASSUME RunInv, NEW m \in Machines, TaskEnds(m)
  PROVE  Runs'
  <1> USE DEF omniVars, controlVars, RunInv
  <1>1. /\ UNCHANGED <<phase, rec, wantsHA, pc, work, haRes>>
        /\ TasksTell(m) /\ HAKept(m)
    BY DEF TaskEnds
  <1>2. PICK i \in DOMAIN tasks[m] :
          \/ CreateTaskEnds(m, i) \/ StartTaskEnds(m, i)
          \/ StopTaskEnds(m, i) \/ DeleteTaskEnds(m, i)
    BY DEF TaskEnds
  <1>3. tasks[m][i].status = "running"
    BY <1>2 DEF CreateTaskEnds, StartTaskEnds, StopTaskEnds, DeleteTaskEnds,
                Running
  <1>4. PICK v \in VMIDs : v = tasks[m][i].vmid /\ v # 0 /\ Owner(v) = m
    BY <1>1, <1>3, TaskTyped DEF TasksTell, LifeInv, TypeOK
  <1>5. PICK status \in {"ok", "failed"} :
          /\ EndTask(m, i, status)
          /\ \/ vm' = vm /\ (tasks[m][i].kind = "start" => status = "failed")
             \/ /\ tasks[m][i].kind = "start"
                /\ vm' = [vm EXCEPT ![v].status = "running"]
             \/ /\ tasks[m][i].kind = "stop"
                /\ vm' = [vm EXCEPT ![v].status = "stopped"]
             \/ /\ tasks[m][i].kind = "delete"
                /\ vm' = [vm EXCEPT ![v] = NoVM]
    <2>1. ~Spend("createFails")
      BY DEF LifeInv, Undisturbed, OwnInv, Undisrupted, Disruptions, Spend
    <2> QED BY <1>2, <1>4, <2>1 DEF CreateTaskEnds, StartTaskEnds,
               StopTaskEnds, DeleteTaskEnds, Running
  <1>6. /\ \A x \in Machines \ {m} : tasks'[x] = tasks[x]
        /\ DOMAIN tasks'[m] = DOMAIN tasks[m]
        /\ \A j \in DOMAIN tasks[m] :
             /\ tasks'[m][j].kind = tasks[m][j].kind
             /\ tasks'[m][j].vmid = tasks[m][j].vmid
             /\ tasks'[m][j].status = IF j = i THEN status
                                      ELSE tasks[m][j].status
    BY <1>5, EndTaskEnds DEF LifeInv, TypeOK
  <1>7. /\ \A u \in VMIDs \ {v} : vm'[u] = vm[u]
        /\ vm'[v].owner \in {m, NoMachine}
        /\ vm'[v].owner = m => vm'[v].joins = vm[v].joins
        /\ \/ tasks[m][i].kind \in {"stop", "delete"}
           \/ vm'[v].owner = m /\ vm'[v].status \in {vm[v].status, "running"}
        /\ tasks[m][i].kind # "delete" => vm'[v].owner = m
        /\ tasks[m][i].kind = "start" /\ status = "ok" =>
             vm'[v].status = "running"
    <2>1. CASE vm' = vm
      BY <1>4, <1>5, <2>1 DEF Owner, LifeInv, TypeOK, Typed, VM
    <2>2. ASSUME NEW s \in {"running", "stopped"},
                 vm' = [vm EXCEPT ![v].status = s]
          PROVE  /\ \A u \in VMIDs \ {v} : vm'[u] = vm[u]
                 /\ vm'[v].owner = m /\ vm'[v].joins = vm[v].joins
                 /\ vm'[v].status = s
      BY <1>4, <2>2 DEF Owner, LifeInv, TypeOK, Typed, VM
    <2>3. CASE tasks[m][i].kind = "delete" /\ vm' = [vm EXCEPT ![v] = NoVM]
      BY <2>3, NoMachineAssumption DEF NoVM, LifeInv, TypeOK, Typed
    <2>4. CASE /\ tasks[m][i].kind = "start"
               /\ vm' = [vm EXCEPT ![v].status = "running"]
      BY <2>2, <2>4
    <2>5. CASE /\ tasks[m][i].kind = "stop"
               /\ vm' = [vm EXCEPT ![v].status = "stopped"]
      BY <2>2, <2>5
    <2> QED BY <1>5, <2>1, <2>3, <2>4, <2>5
  <1>8. Spares(m)
    BY <1>1, <1>4, <1>6, <1>7 DEF Spares, OthersStay, Owner
  <1>9. HAKept(m)'
    BY <1>1 DEF HAKept, InUse
  <1>10. pc[m] = "start" => vm'[rec[m].vmid].joins = m
    <2> SUFFICES ASSUME pc[m] = "start" PROVE vm'[rec[m].vmid].joins = m
      OBVIOUS
    <2>1. rec[m].vmid # 0
      BY DEF LifeInv, TypeOK, VMIDKnown
    <2>2. rec[m].vmid \in VMIDs /\ vm[rec[m].vmid].joins = m
      BY <1>1, <2>1, InUseOwns DEF TasksTell
    <2>3. tasks[m][i].kind # "delete"
      BY <1>3, DeletesOwn
    <2> QED BY <1>7, <2>2, <2>3
  <1>11. ASSUME NEW j \in DOMAIN tasks[m]
         PROVE  /\ tasks[m][j].kind \in {"stop", "delete"} => ~InUse(m)
                /\ tasks'[m][j].status # "running"
                /\ tasks[m][j].kind = "start" =>
                     /\ tasks[m][j].vmid = rec[m].vmid
                     /\ vm'[rec[m].vmid].owner = m =>
                          vm'[rec[m].vmid].joins = m
                     /\ InUse(m) /\ tasks'[m][j].status = "ok" =>
                          vm'[rec[m].vmid].status = "running"
    <2>1. tasks[m][j].kind \in {"stop", "delete"} => ~InUse(m)
      BY <1>1 DEF TasksTell
    <2>2. tasks'[m][j].status # "running"
      BY <1>1, <1>3, <1>6 DEF TasksTell
    <2>3. ASSUME tasks[m][j].kind = "start"
          PROVE  /\ tasks[m][j].vmid = rec[m].vmid
                 /\ vm'[rec[m].vmid].owner = m => vm'[rec[m].vmid].joins = m
                 /\ InUse(m) /\ tasks'[m][j].status = "ok" =>
                      vm'[rec[m].vmid].status = "running"
      <3>1. /\ tasks[m][j].vmid = rec[m].vmid
            /\ Owner(rec[m].vmid) = m => vm[rec[m].vmid].joins = m
            /\ InUse(m) /\ tasks[m][j].status = "ok" =>
                 vm[rec[m].vmid].status = "running"
            /\ rec[m].vmid \in VMIDs /\ rec[m].vmid # 0
        BY <1>1, <2>3, TaskTyped DEF TasksTell, LifeInv, TypeOK
      <3>2. rec[m].vmid = v
        BY <1>4, <3>1 DEF LifeInv, KnownInv, Named, Names, Ordered,
           RecordOrdered, ReconcileOrdered, InCreate
      <3>3. InUse(m) => tasks[m][i].kind \notin {"stop", "delete"}
        BY <1>1 DEF TasksTell
      <3>4. vm'[v].owner = m => vm'[v].joins = m
        BY <1>4, <1>7, <3>1, <3>2
      <3>5. ASSUME InUse(m), tasks'[m][j].status = "ok"
            PROVE  vm'[v].status = "running"
        <4>1. CASE j = i
          BY <1>6, <1>7, <2>3, <3>5, <4>1
        <4>2. CASE j # i
          BY <1>6, <1>7, <3>1, <3>2, <3>3, <3>5, <4>2
        <4> QED BY <4>1, <4>2
      <3> QED BY <3>1, <3>2, <3>4, <3>5
    <2> QED BY <2>1, <2>2, <2>3
  <1>12. TasksTell(m)'
    BY <1>1, <1>6, <1>10, <1>11 DEF TasksTell, InUse, Owner
  <1> QED BY <1>8, <1>9, <1>12, SparesRuns

LEMMA OutsideRuns ==
  ASSUME RunInv, UNCHANGED <<rec, wantsHA, pc, tasks, haRes>>,
         \A m \in Machines : phase'[m] = phase[m] \/ phase'[m] = "tearingDown",
         \A v \in VMIDs : /\ Owner(v)' = Owner(v)
                          /\ vm'[v].joins = vm[v].joins
                          /\ vm'[v].status = vm[v].status
  PROVE  Runs'
  <1> USE DEF RunInv
  <1> SUFFICES ASSUME NEW m \in Machines
               PROVE  TasksTell(m)' /\ HAKept(m)'
    BY DEF Runs
  <1>1. InUse(m)' => InUse(m)
    BY DEF InUse
  <1>2. HAKept(m)'
    BY <1>1 DEF HAKept
  <1>3. ASSUME NEW i \in DOMAIN tasks[m]
        PROVE  /\ tasks[m][i].kind \in {"stop", "delete"} => ~InUse(m)'
               /\ tasks[m][i].status = "running" =>
                    vm'[tasks[m][i].vmid].owner = m
               /\ tasks[m][i].kind = "start" =>
                    /\ tasks[m][i].vmid = rec[m].vmid
                    /\ vm'[rec[m].vmid].owner = m => vm'[rec[m].vmid].joins = m
                    /\ InUse(m)' /\ tasks[m][i].status = "ok" =>
                         vm'[rec[m].vmid].status = "running"
    <2>1. tasks[m][i].vmid \in VMIDs
      BY TaskTyped DEF LifeInv, TypeOK
    <2>2. TasksTell(m)
      OBVIOUS
    <2> QED BY <1>1, <2>1, <2>2 DEF TasksTell, Owner
  <1>4. pc[m] = "start" => vm'[rec[m].vmid].joins = m
    <2>1. pc[m] = "start" => rec[m].vmid \in VMIDs
      BY DEF LifeInv, TypeOK, VMIDKnown, Typed, MachineSpec
    <2> QED BY <2>1 DEF TasksTell
  <1>5. \A i, j \in DOMAIN tasks[m] :
          tasks[m][i].status = "running" /\ tasks[m][j].status = "running"
          => i = j
    BY DEF TasksTell
  <1>6. TasksTell(m)'
    BY <1>3, <1>4, <1>5 DEF TasksTell, Owner
  <1> QED BY <1>2, <1>6

LEMMA FaultRuns ==
  ASSUME RunInv, Fault \/ \E n \in Nodes : NodeUp(n)
  PROVE  Runs'
  <1> USE DEF omniVars, controlVars, proxmoxVars, RunInv
  <1>1. \A k \in Disruptions \cup {"lost", "edited"} : ~Spend(k)
    BY DEF LifeInv, Undisturbed, OwnInv, Undisrupted, Uninterrupted,
       Interruptions, Spend
  <1>2. /\ ~Crash
        /\ \A m \in Machines : ~EditHA(m) /\ ~CallFails(m) /\ ~ReplyLost(m)
        /\ \A v \in VMIDs : ~AdminRemovesVM(v)
        /\ \A n \in Nodes : ~NodeDown(n) /\ ~NodeUp(n)
    BY <1>1 DEF Crash, EditHA, CallFails, ReplyLost, AdminRemovesVM, NodeDown,
                NodeUp, Disruptions, LifeInv, Undisturbed, OwnInv, Undisrupted
  <1>3. ASSUME NEW v \in VMIDs, NEW n \in Nodes, MigrateVM(v, n)
        PROVE  Runs'
    <2>1. \A u \in VMIDs : /\ vm'[u].owner = vm[u].owner
                           /\ vm'[u].joins = vm[u].joins
                           /\ vm'[u].status = vm[u].status
      BY <1>3 DEF MigrateVM, LifeInv, TypeOK, Typed, VM
    <2>2. UNCHANGED <<phase, rec, wantsHA, pc, tasks, haRes>>
      BY <1>3 DEF MigrateVM
    <2> QED BY <2>1, <2>2, OutsideRuns DEF Owner
  <1> QED BY <1>2, <1>3 DEF Fault

LEMMA RunsNext == ASSUME RunInv, [Next]_vars PROVE Runs'
  <1>1. CASE UNCHANGED vars
    <2>1. UNCHANGED <<phase, rec, wantsHA, pc, tasks, haRes, vm>>
      BY <1>1 DEF vars, omniVars, controlVars, proxmoxVars
    <2> QED BY <2>1, OutsideRuns DEF Owner
  <1>2. CASE \E m \in Machines : Provision(m)
    BY <1>2, QuietProvisionRuns, RegistrationRuns, CommitCreateRuns,
       CreateVMRuns, InjectConfigRuns, RequestsRun DEF Provision
  <1>3. ASSUME NEW m \in Machines, Deprovision(m) PROVE Runs'
    <2>1. UNCHANGED tasks \/ StopVM(m) \/ DeleteVM(m)
      BY <1>3 DEF Deprovision, BeginDeprovision, TeardownHA, ListNodes,
         ScanNode, FindNothing, GetVM, AwaitStop, AwaitDelete, proxmoxVars
    <2> QED BY <1>3, <2>1, QuietDeprovisionRuns, RequestsRun
  <1>4. ASSUME NEW m \in Machines, RequestTeardown(m) PROVE Runs'
    <2>1. UNCHANGED <<rec, wantsHA, pc, vm, tasks, haRes>>
      BY <1>4 DEF RequestTeardown, controlVars, proxmoxVars
    <2>2. \A x \in Machines : phase'[x] = phase[x] \/ phase'[x] = "tearingDown"
      BY <1>4 DEF RequestTeardown, RunInv, LifeInv, TypeOK, Typed
    <2> QED BY <2>1, <2>2, OutsideRuns DEF Owner
  <1> QED BY <1>1, <1>2, <1>3, <1>4, TaskEndsRuns, FaultRuns DEF Next

LEMMA RunNext == RunInv /\ [Next]_vars => RunInv'
  <1> SUFFICES ASSUME RunInv, [Next]_vars PROVE RunInv'
    OBVIOUS
  <1>1. LifeInv'
    BY LifeNext DEF RunInv
  <1>2. faults'["edited"] = 0
    <2>1. "edited" \in FaultKinds
      BY DEF FaultKinds
    <2> QED BY <2>1, NoFaultsCome DEF RunInv, LifeInv
  <1> QED BY <1>1, <1>2, RunsNext DEF RunInv, Runs

LEMMA RunInit ==
  ASSUME \A k \in Disruptions \cup {"lost", "edited"} : FaultBudget[k] = 0, Init
  PROVE  RunInv
  <1>1. LifeInv /\ faults["edited"] = 0
    BY LifeInit DEF Init
  <1>2. \A m \in Machines : /\ phase[m] = "provisioning" /\ pc[m] = "idle"
                            /\ tasks[m] = <<>> /\ ~rec[m].haRegistered
    BY DEF Init, NewMachine
  <1> QED BY <1>1, <1>2 DEF RunInv, TasksTell, HAKept

LEMMA ProvisionedRuns ==
  ASSUME RunInv
  PROVE  ProvisionedMeansRunning
  <1> USE DEF RunInv
  <1> SUFFICES ASSUME NEW m \in Machines, phase[m] = "provisioned"
               PROVE  /\ vm[rec[m].vmid].owner = m
                      /\ vm[rec[m].vmid].status = "running"
                      /\ vm[rec[m].vmid].joins = m
                      /\ wantsHA[m] => rec[m].haRegistered /\ rec[m].vmid \in haRes
    BY DEF ProvisionedMeansRunning
  <1>1. /\ rec[m].vmid # 0
        /\ IsTask(m, rec[m].startTask, "start", rec[m].vmid)
        /\ Done(m, rec[m].startTask)
    BY DEF LifeInv, Ordered, RecordOrdered
  <1>2. InUse(m) /\ Owner(rec[m].vmid) = m
    BY <1>1, InUseOwns DEF InUse
  <1>3. TasksTell(m) /\ HAKept(m)
    OBVIOUS
  <1> QED BY <1>1, <1>2, <1>3 DEF TasksTell, HAKept, IsTask, Done, Owner

\* A machine the steps of provision.go report as provisioned has a VM of its
\* own that runs with its own join configuration and, when its class asks for
\* HA, is an HA resource the machine has recorded, and all of that stays so
\* until the machine is torn down: every task and every deregistration acts on
\* the VM of the machine it was requested for, and one that is in use requests
\* no stop and no deletion.  Start tasks may fail and HA may move the VM.
THEOREM ProvisionedMeansRunningHolds ==
  ASSUME \A k \in Disruptions \cup {"lost", "edited"} : FaultBudget[k] = 0
  PROVE  Spec => []ProvisionedMeansRunning
  <1>1. Init => RunInv
    BY RunInit
  <1>2. RunInv => ProvisionedMeansRunning
    BY ProvisionedRuns
  <1> QED BY <1>1, <1>2, RunNext, PTL DEF Spec

----------------------------------------------------------------------------
(* Part 4: the life of a VM goes one way, as MachineLife promises it.      *)

TornDown(m) ==
  \E i \in DOMAIN tasks[m] : tasks[m][i].kind \in {"stop", "delete"}

\* m's reconcile is past the choice between provisioning and tear-down, and
\* has chosen provisioning.
Provisions(m) == pc[m] \notin {"idle"} \cup TeardownSteps

\* What m's task i tells of how far m's VM is: the VM is started before it is
\* stopped, and runs in between; a stop task is waited for, and a deletion
\* comes after one that has succeeded.
TaskOnward(m, i) ==
  /\ tasks[m][i].kind = "start" /\ TornDown(m) => tasks[m][i].status # "running"
  /\ /\ tasks[m][i].kind = "start" /\ tasks[m][i].status = "ok"
     /\ ~TornDown(m) /\ Owner(rec[m].vmid) = m
     => vm[rec[m].vmid].status = "running"
  /\ tasks[m][i].kind = "stop" /\ tasks[m][i].status = "running" =>
       pc[m] = "awaitStop" /\ work[m].task = i
  /\ tasks[m][i].kind = "delete" => Ended(m, "stop")

Onward(m) ==
  /\ wantsHA[m] <=> m \in HAMachines
  /\ phase[m] = "provisioned" => pc[m] = "idle"
  /\ Provisions(m) => ~TornDown(m)
  /\ \A i \in DOMAIN tasks[m] : TaskOnward(m, i)
  /\ pc[m] = "awaitStop" =>
       work[m].task \in DOMAIN tasks[m] /\ tasks[m][work[m].task].kind = "stop"
  /\ pc[m] = "delete" => Ended(m, "stop")

OnwardInv == RunInv /\ \A m \in Machines : Onward(m)

\* A step shows no change of m's VM.
SameGuest(m) == Guest(m)' = Guest(m) /\ (m \in Protected' <=> m \in Protected)

\* A step leaves m and its VM alone.
Untouched(m) ==
  /\ rec'[m] = rec[m] /\ phase'[m] = phase[m] /\ wantsHA'[m] = wantsHA[m]
  /\ pc'[m] = pc[m] /\ work'[m] = work[m] /\ tasks'[m] = tasks[m]
  /\ \A v \in VMIDs : Owner(v)' = m <=> Owner(v) = m
  /\ \A v \in VMIDs : Owner(v) = m =>
       vm'[v].status = vm[v].status /\ (v \in haRes' <=> v \in haRes)

OthersUntouched(m) == \A x \in Machines \ {m} : Untouched(x)

\* A step of MachineLife.
Lives == Life!Next \/ UNCHANGED Life!vars

LEMMA GuestStays ==
  ASSUME NEW m \in Machines,
         \A v \in VMIDs : Owner(v)' = m <=> Owner(v) = m,
         \A v \in VMIDs : Owner(v) = m => vm'[v].status = vm[v].status,
         Ended(m, "stop")' <=> Ended(m, "stop"),
         Ended(m, "delete")' <=> Ended(m, "delete")
  PROVE  Guest(m)' = Guest(m)
  <1>1. VMsOf(m)' = VMsOf(m)
    BY DEF VMsOf, Owner
  <1>2. (\E v \in VMsOf(m)' : vm'[v].status = "running")
          <=> (\E v \in VMsOf(m) : vm[v].status = "running")
    BY <1>1 DEF VMsOf, Owner
  <1> QED BY <1>1, <1>2 DEF Guest

LEMMA ProtectionStays ==
  ASSUME NEW m \in Machines,
         \A v \in VMIDs : Owner(v)' = m <=> Owner(v) = m,
         \A v \in VMIDs : Owner(v) = m => (v \in haRes' <=> v \in haRes)
  PROVE  m \in Protected' <=> m \in Protected
  BY DEF Protected, VMsOf, Owner

LEMMA UntouchedStays ==
  ASSUME RunInv, NEW m \in Machines, Onward(m), Untouched(m)
  PROVE  Onward(m)' /\ SameGuest(m)
  <1> USE DEF Untouched
  <1>1. /\ TornDown(m)' <=> TornDown(m)
        /\ Ended(m, "stop")' <=> Ended(m, "stop")
        /\ Ended(m, "delete")' <=> Ended(m, "delete")
    BY DEF TornDown, Ended
  <1>2. SameGuest(m)
    BY <1>1, GuestStays, ProtectionStays DEF SameGuest
  <1>3. ASSUME NEW i \in DOMAIN tasks'[m] PROVE TaskOnward(m, i)'
    <2>1. i \in DOMAIN tasks[m]
      OBVIOUS
    <2>2. TaskOnward(m, i)
      BY <2>1 DEF Onward
    <2>3. tasks[m][i].kind = "start" => rec[m].vmid \in VMIDs
      BY <2>1, TaskTyped DEF RunInv, TasksTell, LifeInv, TypeOK
    <2> QED BY <1>1, <2>1, <2>2, <2>3 DEF TaskOnward, Owner
  <1>4. Onward(m)'
    BY <1>1, <1>3 DEF Onward, Provisions
  <1> QED BY <1>2, <1>4

\* A step of m's reconcile, or of a task of m's.
LEMMA OneGoesOn ==
  ASSUME OnwardInv, NEW m \in Machines, OthersUntouched(m), Onward(m)'
  PROVE  /\ \A x \in Machines : Onward(x)'
         /\ \A x \in Machines \ {m} : SameGuest(x) /\ phase'[x] = phase[x]
  <1>1. ASSUME NEW x \in Machines \ {m}
        PROVE  Onward(x)' /\ SameGuest(x) /\ phase'[x] = phase[x]
    BY UntouchedStays DEF OnwardInv, OthersUntouched, Untouched
  <1> QED BY <1>1

----------------------------------------------------------------------------
(* The steps of MachineLife. *)

LEMMA NoLife ==
  ASSUME UNCHANGED phase, \A x \in Machines : SameGuest(x)
  PROVE  UNCHANGED Life!vars
  <1>1. Guests' = Guests /\ Protected' = Protected
    BY DEF Guests, Protected, SameGuest
  <1> QED BY <1>1 DEF Life!vars

LEMMA LifeGrows ==
  ASSUME UNCHANGED phase, NEW m \in Machines,
         \A x \in Machines \ {m} : SameGuest(x),
         m \in Protected' <=> m \in Protected,
         NEW from, NEW to, Guest(m) = from, Guest(m)' = to
  PROVE  Life!Grow(m, from, to)
  <1>1. Protected' = Protected
    BY DEF Protected, SameGuest
  <1>2. /\ Guests[m] = from
        /\ Guests' = [Guests EXCEPT ![m] = to]
    BY DEF Guests, SameGuest
  <1> QED BY <1>1, <1>2 DEF Life!Grow

\* The phase moves on while every VM stays as it is.
LEMMA LifeTurns ==
  ASSUME NEW m \in Machines, NEW p, phase' = [phase EXCEPT ![m] = p],
         \A x \in Machines : SameGuest(x),
         \/ /\ phase[m] = "provisioning" /\ p = "provisioned"
            /\ Guest(m) = "running" /\ (m \in HAMachines => m \in Protected)
         \/ phase[m] \in {"provisioning", "provisioned"} /\ p = "tearingDown"
         \/ /\ phase[m] = "tearingDown" /\ p = "gone"
            /\ Guest(m) \in {"none", "removed"} /\ m \notin Protected
  PROVE  Lives
  <1>1. Guests' = Guests /\ Protected' = Protected
    BY DEF Guests, Protected, SameGuest
  <1>2. Guests[m] = Guest(m)
    BY DEF Guests
  <1>3. Life!Finish(m) \/ Life!RequestTeardown(m) \/ Life!Leave(m)
    BY <1>1, <1>2 DEF Life!Finish, Life!RequestTeardown, Life!Leave,
       Life!MayTearDown
  <1> QED BY <1>3 DEF Lives, Life!Next, Life!Move

LEMMA LifeProtects ==
  ASSUME UNCHANGED phase, NEW m \in Machines,
         \A x \in Machines \ {m} : SameGuest(x),
         Guest(m)' = Guest(m),
         \/ /\ phase[m] \in {"provisioning", "tearingDown"}
            /\ m \in HAMachines /\ Guest(m) = "running" /\ m \in Protected'
         \/ phase[m] = "tearingDown" /\ m \notin Protected'
  PROVE  Lives
  <1>1. Guests' = Guests /\ Guests[m] = Guest(m)
    BY DEF Guests, SameGuest
  <1>2. CASE m \in Protected'
    <2>1. Protected' = Protected \cup {m}
      BY <1>2 DEF Protected, SameGuest
    <2>2. Life!Protect(m)
      BY <1>1, <1>2, <2>1 DEF Life!Protect, Life!MayProvision
    <2> QED BY <2>2 DEF Lives, Life!Next, Life!Move
  <1>3. CASE m \notin Protected'
    <2>1. Protected' = Protected \ {m}
      BY <1>3 DEF Protected, SameGuest
    <2>2. Life!Unprotect(m)
      BY <1>1, <1>3, <2>1 DEF Life!Unprotect
    <2> QED BY <2>2 DEF Lives, Life!Next, Life!Move
  <1> QED BY <1>2, <1>3

----------------------------------------------------------------------------
(* The steps of a reconcile that post no task and touch no VM.             *)

\* The life of m's VM and of every other goes on as it should.
GoesOn(m) ==
  /\ \A x \in Machines : Onward(x)' /\ Guest(x)' = Guest(x)
  /\ \A x \in Machines \ {m} : SameGuest(x)
  /\ UNCHANGED haRes => SameGuest(m)

LEMMA SteadyOnward ==
  ASSUME OnwardInv, NEW m \in Machines, OthersStay(m), UNCHANGED <<tasks, wantsHA>>,
         \A v \in VMIDs : Owner(v)' = Owner(v) /\ vm'[v].status = vm[v].status,
         \A v \in VMIDs : Owner(v) # m => (v \in haRes' <=> v \in haRes),
         \/ rec'[m].vmid = rec[m].vmid
         \/ \A i \in DOMAIN tasks[m] : tasks[m][i].kind # "start",
         \A i \in DOMAIN tasks[m] :
           tasks[m][i].kind = "stop" /\ tasks[m][i].status = "running" =>
             pc[m] # "awaitStop",
         phase'[m] = "provisioned" => pc'[m] = "idle",
         pc'[m] # "awaitStop",
         pc'[m] = "delete" => Ended(m, "stop"),
         Provisions(m)' => ~TornDown(m)
  PROVE  GoesOn(m)
  <1> USE DEF OnwardInv
  <1>1. OthersUntouched(m)
    BY DEF OthersUntouched, Untouched, OthersStay
  <1>2. /\ TornDown(m)' <=> TornDown(m)
        /\ Ended(m, "stop")' <=> Ended(m, "stop")
        /\ Ended(m, "delete")' <=> Ended(m, "delete")
    BY DEF TornDown, Ended
  <1>3. Guest(m)' = Guest(m)
    BY <1>2, GuestStays
  <1>4. UNCHANGED haRes => SameGuest(m)
    BY <1>3, ProtectionStays DEF SameGuest
  <1>5. ASSUME NEW i \in DOMAIN tasks[m] PROVE TaskOnward(m, i)'
    <2>1. TaskOnward(m, i)
      BY DEF Onward
    <2>2. tasks[m][i].kind = "start" => rec[m].vmid \in VMIDs
      BY TaskTyped DEF RunInv, TasksTell, LifeInv, TypeOK
    <2> QED BY <1>2, <2>1, <2>2 DEF TaskOnward, Owner
  <1>6. Onward(m)'
    BY <1>2, <1>5 DEF Onward
  <1>7. /\ \A x \in Machines : Onward(x)'
        /\ \A x \in Machines \ {m} : SameGuest(x) /\ phase'[x] = phase[x]
    BY <1>1, <1>6, OneGoesOn
  <1> QED BY <1>3, <1>4, <1>7 DEF GoesOn, SameGuest

\* A reconcile that provisions comes to no step of the tear-down.
LEMMA QuietProvisionOnward ==
  ASSUME OnwardInv, NEW m \in Machines,
         \/ PickNode(m) \/ CheckCreateTask(m) \/ NextID(m) \/ CommitCreate(m)
         \/ CheckStartTask(m) \/ CommitStart(m) \/ CommitRegister(m)
         \/ SyncHARules(m)
  PROVE  GoesOn(m) /\ UNCHANGED haRes
  <1> USE DEF omniVars, proxmoxVars, OnwardInv, RunInv
  <1>1. UNCHANGED <<wantsHA, vm, tasks, haRes>>
    BY DEF PickNode, CheckCreateTask, NextID, CommitCreate, CheckStartTask,
       CommitStart, CommitRegister, SyncHARules
  <1>2. /\ \A x \in Machines \ {m} : pc'[x] = pc[x] /\ work'[x] = work[x]
        /\ pc[m] \notin TeardownSteps /\ pc'[m] \notin TeardownSteps
    BY DEF PickNode, CheckCreateTask, NextID, CommitCreate, CheckStartTask,
       CommitStart, CommitRegister, SyncHARules, Goto, EndReconcile, LifeInv,
       TypeOK, Typed, TeardownSteps
  <1>3. /\ \A x \in Machines \ {m} : rec'[x] = rec[x]
        /\ rec'[m].vmid = rec[m].vmid \/ CommitCreate(m)
    BY DEF PickNode, CheckCreateTask, NextID, CommitCreate, CheckStartTask,
       CommitStart, CommitRegister, SyncHARules, LifeInv, TypeOK, Typed,
       MachineSpec
  <1>4. CommitCreate(m) => \A i \in DOMAIN tasks[m] : tasks[m][i].kind # "start"
    BY NothingBefore DEF CommitCreate, InCreate
  <1>5. \A x \in Machines \ {m} : phase'[x] = phase[x]
    BY DEF PickNode, CheckCreateTask, NextID, CommitCreate, CheckStartTask,
       CommitStart, CommitRegister, SyncHARules, LifeInv, TypeOK, Typed
  <1>6. ~TornDown(m)
    <2>1. PickNode(m) => InUse(m)
      BY DEF PickNode, InUse
    <2>2. InUse(m) => ~TornDown(m)
      BY DEF TornDown, TasksTell
    <2>3. ~PickNode(m) => Provisions(m)
      BY <1>2 DEF CheckCreateTask, NextID, CommitCreate, CheckStartTask,
         CommitStart, CommitRegister, SyncHARules, Provisions
    <2> QED BY <2>1, <2>2, <2>3 DEF Onward
  <1>7. OthersStay(m)
    BY <1>2, <1>3, <1>5 DEF OthersStay
  <1>8. phase'[m] = "provisioned" => pc'[m] = "idle"
    <2>1. SyncHARules(m) => pc'[m] = "idle"
      BY EndReconcileTyped DEF SyncHARules, LifeInv, TypeOK
    <2>2. ~SyncHARules(m) => UNCHANGED phase /\ (phase[m] = "provisioned" => FALSE)
      BY DEF PickNode, CheckCreateTask, NextID, CommitCreate, CheckStartTask,
         CommitStart, CommitRegister, Onward
    <2> QED BY <2>1, <2>2
  <1>9. GoesOn(m)
    BY <1>1, <1>2, <1>3, <1>4, <1>6, <1>7, <1>8, SteadyOnward DEF Owner, TeardownSteps
  <1> QED BY <1>1, <1>9

\* The VM of a machine whose start task has succeeded runs while nobody has
\* asked for its tear-down, be it that of a reconcile that is in progress.
LEMMA StartedRuns ==
  ASSUME OnwardInv, NEW m \in Machines, pc[m] \in AfterStart
  PROVE  /\ Guest(m) = "running"
         /\ rec[m].vmid \in VMIDs /\ Owner(rec[m].vmid) = m
  <1> USE DEF OnwardInv, RunInv
  <1>1. Provisions(m) /\ rec[m].vmid # 0
    BY DEF Provisions, TeardownSteps, AfterStart, LifeInv, TypeOK, VMIDKnown
  <1>2. rec[m].vmid \in VMIDs /\ Owner(rec[m].vmid) = m
    BY <1>1, InUseOwns DEF Provisions, TeardownSteps
  <1>3. PICK i \in DOMAIN tasks[m] :
          tasks[m][i].kind = "start" /\ tasks[m][i].status = "ok"
    BY DEF LifeInv, Ordered, RecordOrdered, ReconcileOrdered, IsTask, Done
  <1>4. TaskOnward(m, i) /\ ~TornDown(m)
    BY <1>1 DEF Onward
  <1>5. vm[rec[m].vmid].status = "running"
    BY <1>2, <1>3, <1>4 DEF TaskOnward
  <1>6. rec[m].vmid \in VMsOf(m)
    BY <1>2 DEF VMsOf, Owner
  <1> QED BY <1>2, <1>5, <1>6 DEF Guest

LEMMA QuietProvisionLives ==
  ASSUME OnwardInv, NEW m \in Machines,
         \/ PickNode(m) \/ CheckCreateTask(m) \/ NextID(m) \/ CommitCreate(m)
         \/ CheckStartTask(m) \/ CommitStart(m) \/ CommitRegister(m)
         \/ SyncHARules(m)
  PROVE  Lives
  <1> USE DEF omniVars, proxmoxVars, OnwardInv, RunInv
  <1>1. \A x \in Machines : SameGuest(x)
    BY QuietProvisionOnward DEF GoesOn
  <1>2. CASE UNCHANGED phase
    BY <1>1, <1>2, NoLife DEF Lives
  <1>3. CASE ~UNCHANGED phase
    <2>1. SyncHARules(m)
      BY <1>3 DEF PickNode, CheckCreateTask, NextID, CommitCreate,
         CheckStartTask, CommitStart, CommitRegister
    <2>2. /\ phase[m] = "provisioning" /\ ~HAConfigRefused(m)
          /\ phase' = [phase EXCEPT ![m] = "provisioned"]
          /\ pc[m] = "syncHARules"
      BY <1>3, <2>1 DEF SyncHARules, LifeInv, TypeOK, Typed
    <2>3. /\ Guest(m) = "running"
          /\ rec[m].vmid \in VMIDs /\ Owner(rec[m].vmid) = m
      BY <2>2, StartedRuns DEF AfterStart
    <2>4. ASSUME m \in HAMachines PROVE m \in Protected
      <3>1. wantsHA[m] /\ HAKept(m)
        BY <2>4 DEF Onward
      <3>2. rec[m].vmid \in haRes
        BY <2>2, <3>1 DEF HAKept, InUse
      <3> QED BY <2>3, <3>2 DEF Protected, VMsOf, Owner
    <2> QED BY <1>1, <2>2, <2>3, <2>4, LifeTurns
  <1> QED BY <1>2, <1>3

LEMMA InjectConfigOnward ==
  ASSUME OnwardInv, NEW m \in Machines, InjectConfig(m)
  PROVE  GoesOn(m) /\ Lives
  <1> USE DEF omniVars, OnwardInv, RunInv
  <1>1. /\ pc[m] = "startVM" /\ UNCHANGED <<phase, rec, wantsHA, tasks, haRes>>
        /\ rec[m].vmid \in VMIDs
    BY DEF InjectConfig, LifeInv, TypeOK, Typed, VMIDKnown, MachineSpec
  <1>2. \A v \in VMIDs : vm'[v].owner = vm[v].owner /\ vm'[v].status = vm[v].status
    <2>1. CASE vm' = [vm EXCEPT ![rec[m].vmid].joins = m]
      BY <1>1, <2>1 DEF LifeInv, TypeOK, Typed, VM
    <2> QED BY <2>1 DEF InjectConfig
  <1>3. /\ \A x \in Machines \ {m} : pc'[x] = pc[x] /\ work'[x] = work[x]
        /\ pc'[m] \notin TeardownSteps
    <2>1. EndReconcile(m) \/ (Goto(m, "start") /\ UNCHANGED work)
      BY DEF InjectConfig
    <2> QED BY <2>1 DEF Goto, EndReconcile, LifeInv, TypeOK, Typed,
               TeardownSteps
  <1>4. OthersStay(m) /\ ~TornDown(m) /\ phase[m] # "provisioned"
    BY <1>1, <1>3 DEF OthersStay, Onward, Provisions, TeardownSteps
  <1>5. GoesOn(m)
    BY <1>1, <1>2, <1>3, <1>4, SteadyOnward DEF Owner, TeardownSteps
  <1>6. \A x \in Machines : SameGuest(x)
    BY <1>1, <1>5 DEF GoesOn
  <1> QED BY <1>1, <1>5, <1>6, NoLife DEF Lives

\* HA protects a VM that runs ...
LEMMA RegisterHAOnward ==
  ASSUME OnwardInv, NEW m \in Machines, RegisterHA(m)
  PROVE  GoesOn(m) /\ Lives
  <1> USE DEF omniVars, OnwardInv, RunInv
  <1>1. /\ pc[m] = "registerHA" /\ UNCHANGED <<phase, rec, wantsHA, vm, tasks>>
        /\ Guest(m) = "running"
        /\ rec[m].vmid \in VMIDs /\ Owner(rec[m].vmid) = m
    BY StartedRuns DEF RegisterHA, AfterStart
  <1>2. /\ \A x \in Machines \ {m} : pc'[x] = pc[x] /\ work'[x] = work[x]
        /\ pc'[m] \in {"idle", "registered", "syncHARules"}
    BY DEF RegisterHA, Goto, EndReconcile, LifeInv, TypeOK, Typed
  <1>3. OthersStay(m) /\ ~TornDown(m) /\ phase[m] # "provisioned"
    BY <1>1, <1>2 DEF OthersStay, Onward, Provisions, TeardownSteps
  <1>4. \/ UNCHANGED haRes
        \/ wantsHA[m] /\ haRes' = haRes \cup {rec[m].vmid}
    BY DEF RegisterHA
  <1>5. GoesOn(m)
    BY <1>1, <1>2, <1>3, <1>4, SteadyOnward DEF Owner
  <1>6. CASE UNCHANGED haRes
    <2>1. \A x \in Machines : SameGuest(x)
      BY <1>5, <1>6 DEF GoesOn
    <2> QED BY <1>1, <1>5, <2>1, NoLife DEF Lives
  <1>7. CASE wantsHA[m] /\ haRes' = haRes \cup {rec[m].vmid}
    <2>1. m \in Protected' /\ m \in HAMachines
      BY <1>1, <1>7 DEF Protected, VMsOf, Owner, Onward
    <2>2. phase[m] \in {"provisioning", "tearingDown"}
      <3>1. phase[m] # "gone"
        BY <1>1 DEF LifeInv, KnownInv, InPhase
      <3> QED BY <1>3, <3>1 DEF LifeInv, TypeOK, Typed, Phases
    <2> QED BY <1>1, <1>5, <2>1, <2>2, LifeProtects DEF GoesOn
  <1> QED BY <1>4, <1>6, <1>7

\* ... and Deprovision ends the protection before it looks for the VM.
LEMMA TeardownHAOnward ==
  ASSUME OnwardInv, NEW m \in Machines, TeardownHA(m)
  PROVE  GoesOn(m) /\ Lives
  <1> USE DEF omniVars, OnwardInv, RunInv
  <1>1. /\ pc[m] = "teardownHA" /\ phase[m] = "tearingDown"
        /\ UNCHANGED <<phase, rec, work, wantsHA, vm, tasks>>
        /\ haRes' = haRes \ {rec[m].vmid}
    BY DEF TeardownHA, LifeInv, KnownInv, InPhase, TeardownSteps
  <1>2. pc'[m] = "listNodes" /\ \A x \in Machines \ {m} : pc'[x] = pc[x]
    BY DEF TeardownHA, Goto, LifeInv, TypeOK, Typed
  <1>3. rec[m].vmid # 0
    BY <1>1 DEF LifeInv, TypeOK, VMIDKnown
  <1>4. rec[m].vmid \in VMIDs /\ Owner(rec[m].vmid) = m
    BY <1>1, <1>3, InUseOwns
  <1>5. OthersStay(m)
    BY <1>1, <1>2 DEF OthersStay
  <1>6. GoesOn(m)
    BY <1>1, <1>2, <1>4, <1>5, SteadyOnward DEF Owner, Provisions, TeardownSteps
  <1>7. m \notin Protected'
    <2>1. ASSUME NEW v \in VMIDs, Owner(v) = m PROVE v = rec[m].vmid
      BY <1>1, <2>1 DEF LifeInv, KnownInv, Named, Names
    <2> QED BY <1>1, <2>1 DEF Protected, VMsOf, Owner
  <1> QED BY <1>1, <1>6, <1>7, LifeProtects DEF GoesOn

\* The task that StopVM waits for ends before the wait does, and well.
LEMMA AwaitedStops ==
  ASSUME OnwardInv, NEW m \in Machines, pc[m] = "awaitStop", AwaitStop(m)
  PROVE  /\ \A i \in DOMAIN tasks[m] :
              ~(tasks[m][i].kind = "stop" /\ tasks[m][i].status = "running")
         /\ pc'[m] = "delete" => Ended(m, "stop")
  <1> USE DEF OnwardInv, RunInv
  <1>1. /\ work[m].task \in DOMAIN tasks[m]
        /\ tasks[m][work[m].task].kind = "stop"
    BY DEF Onward
  <1>2. work[m].node \in online
    <2>1. rec[m].vmid # 0
      BY DEF LifeInv, TypeOK, VMIDKnown
    <2>2. rec[m].vmid \in VMIDs /\ Owner(rec[m].vmid) = m
      BY <2>1, InUseOwns
    <2>3. At(m, rec[m].vmid)
      BY <2>2 DEF LifeInv, TrackInv, Tracked
    <2> QED BY <2>3 DEF At, Addressing, LifeInv, Undisturbed, OwnInv, Undisrupted
  <1>3. \/ TaskStatus(m, work[m].task) = "ok"
        \/ TaskStatus(m, work[m].task) = "failed" /\ EndReconcile(m)
    BY <1>2 DEF AwaitStop, PingedAs, AwaitedFails
  <1>4. \A i \in DOMAIN tasks[m] :
          ~(tasks[m][i].kind = "stop" /\ tasks[m][i].status = "running")
    BY <1>3 DEF Onward, TaskOnward, TaskStatus
  <1>5. EndReconcile(m) => pc'[m] = "idle"
    BY EndReconcileTyped DEF LifeInv, TypeOK
  <1> QED BY <1>1, <1>3, <1>4, <1>5 DEF Ended, TaskStatus

\* A machine leaves only when no VM of it is there.
LEMMA QuietDeprovisionOnward ==
  ASSUME OnwardInv, NEW m \in Machines, Deprovision(m), ~TeardownHA(m),
         UNCHANGED tasks
  PROVE  GoesOn(m) /\ Lives
  <1> USE DEF omniVars, proxmoxVars, OnwardInv, RunInv
  <1>1. UNCHANGED <<wantsHA, haRes>>
    BY DEF Deprovision, BeginDeprovision, ListNodes, ScanNode, FindNothing,
       GetVM, StopVM, AwaitStop, DeleteVM, AwaitDelete, Request
  <1>2. /\ UNCHANGED <<rec, vm>> /\ OthersStay(m)
        /\ phase[m] = "tearingDown"
    BY DeprovisionTouches DEF OnlyOf
  <1>3. UNCHANGED phase \/ Gone(m)
    BY DEF Deprovision, BeginDeprovision, ListNodes, ScanNode, FindNothing,
       GetVM, StopVM, AwaitStop, DeleteVM, AwaitDelete, Request
  <1>4. phase'[m] \in {"tearingDown", "gone"}
    BY <1>2, <1>3 DEF Gone, LifeInv, TypeOK, Typed
  <1>5. /\ pc'[m] \in TeardownSteps \cup {"idle"}
        /\ pc'[m] = "delete" => AwaitStop(m)
        /\ pc[m] = "awaitStop" => AwaitStop(m)
        /\ pc'[m] # "awaitStop" \/ StopVM(m)
    BY DEF Deprovision, BeginDeprovision, ListNodes, ScanNode, FindNothing,
       GetVM, StopVM, AwaitStop, DeleteVM, AwaitDelete, Request, Gone,
       EndReconcile, Goto, TeardownSteps, LifeInv, TypeOK, Typed
  <1>6. pc'[m] # "awaitStop"
    <2> SUFFICES ASSUME StopVM(m) PROVE pc'[m] # "awaitStop"
      BY <1>5
    <2>1. rec[m].vmid # 0
      BY DEF StopVM, Request, LifeInv, TypeOK, VMIDKnown
    <2>2. PICK v \in VMIDs : v = rec[m].vmid
      BY <2>1 DEF LifeInv, TypeOK, Typed, MachineSpec
    <2>3. ~Post(m, "stop", v)
      <3>1. "stop" \in TaskKinds
        BY DEF TaskKinds
      <3> QED BY <3>1, PostAppends DEF LifeInv, TypeOK
    <2>4. EndReconcile(m)
      BY <2>2, <2>3 DEF StopVM, Request
    <2> QED BY <2>4, EndReconcileTyped DEF LifeInv, TypeOK
  <1>7. /\ pc'[m] = "delete" => Ended(m, "stop")
        /\ \A i \in DOMAIN tasks[m] :
             tasks[m][i].kind = "stop" /\ tasks[m][i].status = "running" =>
               pc[m] # "awaitStop"
    <2>1. AwaitStop(m) => pc[m] = "awaitStop"
      BY DEF AwaitStop
    <2> QED BY <1>5, <2>1, AwaitedStops
  <1>8. GoesOn(m)
    BY <1>1, <1>2, <1>4, <1>5, <1>6, <1>7, SteadyOnward DEF Owner, Provisions
  <1>9. \A x \in Machines : SameGuest(x)
    BY <1>1, <1>8 DEF GoesOn
  <1>10. CASE UNCHANGED phase
    BY <1>8, <1>9, <1>10, NoLife DEF Lives
  <1>11. CASE Gone(m)
    <2>1. phase' = [phase EXCEPT ![m] = "gone"]
      BY <1>11 DEF Gone
    <2>2. Tracked(m)' /\ phase'[m] = "gone"
      BY <1>11, <2>1, GoneTracked DEF TrackInv, LifeInv, TypeOK, Typed
    <2>3. \A v \in VMIDs : Owner(v) # m
      BY <1>2, <2>2 DEF Tracked, At, Owner
    <2>4. VMsOf(m) = {}
      BY <2>3 DEF VMsOf, Owner
    <2>5. Guest(m) \in {"none", "removed"} /\ m \notin Protected
      BY <2>4 DEF Guest, Protected
    <2> QED BY <1>2, <1>8, <1>9, <2>1, <2>5, LifeTurns
  <1> QED BY <1>3, <1>10, <1>11

----------------------------------------------------------------------------
(* The steps that post a task.                                             *)

\* A start is requested before any stop, a stop is waited for, and a deletion
\* comes after a stop; none of them while another task of m runs.
LEMMA PostOnward ==
  ASSUME OnwardInv, NEW m \in Machines,
         NEW kind \in {"start", "stop", "delete"},
         NEW step \in {"started", "awaitStop", "awaitDelete"},
         pc[m] = kind,
         step = "awaitStop" <=> kind = "stop",
         step = "started" <=> kind = "start",
         ~IsLocked(rec[m].vmid), Post(m, kind, rec[m].vmid), Goto(m, step),
         work' = [work EXCEPT ![m].task = NextUPID(m)],
         UNCHANGED <<phase, rec, wantsHA, vm, haRes>>
  PROVE  GoesOn(m) /\ Lives
  <1> USE DEF OnwardInv, RunInv
  <1>1. rec[m].vmid # 0 /\ phase[m] # "provisioned"
    BY DEF LifeInv, TypeOK, VMIDKnown, Onward
  <1>2. PICK v \in VMIDs : v = rec[m].vmid /\ Owner(v) = m
    BY <1>1, InUseOwns
  <1>3. /\ pc'[m] = step /\ work'[m].task = NextUPID(m)
        /\ \A x \in Machines \ {m} : work'[x] = work[x] /\ pc'[x] = pc[x]
    BY DEF Goto, LifeInv, TypeOK, Typed, Locals
  <1> DEFINE n == NextUPID(m)
  <1>4. /\ \A x \in Machines \ {m} : tasks'[x] = tasks[x]
        /\ DOMAIN tasks'[m] = DOMAIN tasks[m] \cup {n}
        /\ \A i \in DOMAIN tasks[m] : tasks'[m][i] = tasks[m][i]
        /\ tasks'[m][n].kind = kind /\ tasks'[m][n].status = "running"
    BY <1>2, PostAppends DEF LifeInv, TypeOK, TaskKinds
  <1>5. work'[m].task = n
    BY <1>3
  <1> HIDE DEF n
  <1>6. OthersUntouched(m)
    BY <1>3, <1>4 DEF OthersUntouched, Untouched, Owner
  <1>7. ASSUME NEW i \in DOMAIN tasks[m] PROVE tasks[m][i].status # "running"
    <2> SUFFICES ASSUME tasks[m][i].status = "running" PROVE FALSE
      OBVIOUS
    <2>1. tasks[m][i].vmid \in VMIDs /\ Owner(tasks[m][i].vmid) = m
      BY TaskTyped DEF LifeInv, TypeOK, TasksTell
    <2>2. tasks[m][i].vmid = rec[m].vmid
      BY <2>1 DEF LifeInv, KnownInv, Named, Names
    <2> QED BY <2>2 DEF IsLocked
  <1>8. /\ TornDown(m)' <=> (TornDown(m) \/ kind # "start")
        /\ Ended(m, "stop")' <=> Ended(m, "stop")
        /\ Ended(m, "delete")' <=> Ended(m, "delete")
    BY <1>4 DEF TornDown, Ended
  <1>9. /\ kind = "start" => ~TornDown(m)
        /\ kind = "delete" => Ended(m, "stop")
    BY DEF Onward, Provisions, TeardownSteps
  <1>10. ASSUME NEW i \in DOMAIN tasks'[m] PROVE TaskOnward(m, i)'
    <2>1. CASE i \in DOMAIN tasks[m]
      <3>1. /\ TaskOnward(m, i) /\ tasks'[m][i] = tasks[m][i]
            /\ tasks[m][i].status # "running"
        BY <1>4, <1>7, <2>1 DEF Onward
      <3> QED BY <1>2, <1>8, <3>1 DEF TaskOnward, Owner
    <2>2. CASE i = n
      BY <1>3, <1>4, <1>5, <1>8, <1>9, <2>2 DEF TaskOnward
    <2> QED BY <1>4, <2>1, <2>2
  <1>11. Onward(m)'
    BY <1>1, <1>3, <1>4, <1>5, <1>8, <1>9, <1>10 DEF Onward, Provisions, TeardownSteps
  <1>12. SameGuest(m)
    BY <1>8, GuestStays, ProtectionStays DEF SameGuest, Owner
  <1>13. /\ \A x \in Machines : Onward(x)'
         /\ \A x \in Machines : SameGuest(x)
    BY <1>6, <1>11, <1>12, OneGoesOn
  <1> QED BY <1>13, NoLife DEF GoesOn, SameGuest, Lives

LEMMA RequestsGoOn ==
  ASSUME OnwardInv, NEW m \in Machines, StartVM(m) \/ StopVM(m) \/ DeleteVM(m)
  PROVE  GoesOn(m) /\ Lives
  <1> USE DEF omniVars, OnwardInv, RunInv
  <1>1. UNCHANGED <<phase, rec, wantsHA, vm, haRes>>
    BY DEF StartVM, StopVM, DeleteVM, Request
  <1>2. CASE EndReconcile(m) /\ UNCHANGED tasks
    <2>1. OthersStay(m) /\ pc'[m] = "idle"
      BY <1>1, <1>2, EndReconcileTyped DEF OthersStay, LifeInv, TypeOK
    <2>2. pc[m] # "awaitStop"
      BY DEF StartVM, StopVM, DeleteVM, Request
    <2>3. GoesOn(m)
      BY <1>1, <1>2, <2>1, <2>2, SteadyOnward DEF Owner, Provisions
    <2>4. \A x \in Machines : SameGuest(x)
      BY <1>1, <2>3 DEF GoesOn
    <2> QED BY <1>1, <2>3, <2>4, NoLife DEF Lives
  <1>3. CASE ~(EndReconcile(m) /\ UNCHANGED tasks)
    <2>1. ~IsLocked(rec[m].vmid)
      BY <1>3 DEF StartVM, StopVM, DeleteVM, Request, Accepts
    <2>2. work' = [work EXCEPT ![m].task = NextUPID(m)]
      BY <1>3 DEF StartVM, StopVM, DeleteVM, Request
    <2>3. CASE StartVM(m)
      <3>1. /\ Post(m, "start", rec[m].vmid) /\ Goto(m, "started")
            /\ pc[m] = "start"
        BY <1>3, <2>3 DEF StartVM
      <3> QED BY <1>1, <2>1, <2>2, <3>1, PostOnward
    <2>4. CASE StopVM(m)
      <3>1. /\ Post(m, "stop", rec[m].vmid) /\ Goto(m, "awaitStop")
            /\ pc[m] = "stop"
        BY <1>3, <2>4 DEF StopVM, Request
      <3> QED BY <1>1, <2>1, <2>2, <3>1, PostOnward
    <2>5. CASE DeleteVM(m)
      <3>1. /\ Post(m, "delete", rec[m].vmid) /\ Goto(m, "awaitDelete")
            /\ pc[m] = "delete"
        BY <1>3, <2>5 DEF DeleteVM, Request
      <3> QED BY <1>1, <2>1, <2>2, <3>1, PostOnward
    <2> QED BY <2>3, <2>4, <2>5
  <1> QED BY <1>2, <1>3

\* A VM is made for a machine that has had none.
LEMMA CreateVMOnward ==
  ASSUME OnwardInv, NEW m \in Machines, CreateVM(m)
  PROVE  (\A x \in Machines : Onward(x)') /\ Lives
  <1> USE DEF omniVars, OnwardInv, RunInv
  <1>0. PICK v \in VMIDs : v = work[m].vmid
    BY DEF CreateVM, LifeInv, TypeOK, Typed, VMIDKnown, Locals
  <1>1. pc[m] = "create" /\ UNCHANGED <<phase, rec, wantsHA, haRes>>
    BY DEF CreateVM
  <1>2. /\ rec[m].vmid = 0 /\ phase[m] \notin {"gone", "provisioned"}
        /\ \A i \in DOMAIN tasks[m] : /\ tasks[m][i].kind # "start"
                                      /\ tasks[m][i].status # "running"
        /\ ~TornDown(m)
    BY <1>1, NothingBefore DEF InCreate, Onward, Provisions, TeardownSteps
  <1>3. CASE EndReconcile(m) /\ UNCHANGED <<vm, tasks>>
    <2>1. OthersStay(m) /\ pc'[m] = "idle"
      BY <1>1, <1>3, EndReconcileTyped DEF OthersStay, LifeInv, TypeOK
    <2>2. GoesOn(m)
      BY <1>1, <1>2, <1>3, <2>1, SteadyOnward DEF Owner, Provisions
    <2>3. \A x \in Machines : SameGuest(x)
      BY <1>1, <2>2 DEF GoesOn
    <2> QED BY <1>1, <2>2, <2>3, NoLife DEF GoesOn, Lives
  <1>4. CASE /\ AcceptsCreate(m, v, rec[m].node)
             /\ vm' = [vm EXCEPT ![v] = [status |-> "stopped",
                         node |-> rec[m].node, owner |-> m,
                         joins |-> NoMachine]]
             /\ Post(m, "create", v)
             /\ work' = [work EXCEPT ![m].task = NextUPID(m)]
             /\ Goto(m, "created")
    <2>1. Owner(v) = NoMachine
      BY <1>4 DEF AcceptsCreate, LifeInv, Undisturbed, OwnInv, FreeUnowned
    <2>2. /\ vm'[v].owner = m /\ vm'[v].status = "stopped"
          /\ \A u \in VMIDs \ {v} : vm'[u] = vm[u]
      BY <1>4 DEF LifeInv, TypeOK, Typed
    <2>3. /\ pc'[m] = "created"
          /\ \A x \in Machines \ {m} : work'[x] = work[x] /\ pc'[x] = pc[x]
      BY <1>4 DEF Goto, LifeInv, TypeOK, Typed, Locals
    <2> DEFINE n == NextUPID(m)
    <2>4. /\ \A x \in Machines \ {m} : tasks'[x] = tasks[x]
          /\ DOMAIN tasks'[m] = DOMAIN tasks[m] \cup {n}
          /\ \A i \in DOMAIN tasks[m] : tasks'[m][i] = tasks[m][i]
          /\ tasks'[m][n].kind = "create"
      BY <1>4, PostAppends DEF LifeInv, TypeOK, TaskKinds
    <2> HIDE DEF n
    <2>5. OthersUntouched(m)
      BY <1>1, <2>1, <2>2, <2>3, <2>4, NoMachineAssumption
         DEF OthersUntouched, Untouched, Owner
    <2>6. \A i \in DOMAIN tasks'[m] :
            tasks'[m][i].kind \notin {"start", "stop", "delete"}
      BY <1>2, <2>4 DEF TornDown
    <2>7. ~TornDown(m)' /\ ~Ended(m, "stop")' /\ ~Ended(m, "delete")
      BY <1>2, <2>6 DEF TornDown, Ended
    <2>8. Onward(m)'
      BY <1>1, <1>2, <2>3, <2>6, <2>7 DEF Onward, TaskOnward
    <2>9. VMsOf(m) = {}
      <3>1. \A u \in VMIDs : Owner(u) # m
        BY <1>1, <1>2, VMIDsAssumption DEF LifeInv, KnownInv, Named, Names
      <3> QED BY <3>1 DEF VMsOf, Owner
    <2>10. VMsOf(m)' = {v}
      BY <2>2, <2>9 DEF VMsOf
    <2>11. Guest(m) = "none" /\ Guest(m)' = "made"
      <3>1. v \in VMsOf(m)'
        BY <2>10
      <3>2. ~ \E u \in VMsOf(m)' : vm'[u].status = "running"
        BY <2>2, <2>10
      <3> QED BY <2>7, <2>9, <3>1, <3>2 DEF Guest
    <2>12. v \notin haRes
      BY <2>1, RegistrarOwns, NoMachineAssumption
    <2>13. m \notin Protected' /\ m \notin Protected
      BY <1>1, <2>9, <2>10, <2>12 DEF Protected
    <2>14. /\ \A x \in Machines : Onward(x)'
           /\ \A x \in Machines \ {m} : SameGuest(x)
      BY <2>5, <2>8, OneGoesOn
    <2>15. Life!Grow(m, "none", "made")
      BY <1>1, <2>11, <2>13, <2>14, LifeGrows
    <2>16. Life!Make(m)
      BY <1>2, <2>15 DEF Life!Make, Life!MayProvision, LifeInv, TypeOK, Typed,
         Phases
    <2> QED BY <2>14, <2>16 DEF Lives, Life!Next, Life!Move
  <1> QED BY <1>0, <1>3, <1>4 DEF CreateVM

----------------------------------------------------------------------------
(* Proxmox ends a task.                                                    *)

LEMMA OnlyVM ==
  ASSUME LifeInv, NEW m \in Machines, NEW v \in VMIDs, Owner(v) = m
  PROVE  VMsOf(m) = {v}
  <1>1. ASSUME NEW u \in VMIDs, Owner(u) = m PROVE u = v
    <2>1. Names(m, u) /\ Names(m, v) /\ u # 0 /\ v # 0
      BY <1>1, VMIDsAssumption DEF LifeInv, KnownInv, Named
    <2>2. pc[m] = "created" => rec[m].vmid = 0
      BY DEF LifeInv, Ordered, RecordOrdered, ReconcileOrdered, InCreate
    <2> QED BY <2>1, <2>2 DEF Names
  <1> QED BY <1>1 DEF VMsOf, Owner

\* What the end of m's task i does to m's VM v.
EndsWell(m, i, v, status) ==
  \/ /\ vm' = vm
     /\ tasks[m][i].kind # "stop"
     /\ tasks[m][i].kind \in {"start", "delete"} => status = "failed"
  \/ /\ tasks[m][i].kind = "start" /\ status = "ok"
     /\ vm[v].status = "stopped"
     /\ vm' = [vm EXCEPT ![v].status = "running"]
  \/ /\ tasks[m][i].kind = "stop" /\ status = "ok"
     /\ vm' = [vm EXCEPT ![v].status = "stopped"]
  \/ /\ tasks[m][i].kind = "delete" /\ status = "ok"
     /\ vm[v].status = "stopped"
     /\ vm' = [vm EXCEPT ![v] = NoVM]

LEMMA TaskEndsOnward ==
  ASSUME OnwardInv, NEW m \in Machines, TaskEnds(m)
  PROVE  (\A x \in Machines : Onward(x)') /\ Lives
  <1> USE DEF omniVars, controlVars, OnwardInv, RunInv
  <1>1. UNCHANGED <<phase, rec, wantsHA, pc, work, haRes>>
    BY DEF TaskEnds
  <1>2. PICK i \in DOMAIN tasks[m] :
          \/ CreateTaskEnds(m, i) \/ StartTaskEnds(m, i)
          \/ StopTaskEnds(m, i) \/ DeleteTaskEnds(m, i)
    BY DEF TaskEnds
  <1>3. tasks[m][i].status = "running"
    BY <1>2 DEF CreateTaskEnds, StartTaskEnds, StopTaskEnds, DeleteTaskEnds,
                Running
  <1>4. PICK v \in VMIDs : v = tasks[m][i].vmid /\ v # 0 /\ Owner(v) = m
    BY <1>3, TaskTyped DEF TasksTell, LifeInv, TypeOK
  <1>5. PICK status \in {"ok", "failed"} :
          EndTask(m, i, status) /\ EndsWell(m, i, v, status)
    <2>1. ~Spend("createFails")
      BY DEF LifeInv, Undisturbed, OwnInv, Undisrupted, Disruptions, Spend
    <2> QED BY <1>2, <1>4, <2>1 DEF CreateTaskEnds, StartTaskEnds,
               StopTaskEnds, DeleteTaskEnds, Running, EndsWell
  <1>6. /\ \A x \in Machines \ {m} : tasks'[x] = tasks[x]
        /\ DOMAIN tasks'[m] = DOMAIN tasks[m]
        /\ \A j \in DOMAIN tasks[m] :
             /\ tasks'[m][j].kind = tasks[m][j].kind
             /\ tasks'[m][j].status = IF j = i THEN status
                                      ELSE tasks[m][j].status
    BY <1>5, EndTaskEnds DEF LifeInv, TypeOK
  <1>7. /\ \A u \in VMIDs \ {v} : vm'[u] = vm[u]
        /\ \/ tasks[m][i].kind = "delete" /\ status = "ok"
              /\ vm'[v].owner = NoMachine
           \/ /\ vm'[v].owner = m
              /\ tasks[m][i].kind # "stop" =>
                   vm'[v].status \in {vm[v].status, "running"}
              /\ tasks[m][i].kind = "start" /\ status = "ok" =>
                   vm'[v].status = "running"
              /\ tasks[m][i].kind = "stop" => vm'[v].status = "stopped"
    <2>1. CASE vm' = vm /\ tasks[m][i].kind # "stop"
               /\ (tasks[m][i].kind = "start" => status = "failed")
      BY <1>4, <2>1 DEF Owner
    <2>2. ASSUME NEW s \in {"running", "stopped"},
                 vm' = [vm EXCEPT ![v].status = s]
          PROVE  /\ \A u \in VMIDs \ {v} : vm'[u] = vm[u]
                 /\ vm'[v].owner = m /\ vm'[v].status = s
      BY <1>4, <2>2 DEF Owner, LifeInv, TypeOK, Typed, VM
    <2>3. CASE tasks[m][i].kind = "delete" /\ status = "ok"
               /\ vm' = [vm EXCEPT ![v] = NoVM]
      BY <2>3 DEF NoVM, LifeInv, TypeOK, Typed
    <2>4. CASE /\ tasks[m][i].kind = "start"
               /\ vm' = [vm EXCEPT ![v].status = "running"]
      BY <2>2, <2>4
    <2>5. CASE /\ tasks[m][i].kind = "stop"
               /\ vm' = [vm EXCEPT ![v].status = "stopped"]
      BY <2>2, <2>5
    <2> QED BY <1>5, <2>1, <2>3, <2>4, <2>5 DEF EndsWell
  <1>8. /\ TornDown(m)' <=> TornDown(m)
        /\ Ended(m, "stop") => Ended(m, "stop")'
        /\ tasks[m][i].kind # "stop" => (Ended(m, "stop")' => Ended(m, "stop"))
        /\ Ended(m, "delete") => Ended(m, "delete")'
        /\ ~(tasks[m][i].kind = "delete" /\ status = "ok") =>
             (Ended(m, "delete")' => Ended(m, "delete"))
    BY <1>3, <1>6 DEF TornDown, Ended
  <1>9. OthersUntouched(m)
    BY <1>1, <1>4, <1>6, <1>7, NoMachineAssumption DEF OthersUntouched, Untouched, Owner
  <1>10. TaskOnward(m, i)
    BY DEF Onward
  <1>11. ASSUME NEW j \in DOMAIN tasks[m] PROVE TaskOnward(m, j)'
    <2>1. /\ TaskOnward(m, j)
          /\ tasks[m][j].kind = "start" => tasks[m][j].vmid = rec[m].vmid
          /\ tasks[m][j].vmid \in VMIDs
      BY TaskTyped DEF Onward, TasksTell, LifeInv, TypeOK
    <2>2. tasks'[m][j].status = "running" => j # i /\ tasks[m][j].status = "running"
      BY <1>5, <1>6
    <2>3. ASSUME tasks[m][j].kind = "start", tasks'[m][j].status = "ok",
                 ~TornDown(m), vm'[rec[m].vmid].owner = m
          PROVE  vm'[rec[m].vmid].status = "running"
      <3>1. tasks[m][i].kind \notin {"stop", "delete"}
        BY <2>3 DEF TornDown
      <3>2. CASE j = i
        BY <1>4, <1>6, <1>7, <2>1, <2>3, <3>1, <3>2
      <3>3. CASE j # i
        <4>1. tasks[m][j].status = "ok"
          BY <1>6, <2>3, <3>3
        <4>2. Owner(rec[m].vmid) = m
          BY <1>4, <1>7, <2>1, <2>3 DEF Owner
        <4>3. vm[rec[m].vmid].status = "running"
          BY <2>1, <2>3, <4>1, <4>2 DEF TaskOnward
        <4> QED BY <1>7, <2>1, <2>3, <3>1, <4>3
      <3> QED BY <3>2, <3>3
    <2> QED BY <1>1, <1>6, <1>8, <2>1, <2>2, <2>3 DEF TaskOnward, Owner
  <1>12. Onward(m)'
    BY <1>1, <1>6, <1>8, <1>11 DEF Onward, Provisions
  <1>13. /\ \A x \in Machines : Onward(x)'
         /\ \A x \in Machines \ {m} : SameGuest(x)
    BY <1>9, <1>12, OneGoesOn
  <1>14. VMsOf(m) = {v} /\ v \in VMsOf(m)
    BY <1>4, OnlyVM
  <1>15. (tasks[m][i].kind = "delete" /\ status = "ok") \/ VMsOf(m)' = {v}
    BY <1>7, <1>14 DEF VMsOf
  <1>16. /\ vm[v].status = "running" => Guest(m) = "running"
         /\ vm[v].status # "running" =>
              Guest(m) = IF Ended(m, "stop") THEN "stopped" ELSE "made"
    BY <1>14 DEF Guest
  <1>17. ASSUME VMsOf(m)' = {v}
         PROVE  /\ vm'[v].status = "running" => Guest(m)' = "running"
                /\ vm'[v].status # "running" =>
                     Guest(m)' = IF Ended(m, "stop")' THEN "stopped" ELSE "made"
                /\ m \in Protected' <=> m \in Protected
    <2>1. v \in VMsOf(m)' /\ \A u \in VMsOf(m)' : u = v
      BY <1>17
    <2> QED BY <1>1, <1>14, <1>17, <2>1 DEF Guest, Protected
  <1>18. m \in Protected => pc[m] \notin Deregistered
    <2>1. m \in Protected => v \in haRes
      BY <1>14 DEF Protected
    <2> QED BY <1>4, <2>1, RegistrarOwns DEF Registers
  <1>19. CASE vm' = vm /\ tasks[m][i].kind # "stop"
              /\ (tasks[m][i].kind = "delete" => status = "failed")
    <2>1. VMsOf(m)' = {v}
      BY <1>15, <1>19
    <2>2. SameGuest(m)
      BY <1>8, <1>16, <1>17, <1>19, <2>1 DEF SameGuest
    <2>3. \A x \in Machines : SameGuest(x)
      BY <1>13, <2>2
    <2> QED BY <1>1, <1>13, <2>3, NoLife DEF Lives
  <1>20. CASE tasks[m][i].kind = "start" /\ status = "ok" /\ vm[v].status = "stopped"
    <2>1. VMsOf(m)' = {v} /\ vm'[v].status = "running"
      BY <1>7, <1>15, <1>20
    <2>2. ~TornDown(m)
      BY <1>3, <1>10, <1>20 DEF TaskOnward
    <2>3. ~Ended(m, "stop")
      BY <2>2 DEF TornDown, Ended
    <2>4. Life!Grow(m, "made", "running")
      BY <1>1, <1>13, <1>16, <1>17, <1>20, <2>1, <2>3, LifeGrows
    <2>5. phase[m] # "gone"
      BY <1>4 DEF LifeInv, TrackInv, Tracked, At
    <2>6. phase[m] # "provisioned"
      <3>1. v = rec[m].vmid
        BY <1>4, <1>20 DEF TasksTell
      <3> QED BY <1>20, <3>1, ProvisionedRuns DEF ProvisionedMeansRunning
    <2>7. Life!Start(m)
      BY <2>4, <2>5, <2>6 DEF Life!Start, Life!MayProvision, LifeInv, TypeOK,
         Typed, Phases
    <2> QED BY <1>13, <2>7 DEF Lives, Life!Next, Life!Move
  <1>21. CASE tasks[m][i].kind = "stop" /\ status = "ok"
    <2>1. VMsOf(m)' = {v} /\ vm'[v].status = "stopped"
      BY <1>7, <1>15, <1>21
    <2>2. Ended(m, "stop")'
      BY <1>6, <1>21 DEF Ended
    <2>3. Guest(m)' = "stopped" /\ (m \in Protected' <=> m \in Protected)
      BY <1>17, <2>1, <2>2
    <2>4. pc[m] = "awaitStop"
      BY <1>3, <1>10, <1>21 DEF TaskOnward
    <2>5. m \notin Protected /\ phase[m] = "tearingDown"
      BY <1>18, <2>4 DEF Deregistered, TeardownSteps, LifeInv, KnownInv, InPhase
    <2>6. CASE Guest(m) = "stopped"
      <3>1. \A x \in Machines : SameGuest(x)
        BY <1>13, <2>3, <2>6 DEF SameGuest
      <3> QED BY <1>1, <1>13, <3>1, NoLife DEF Lives
    <2>7. ASSUME NEW from \in {"made", "running"}, Guest(m) = from
          PROVE  Lives
      <3>1. Life!Grow(m, from, "stopped")
        BY <1>1, <1>13, <2>3, <2>7, LifeGrows
      <3>2. Life!Stop(m)
        BY <2>5, <3>1 DEF Life!Stop, Life!MayTearDown
      <3> QED BY <3>2 DEF Lives, Life!Next, Life!Move
    <2>8. Guest(m) \in {"made", "running", "stopped"}
      BY <1>16
    <2> QED BY <1>13, <2>6, <2>7, <2>8
  <1>22. CASE /\ tasks[m][i].kind = "delete" /\ status = "ok"
              /\ vm[v].status = "stopped" /\ vm'[v].owner = NoMachine
    <2>1. VMsOf(m)' = {}
      BY <1>7, <1>14, <1>22, NoMachineAssumption DEF VMsOf
    <2>2. Ended(m, "delete")'
      BY <1>6, <1>22 DEF Ended
    <2>3. Guest(m)' = "removed" /\ m \notin Protected'
      BY <2>1, <2>2 DEF Guest, Protected
    <2>4. Ended(m, "stop")
      BY <1>10, <1>22 DEF TaskOnward
    <2>5. Guest(m) = "stopped"
      BY <1>16, <1>22, <2>4
    <2>6. pc[m] = "awaitDelete" /\ phase[m] = "tearingDown"
      BY <1>3, <1>22, DeletesOwn
    <2>7. m \notin Protected
      BY <1>18, <2>6 DEF Deregistered, TeardownSteps
    <2>8. Life!Grow(m, "stopped", "removed")
      BY <1>1, <1>13, <2>3, <2>5, <2>7, LifeGrows
    <2>9. Life!Remove(m)
      BY <2>6, <2>7, <2>8 DEF Life!Remove, Life!MayTearDown
    <2> QED BY <1>13, <2>9 DEF Lives, Life!Next, Life!Move
  <1>23. vm' = [vm EXCEPT ![v] = NoVM] => vm'[v].owner = NoMachine
    BY DEF NoVM, LifeInv, TypeOK, Typed
  <1> QED BY <1>5, <1>19, <1>20, <1>21, <1>22, <1>23 DEF EndsWell

----------------------------------------------------------------------------
(* Users, HA and faults; and all steps together.                           *)

LEMMA OutsideOnward ==
  ASSUME OnwardInv, UNCHANGED <<rec, wantsHA, pc, work, tasks, haRes>>,
         \A m \in Machines : phase'[m] = phase[m] \/ phase'[m] = "tearingDown",
         \A v \in VMIDs : Owner(v)' = Owner(v) /\ vm'[v].status = vm[v].status
  PROVE  \A m \in Machines : Onward(m)' /\ SameGuest(m)
  <1> USE DEF OnwardInv, RunInv
  <1> SUFFICES ASSUME NEW m \in Machines
               PROVE  Onward(m)' /\ SameGuest(m)
    OBVIOUS
  <1>1. /\ TornDown(m)' <=> TornDown(m)
        /\ Ended(m, "stop")' <=> Ended(m, "stop")
        /\ Ended(m, "delete")' <=> Ended(m, "delete")
    BY DEF TornDown, Ended
  <1>2. SameGuest(m)
    BY <1>1, GuestStays, ProtectionStays DEF SameGuest
  <1>3. ASSUME NEW i \in DOMAIN tasks[m] PROVE TaskOnward(m, i)'
    <2>1. TaskOnward(m, i)
      BY DEF Onward
    <2>2. tasks[m][i].kind = "start" => rec[m].vmid \in VMIDs
      BY TaskTyped DEF TasksTell, LifeInv, TypeOK
    <2> QED BY <1>1, <2>1, <2>2 DEF TaskOnward, Owner
  <1>4. Onward(m)'
    BY <1>1, <1>3 DEF Onward, Provisions
  <1> QED BY <1>2, <1>4

LEMMA FaultOnward ==
  ASSUME OnwardInv, Fault \/ \E n \in Nodes : NodeUp(n)
  PROVE  (\A x \in Machines : Onward(x)') /\ Lives
  <1> USE DEF omniVars, controlVars, proxmoxVars, OnwardInv, RunInv
  <1>1. \A k \in Disruptions \cup {"lost", "edited"} : ~Spend(k)
    BY DEF LifeInv, Undisturbed, OwnInv, Undisrupted, Uninterrupted,
       Interruptions, Spend
  <1>2. /\ ~Crash
        /\ \A m \in Machines : ~EditHA(m) /\ ~CallFails(m) /\ ~ReplyLost(m)
        /\ \A v \in VMIDs : ~AdminRemovesVM(v)
        /\ \A n \in Nodes : ~NodeDown(n) /\ ~NodeUp(n)
    BY <1>1 DEF Crash, EditHA, CallFails, ReplyLost, AdminRemovesVM, NodeDown,
                NodeUp, Disruptions, LifeInv, Undisturbed, OwnInv, Undisrupted
  <1>3. ASSUME NEW v \in VMIDs, NEW n \in Nodes, MigrateVM(v, n)
        PROVE  (\A x \in Machines : Onward(x)') /\ Lives
    <2>1. \A u \in VMIDs : /\ vm'[u].owner = vm[u].owner
                           /\ vm'[u].status = vm[u].status
      BY <1>3 DEF MigrateVM, LifeInv, TypeOK, Typed, VM
    <2>2. UNCHANGED <<phase, rec, wantsHA, pc, work, tasks, haRes>>
      BY <1>3 DEF MigrateVM
    <2>3. \A x \in Machines : Onward(x)' /\ SameGuest(x)
      BY <2>1, <2>2, OutsideOnward DEF Owner
    <2> QED BY <2>2, <2>3, NoLife DEF Lives
  <1> QED BY <1>2, <1>3 DEF Fault

LEMMA OnwardNext == OnwardInv /\ [Next]_vars => OnwardInv' /\ [Life!Next]_(Life!vars)
  <1> SUFFICES ASSUME OnwardInv, [Next]_vars
               PROVE  OnwardInv' /\ [Life!Next]_(Life!vars)
    OBVIOUS
  <1>1. RunInv'
    BY RunNext DEF OnwardInv
  <1>2. CASE \E m \in Machines : Provision(m)
    <2>1. PICK m \in Machines : Provision(m)
      BY <1>2
    <2> QED BY <1>1, <2>1, QuietProvisionOnward, QuietProvisionLives,
               InjectConfigOnward, RegisterHAOnward, CreateVMOnward,
               RequestsGoOn DEF Provision, GoesOn, Lives, OnwardInv
  <1>3. CASE \E m \in Machines : Deprovision(m)
    <2>1. PICK m \in Machines : Deprovision(m)
      BY <1>3
    <2>2. UNCHANGED tasks \/ StopVM(m) \/ DeleteVM(m)
      BY <2>1 DEF Deprovision, BeginDeprovision, TeardownHA, ListNodes,
         ScanNode, FindNothing, GetVM, AwaitStop, AwaitDelete, proxmoxVars
    <2>3. GoesOn(m) /\ Lives
      BY <2>1, <2>2, TeardownHAOnward, QuietDeprovisionOnward, RequestsGoOn
    <2> QED BY <1>1, <2>3 DEF GoesOn, Lives, OnwardInv
  <1>4. CASE \E m \in Machines : TaskEnds(m)
    BY <1>1, <1>4, TaskEndsOnward DEF Lives, OnwardInv
  <1>5. ASSUME NEW m \in Machines, RequestTeardown(m)
        PROVE  OnwardInv' /\ Lives
    <2>1. UNCHANGED <<rec, wantsHA, pc, work, vm, tasks, haRes>>
      BY <1>5 DEF RequestTeardown, controlVars, proxmoxVars
    <2>2. \A x \in Machines : phase'[x] = phase[x] \/ phase'[x] = "tearingDown"
      BY <1>5 DEF RequestTeardown, OnwardInv, RunInv, LifeInv, TypeOK, Typed
    <2>3. \A x \in Machines : Onward(x)' /\ SameGuest(x)
      BY <2>1, <2>2, OutsideOnward DEF Owner
    <2> QED BY <1>1, <1>5, <2>3, LifeTurns DEF RequestTeardown, OnwardInv
  <1>6. CASE Fault \/ \E n \in Nodes : NodeUp(n)
    BY <1>1, <1>6, FaultOnward DEF Lives, OnwardInv
  <1>7. CASE UNCHANGED vars
    <2>1. UNCHANGED <<phase, rec, wantsHA, pc, work, tasks, haRes, vm>>
      BY <1>7 DEF vars, omniVars, controlVars, proxmoxVars
    <2>2. \A x \in Machines : Onward(x)' /\ SameGuest(x)
      BY <2>1, OutsideOnward DEF Owner
    <2> QED BY <1>1, <2>1, <2>2, NoLife DEF OnwardInv
  <1> QED BY <1>2, <1>3, <1>4, <1>5, <1>6, <1>7 DEF Next, Lives

LEMMA OnwardInit ==
  ASSUME \A k \in Disruptions \cup {"lost", "edited"} : FaultBudget[k] = 0, Init
  PROVE  OnwardInv /\ Life!Init
  <1>1. RunInv
    BY RunInit
  <1>2. \A m \in Machines :
          /\ phase[m] = "provisioning" /\ pc[m] = "idle" /\ tasks[m] = <<>>
          /\ wantsHA[m] <=> m \in HAMachines
    BY DEF Init
  <1>3. OnwardInv
    BY <1>1, <1>2 DEF OnwardInv, Onward, Provisions
  <1>4. \A m \in Machines : VMsOf(m) = {} /\ ~Ended(m, "delete")
    BY <1>2, NoMachineAssumption DEF Init, NoVM, VMsOf, Ended
  <1>5. Guests = [m \in Machines |-> "none"] /\ Protected = {}
    BY <1>4 DEF Guests, Guest, Protected
  <1> QED BY <1>3, <1>5 DEF Life!Init, Init

\* The steps of provision.go, its Deprovision and the tasks of Proxmox together
\* do to each machine what MachineLife allows: its VM is made once, started once
\* and put under HA only while it runs, a machine that asks for HA counts as
\* provisioned only when its VM is protected, and a VM is stopped, and then
\* removed, only while its machine is to be torn down and nothing protects it.
\* Whatever else the code does is a stutter, however often a reconcile is
\* repeated and however late a task ends.  Start tasks may fail and HA may move
\* the VM, as for ProvisionedMeansRunningHolds.
THEOREM LivesAsPromisedHolds ==
  ASSUME \A k \in Disruptions \cup {"lost", "edited"} : FaultBudget[k] = 0
  PROVE  Spec => LivesAsPromised
  <1>1. Init => OnwardInv /\ Life!Init
    BY OnwardInit
  <1> QED BY <1>1, OnwardNext, PTL DEF Spec, LivesAsPromised, Life!Spec

=============================================================================
