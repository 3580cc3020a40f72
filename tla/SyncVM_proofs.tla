---------------------------- MODULE SyncVM_proofs ----------------------------
(* Proofs about SyncVM. *)
EXTENDS SyncVM, SequenceTheorems, TLAPS

Steps ==
  {"idle", "lockPool", "lockCleanup", "posted"} \cup Ensuring \cup Cleaning

\* A machine that needs the mutex for its request has a pool: with no pool it
\* goes straight to the request.
HasPool ==
  \A m \in Machines : pc[m] \in {"lockPool", "findPool", "newPool"}
                        => Pool(m) # ""

TypeInv == TypeOK /\ HasPool

\* Who must hold poolMu.
Inside(m, step) ==
  \/ step \in Cleaning
  \/ step \in Ensuring /\ Pool(m) # ""

Control ==
  /\ pc \in [Machines -> Steps]
  /\ poolMu \in Machines \cup {NoMachine}
  /\ \A m \in Machines : poolMu = m <=> Inside(m, pc[m])
  /\ HasPool

OmniData ==
  /\ class \in [Machines -> Classes]
  /\ phase \in [Machines -> {"provisioning", "tearingDown", "gone"}]
  /\ rec \in [Machines -> [vm: 0..Len(vms), pool: Pools \cup {""}]]
  /\ posted \in [Machines -> 0..Len(vms)]

ProxmoxData ==
  /\ pools \in [Pools -> PoolStates]
  /\ guests \in SUBSET Pools
  /\ vms \in Seq(VM)

History == calm \in BOOLEAN /\ faults \in [FaultKinds -> Nat]

LEMMA TypeParts ==
  /\ TypeInv <=> Control /\ OmniData /\ ProxmoxData /\ History
  /\ TypeInv' <=> Control' /\ OmniData' /\ ProxmoxData' /\ History'
  BY DEF TypeInv, TypeOK, Control, OmniData, ProxmoxData, History, Steps,
     Holds, Inside

LEMMA PoolTyped ==
  ASSUME OmniData, NEW m \in Machines
  PROVE  Pool(m) \in Pools \cup {""}
  BY ClassesAssumption DEF OmniData, Pool, Class

\* A machine moves on: without the mutex or within it, into it with the mutex
\* free, or out of it.
LEMMA Moves ==
  ASSUME Control, UNCHANGED class, NEW m \in Machines, NEW step \in Steps,
         Goto(m, step),
         step \in {"lockPool", "findPool", "newPool"} => Pool(m) # "",
         \/ poolMu' = poolMu /\ (Inside(m, step) <=> Inside(m, pc[m]))
         \/ poolMu = NoMachine /\ poolMu' = m /\ Inside(m, step)
         \/ /\ poolMu' = IF Holds(m) THEN NoMachine ELSE poolMu
            /\ ~Inside(m, step)
  PROVE  Control' /\ \A x \in Machines : pc'[x] = IF x = m THEN step ELSE pc[x]
  <1>1. \A x \in Machines : pc'[x] = IF x = m THEN step ELSE pc[x]
    BY DEF Control, Goto
  <1>2. \A x \in Machines : Pool(x)' = Pool(x)
    BY DEF Pool, Class
  <1>3. pc' \in [Machines -> Steps] /\ HasPool'
    BY <1>1, <1>2 DEF Control, HasPool, Goto
  <1>4. \A x \in Machines : Inside(x, pc[x])' <=> Inside(x, pc'[x])
    BY <1>2 DEF Inside
  <1>5. \A x \in Machines \ {m} : poolMu' = x <=> Inside(x, pc'[x])
    BY <1>1, NoMachineAssumption DEF Control, Holds
  <1>6. poolMu' = m <=> Inside(m, pc'[m])
    BY <1>1, NoMachineAssumption DEF Control, Holds
  <1>7. poolMu' \in Machines \cup {NoMachine}
    BY DEF Control, Holds
  <1> QED BY <1>1, <1>3, <1>4, <1>5, <1>6, <1>7 DEF Control

LEMMA SpendTyped ==
  ASSUME History, NEW kind \in FaultKinds, Spend(kind)
  PROVE  faults' \in [FaultKinds -> Nat]
  BY DEF History, Spend

LEMMA DisturbTyped ==
  ASSUME History, NEW kind \in FaultKinds, Disturbs(kind)
  PROVE  History'
  BY SpendTyped DEF Disturbs, History

LEMMA TypeInit == Init => TypeInv
  <1> SUFFICES ASSUME Init PROVE TypeInv
    OBVIOUS
  <1>1. PICK s \in Scenarios :
          /\ class = s.class /\ pools = s.pools /\ faults = s.faults
          /\ phase = [m \in Machines |->
                        IF m \in s.active THEN "provisioning" ELSE "gone"]
    BY DEF Init
  <1>2. s \in Scenario
    BY ScenariosAssumption
  <1>3. /\ class \in [Machines -> Classes]
        /\ pools \in [Pools -> PoolStates]
        /\ faults \in [FaultKinds -> Nat]
    BY <1>1, <1>2 DEF Scenario, PoolStates
  <1>4. /\ pc = [m \in Machines |-> "idle"] /\ poolMu = NoMachine /\ vms = <<>>
        /\ rec = [m \in Machines |-> [vm |-> 0, pool |-> ""]] /\ calm = TRUE
        /\ posted = [m \in Machines |-> 0] /\ guests = {}
    BY DEF Init
  <1>5. Control
    BY <1>4, NoMachineAssumption
       DEF Control, HasPool, Inside, Steps, Ensuring, Cleaning
  <1>6. vms \in Seq(VM) /\ 0 \in 0 .. Len(vms)
    <2>1. vms = <<>>
      BY <1>4
    <2>2. <<>> \in Seq(VM) /\ Len(<<>>) = 0
      BY EmptySeq
    <2> QED BY <2>1, <2>2
  <1>7. [vm |-> 0, pool |-> ""] \in [vm: 0 .. Len(vms), pool: Pools \cup {""}]
    BY <1>6
  <1>8. OmniData
    BY <1>1, <1>3, <1>4, <1>6, <1>7 DEF OmniData
  <1> QED BY <1>3, <1>4, <1>5, <1>6, <1>8, TypeParts DEF ProxmoxData, History

----------------------------------------------------------------------------
(* The actions. *)

\* The actions that only move on.
LEMMA Frame ==
  ASSUME OmniData, ProxmoxData, UNCHANGED <<omniVars, posted, proxmoxVars>>
  PROVE  OmniData' /\ ProxmoxData' /\ UNCHANGED class
  BY DEF OmniData, ProxmoxData, omniVars, proxmoxVars

LEMMA AcquireTyped ==
  ASSUME TypeInv, NEW m \in Machines, NEW from, NEW step \in Steps,
         Acquire(m, from, step), Inside(m, step),
         step \in {"lockPool", "findPool", "newPool"} => Pool(m) # ""
  PROVE  TypeInv'
  <1>1. Control /\ OmniData /\ ProxmoxData /\ History
    BY TypeParts
  <1>2. OmniData' /\ ProxmoxData' /\ UNCHANGED class
    BY <1>1, Frame DEF Acquire
  <1>3. Control'
    BY <1>1, <1>2, Moves DEF Acquire
  <1>4. History'
    BY <1>1 DEF Acquire, History
  <1> QED BY <1>2, <1>3, <1>4, TypeParts

LEMMA SyncTyped ==
  ASSUME TypeInv, NEW m \in Machines, Sync(m)
  PROVE  TypeInv'
  <1>0. Control /\ OmniData /\ ProxmoxData /\ History
    BY TypeParts
  <1>s. Steps = {"idle", "lockPool", "lockCleanup", "posted", "findPool",
                 "newPool", "request", "listPools", "loadPool", "deletePool"}
    BY DEF Steps, Ensuring, Cleaning
  <1>p. Pool(m) \in Pools \cup {""} /\ "" \notin Pools
    BY <1>0, PoolTyped, PoolsAssumption
  <1>l. vms \in Seq(VM) /\ Len(vms) \in Nat
    BY <1>0, LenProperties DEF ProxmoxData
  <1> USE DEF Inside, Ensuring, Cleaning
  <1>1. CASE PickPrimary(m)
    <2>1. OmniData' /\ ProxmoxData' /\ UNCHANGED class /\ History'
      BY <1>0, <1>1, Frame DEF PickPrimary, History
    <2>2. Control'
      BY <1>0, <1>1, <1>s, <2>1, Moves DEF PickPrimary
    <2> QED BY <2>1, <2>2, TypeParts
  <1>2. CASE FindPool(m)
    <2>1. OmniData' /\ ProxmoxData' /\ UNCHANGED class /\ History'
      BY <1>0, <1>2, Frame DEF FindPool, History
    <2>2. pc[m] = "findPool" /\ Pool(m) # ""
      BY <1>0, <1>2 DEF FindPool, Control, HasPool
    <2>3. Control'
      BY <1>0, <1>2, <1>s, <2>1, <2>2, Moves DEF FindPool, Return
    <2> QED BY <2>1, <2>3, TypeParts
  <1>3. CASE NewPool(m)
    <2>1. pc[m] = "newPool" /\ Pool(m) # ""
      BY <1>0, <1>3 DEF NewPool, Control, HasPool
    <2>2. UNCHANGED class
      BY <1>3 DEF NewPool, omniVars
    <2>3. Control'
      BY <1>0, <1>3, <1>s, <2>1, <2>2, Moves DEF NewPool, Return
    <2>4. ProxmoxData'
      BY <1>0, <1>3 DEF NewPool, ProxmoxData, PoolStates
    <2>5. OmniData' /\ History'
      BY <1>0, <1>3 DEF NewPool, OmniData, History, omniVars
    <2> QED BY <2>3, <2>4, <2>5, TypeParts
  <1>4. CASE RequestVM(m)
    <2>1. UNCHANGED class /\ pc[m] = "request"
      BY <1>4 DEF RequestVM, omniVars
    <2>2. Control'
      BY <1>0, <1>4, <1>s, <2>1, Moves DEF RequestVM, Return
    <2>3. History'
      BY <1>0, <1>4 DEF RequestVM, History
    <2>4. CASE UNCHANGED <<posted, vms>>
      <3>1. OmniData' /\ ProxmoxData'
        BY <1>0, <1>4, <2>4, Frame DEF RequestVM, proxmoxVars
      <3> QED BY <2>2, <2>3, <3>1, TypeParts
    <2>5. CASE ~UNCHANGED <<posted, vms>>
      <3> DEFINE v == [owner |-> m, pool |-> Pool(m), member |-> FALSE,
                       status |-> "creating"]
      <3>1. /\ vms' = Append(vms, v) /\ UNCHANGED <<omniVars, pools, guests>>
            /\ posted' = [posted EXCEPT ![m] = Len(vms) + 1]
        BY <1>4, <2>5 DEF RequestVM
      <3>2. v \in VM
        BY <1>p DEF VM
      <3> HIDE DEF v
      <3>3. vms' \in Seq(VM) /\ Len(vms') = Len(vms) + 1
        BY <1>l, <3>1, <3>2, AppendProperties
      <3>4. 0 .. Len(vms) \subseteq 0 .. Len(vms') /\ Len(vms) + 1 \in 0 .. Len(vms')
        BY <1>l, <3>3
      <3>5. rec' \in [Machines -> [vm: 0..Len(vms'), pool: Pools \cup {""}]]
        BY <1>0, <3>1, <3>4 DEF OmniData, omniVars
      <3>6. posted' \in [Machines -> 0..Len(vms')]
        BY <1>0, <3>1, <3>4 DEF OmniData
      <3>7. OmniData' /\ ProxmoxData'
        BY <1>0, <3>1, <3>3, <3>5, <3>6 DEF OmniData, ProxmoxData, omniVars
      <3> QED BY <2>2, <2>3, <3>7, TypeParts
    <2> QED BY <2>4, <2>5
  <1>5. CASE Commit(m)
    <2>1. UNCHANGED <<class, phase, poolMu, proxmoxVars>> /\ pc[m] = "posted"
      BY <1>5 DEF Commit
    <2>2. Control'
      BY <1>0, <1>5, <1>s, <2>1, Moves DEF Commit
    <2>3. History'
      BY <1>0, <1>5, DisturbTyped DEF Commit, History, FaultKinds
    <2> DEFINE r == [vm |-> posted[m], pool |-> Pool(m)]
    <2>4. r \in [vm: 0..Len(vms), pool: Pools \cup {""}]
      BY <1>0, <1>p DEF OmniData
    <2>5. /\ rec' = [rec EXCEPT ![m] = r] \/ rec' = rec
          /\ posted' = [posted EXCEPT ![m] = 0]
      BY <1>5 DEF Commit
    <2> HIDE DEF r
    <2>6. /\ rec' \in [Machines -> [vm: 0..Len(vms), pool: Pools \cup {""}]]
          /\ posted' \in [Machines -> 0..Len(vms)]
      <3> DEFINE R == [vm: 0..Len(vms), pool: Pools \cup {""}]
      <3>1. /\ rec \in [Machines -> R] /\ r \in R
            /\ posted \in [Machines -> 0..Len(vms)]
        BY <1>0, <2>4 DEF OmniData
      <3>2. 0 \in 0..Len(vms)
        BY <1>l
      <3> HIDE DEF R
      <3>3. rec' \in [Machines -> R] /\ posted' \in [Machines -> 0..Len(vms)]
        BY <2>5, <3>1, <3>2
      <3> QED BY <3>3 DEF R
    <2>7. OmniData' /\ ProxmoxData'
      BY <1>0, <2>1, <2>6 DEF OmniData, ProxmoxData, proxmoxVars
    <2> QED BY <2>2, <2>3, <2>7, TypeParts
  <1> QED BY <1>1, <1>2, <1>3, <1>4, <1>5 DEF Sync

LEMMA TearDownTyped ==
  ASSUME TypeInv, NEW m \in Machines, TearDown(m) \/ CleanupFails(m)
  PROVE  TypeInv'
  <1>0. Control /\ OmniData /\ ProxmoxData /\ History
    BY TypeParts
  <1>s. Steps = {"idle", "lockPool", "lockCleanup", "posted", "findPool",
                 "newPool", "request", "listPools", "loadPool", "deletePool"}
    BY DEF Steps, Ensuring, Cleaning
  <1>l. vms \in Seq(VM) /\ Len(vms) \in Nat
    BY <1>0, LenProperties DEF ProxmoxData
  <1>g. Gone(m) => phase' \in [Machines -> {"provisioning", "tearingDown", "gone"}]
    BY <1>0 DEF OmniData, Gone
  <1> USE DEF Inside, Ensuring, Cleaning
  <1>1. CASE Deprovision(m)
    <2> DEFINE i == rec[m].vm
               v == [vms[i] EXCEPT !.status = "absent", !.member = FALSE]
    <2>1. UNCHANGED <<class, rec, posted, poolMu, pools, guests, calm, faults>>
            /\ pc[m] = "idle" /\ (Gone(m) \/ UNCHANGED phase)
            /\ (UNCHANGED pc \/ Goto(m, "lockCleanup"))
      BY <1>1 DEF Deprovision
    <2>2. Control'
      <3>1. CASE UNCHANGED pc
        BY <1>0, <2>1, <3>1 DEF Control, HasPool, Pool, Class
      <3>2. CASE Goto(m, "lockCleanup")
        BY <1>0, <1>s, <2>1, <3>2, Moves
      <3> QED BY <2>1, <3>1, <3>2
    <2>3. vms' \in Seq(VM) /\ Len(vms') = Len(vms)
      <3>1. CASE UNCHANGED vms
        BY <1>l, <3>1
      <3>2. CASE ~UNCHANGED vms
        <4>1. /\ i # 0
              /\ vms' = [vms EXCEPT ![i].status = "absent", ![i].member = FALSE]
          BY <1>1, <3>2 DEF Deprovision
        <4>2. i \in 1 .. Len(vms)
          <5>1. rec[m] \in [vm: 0..Len(vms), pool: Pools \cup {""}]
            BY <1>0 DEF OmniData
          <5>2. i \in 0 .. Len(vms)
            BY <5>1
          <5> QED BY <1>l, <4>1, <5>2
        <4>3. v \in VM
          <5>1. vms[i] \in VM
            BY <1>l, <4>2, ElementOfSeq
          <5> QED BY <5>1 DEF VM
        <4>4. vms' = [vms EXCEPT ![i] = v]
          BY <1>l, <4>1, <4>2
        <4> HIDE DEF v, i
        <4> QED BY <1>l, <4>2, <4>3, <4>4, ExceptSeq
      <3> QED BY <3>1, <3>2
    <2>4. OmniData' /\ ProxmoxData' /\ History'
      BY <1>0, <1>g, <2>1, <2>3 DEF OmniData, ProxmoxData, History
    <2> QED BY <2>2, <2>4, TypeParts
  <1>2. CASE ListPools(m) \/ LoadPool(m) \/ DeletePool(m) \/ CleanupFails(m)
    <2>1. UNCHANGED <<class, rec, posted, guests, vms>>
            /\ (Gone(m) \/ UNCHANGED phase)
      BY <1>2 DEF ListPools, LoadPool, DeletePool, CleanupFails, CleanedUp,
         proxmoxVars
    <2>2. Control'
      <3>1. pc[m] \in Cleaning
        BY <1>2 DEF ListPools, LoadPool, DeletePool, CleanupFails
      <3>2. CASE Return(m)
        BY <1>0, <1>s, <2>1, <3>1, <3>2, Moves DEF Return
      <3>3. CASE UNCHANGED poolMu /\ (Goto(m, "loadPool") \/ Goto(m, "deletePool"))
        BY <1>0, <1>s, <2>1, <3>1, <3>3, Moves
      <3> QED BY <1>2, <3>2, <3>3 DEF ListPools, LoadPool, DeletePool,
              CleanupFails, CleanedUp
    <2>3. pools' \in [Pools -> PoolStates]
      <3>1. \/ UNCHANGED pools
            \/ pools' = [pools EXCEPT ![rec[m].pool] = "none"]
        BY <1>2 DEF ListPools, LoadPool, DeletePool, CleanupFails, proxmoxVars
      <3> QED BY <1>0, <3>1 DEF ProxmoxData, PoolStates
    <2>4. History'
      BY <1>0, <1>2, DisturbTyped DEF ListPools, LoadPool, DeletePool,
         CleanupFails, History, FaultKinds
    <2>5. OmniData' /\ ProxmoxData'
      BY <1>0, <1>g, <2>1, <2>3 DEF OmniData, ProxmoxData
    <2> QED BY <2>2, <2>4, <2>5, TypeParts
  <1> QED BY <1>1, <1>2 DEF TearDown

\* What is outside of the two steps.
LEMMA OthersTyped ==
  ASSUME TypeInv,
         \/ \E m \in Machines : CallFails(m) \/ RequestTeardown(m)
         \/ \E i \in DOMAIN vms : CreateEnds(i)
         \/ \E p \in Pools : AdminChanges(p)
         \/ Crash
         \/ UNCHANGED vars
  PROVE  TypeInv'
  <1>0. Control /\ OmniData /\ ProxmoxData /\ History
    BY TypeParts
  <1>l. vms \in Seq(VM) /\ Len(vms) \in Nat
    BY <1>0, LenProperties DEF ProxmoxData
  <1>c. UNCHANGED <<class, pc, poolMu>> => Control'
    BY <1>0 DEF Control, HasPool, Inside, Pool, Class
  <1>1. ASSUME NEW m \in Machines, CallFails(m) PROVE TypeInv'
    <2>1. OmniData' /\ ProxmoxData' /\ UNCHANGED class
      BY <1>0, <1>1, Frame DEF CallFails
    <2>2. Control'
      BY <1>0, <1>1, <2>1, Moves DEF CallFails, Return, Steps, Inside, Ensuring,
         Cleaning
    <2>3. History'
      BY <1>0, <1>1, DisturbTyped DEF CallFails, FaultKinds
    <2> QED BY <2>1, <2>2, <2>3, TypeParts
  <1>2. ASSUME NEW m \in Machines, RequestTeardown(m) PROVE TypeInv'
    <2>1. /\ phase' = [phase EXCEPT ![m] = "tearingDown"]
          /\ UNCHANGED <<class, rec, pc, posted, poolMu, pools, guests, vms>>
          /\ UNCHANGED <<calm, faults>>
      BY <1>2 DEF RequestTeardown, controlVars, proxmoxVars
    <2> QED BY <1>0, <1>c, <2>1, TypeParts DEF OmniData, ProxmoxData, History
  <1>3. ASSUME NEW i \in DOMAIN vms, CreateEnds(i) PROVE TypeInv'
    <2>1. /\ UNCHANGED <<class, phase, rec, pc, posted, poolMu, pools, guests>>
          /\ UNCHANGED calm
      BY <1>3 DEF CreateEnds, omniVars, controlVars
    <2>2. PICK s \in {"there", "absent"}, b \in BOOLEAN :
            vms' = [vms EXCEPT ![i] = [vms[i] EXCEPT !.status = s, !.member = b]]
      <3>1. vms[i] \in VM /\ i \in 1 .. Len(vms)
        BY <1>l, LenProperties, ElementOfSeq
      <3> DEFINE b == vms[i].pool # "" /\ Exists(vms[i].pool)
      <3>2. CASE vms' = [vms EXCEPT ![i].status = "there", ![i].member = b]
        BY <1>l, <3>1, <3>2
      <3>3. CASE vms' = [vms EXCEPT ![i].status = "absent"]
        <4>1. [vms[i] EXCEPT !.status = "absent"] =
                [vms[i] EXCEPT !.status = "absent", !.member = vms[i].member]
          BY <3>1 DEF VM
        <4>2. vms[i].member \in BOOLEAN
          BY <3>1 DEF VM
        <4> QED BY <1>l, <3>1, <3>3, <4>1, <4>2
      <3> QED BY <1>3, <3>2, <3>3 DEF CreateEnds
    <2> DEFINE v == [vms[i] EXCEPT !.status = s, !.member = b]
    <2>3. v \in VM
      <3>1. vms[i] \in VM
        BY <1>l, LenProperties, ElementOfSeq
      <3> QED BY <3>1 DEF VM
    <2>4. vms' \in Seq(VM) /\ Len(vms') = Len(vms)
      <3> HIDE DEF v
      <3>1. vms' = [vms EXCEPT ![i] = v] /\ i \in 1 .. Len(vms)
        BY <1>l, <2>2, LenProperties DEF v
      <3> QED BY <1>l, <2>3, <3>1, ExceptSeq
    <2>5. faults' \in [FaultKinds -> Nat]
      BY <1>0, <1>3, SpendTyped DEF CreateEnds, History, FaultKinds
    <2> QED BY <1>0, <1>c, <2>1, <2>4, <2>5, TypeParts
            DEF OmniData, ProxmoxData, History
  <1>4. ASSUME NEW p \in Pools, AdminChanges(p) PROVE TypeInv'
    <2>1. UNCHANGED <<class, phase, rec, pc, posted, poolMu, vms, calm>>
      BY <1>4 DEF AdminChanges, omniVars, controlVars
    <2>2. faults' \in [FaultKinds -> Nat]
      BY <1>0, <1>4, SpendTyped DEF AdminChanges, FaultKinds
    <2>3. pools' \in [Pools -> PoolStates] /\ guests' \in SUBSET Pools
      BY <1>0, <1>4 DEF AdminChanges, ProxmoxData, PoolStates
    <2> QED BY <1>0, <1>c, <2>1, <2>2, <2>3, TypeParts
            DEF OmniData, ProxmoxData, History
  <1>5. CASE Crash
    <2>1. /\ poolMu' = NoMachine /\ pc' = [m \in Machines |-> "idle"]
          /\ posted' = [m \in Machines |-> 0]
          /\ UNCHANGED <<class, phase, rec, pools, guests, vms>>
      BY <1>5 DEF Crash, omniVars, proxmoxVars
    <2>2. Control'
      BY <2>1, NoMachineAssumption DEF Control, HasPool, Inside, Steps, Ensuring,
         Cleaning
    <2>3. History'
      BY <1>0, <1>5, DisturbTyped DEF Crash, FaultKinds
    <2>4. posted' \in [Machines -> 0..Len(vms)]
      BY <1>l, <2>1
    <2>5. OmniData' /\ ProxmoxData'
      BY <1>0, <2>1, <2>4 DEF OmniData, ProxmoxData
    <2> QED BY <2>2, <2>3, <2>5, TypeParts
  <1>6. CASE UNCHANGED vars
    <2>1. /\ UNCHANGED <<class, phase, rec, pc, posted, poolMu, pools, guests>>
          /\ UNCHANGED <<vms, calm, faults>>
      BY <1>6 DEF vars, omniVars, controlVars, proxmoxVars
    <2> QED BY <1>0, <1>c, <2>1, TypeParts DEF OmniData, ProxmoxData, History
  <1> QED BY <1>1, <1>2, <1>3, <1>4, <1>5, <1>6

LEMMA TypeNext == TypeInv /\ [Next]_vars => TypeInv'
  <1> SUFFICES ASSUME TypeInv, [Next]_vars PROVE TypeInv'
    OBVIOUS
  <1>1. ASSUME NEW m \in Machines, Locking(m) PROVE TypeInv'
    <2>1. CASE LockPool(m)
      <3>1. Pool(m) # ""
        BY <2>1 DEF LockPool, Acquire, TypeInv, HasPool
      <3>2. "findPool" \in Steps /\ Inside(m, "findPool")
        BY <3>1 DEF Steps, Inside, Ensuring
      <3> QED BY <2>1, <3>1, <3>2, AcquireTyped DEF LockPool
    <2>2. CASE LockCleanup(m)
      <3>1. "listPools" \in Steps /\ Inside(m, "listPools")
        BY DEF Steps, Inside, Cleaning
      <3> QED BY <2>2, <3>1, AcquireTyped DEF LockCleanup
    <2> QED BY <1>1, <2>1, <2>2 DEF Locking
  <1> QED BY <1>1, SyncTyped, TearDownTyped, OthersTyped DEF Next

\* The state keeps its types, and poolMu is held by the machine that ensures
\* its pool or cleans it up and by no other: every return path releases it.
THEOREM TypeCorrect == Spec => []TypeOK
  <1>1. TypeInv => TypeOK
    BY DEF TypeInv
  <1> QED BY TypeInit, TypeNext, <1>1, PTL DEF Spec

----------------------------------------------------------------------------
(* What may be deleted. *)

\* A machine cleans up the pool that is recorded for it.
CleansRecorded ==
  \A m \in Machines :
    pc[m] \in {"lockCleanup"} \cup Cleaning => rec[m].pool \in Pools

\* A pool that is about to be deleted is still ours, or an administrator has
\* just removed it and will not change it again.
OursAtDelete ==
  /\ faults["admin"] <= 1
  /\ \A m \in Machines : pc[m] = "deletePool" =>
       \/ pools[rec[m].pool] = "ours"
       \/ pools[rec[m].pool] = "removed" /\ faults["admin"] = 0

DeleteInv == TypeInv /\ CleansRecorded /\ OursAtDelete

\* The mutex: one machine at most is inside.
LEMMA OneInside ==
  ASSUME TypeInv, NEW m \in Machines, NEW x \in Machines,
         Inside(m, pc[m]), Inside(x, pc[x])
  PROVE  x = m
  BY TypeParts DEF Control

LEMMA OnlyMoves ==
  ASSUME TypeInv, NEW m \in Machines, NEW step, Goto(m, step)
  PROVE  \A x \in Machines : pc'[x] = IF x = m THEN step ELSE pc[x]
  BY TypeParts DEF Control, Goto

LEMMA OtherBudget ==
  ASSUME TypeInv, NEW kind \in FaultKinds \ {"admin"},
         Spend(kind) \/ Disturbs(kind)
  PROVE  faults'["admin"] = faults["admin"]
  BY TypeParts DEF History, Spend, Disturbs, FaultKinds

\* Steps that leave the pools and the cleaning machines alone.
LEMMA QuietKeeps ==
  ASSUME CleansRecorded, OursAtDelete, UNCHANGED pools,
         faults'["admin"] = faults["admin"],
         \A x \in Machines : pc'[x] \in {"lockCleanup"} \cup Cleaning
                            => pc'[x] = pc[x] /\ rec'[x] = rec[x]
  PROVE  CleansRecorded' /\ OursAtDelete'
  BY DEF CleansRecorded, OursAtDelete, Cleaning

\* The provision steps, and all that happens beside the machines' own steps.
LEMMA SyncKeeps ==
  ASSUME DeleteInv, NEW m \in Machines,
         Sync(m) \/ LockPool(m) \/ CallFails(m) \/ CleanupFails(m)
  PROVE  CleansRecorded' /\ OursAtDelete'
  <1>0. TypeInv /\ CleansRecorded /\ OursAtDelete
    BY DEF DeleteInv
  <1>1. CASE NewPool(m)
    <2>1. /\ pc[m] = "newPool" /\ UNCHANGED <<rec, faults>>
          /\ Goto(m, "request") \/ Goto(m, "idle")
      BY <1>1 DEF NewPool, Return, omniVars
    <2>2. Inside(m, pc[m])
      BY <1>0, <2>1 DEF TypeInv, HasPool, Inside, Ensuring
    <2>3. \A x \in Machines : pc[x] \notin Cleaning
      BY <1>0, <2>1, <2>2, OneInside DEF Inside, Cleaning
    <2>4. \A x \in Machines : pc'[x] \in {"lockCleanup"} \cup Cleaning
                             => pc'[x] = "lockCleanup" /\ pc[x] = "lockCleanup"
      BY <1>0, <2>1, <2>3, OnlyMoves DEF Cleaning
    <2> QED BY <1>0, <2>1, <2>4 DEF CleansRecorded, OursAtDelete, Cleaning
  <1>2. CASE Commit(m)
    <2>1. /\ pc[m] = "posted" /\ Goto(m, "idle") /\ UNCHANGED pools
          /\ UNCHANGED faults \/ Disturbs("lost")
          /\ \E r : rec' = [rec EXCEPT ![m] = r] \/ rec' = rec
      BY <1>2 DEF Commit, proxmoxVars
    <2>2. faults'["admin"] = faults["admin"]
      BY <1>0, <2>1, OtherBudget DEF FaultKinds
    <2>3. \A x \in Machines : x # m => rec'[x] = rec[x]
      BY <1>0, <2>1, TypeParts DEF OmniData
    <2>4. \A x \in Machines : pc'[x] = IF x = m THEN "idle" ELSE pc[x]
      BY <1>0, <2>1, OnlyMoves
    <2> QED BY <1>0, <2>1, <2>2, <2>3, <2>4, QuietKeeps DEF Cleaning
  <1>3. CASE ~NewPool(m) /\ ~Commit(m)
    <2>1. PICK s \in {"request", "lockPool", "findPool", "newPool", "posted",
                      "idle"} : Goto(m, s)
      BY <1>3 DEF Sync, PickPrimary, FindPool, RequestVM, LockPool, Acquire,
         CallFails, CleanupFails, CleanedUp, Return
    <2>2. UNCHANGED <<rec, pools>> /\ (UNCHANGED faults \/ Disturbs("error"))
      BY <1>3 DEF Sync, PickPrimary, FindPool, RequestVM, LockPool, Acquire,
         CallFails, CleanupFails, omniVars, proxmoxVars
    <2>3. faults'["admin"] = faults["admin"]
      BY <1>0, <2>2, OtherBudget DEF FaultKinds
    <2>4. \A x \in Machines : pc'[x] = IF x = m THEN s ELSE pc[x]
      BY <1>0, <2>1, OnlyMoves
    <2> QED BY <1>0, <2>2, <2>3, <2>4, QuietKeeps DEF Cleaning
  <1> QED BY <1>1, <1>2, <1>3

LEMMA TearDownKeeps ==
  ASSUME DeleteInv, NEW m \in Machines, TearDown(m) \/ LockCleanup(m)
  PROVE  CleansRecorded' /\ OursAtDelete'
  <1>0. TypeInv /\ CleansRecorded /\ OursAtDelete
    BY DEF DeleteInv
  <1>1. UNCHANGED <<rec, faults>>
    BY DEF TearDown, Deprovision, ListPools, LoadPool, DeletePool, LockCleanup,
       Acquire, omniVars
  <1>r. rec[m].pool \in Pools \cup {""}
    <2>1. rec[m] \in [vm: 0..Len(vms), pool: Pools \cup {""}]
      BY <1>0, TypeParts DEF OmniData
    <2> QED BY <2>1
  <1>2. CASE Deprovision(m)
    <2>1. /\ UNCHANGED pools
          /\ UNCHANGED pc \/ (Goto(m, "lockCleanup") /\ rec[m].pool # "")
      BY <1>2 DEF Deprovision
    <2>2. CASE UNCHANGED pc
      BY <1>0, <1>1, <2>1, <2>2, QuietKeeps
    <2>3. CASE Goto(m, "lockCleanup") /\ rec[m].pool # ""
      <3>1. \A x \in Machines : pc'[x] = IF x = m THEN "lockCleanup" ELSE pc[x]
        BY <1>0, <2>3, OnlyMoves
      <3> QED BY <1>0, <1>1, <1>r, <2>1, <2>3, <3>1
              DEF CleansRecorded, OursAtDelete, Cleaning
    <2> QED BY <2>1, <2>2, <2>3
  <1>3. CASE LockCleanup(m) \/ ListPools(m) \/ LoadPool(m)
    <2>1. /\ UNCHANGED pools /\ pc[m] \in {"lockCleanup"} \cup Cleaning
          /\ \/ Goto(m, "idle") \/ Goto(m, "listPools") \/ Goto(m, "loadPool")
             \/ Goto(m, "deletePool") /\ pools[rec[m].pool] = "ours"
      BY <1>3 DEF LockCleanup, ListPools, LoadPool, Acquire, CleanedUp, Return,
         Cleaning, proxmoxVars
    <2>2. PICK s \in {"idle", "listPools", "loadPool", "deletePool"} :
            Goto(m, s) /\ (s = "deletePool" => pools[rec[m].pool] = "ours")
      BY <2>1
    <2>3. \A x \in Machines : pc'[x] = IF x = m THEN s ELSE pc[x]
      BY <1>0, <2>2, OnlyMoves
    <2> QED BY <1>0, <1>1, <2>1, <2>2, <2>3
            DEF CleansRecorded, OursAtDelete, Cleaning
  <1>4. CASE DeletePool(m)
    <2>1. pc[m] = "deletePool" /\ Goto(m, "idle")
      BY <1>4 DEF DeletePool, CleanedUp, Return
    <2>2. \A x \in Machines : pc'[x] = IF x = m THEN "idle" ELSE pc[x]
      BY <1>0, <2>1, OnlyMoves
    <2>3. \A x \in Machines \ {m} : pc[x] # "deletePool"
      BY <1>0, <2>1, OneInside DEF Inside, Cleaning
    <2> QED BY <1>0, <1>1, <2>2, <2>3 DEF CleansRecorded, OursAtDelete, Cleaning
  <1> QED BY <1>2, <1>3, <1>4 DEF TearDown

LEMMA OthersKeep ==
  ASSUME DeleteInv,
         \/ \E m \in Machines : RequestTeardown(m)
         \/ \E i \in DOMAIN vms : CreateEnds(i)
         \/ \E p \in Pools : AdminChanges(p)
         \/ Crash
         \/ UNCHANGED vars
  PROVE  CleansRecorded' /\ OursAtDelete'
  <1>0. TypeInv /\ CleansRecorded /\ OursAtDelete
    BY DEF DeleteInv
  <1>1. CASE \E p \in Pools : AdminChanges(p)
    <2>1. PICK p \in Pools : AdminChanges(p)
      BY <1>1
    <2>2. UNCHANGED <<rec, pc>> /\ Spend("admin")
      BY <2>1 DEF AdminChanges, omniVars, controlVars
    <2>3. faults["admin"] = 1 /\ faults'["admin"] = 0
      BY <1>0, <2>2, TypeParts DEF OursAtDelete, Spend, History, FaultKinds
    <2>4. \A q \in Pools : pools[q] = "ours" => pools'[q] \in {"ours", "removed"}
      BY <1>0, <2>1, TypeParts DEF AdminChanges, Exists, ProxmoxData
    <2>5. \A x \in Machines : pc[x] = "deletePool" =>
            rec[x].pool \in Pools /\ pools[rec[x].pool] = "ours"
      BY <1>0, <2>3 DEF CleansRecorded, OursAtDelete, Cleaning
    <2> QED BY <1>0, <2>2, <2>3, <2>4, <2>5 DEF CleansRecorded, OursAtDelete
  <1>2. CASE UNCHANGED vars \/ \E m \in Machines : RequestTeardown(m)
    <2>1. UNCHANGED <<rec, pc, pools, faults>>
      BY <1>2 DEF RequestTeardown, vars, omniVars, controlVars, proxmoxVars
    <2> QED BY <1>0, <2>1, QuietKeeps
  <1>3. CASE Crash
    <2>1. pc' = [m \in Machines |-> "idle"] /\ UNCHANGED pools /\ Disturbs("crash")
      BY <1>3 DEF Crash, proxmoxVars
    <2>2. faults'["admin"] = faults["admin"]
      BY <1>0, <2>1, OtherBudget DEF FaultKinds
    <2> QED BY <1>0, <2>1, <2>2, QuietKeeps DEF Cleaning
  <1>4. CASE \E i \in DOMAIN vms : CreateEnds(i)
    <2>1. /\ UNCHANGED <<rec, pc, pools>>
          /\ UNCHANGED faults \/ Spend("fails")
      BY <1>4 DEF CreateEnds, omniVars, controlVars
    <2>2. faults'["admin"] = faults["admin"]
      BY <1>0, <2>1, OtherBudget DEF FaultKinds
    <2> QED BY <1>0, <2>1, <2>2, QuietKeeps
  <1> QED BY <1>1, <1>2, <1>3, <1>4

\* A step that deletes a pool is DeletePool, by the machine that holds poolMu.
LEMMA DeleteStep ==
  ASSUME DeleteInv, [Next]_vars, NEW p \in Pools, Exists(p), pools'[p] = "none"
  PROVE  /\ pools[p] = "ours" /\ IsEmpty(p)
         /\ \A m \in Machines : Pool(m) = p => pc[m] \notin Ensuring
  <1>0. /\ TypeInv /\ CleansRecorded /\ OursAtDelete
        /\ pools[p] \in {"ours", "foreign"} /\ pools \in [Pools -> PoolStates]
    BY TypeParts DEF DeleteInv, Exists, ProxmoxData
  <1>1. ~UNCHANGED pools
    BY <1>0
  <1>2. \E m \in Machines : DeletePool(m)
    <2>1. ASSUME NEW m \in Machines, Sync(m) \/ Locking(m) \/ CallFails(m)
                   \/ CleanupFails(m) \/ RequestTeardown(m)
          PROVE  FALSE
      <3>1. CASE NewPool(m)
        BY <1>0, <3>1 DEF NewPool
      <3>2. CASE ~NewPool(m)
        BY <1>1, <2>1, <3>2 DEF Sync, PickPrimary, FindPool, RequestVM, Commit,
           Locking, LockPool, LockCleanup, Acquire, CallFails, CleanupFails,
           RequestTeardown, proxmoxVars
      <3> QED BY <3>1, <3>2
    <2>2. ASSUME NEW m \in Machines, TearDown(m) PROVE DeletePool(m)
      BY <1>1, <2>2 DEF TearDown, Deprovision, ListPools, LoadPool, proxmoxVars
    <2>3. ASSUME NEW i \in DOMAIN vms, CreateEnds(i) PROVE FALSE
      BY <1>1, <2>3 DEF CreateEnds
    <2>4. ASSUME NEW q \in Pools, AdminChanges(q) PROVE FALSE
      BY <1>0, <2>4 DEF AdminChanges
    <2>5. ~Crash /\ ~UNCHANGED vars
      BY <1>1 DEF Crash, vars, proxmoxVars
    <2> QED BY <2>1, <2>2, <2>3, <2>4, <2>5 DEF Next
  <1>3. PICK m \in Machines : DeletePool(m)
    BY <1>2
  <1>4. pc[m] = "deletePool" /\ rec[m].pool = p /\ IsEmpty(p)
    BY <1>0, <1>1, <1>3 DEF DeletePool
  <1>5. pools[p] = "ours"
    BY <1>0, <1>4 DEF OursAtDelete
  <1>6. ASSUME NEW x \in Machines, Pool(x) = p, pc[x] \in Ensuring PROVE FALSE
    <2>1. Inside(x, pc[x])
      BY <1>6, PoolsAssumption DEF Inside
    <2>2. Inside(m, pc[m])
      BY <1>4 DEF Inside, Cleaning
    <2>3. x = m
      BY <1>0, <2>1, <2>2, OneInside
    <2> QED BY <1>4, <1>6, <2>3 DEF Ensuring
  <1> QED BY <1>4, <1>5, <1>6

\* If an administrator changes the pools at most once, a pool the provider
\* deletes is its own, has no members, and no machine is between finding it
\* and sending the request that names it.  (With two changes it may be removed
\* and made again between the look at its detail and its deletion.)
THEOREM DeletesOnlyUnusedHolds ==
  ASSUME \A s \in Scenarios : s.faults["admin"] <= 1
  PROVE  Spec => DeletesOnlyUnused
  <1>1. Init => DeleteInv
    <2> SUFFICES ASSUME Init PROVE DeleteInv
      OBVIOUS
    <2>1. faults["admin"] <= 1
      BY DEF Init
    <2>2. \A m \in Machines : pc[m] = "idle"
      BY DEF Init
    <2> QED BY <2>1, <2>2, TypeInit
            DEF DeleteInv, CleansRecorded, OursAtDelete, Cleaning
  <1>2. DeleteInv /\ [Next]_vars => DeleteInv'
    <2> SUFFICES ASSUME DeleteInv, [Next]_vars PROVE DeleteInv'
      OBVIOUS
    <2>1. CleansRecorded' /\ OursAtDelete'
      BY SyncKeeps, TearDownKeeps, OthersKeep DEF Next, Locking
    <2> QED BY <2>1, TypeNext DEF DeleteInv
  <1>3. DeleteInv /\ [Next]_vars =>
          [\A p \in Pools : Exists(p) /\ pools'[p] = "none" =>
             /\ pools[p] = "ours" /\ IsEmpty(p)
             /\ \A m \in Machines : Pool(m) = p => pc[m] \notin Ensuring]_vars
    BY DeleteStep
  <1> QED BY <1>1, <1>2, <1>3, PTL DEF Spec, DeletesOnlyUnused

----------------------------------------------------------------------------
(* What is left behind. *)

Acting == {"lockPool", "posted"} \cup Ensuring

Ending == {"lockCleanup"} \cup Cleaning

\* What is recorded of a machine fits the call it is at: it asks for a VM
\* only while none is recorded, and it cleans up only after a recorded one.
RecordedOf(m) ==
  /\ phase[m] = "gone" => pc[m] = "idle"
  /\ pc[m] \in Acting => rec[m].vm = 0
  /\ pc[m] \in Ending => rec[m].vm # 0
  /\ pc[m] = "posted" => posted[m] # 0
  /\ rec[m].vm # 0 => rec[m].pool = Pool(m)

Recorded == \A m \in Machines : RecordedOf(m)

\* The VM the machine knows of, 0 if none.
VMof(m) == IF pc[m] = "posted" THEN posted[m] ELSE rec[m].vm

Done(m) == pc[m] \in Ending \/ phase[m] = "gone"

\* As long as nothing disturbs, the machine that asked for a VM knows of it,
\* and once that machine is done with it the VM is in no pool for good.
TracedVM(i) ==
  /\ vms[i].pool = Pool(vms[i].owner)
  /\ VMof(vms[i].owner) = i
  /\ Done(vms[i].owner) => ~vms[i].member /\ vms[i].status # "creating"

Traced == \A i \in DOMAIN vms : TracedVM(i)

\* The machine will go through cleanupPool before it is gone.
Keeps(m) ==
  /\ phase[m] # "gone"
  /\ pc[m] \in {"request", "posted"} \/ rec[m].vm # 0

Kept ==
  \A p \in Pools : pools[p] = "ours" =>
    p \in guests \/ \E m \in Machines : Pool(m) = p /\ Keeps(m)

PoolInv == TypeInv /\ Recorded /\ (calm => Traced /\ Kept)

Own(m) ==
  \/ Sync(m) \/ TearDown(m) \/ Locking(m)
  \/ CallFails(m) \/ CleanupFails(m) \/ RequestTeardown(m)

LEMMA PoolStays ==
  ASSUME UNCHANGED class
  PROVE  \A m : Pool(m)' = Pool(m)
  BY DEF Pool, Class

LEMMA Domains ==
  ASSUME TypeInv
  PROVE  /\ pc \in [Machines -> Steps]
         /\ DOMAIN phase = Machines /\ DOMAIN rec = Machines
         /\ DOMAIN posted = Machines /\ DOMAIN pools = Pools
         /\ vms \in Seq(VM) /\ Len(vms) \in Nat /\ DOMAIN vms = 1 .. Len(vms)
         /\ \A m \in Machines : rec[m].vm \in 0 .. Len(vms)
  <1>1. Control /\ OmniData /\ ProxmoxData
    BY TypeParts
  <1>2. DOMAIN phase = Machines /\ DOMAIN rec = Machines /\ DOMAIN posted = Machines
    BY <1>1, Zenon DEF OmniData
  <1>3. /\ vms \in Seq(VM) /\ Len(vms) \in Nat /\ DOMAIN vms = 1 .. Len(vms)
        /\ DOMAIN pools = Pools
    BY <1>1, LenProperties DEF ProxmoxData
  <1>4. ASSUME NEW m \in Machines PROVE rec[m].vm \in 0 .. Len(vms)
    <2>1. rec[m] \in [vm: 0..Len(vms), pool: Pools \cup {""}]
      BY <1>1 DEF OmniData
    <2> DEFINE P == Pools \cup {""}
    <2>2. rec[m] \in [vm: 0..Len(vms), pool: P]
      BY <2>1
    <2> HIDE DEF P
    <2> QED BY <2>2
  <1> QED BY <1>1, <1>2, <1>3, <1>4 DEF Control

LEMMA OwnerTyped ==
  ASSUME TypeInv, NEW i \in DOMAIN vms
  PROVE  /\ vms[i].owner \in Machines
         /\ \E P : vms[i] \in [owner: Machines, pool: P, member: BOOLEAN,
                               status: {"creating", "there", "absent"}]
  <1>1. vms[i] \in VM
    BY Domains, ElementOfSeq
  <1> DEFINE P == Pools \cup {""}
  <1>2. vms[i] \in [owner: Machines, pool: P, member: BOOLEAN,
                    status: {"creating", "there", "absent"}]
    BY <1>1 DEF VM
  <1> HIDE DEF P
  <1> QED BY <1>2

\* Where the two actions with a choice of the next call lead.
LEMMA Chosen ==
  ASSUME NEW m \in Machines
  PROVE  /\ PickPrimary(m) => \/ Goto(m, "request") \/ Goto(m, "lockPool")
         /\ Deprovision(m) => \/ Gone(m) /\ UNCHANGED pc
                              \/ /\ Goto(m, "lockCleanup") /\ UNCHANGED phase
                                 /\ rec[m].vm # 0
  BY Zenon DEF PickPrimary, Deprovision

\* A step of one machine leaves the others where they are.
LEMMA OthersStay ==
  ASSUME TypeInv, NEW m \in Machines, Own(m)
  PROVE  /\ UNCHANGED class
         /\ \A x \in Machines \ {m} :
              /\ pc'[x] = pc[x] /\ phase'[x] = phase[x]
              /\ rec'[x] = rec[x] /\ posted'[x] = posted[x]
  <1>0. /\ pc \in [Machines -> Steps] /\ DOMAIN phase = Machines
        /\ DOMAIN rec = Machines /\ DOMAIN posted = Machines
    BY Domains
  <1>1. CASE PickPrimary(m)
    <2>1. UNCHANGED <<class, phase, rec, posted>>
      BY <1>1 DEF PickPrimary, omniVars
    <2> QED BY <1>0, <1>1, <2>1, Chosen DEF Goto
  <1>2. CASE Sync(m) /\ ~PickPrimary(m)
    BY <1>0, <1>2 DEF Sync, FindPool, NewPool, RequestVM, Commit, Goto, Return,
       omniVars
  <1>5. CASE Deprovision(m)
    <2>1. UNCHANGED <<class, rec, posted>>
      BY <1>5 DEF Deprovision
    <2> QED BY <1>0, <1>5, <2>1, Chosen DEF Goto, Gone
  <1>6. CASE TearDown(m) /\ ~Deprovision(m)
    BY <1>0, <1>6 DEF TearDown, ListPools, LoadPool, DeletePool, CleanedUp,
       Return, Gone, Goto
  <1>3. CASE Locking(m)
    BY <1>0, <1>3 DEF Locking, LockPool, LockCleanup, Acquire, Goto, omniVars
  <1>4. CASE CallFails(m) \/ CleanupFails(m) \/ RequestTeardown(m)
    BY <1>0, <1>4 DEF CallFails, CleanupFails, RequestTeardown, CleanedUp,
       Return, Gone, Goto, omniVars, controlVars
  <1> QED BY <1>1, <1>2, <1>3, <1>4, <1>5, <1>6 DEF Own

LEMMA OwnRecorded ==
  ASSUME TypeInv, Recorded, NEW m \in Machines, Own(m)
  PROVE  RecordedOf(m)'
  <1>0. /\ pc \in [Machines -> Steps] /\ DOMAIN phase = Machines
        /\ DOMAIN rec = Machines /\ DOMAIN posted = Machines
        /\ vms \in Seq(VM) /\ Len(vms) \in Nat
    BY Domains
  <1>1. UNCHANGED class /\ Pool(m)' = Pool(m)
    BY OthersStay, PoolStays
  <1>r. RecordedOf(m)
    BY DEF Recorded
  <1> USE <1>0, <1>1, <1>r DEF RecordedOf, Acting, Ending, Ensuring, Cleaning
  <1>2. CASE FindPool(m) \/ NewPool(m)
    BY <1>2 DEF FindPool, NewPool, Goto, Return, omniVars
  <1>9. CASE PickPrimary(m)
    <2>1. /\ UNCHANGED <<phase, rec, posted>>
          /\ phase[m] = "provisioning" /\ rec[m].vm = 0
      BY <1>9 DEF PickPrimary, omniVars
    <2> QED BY <1>9, <2>1, Chosen DEF Goto
  <1>3. CASE RequestVM(m)
    BY <1>3 DEF RequestVM, Goto, Return, omniVars
  <1>4. CASE Commit(m)
    BY <1>4 DEF Commit, Goto
  <1>5. CASE Deprovision(m)
    <2>1. /\ UNCHANGED <<rec, posted>>
          /\ pc[m] = "idle" /\ phase[m] = "tearingDown"
      BY <1>5 DEF Deprovision
    <2> QED BY <1>5, <2>1, Chosen DEF Goto, Gone
  <1>6. CASE ListPools(m) \/ LoadPool(m) \/ DeletePool(m) \/ CleanupFails(m)
    BY <1>6 DEF ListPools, LoadPool, DeletePool, CleanupFails, CleanedUp, Return,
       Gone, Goto
  <1>7. CASE Locking(m)
    BY <1>7 DEF Locking, LockPool, LockCleanup, Acquire, Goto, omniVars
  <1>8. CASE CallFails(m) \/ RequestTeardown(m)
    BY <1>8 DEF CallFails, RequestTeardown, Return, Goto, omniVars, controlVars
  <1> QED BY <1>2, <1>3, <1>4, <1>5, <1>6, <1>7, <1>8, <1>9 DEF Own, Sync,
          TearDown

\* The steps that are no machine's.
Outside ==
  \/ \E i \in DOMAIN vms : CreateEnds(i)
  \/ \E p \in Pools : AdminChanges(p)
  \/ UNCHANGED vars

LEMMA StepKinds ==
  [Next]_vars => (\E m \in Machines : Own(m)) \/ Outside \/ Crash
  BY DEF Next, Own, Outside

LEMMA OutsideStays ==
  ASSUME Outside
  PROVE  UNCHANGED <<class, phase, rec, pc, posted>>
  <1>1. ASSUME NEW i, CreateEnds(i) PROVE UNCHANGED <<class, phase, rec, pc, posted>>
    BY <1>1, Zenon DEF CreateEnds, omniVars, controlVars
  <1>2. ASSUME NEW p, AdminChanges(p)
        PROVE  UNCHANGED <<class, phase, rec, pc, posted>>
    BY <1>2, Zenon DEF AdminChanges, omniVars, controlVars
  <1>3. ASSUME UNCHANGED vars PROVE UNCHANGED <<class, phase, rec, pc, posted>>
    BY <1>3 DEF vars, omniVars, controlVars
  <1> QED BY <1>1, <1>2, <1>3 DEF Outside

LEMMA RecordedNext == TypeInv /\ Recorded /\ [Next]_vars => Recorded'
  <1> SUFFICES ASSUME TypeInv, Recorded, [Next]_vars, NEW x \in Machines
               PROVE  RecordedOf(x)'
    BY DEF Recorded
  <1>r. RecordedOf(x)
    BY DEF Recorded
  <1>1. CASE \E m \in Machines : Own(m)
    <2>1. PICK m \in Machines : Own(m)
      BY <1>1
    <2>2. CASE x = m
      BY <2>1, <2>2, OwnRecorded
    <2>3. CASE x # m
      BY <1>r, <2>1, <2>3, OthersStay, PoolStays DEF RecordedOf
    <2> QED BY <2>2, <2>3
  <1>2. CASE Outside
    BY <1>r, <1>2, OutsideStays, PoolStays DEF RecordedOf
  <1>3. CASE Crash
    <2>1. UNCHANGED <<class, phase, rec>> /\ pc'[x] = "idle"
      BY <1>3 DEF Crash, omniVars
    <2> QED BY <1>r, <2>1, PoolStays
            DEF RecordedOf, Acting, Ending, Ensuring, Cleaning
  <1> QED BY <1>1, <1>2, <1>3, StepKinds

LEMMA TracedInit == Init => Recorded /\ Traced /\ Kept
  <1> SUFFICES ASSUME Init PROVE Recorded /\ Traced /\ Kept
    OBVIOUS
  <1>1. /\ pc = [m \in Machines |-> "idle"] /\ vms = <<>>
        /\ \A m \in Machines : rec[m].vm = 0
    <2> DEFINE unset == ""
    <2>1. /\ pc = [m \in Machines |-> "idle"] /\ vms = <<>>
          /\ rec = [m \in Machines |-> [vm |-> 0, pool |-> unset]]
      BY DEF Init
    <2> HIDE DEF unset
    <2> QED BY <2>1
  <1>2. Recorded
    BY <1>1 DEF Recorded, RecordedOf, Acting, Ending, Ensuring, Cleaning
  <1>3. Traced
    BY <1>1 DEF Traced
  <1>4. \A p \in Pools : pools[p] # "ours"
    <2>1. PICK s \in Scenarios : pools = s.pools
      BY Zenon DEF Init
    <2>2. pools \in [Pools -> {"none", "foreign"}]
      BY <2>1, ScenariosAssumption DEF Scenario
    <2> QED BY <2>2
  <1> QED BY <1>2, <1>3, <1>4 DEF Kept

\* Once disturbed, always disturbed.
LEMMA CalmWasCalm ==
  ASSUME TypeInv, [Next]_vars, calm'
  PROVE  calm
  <1>0. calm \in BOOLEAN
    BY TypeParts DEF History
  <1>1. ASSUME NEW m \in Machines, Own(m) PROVE calm' = calm \/ calm' = FALSE
    <2>1. CASE Sync(m)
      BY <2>1, Zenon DEF Sync, PickPrimary, FindPool, NewPool, RequestVM, Commit,
         Disturbs
    <2>2. CASE TearDown(m)
      BY <2>2, Zenon DEF TearDown, Deprovision, ListPools, LoadPool, DeletePool
    <2>3. CASE ~Sync(m) /\ ~TearDown(m)
      BY <1>1, <2>3, Zenon DEF Own, Locking, LockPool, LockCleanup, Acquire,
         CallFails, CleanupFails, RequestTeardown, Disturbs
    <2> QED BY <2>1, <2>2, <2>3
  <1>2. Crash => calm' = FALSE
    BY DEF Crash, Disturbs
  <1>3. ASSUME Outside PROVE calm' = calm
    <2>1. ASSUME NEW i, CreateEnds(i) PROVE calm' = calm
      BY <2>1, Zenon DEF CreateEnds
    <2>2. ASSUME NEW p, AdminChanges(p) PROVE calm' = calm
      BY <2>2, Zenon DEF AdminChanges
    <2> QED BY <1>3, <2>1, <2>2, Zenon DEF Outside, vars
  <1> QED BY <1>0, <1>1, <1>2, <1>3, StepKinds

\* A failed call and a restart do disturb.
LEMMA CalmSteps ==
  ASSUME [Next]_vars, calm'
  PROVE  /\ ~Crash
         /\ \A m \in Machines :
              /\ ~CallFails(m) /\ ~CleanupFails(m)
              /\ Commit(m) => rec' = [rec EXCEPT ![m] = [vm |-> posted[m],
                                                         pool |-> Pool(m)]]
              /\ RequestVM(m) =>
                   /\ vms' = Append(vms,
                               [owner |-> m, pool |-> Pool(m), member |-> FALSE,
                                status |-> "creating"])
                   /\ posted' = [posted EXCEPT ![m] = Len(vms) + 1]
                   /\ Goto(m, "posted")
  BY Zenon DEF Crash, CallFails, CleanupFails, Commit, RequestVM, Disturbs

\* Steps that leave the VMs alone.
LEMMA TracedQuiet ==
  ASSUME TypeInv, Traced, UNCHANGED <<class, vms>>,
         \A m \in Machines :
           VMof(m)' = VMof(m) /\ (Done(m)' => Done(m) \/ VMof(m) = 0)
  PROVE  Traced'
  <1>1. ASSUME NEW i \in DOMAIN vms PROVE TracedVM(i)'
    <2>1. TracedVM(i) /\ i \in 1 .. Len(vms) /\ Len(vms) \in Nat
      BY Domains DEF Traced
    <2>2. vms[i].owner \in Machines
      BY OwnerTyped
    <2>3. PICK o \in Machines : o = vms[i].owner
      BY <2>2
    <2>4. VMof(o)' = VMof(o) /\ (Done(o)' => Done(o))
      BY <2>1, <2>3 DEF TracedVM
    <2>5. o = vms'[i].owner /\ vms'[i] = vms[i]
      BY <2>3
    <2>6. VMof(o) = i /\ vms[i].pool = Pool(o) /\ Pool(o)' = Pool(o)
      BY <2>1, <2>3, PoolStays DEF TracedVM
    <2>7. Done(o) => ~vms[i].member /\ vms[i].status # "creating"
      BY <2>1, <2>3 DEF TracedVM
    <2> QED BY <2>4, <2>5, <2>6, <2>7 DEF TracedVM, VMof, Done, Pool, Class
  <1> QED BY <1>1 DEF Traced

LEMMA OwnTraced ==
  ASSUME PoolInv, [Next]_vars, calm', NEW m \in Machines, Own(m)
  PROVE  Traced'
  <1>0. TypeInv /\ Recorded /\ Traced
    BY CalmWasCalm DEF PoolInv
  <1>d. /\ pc \in [Machines -> Steps] /\ DOMAIN phase = Machines
        /\ DOMAIN rec = Machines /\ DOMAIN posted = Machines
        /\ vms \in Seq(VM) /\ Len(vms) \in Nat /\ DOMAIN vms = 1 .. Len(vms)
        /\ rec[m].vm \in 0 .. Len(vms)
    BY <1>0, Domains
  <1>o. /\ UNCHANGED class
        /\ \A x \in Machines \ {m} :
             VMof(x)' = VMof(x) /\ (Done(x)' => Done(x))
    BY <1>0, OthersStay DEF VMof, Done
  <1>r. RecordedOf(m)
    BY <1>0 DEF Recorded
  <1>q. ASSUME UNCHANGED vms, VMof(m)' = VMof(m),
               Done(m)' => Done(m) \/ VMof(m) = 0
        PROVE  Traced'
    BY <1>0, <1>o, <1>q, TracedQuiet
  <1> USE DEF Acting, Ending, Ensuring, Cleaning
  <1>1. CASE FindPool(m) \/ NewPool(m)
    BY <1>d, <1>r, <1>q, <1>1
       DEF FindPool, NewPool, Goto, Return, omniVars, proxmoxVars, VMof, Done
  <1>2. CASE PickPrimary(m)
    <2>1. UNCHANGED <<phase, rec, posted, vms>> /\ pc[m] = "idle"
      BY <1>2 DEF PickPrimary, omniVars, proxmoxVars
    <2> QED BY <1>d, <1>q, <1>2, <2>1, Chosen DEF Goto, VMof, Done
  <1>3. CASE Commit(m)
    <2>1. rec' = [rec EXCEPT ![m] = [vm |-> posted[m], pool |-> Pool(m)]]
      BY <1>3, CalmSteps
    <2>2. UNCHANGED <<phase, vms>> /\ pc[m] = "posted" /\ Goto(m, "idle")
      BY <1>3 DEF Commit, proxmoxVars
    <2>3. pc'[m] = "idle" /\ rec'[m].vm = posted[m]
      BY <1>d, <2>1, <2>2 DEF Goto
    <2>4. VMof(m)' = VMof(m) /\ (Done(m)' => Done(m))
      BY <2>2, <2>3 DEF VMof, Done
    <2> QED BY <1>q, <2>2, <2>4
  <1>4. CASE Locking(m) \/ RequestTeardown(m)
    BY <1>d, <1>q, <1>4 DEF Locking, LockPool, LockCleanup, Acquire,
       RequestTeardown, Goto, omniVars, controlVars, proxmoxVars, VMof, Done
  <1>5. CASE ListPools(m) \/ LoadPool(m) \/ DeletePool(m)
    <2>1. UNCHANGED <<rec, posted, vms>> /\ pc[m] \in Cleaning
      BY <1>5 DEF ListPools, LoadPool, DeletePool, proxmoxVars
    <2>2. Goto(m, "idle") \/ Goto(m, "loadPool") \/ Goto(m, "deletePool")
      BY <1>5 DEF ListPools, LoadPool, DeletePool, CleanedUp, Return
    <2> QED BY <1>d, <1>q, <2>1, <2>2 DEF Goto, VMof, Done
  <1>6. CASE RequestVM(m)
    <2> DEFINE v == [owner |-> m, pool |-> Pool(m), member |-> FALSE,
                     status |-> "creating"]
    <2>1. /\ vms' = Append(vms, v) /\ Goto(m, "posted") /\ UNCHANGED <<phase, rec>>
          /\ posted' = [posted EXCEPT ![m] = Len(vms) + 1] /\ pc[m] = "request"
      BY <1>6, CalmSteps DEF RequestVM, omniVars
    <2>2. VMof(m)' = Len(vms) + 1 /\ ~Done(m)' /\ VMof(m) = 0
      BY <1>d, <1>r, <2>1 DEF RecordedOf, Goto, VMof, Done
    <2>3. v.owner = m /\ v.pool = Pool(m)
      OBVIOUS
    <2>7. v \in VM
      <3>1. Pool(m) \in Pools \cup {""}
        BY <1>0, TypeParts, PoolTyped
      <3> QED BY <3>1 DEF VM
    <2> HIDE DEF v
    <2>4. /\ DOMAIN vms' = 1 .. Len(vms) + 1 /\ vms'[Len(vms) + 1] = v
          /\ \A i \in 1 .. Len(vms) : vms'[i] = vms[i]
      <3>1. /\ vms' \in Seq(VM) /\ Len(vms') = Len(vms) + 1
            /\ vms'[Len(vms) + 1] = v
            /\ \A i \in 1 .. Len(vms) : vms'[i] = vms[i]
        BY <1>d, <2>1, <2>7, AppendProperties
      <3> QED BY <3>1, LenProperties
    <2>5. PICK n : n = Len(vms) + 1
      OBVIOUS
    <2>8. TracedVM(n)'
      BY <1>o, <2>2, <2>3, <2>4, <2>5 DEF TracedVM, Pool, Class, VMof, Done
    <2>6. ASSUME NEW i \in 1 .. Len(vms) PROVE TracedVM(i)'
      <3>1. vms'[i] = vms[i] /\ TracedVM(i) /\ vms[i].owner \in Machines
        BY <1>0, <1>d, <2>4, OwnerTyped DEF Traced
      <3>2. PICK x \in Machines : x = vms[i].owner
        BY <3>1
      <3>3. x # m
        BY <1>d, <2>2, <3>1, <3>2 DEF TracedVM
      <3>4. /\ VMof(x)' = i /\ (Done(x)' => Done(x)) /\ Pool(x)' = Pool(x)
            /\ vms[i].pool = Pool(x) /\ x = vms'[i].owner
            /\ Done(x) => ~vms[i].member /\ vms[i].status # "creating"
        BY <1>o, <3>1, <3>2, <3>3, PoolStays DEF TracedVM
      <3> QED BY <3>1, <3>2, <3>4 DEF TracedVM, VMof, Done, Pool, Class
    <2>9. \A i \in DOMAIN vms' : i \in 1 .. Len(vms) \/ i = n
      BY <1>d, <2>4, <2>5
    <2> QED BY <2>6, <2>8, <2>9 DEF Traced
  <1>7. CASE Deprovision(m)
    <2> DEFINE i == rec[m].vm
    <2>1. UNCHANGED <<rec, posted>> /\ pc[m] = "idle"
      BY <1>7 DEF Deprovision
    <2>2. VMof(m)' = VMof(m) /\ VMof(m) = i
      BY <1>d, <1>7, <2>1, Chosen DEF Goto, VMof
    <2>3. CASE UNCHANGED vms /\ i = 0
      BY <1>q, <2>2, <2>3
    <2>4. CASE i # 0
      <3>1. vms' = [vms EXCEPT ![i].status = "absent", ![i].member = FALSE]
        BY <1>7, <2>4 DEF Deprovision
      <3>2. i \in 1 .. Len(vms)
        BY <1>d, <2>4
      <3>3. PICK P : vms[i] \in [owner: Machines, pool: P, member: BOOLEAN,
                                 status: {"creating", "there", "absent"}]
        BY <1>0, <1>d, <3>2, OwnerTyped
      <3>4. /\ vms'[i].status = "absent" /\ vms'[i].member = FALSE
            /\ vms'[i].owner = vms[i].owner /\ vms'[i].pool = vms[i].pool
            /\ DOMAIN vms' = DOMAIN vms
            /\ \A j \in DOMAIN vms \ {i} : vms'[j] = vms[j]
        <4> HIDE DEF i
        <4> QED BY <1>d, <3>1, <3>2, <3>3
      <3>5. ASSUME NEW j \in DOMAIN vms PROVE TracedVM(j)'
        <4>1. TracedVM(j) /\ vms[j].owner \in Machines
          BY <1>0, OwnerTyped DEF Traced
        <4>2. PICK x \in Machines : x = vms[j].owner
          BY <4>1
        <4>3. x = vms'[j].owner /\ vms'[j].pool = vms[j].pool
          BY <3>4, <4>2
        <4>4. VMof(x) = j /\ vms[j].pool = Pool(x)
          BY <4>1, <4>2 DEF TracedVM
        <4>5. VMof(x)' = j /\ Pool(x)' = Pool(x)
          BY <1>o, <2>2, <4>4, PoolStays
        <4>6. Done(x)' => ~vms'[j].member /\ vms'[j].status # "creating"
          <5>1. CASE j = i
            BY <3>4, <5>1
          <5>2. CASE j # i
            <6>1. x # m
              BY <2>2, <4>4, <5>2
            <6>2. Done(x)' => Done(x)
              BY <1>o, <6>1
            <6> QED BY <3>4, <4>1, <4>2, <5>2, <6>2 DEF TracedVM
          <5> QED BY <5>1, <5>2
        <4> QED BY <4>3, <4>4, <4>5, <4>6 DEF TracedVM, VMof, Done, Pool, Class
      <3> QED BY <3>4, <3>5 DEF Traced
    <2> QED BY <1>7, <2>3, <2>4 DEF Deprovision
  <1> QED BY <1>1, <1>2, <1>3, <1>4, <1>5, <1>6, <1>7, CalmSteps
          DEF Own, Sync, TearDown

LEMMA CreateEndsTraced ==
  ASSUME TypeInv, Traced, NEW i \in DOMAIN vms, CreateEnds(i)
  PROVE  Traced'
  <1>1. UNCHANGED <<class, phase, rec, pc, posted>> /\ vms[i].status = "creating"
    BY OutsideStays DEF Outside, CreateEnds
  <1>2. PICK P : vms[i] \in [owner: Machines, pool: P, member: BOOLEAN,
                             status: {"creating", "there", "absent"}]
    BY OwnerTyped
  <1>3. /\ DOMAIN vms' = DOMAIN vms
        /\ vms'[i].owner = vms[i].owner /\ vms'[i].pool = vms[i].pool
        /\ \A j \in DOMAIN vms \ {i} : vms'[j] = vms[j]
    <2>1. PICK b : \/ vms' = [vms EXCEPT ![i].status = "there", ![i].member = b]
                   \/ vms' = [vms EXCEPT ![i].status = "absent"]
      BY Zenon DEF CreateEnds
    <2> QED BY <1>2, <2>1
  <1>4. ASSUME NEW j \in DOMAIN vms PROVE TracedVM(j)'
    <2>1. TracedVM(j) /\ vms'[j].owner = vms[j].owner /\ vms'[j].pool = vms[j].pool
      BY <1>3 DEF Traced
    <2>2. Done(vms[j].owner) => j # i /\ vms'[j] = vms[j]
      BY <1>1, <1>3, <2>1 DEF TracedVM
    <2> QED BY <1>1, <2>1, <2>2 DEF TracedVM, VMof, Done, Pool, Class
  <1> QED BY <1>3, <1>4 DEF Traced

LEMMA TracedNext == PoolInv /\ [Next]_vars /\ calm' => Traced'
  <1> SUFFICES ASSUME PoolInv, [Next]_vars, calm' PROVE Traced'
    OBVIOUS
  <1>0. TypeInv /\ Traced /\ ~Crash
    BY CalmWasCalm, CalmSteps DEF PoolInv
  <1>1. ASSUME NEW p \in Pools, AdminChanges(p) PROVE Traced'
    <2>1. UNCHANGED <<class, phase, rec, pc, posted>> /\ UNCHANGED vms
      BY <1>1, OutsideStays DEF Outside, AdminChanges
    <2> QED BY <1>0, <2>1, TracedQuiet DEF VMof, Done
  <1>2. CASE UNCHANGED vars
    <2>1. UNCHANGED <<class, phase, rec, pc, posted>> /\ UNCHANGED vms
      BY <1>2, OutsideStays DEF Outside, vars, proxmoxVars
    <2> QED BY <1>0, <2>1, TracedQuiet DEF VMof, Done
  <1> QED BY <1>0, <1>1, <1>2, OwnTraced, CreateEndsTraced, StepKinds DEF Outside

\* A pool stays kept if no other becomes ours and every machine that kept it
\* does so still, or leaves it to another one.
LEMMA KeptQuiet ==
  ASSUME Kept, UNCHANGED class, guests \subseteq guests',
         \A p \in Pools : pools'[p] = "ours" => pools[p] = "ours",
         \A m \in Machines :
           /\ Keeps(m) /\ Pool(m) \in Pools
           /\ pools'[Pool(m)] = "ours" /\ Pool(m) \notin guests'
           => \E x \in Machines : Pool(x) = Pool(m) /\ Keeps(x)'
  PROVE  Kept'
  BY PoolStays DEF Kept

\* A pool that has members when a machine has done with its VM has a machine
\* that is not done.
LEMMA Another ==
  ASSUME TypeInv, Recorded, Traced, NEW m \in Machines, pc[m] \in Cleaning,
         Pool(m) \in Pools, Members(Pool(m)) # {}
  PROVE  \E x \in Machines \ {m} : Pool(x) = Pool(m) /\ Keeps(x)
  <1>1. PICK i \in DOMAIN vms : vms[i].member /\ vms[i].pool = Pool(m)
    BY DEF Members
  <1>2. vms[i].owner \in Machines /\ TracedVM(i) /\ i # 0
    BY OwnerTyped, Domains DEF Traced
  <1>3. PICK x \in Machines : x = vms[i].owner
    BY <1>2
  <1>4. Pool(x) = Pool(m) /\ VMof(x) # 0 /\ ~Done(x)
    BY <1>1, <1>2, <1>3 DEF TracedVM
  <1>5. x # m
    BY <1>4 DEF Done, Ending
  <1>6. Keeps(x)
    BY <1>4 DEF Keeps, VMof, Done
  <1> QED BY <1>4, <1>5, <1>6

LEMMA OwnKept ==
  ASSUME PoolInv, [Next]_vars, calm', NEW m \in Machines, Own(m)
  PROVE  Kept'
  <1>0. TypeInv /\ Recorded /\ Traced /\ Kept /\ RecordedOf(m)
    BY CalmWasCalm DEF PoolInv, Recorded
  <1>d. /\ pc \in [Machines -> Steps] /\ DOMAIN phase = Machines
        /\ DOMAIN rec = Machines /\ DOMAIN posted = Machines
        /\ DOMAIN pools = Pools
    BY <1>0, Domains
  <1>o. /\ UNCHANGED class
        /\ \A x \in Machines \ {m} : Keeps(x)' <=> Keeps(x)
    BY <1>0, OthersStay DEF Keeps
  <1>q. ASSUME guests \subseteq guests',
               \A p \in Pools : pools'[p] = "ours" => pools[p] = "ours",
               /\ Keeps(m) /\ Pool(m) \in Pools
               /\ pools'[Pool(m)] = "ours" /\ Pool(m) \notin guests'
               => \E x \in Machines : Pool(x) = Pool(m) /\ Keeps(x)'
        PROVE  Kept'
    BY <1>0, <1>o, <1>q, KeptQuiet
  <1> USE DEF Acting, Ending, Ensuring, Cleaning
  <1>1. CASE PickPrimary(m)
    <2>1. /\ UNCHANGED <<pools, guests>> /\ rec[m].vm = 0 /\ pc[m] = "idle"
      BY <1>1 DEF PickPrimary, omniVars, proxmoxVars
    <2> QED BY <1>q, <2>1 DEF Keeps
  <1>2. CASE FindPool(m)
    <2>1. UNCHANGED <<pools, guests>> /\ pc[m] = "findPool"
      BY <1>2 DEF FindPool, proxmoxVars
    <2> QED BY <1>0, <1>q, <2>1 DEF RecordedOf, Keeps
  <1>3. CASE NewPool(m)
    <2>1. pc[m] = "newPool" /\ UNCHANGED <<rec, phase, guests>>
      BY <1>3 DEF NewPool, omniVars
    <2>2. ~Keeps(m) /\ phase[m] # "gone"
      BY <1>0, <2>1 DEF RecordedOf, Keeps
    <2>3. CASE UNCHANGED pools
      BY <1>q, <2>1, <2>2, <2>3
    <2>4. CASE pools' = [pools EXCEPT ![Pool(m)] = "ours"] /\ Goto(m, "request")
      <3>1. Keeps(m)' /\ \A x \in Machines : Pool(x)' = Pool(x)
        BY <1>d, <1>o, <2>1, <2>2, <2>4, PoolStays DEF Goto, Keeps
      <3>2. ASSUME NEW p \in Pools, pools'[p] = "ours", p \notin guests'
            PROVE  \E x \in Machines : Pool(x)' = p /\ Keeps(x)'
        <4>1. CASE p = Pool(m)
          BY <3>1, <4>1
        <4>2. CASE p # Pool(m)
          <5>1. PICK x \in Machines : Pool(x) = p /\ Keeps(x)
            BY <1>0, <1>d, <2>1, <2>4, <3>2, <4>2 DEF Kept
          <5> QED BY <1>o, <2>2, <3>1, <5>1
        <4> QED BY <4>1, <4>2
      <3> QED BY <3>2 DEF Kept
    <2> QED BY <1>3, <2>3, <2>4 DEF NewPool
  <1>4. CASE RequestVM(m)
    <2>1. /\ UNCHANGED <<rec, phase, pools, guests>>
          /\ Goto(m, "posted") /\ pc[m] = "request"
      BY <1>4, CalmSteps DEF RequestVM, omniVars
    <2>2. Keeps(m)'
      BY <1>0, <1>d, <2>1 DEF RecordedOf, Goto, Keeps
    <2> QED BY <1>q, <2>1, <2>2
  <1>5. CASE Commit(m)
    <2>1. /\ UNCHANGED <<phase, pools, guests>> /\ pc[m] = "posted"
          /\ rec' = [rec EXCEPT ![m] = [vm |-> posted[m], pool |-> Pool(m)]]
      BY <1>5, CalmSteps DEF Commit, proxmoxVars
    <2>2. rec'[m].vm # 0 /\ phase'[m] # "gone"
      BY <1>0, <1>d, <2>1 DEF RecordedOf
    <2> QED BY <1>q, <2>1, <2>2 DEF Keeps
  <1>6. CASE Locking(m) \/ RequestTeardown(m)
    <2>1. /\ UNCHANGED <<rec, pools, guests>>
          /\ \/ UNCHANGED phase /\ pc[m] \in {"lockPool", "lockCleanup"}
             \/ UNCHANGED pc /\ phase' = [phase EXCEPT ![m] = "tearingDown"]
      BY <1>6 DEF Locking, LockPool, LockCleanup, Acquire, RequestTeardown,
         omniVars, controlVars, proxmoxVars
    <2>2. Keeps(m) => Keeps(m)'
      BY <1>0, <1>d, <2>1 DEF RecordedOf, Keeps
    <2> QED BY <1>q, <2>1, <2>2
  <1>7. CASE Deprovision(m)
    <2>1. UNCHANGED <<rec, pools, guests>> /\ pc[m] = "idle"
          /\ phase[m] = "tearingDown"
      BY <1>7 DEF Deprovision
    <2>2. \/ rec[m].vm = 0
          \/ rec[m].vm # 0 /\ rec[m].pool = ""
          \/ rec[m].vm # 0 /\ UNCHANGED phase
      BY <1>7, Zenon DEF Deprovision
    <2>3. Pool(m) \in Pools /\ Keeps(m) => Keeps(m)'
      <3>1. Pool(m) \in Pools => Pool(m) # ""
        BY PoolsAssumption
      <3>2. rec[m].vm # 0 => rec[m].pool = Pool(m)
        BY <1>0 DEF RecordedOf
      <3>3. Pool(m) \in Pools /\ Keeps(m) => rec[m].vm # 0 /\ UNCHANGED phase
        BY <2>1, <2>2, <3>1, <3>2 DEF Keeps
      <3> QED BY <2>1, <3>3 DEF Keeps
    <2> QED BY <1>q, <2>1, <2>3
  <1>8. CASE ListPools(m) \/ LoadPool(m) \/ DeletePool(m)
    <2>1. /\ UNCHANGED <<rec, guests>> /\ pc[m] \in Cleaning
          /\ rec[m].vm # 0 /\ rec[m].pool = Pool(m)
      BY <1>0, <1>8
         DEF ListPools, LoadPool, DeletePool, proxmoxVars, RecordedOf
    <2>2. \/ UNCHANGED pools
          \/ pools' = [pools EXCEPT ![Pool(m)] = "none"]
      BY <1>8, <2>1 DEF ListPools, LoadPool, DeletePool, proxmoxVars
    <2>3. \A p \in Pools : pools'[p] = "ours" => pools[p] = "ours"
      BY <1>d, <2>2
    <2>4. \/ UNCHANGED phase
          \/ Pool(m) \in Pools =>
               \/ pools'[Pool(m)] # "ours" \/ Pool(m) \in guests
               \/ Members(Pool(m)) # {}
      <3>1. CASE ListPools(m)
        BY <2>1, <3>1 DEF ListPools, proxmoxVars
      <3>2. CASE LoadPool(m)
        BY <2>1, <3>2 DEF LoadPool, IsEmpty, proxmoxVars
      <3>3. CASE DeletePool(m)
        BY <1>d, <2>1, <3>3 DEF DeletePool, IsEmpty, Exists
      <3> QED BY <1>8, <3>1, <3>2, <3>3
    <2>5. CASE UNCHANGED phase
      BY <1>q, <2>1, <2>3, <2>5 DEF Keeps
    <2>6. CASE ~UNCHANGED phase
      <3>1. /\ Pool(m) \in Pools /\ pools'[Pool(m)] = "ours"
            /\ Pool(m) \notin guests'
            => \E x \in Machines \ {m} : Pool(x) = Pool(m) /\ Keeps(x)
        BY <1>0, <2>1, <2>4, <2>6, Another
      <3> QED BY <1>o, <1>q, <2>1, <2>3, <3>1
    <2> QED BY <2>5, <2>6
  <1> QED BY <1>1, <1>2, <1>3, <1>4, <1>5, <1>6, <1>7, <1>8, CalmSteps
          DEF Own, Sync, TearDown

LEMMA KeptNext == PoolInv /\ [Next]_vars /\ calm' => Kept'
  <1> SUFFICES ASSUME PoolInv, [Next]_vars, calm' PROVE Kept'
    OBVIOUS
  <1>0. TypeInv /\ Kept /\ ~Crash /\ DOMAIN pools = Pools
    BY CalmWasCalm, CalmSteps, Domains DEF PoolInv
  <1>1. CASE Outside
    <2>1. UNCHANGED <<class, phase, rec, pc>>
      BY <1>1, OutsideStays
    <2>2. /\ guests \subseteq guests'
          /\ \A p \in Pools : pools'[p] = "ours" => pools[p] = "ours"
      <3>1. ASSUME NEW i, CreateEnds(i) PROVE UNCHANGED <<pools, guests>>
        BY <3>1, Zenon DEF CreateEnds
      <3>2. ASSUME NEW p \in Pools, AdminChanges(p)
            PROVE  /\ guests \subseteq guests'
                   /\ \A q \in Pools : pools'[q] = "ours" => pools[q] = "ours"
        BY <1>0, <3>2 DEF AdminChanges
      <3>3. UNCHANGED vars => UNCHANGED <<pools, guests>>
        BY DEF vars, proxmoxVars
      <3> QED BY <1>1, <3>1, <3>2, <3>3 DEF Outside
    <2>3. \A m \in Machines : Keeps(m) => Keeps(m)'
      BY <2>1 DEF Keeps
    <2> QED BY <1>0, <2>1, <2>2, <2>3, KeptQuiet
  <1> QED BY <1>0, <1>1, OwnKept, StepKinds

\* As long as every failure is one of a create task or an administrator's
\* doing, a pool the provider made and that is empty belongs to a machine that
\* is not gone.  Two things make it so: poolMu, under which a cleanup that
\* finds the pool in use leaves it to the machine that uses it, and that
\* machine's record of its VM, without which Deprovision would skip the pool.
THEOREM NoPoolLeftBehindHolds == Spec => []NoPoolLeftBehind
  <1>1. Init => PoolInv
    BY TypeInit, TracedInit DEF PoolInv
  <1>2. PoolInv /\ [Next]_vars => PoolInv'
    BY TypeNext, RecordedNext, TracedNext, KeptNext DEF PoolInv
  <1>3. PoolInv => NoPoolLeftBehind
    BY DEF PoolInv, NoPoolLeftBehind, Kept, Keeps, IsEmpty
  <1> QED BY <1>1, <1>2, <1>3, PTL DEF Spec

----------------------------------------------------------------------------
(* Lists of options. *)

\* The list says that the option has this value.
Gives(list, name, value) ==
  \E i \in DOMAIN list : list[i][1] = name /\ list[i][2] = value

\* What an option is about, by its name; the first disk and the first NIC,
\* which every VM has, are kinds of their own.
Kind(name) ==
  IF name = <<"scsi", 0>> THEN "scsi0"
  ELSE IF name = <<"net", 0>> THEN "net0" ELSE name[1]

\* A list that names no option twice.
Tidy(list) ==
  /\ \E S : list \in Seq(S)
  /\ \A i, j \in DOMAIN list : list[i][1] = list[j][1] => i = j

\* Its options are of these kinds.
About(list, kinds) == \A n, v : Gives(list, n, v) => Kind(n) \in kinds

\* Two sets of kinds have none in common.
Apart(kinds, more) == kinds \cap more = {}

\* The list says what the two others say.
Joins(list, s, t) ==
  \A n, v : Gives(list, n, v) <=> Gives(s, n, v) \/ Gives(t, n, v)

LEMMA KindOfPlain ==
  ASSUME NEW name PROVE Kind(<<name>>) = name
  BY DEF Kind

LEMMA KindOfNumbered ==
  ASSUME NEW name, NEW i \in Nat, i # 0 \/ name \notin {"scsi", "net"}
  PROVE  Kind(<<name, i>>) = name
  BY DEF Kind

LEMMA JoinedTidy ==
  ASSUME NEW s, NEW t, NEW K, NEW L, Tidy(s), Tidy(t),
         About(s, K), About(t, L), Apart(K, L)
  PROVE  Tidy(s \o t) /\ About(s \o t, K \cup L) /\ Joins(s \o t, s, t)
  <1>1. PICK S : s \in Seq(S)
    BY DEF Tidy
  <1>2. PICK T : t \in Seq(T)
    BY DEF Tidy
  <1>3. s \in Seq(S \cup T) /\ t \in Seq(S \cup T)
    BY <1>1, <1>2, SeqMonotonic
  <1> DEFINE u == s \o t
  <1>4. /\ u \in Seq(S \cup T)
        /\ Len(s) \in Nat /\ Len(t) \in Nat
        /\ DOMAIN s = 1..Len(s) /\ DOMAIN t = 1..Len(t)
        /\ DOMAIN u = 1..(Len(s) + Len(t))
        /\ \A i \in DOMAIN u :
             u[i] = IF i <= Len(s) THEN s[i] ELSE t[i - Len(s)]
    BY <1>3, ConcatProperties, LenProperties
  <1> HIDE DEF u
  <1>5. \A i \in DOMAIN u : \/ i \in DOMAIN s /\ u[i] = s[i]
                            \/ i - Len(s) \in DOMAIN t /\ u[i] = t[i - Len(s)]
    BY <1>4
  <1>6. /\ \A i \in DOMAIN s : i \in DOMAIN u /\ u[i] = s[i]
        /\ \A i \in DOMAIN t : i + Len(s) \in DOMAIN u /\ u[i + Len(s)] = t[i]
    <2>1. \A i \in DOMAIN s : i \in DOMAIN u /\ u[i] = s[i]
      BY <1>4
    <2>2. ASSUME NEW i \in DOMAIN t
          PROVE  i + Len(s) \in DOMAIN u /\ u[i + Len(s)] = t[i]
      <3>1. PICK j : j = i + Len(s)
        OBVIOUS
      <3>2. j \in DOMAIN u /\ ~(j <= Len(s)) /\ j - Len(s) = i
        BY <1>4, <3>1
      <3>3. u[j] = t[j - Len(s)]
        BY <1>4, <3>2
      <3> QED BY <3>1, <3>2, <3>3
    <2> QED BY <2>1, <2>2
  <1>7. \A i \in DOMAIN s, j \in DOMAIN t : s[i][1] # t[j][1]
    <2>1. ASSUME NEW i \in DOMAIN s PROVE Kind(s[i][1]) \in K
      BY DEF About, Gives
    <2>2. ASSUME NEW j \in DOMAIN t PROVE Kind(t[j][1]) \in L
      BY DEF About, Gives
    <2> QED BY <2>1, <2>2 DEF Apart
  <1>8. ASSUME NEW i \in DOMAIN u, NEW j \in DOMAIN u, u[i][1] = u[j][1]
        PROVE  i = j
    <2>1. CASE i \in DOMAIN s /\ j \in DOMAIN s
      BY <1>6, <1>8, <2>1 DEF Tidy
    <2>2. CASE i \notin DOMAIN s /\ j \notin DOMAIN s
      <3>1. PICK a \in DOMAIN t : a = i - Len(s) /\ u[i] = t[a]
        BY <1>5, <2>2
      <3>2. PICK b \in DOMAIN t : b = j - Len(s) /\ u[j] = t[b]
        BY <1>5, <2>2
      <3>3. a = b
        BY <1>8, <3>1, <3>2 DEF Tidy
      <3> QED BY <1>4, <3>1, <3>2, <3>3
    <2>3. CASE i \in DOMAIN s /\ j \notin DOMAIN s
      BY <1>5, <1>6, <1>7, <1>8, <2>3
    <2>4. CASE i \notin DOMAIN s /\ j \in DOMAIN s
      BY <1>5, <1>6, <1>7, <1>8, <2>4
    <2> QED BY <2>1, <2>2, <2>3, <2>4
  <1>9. Tidy(u)
    BY <1>4, <1>8 DEF Tidy
  <1>10. \A n, v : Gives(u, n, v) <=> Gives(s, n, v) \/ Gives(t, n, v)
    BY <1>5, <1>6 DEF Gives
  <1>11. Joins(u, s, t)
    BY <1>10 DEF Joins
  <1>12. About(u, K \cup L)
    BY <1>10 DEF About
  <1> QED BY <1>9, <1>11, <1>12 DEF u

LEMMA SingleTidy ==
  ASSUME NEW name, NEW value
  PROVE  /\ Tidy(Single(name, value)) /\ About(Single(name, value), {name})
         /\ \A n, v : Gives(Single(name, value), n, v) <=>
                        n = <<name>> /\ v = value
  <1> DEFINE s == << <<<<name>>, value>> >>
  <1>1. /\ s \in Seq({<<<<name>>, value>>})
        /\ DOMAIN s = {1} /\ s[1][1] = <<name>> /\ s[1][2] = value
    OBVIOUS
  <1> HIDE DEF s
  <1>2. Tidy(s)
    BY <1>1 DEF Tidy
  <1>3. \A n, v : Gives(s, n, v) <=> n = <<name>> /\ v = value
    BY <1>1 DEF Gives
  <1>4. About(s, {name})
    BY <1>3, KindOfPlain DEF About
  <1> QED BY <1>2, <1>3, <1>4 DEF s, Single

LEMMA WhenTidy ==
  ASSUME NEW s, Tidy(s), NEW C \in BOOLEAN
  PROVE  /\ Tidy(When(C, s))
         /\ \A n, v : Gives(When(C, s), n, v) <=> C /\ Gives(s, n, v)
  <1>1. CASE C
    BY <1>1 DEF When
  <1>2. CASE ~C
    <2>1. When(C, s) = <<>>
      BY <1>2 DEF When
    <2>2. <<>> \in Seq({}) /\ DOMAIN <<>> = {}
      BY EmptySeq
    <2> QED BY <1>2, <2>1, <2>2 DEF Tidy, Gives
  <1> QED BY <1>1, <1>2

\* The name of the i-th device of a list, and the options of n devices.
Slot(name, first, i) == <<name, first + i - 1>>

Numbered(name, first, n, value) ==
  [i \in 1..n |-> <<<<name, first + i - 1>>, value[i]>>]

\* The list gives these values to the devices of this name; and of the names
\* of this kind it gives no other.
GivesDevices(list, name, first, n, value) ==
  /\ \A i \in 1..n : \A v :
       Gives(list, Slot(name, first, i), v) <=> v = value[i]
  /\ \A x, v : Gives(list, x, v) /\ Kind(x) = name =>
                \E i \in 1..n : x = Slot(name, first, i)

LEMMA NumberedTidy ==
  ASSUME NEW n \in Nat, NEW name, NEW first \in Nat, NEW value,
         first # 0 \/ name \notin {"scsi", "net"},
         NEW s, s = Numbered(name, first, n, value)
  PROVE  Tidy(s) /\ About(s, {name}) /\ GivesDevices(s, name, first, n, value)
  <1>1. /\ DOMAIN s = 1..n
        /\ \A i \in 1..n : /\ s[i][1] = <<name, first + i - 1>>
                           /\ s[i][2] = value[i]
    BY DEF Numbered
  <1>2. s \in Seq({s[i] : i \in 1..n})
    <2>1. s \in [1..n -> {s[i] : i \in 1..n}]
      BY DEF Numbered
    <2> QED BY <2>1
  <1>3. ASSUME NEW i \in 1..n PROVE Kind(s[i][1]) = name
    <2>0. first + i - 1 \in Nat
      OBVIOUS
    <2>1. PICK k \in Nat : k = first + i - 1
      BY <2>0
    <2>2. k # 0 \/ name \notin {"scsi", "net"}
      BY <2>1
    <2> QED BY <1>1, <2>1, <2>2, KindOfNumbered
  <1>4. ASSUME NEW i \in 1..n, NEW j \in 1..n, s[i][1] = s[j][1] PROVE i = j
    <2>1. PICK k \in Nat : k = first + i - 1
      OBVIOUS
    <2>2. PICK l \in Nat : l = first + j - 1
      OBVIOUS
    <2>3. <<name, k>> = <<name, l>>
      BY <1>1, <1>4, <2>1, <2>2
    <2>4. k = l
      BY <2>3
    <2> QED BY <2>1, <2>2, <2>4
  <1>5. Tidy(s) /\ About(s, {name})
    BY <1>1, <1>2, <1>3, <1>4 DEF Tidy, About, Gives
  <1>6. \A i \in 1..n : s[i][1] = Slot(name, first, i)
    BY <1>1 DEF Slot
  <1>7. ASSUME NEW i \in 1..n, NEW v
        PROVE  Gives(s, Slot(name, first, i), v) <=> v = value[i]
    BY <1>1, <1>4, <1>6 DEF Gives
  <1>8. ASSUME NEW x, NEW v, Gives(s, x, v)
        PROVE  \E i \in 1..n : x = Slot(name, first, i)
    BY <1>1, <1>6, <1>8 DEF Gives
  <1> QED BY <1>5, <1>7, <1>8 DEF GivesDevices

\* The request of a list that names no option twice is the list, read as a
\* function.
LEMMA RequestIsList ==
  ASSUME NEW s, Tidy(s), NEW name, NEW value
  PROVE  Gives(s, name, value) <=>
           name \in DOMAIN Request(s) /\ Request(s)[name] = value
  <1> DEFINE Last(n, i) == /\ s[i][1] = n
                           /\ \A j \in DOMAIN s : s[j][1] = n => j <= i
  <1>1. DOMAIN Request(s) = {s[i][1] : i \in DOMAIN s}
    BY DEF Request
  <1>2. ASSUME NEW i \in DOMAIN s
        PROVE  Request(s)[s[i][1]] = s[i][2]
    <2>1. DOMAIN s \subseteq Nat
      <3>1. PICK S : s \in Seq(S)
        BY DEF Tidy
      <3> QED BY <3>1
    <2>2. Last(s[i][1], i)
      BY <2>1 DEF Tidy
    <2>3. \A j \in DOMAIN s : Last(s[i][1], j) => j = i
      BY DEF Tidy
    <2>4. (CHOOSE j \in DOMAIN s : Last(s[i][1], j)) = i
      BY <2>2, <2>3
    <2> QED BY <1>1, <2>4 DEF Request
  <1> QED BY <1>1, <1>2 DEF Gives

\* What Proxmox reads of an option that the list gives on a condition.
LEMMA GetIs ==
  ASSUME NEW s, Tidy(s), NEW name, NEW x, NEW C \in BOOLEAN, NEW default,
         \A v : Gives(s, name, v) <=> C /\ v = x
  PROVE  Get(Request(s), name, default) = IF C THEN x ELSE default
  <1>1. \A v : C /\ v = x <=> name \in DOMAIN Request(s) /\ Request(s)[name] = v
    BY RequestIsList
  <1>2. CASE C
    BY <1>1, <1>2 DEF Get
  <1>3. CASE ~C
    BY <1>1, <1>3 DEF Get
  <1> QED BY <1>2, <1>3

\* Proxmox finds the devices at their positions.
LEMMA NumbersAre ==
  ASSUME NEW s, Tidy(s), NEW n \in Nat, NEW name, NEW first \in Nat, NEW value,
         first # 0 \/ name \notin {"scsi", "net"},
         GivesDevices(s, name, first, n, value)
  PROVE  /\ Numbers(Request(s), name, first) = 1..n
         /\ \A i \in 1..n : Request(s)[Slot(name, first, i)] = value[i]
  <1> DEFINE r == Request(s)
  <1>1. \A x, v : Gives(s, x, v) <=> x \in DOMAIN r /\ r[x] = v
    BY RequestIsList
  <1> HIDE DEF r
  <1>2. ASSUME NEW i \in 1..n
        PROVE  /\ Slot(name, first, i) \in DOMAIN r
               /\ r[Slot(name, first, i)] = value[i]
    BY <1>1 DEF GivesDevices
  <1>3. ASSUME NEW i \in 1..n
        PROVE  i \in Numbers(r, name, first)
    <2>1. PICK k \in Nat : k = first + i - 1
      OBVIOUS
    <2>2. PICK x : x = <<name, k>>
      OBVIOUS
    <2>3. Len(x) = 2 /\ x[1] = name /\ x[2] = k
      BY <2>2
    <2>4. x \in DOMAIN r
      BY <1>2, <2>1, <2>2 DEF Slot
    <2>5. k >= first /\ i = k - first + 1
      BY <2>1
    <2> QED BY <2>3, <2>4, <2>5 DEF Numbers
  <1>4. ASSUME NEW x \in DOMAIN r, x[1] = name, x[2] >= first
        PROVE  x[2] - first + 1 \in 1..n
    <2>1. x # <<"scsi", 0>> /\ x # <<"net", 0>>
      BY <1>4
    <2>2. Kind(x) = name
      BY <1>4, <2>1 DEF Kind
    <2>3. PICK i \in 1..n : x = Slot(name, first, i)
      BY <1>1, <2>2 DEF GivesDevices
    <2>4. x[2] = first + i - 1
      BY <2>3 DEF Slot
    <2> QED BY <2>4
  <1>5. Numbers(r, name, first) = 1..n
    BY <1>3, <1>4 DEF Numbers
  <1> QED BY <1>2, <1>5 DEF r

LEMMA OptionalTidy ==
  ASSUME NEW name, NEW value, NEW C \in BOOLEAN
  PROVE  /\ Tidy(When(C, Single(name, value)))
         /\ About(When(C, Single(name, value)), {name})
         /\ \A n, v : Gives(When(C, Single(name, value)), n, v) <=>
                        C /\ n = <<name>> /\ v = value
  <1> DEFINE s == Single(name, value)
  <1>1. /\ Tidy(s) /\ About(s, {name})
        /\ \A n, v : Gives(s, n, v) <=> n = <<name>> /\ v = value
    BY SingleTidy
  <1> HIDE DEF s
  <1>2. /\ Tidy(When(C, s))
        /\ \A n, v : Gives(When(C, s), n, v) <=> C /\ Gives(s, n, v)
    BY <1>1, WhenTidy
  <1>3. About(When(C, s), {name})
    BY <1>1, <1>2 DEF About
  <1> QED BY <1>1, <1>2, <1>3 DEF s

LEMMA FirstDevicesTidy ==
  ASSUME NEW disk, NEW nic, NEW s,
         s = << <<<<"scsi", 0>>, disk>>, <<<<"net", 0>>, nic>> >>
  PROVE  /\ Tidy(s) /\ About(s, {"scsi0", "net0"})
         /\ \A v : /\ Gives(s, <<"scsi", 0>>, v) <=> v = disk
                   /\ Gives(s, <<"net", 0>>, v) <=> v = nic
  <1>1. /\ s \in Seq({s[1], s[2]}) /\ DOMAIN s = {1, 2}
        /\ s[1][1] = <<"scsi", 0>> /\ s[1][2] = disk
        /\ s[2][1] = <<"net", 0>> /\ s[2][2] = nic
    OBVIOUS
  <1>2. <<"scsi", 0>> # <<"net", 0>>
    OBVIOUS
  <1>3. Kind(<<"scsi", 0>>) = "scsi0" /\ Kind(<<"net", 0>>) = "net0"
    BY <1>2 DEF Kind
  <1>4. Tidy(s) /\ About(s, {"scsi0", "net0"})
    BY <1>1, <1>2, <1>3 DEF Tidy, About, Gives
  <1> QED BY <1>1, <1>2, <1>4 DEF Gives

----------------------------------------------------------------------------
(* What the options of a class say. *)

IsSet(text) == text # ""

AllTags(c) == c.tags \cup (IF c.set = "" THEN {} ELSE {<<"request", c.set>>})

\* The values of the devices of a class.
DiskValues(c) == [i \in DOMAIN c.disks |-> DiskValue(c.disks[i])]

NICValues(c) ==
  [i \in DOMAIN c.nics |->
     NICValue(c.nics[i].bridge, c.nics[i].firewall, c.nics[i].vlan)]

PCIValues(c) == [i \in DOMAIN c.pcis |-> PCIValue(c.pcis[i])]

USBValues(c) == [i \in DOMAIN c.usbs |-> USBValue(c.usbs[i])]

PCIOptions(c) == Slots("hostpci", 0, c.pcis, PCIValue)

\* A part of the list that is about devices of one name.
DevicePart(s, name, first, n, value) ==
  Tidy(s) /\ About(s, {name}) /\ GivesDevices(s, name, first, n, value)

LEMMA DevicesTidy ==
  ASSUME NEW c \in MachineClass
  PROVE  /\ DevicePart(AdditionalDisks(c), "scsi", 1, Len(c.disks), DiskValues(c))
         /\ DevicePart(AdditionalNICs(c), "net", 1, Len(c.nics), NICValues(c))
         /\ DevicePart(PCIOptions(c), "hostpci", 0, Len(c.pcis), PCIValues(c))
         /\ DevicePart(USBDeviceOptions(c), "usb", 0, Len(c.usbs), USBValues(c))
  <1>1. /\ DOMAIN c.disks = 1..Len(c.disks) /\ Len(c.disks) \in Nat
        /\ DOMAIN c.nics = 1..Len(c.nics) /\ Len(c.nics) \in Nat
        /\ DOMAIN c.pcis = 1..Len(c.pcis) /\ Len(c.pcis) \in Nat
        /\ DOMAIN c.usbs = 1..Len(c.usbs) /\ Len(c.usbs) \in Nat
    BY DEF MachineClass
  <1>2. 1 \in Nat /\ 1 # 0 /\ 0 \in Nat
        /\ "hostpci" \notin {"scsi", "net"} /\ "usb" \notin {"scsi", "net"}
    OBVIOUS
  <1>3. DevicePart(AdditionalDisks(c), "scsi", 1, Len(c.disks), DiskValues(c))
    <2>1. AdditionalDisks(c) = Numbered("scsi", 1, Len(c.disks), DiskValues(c))
      BY <1>1 DEF AdditionalDisks, Slots, Numbered, DiskValues
    <2> QED BY <1>1, <1>2, <2>1, NumberedTidy DEF DevicePart
  <1>4. DevicePart(AdditionalNICs(c), "net", 1, Len(c.nics), NICValues(c))
    <2>1. AdditionalNICs(c) = Numbered("net", 1, Len(c.nics), NICValues(c))
      BY <1>1 DEF AdditionalNICs, Slots, Numbered, NICValues
    <2> QED BY <1>1, <1>2, <2>1, NumberedTidy DEF DevicePart
  <1>5. DevicePart(PCIOptions(c), "hostpci", 0, Len(c.pcis), PCIValues(c))
    <2>1. PCIOptions(c) = Numbered("hostpci", 0, Len(c.pcis), PCIValues(c))
      BY <1>1 DEF PCIOptions, Slots, Numbered, PCIValues
    <2> QED BY <1>1, <1>2, <2>1, NumberedTidy DEF DevicePart
  <1>6. DevicePart(USBDeviceOptions(c), "usb", 0, Len(c.usbs), USBValues(c))
    <2>1. USBDeviceOptions(c) = Numbered("usb", 0, Len(c.usbs), USBValues(c))
      BY <1>1 DEF USBDeviceOptions, Slots, Numbered, USBValues
    <2> QED BY <1>1, <1>2, <2>1, NumberedTidy DEF DevicePart
  <1> QED BY <1>3, <1>4, <1>5, <1>6

\* What a part says of its devices a list says that agrees with the part on
\* all names of its kind.
LEMMA DevicesOf ==
  ASSUME NEW o, NEW s, NEW name, NEW first \in Nat, NEW n \in Nat, NEW value,
         first # 0 \/ name \notin {"scsi", "net"},
         DevicePart(s, name, first, n, value),
         \A x, v : Kind(x) = name => (Gives(o, x, v) <=> Gives(s, x, v))
  PROVE  GivesDevices(o, name, first, n, value)
  <1>1. ASSUME NEW i \in 1..n PROVE Kind(Slot(name, first, i)) = name
    <2>1. PICK k \in Nat : k = first + i - 1
      <3>1. first + i - 1 \in Nat
        OBVIOUS
      <3> QED BY <3>1
    <2>2. k # 0 \/ name \notin {"scsi", "net"}
      BY <2>1
    <2> QED BY <2>1, <2>2, KindOfNumbered DEF Slot
  <1> QED BY <1>1 DEF DevicePart, GivesDevices

CPUType(c) == Or(c.cpuType, "x86-64-v2-AES")

Bridge(c) == Or(c.bridge, "vmbr0")

\* What each option of the list o is, in terms of machine m and the fields of
\* its class c.
Tells(o, m, c) ==
  /\ \A v : /\ Gives(o, <<"name">>, v) <=> v = m
            /\ Gives(o, <<"cpu">>, v) <=> v = CPUType(c)
            /\ Gives(o, <<"cores">>, v) <=> v = c.cores
            /\ Gives(o, <<"sockets">>, v) <=> v = c.sockets
            /\ Gives(o, <<"memory">>, v) <=> v = c.memory
            /\ Gives(o, <<"scsi", 0>>, v) <=> v = DiskValue(c.disk)
            /\ Gives(o, <<"net", 0>>, v) <=>
                 v = NICValue(Bridge(c), c.firewall # "off", c.vlan)
  /\ \A v : /\ Gives(o, <<"tags">>, v) <=> AllTags(c) # {} /\ v = AllTags(c)
            /\ Gives(o, <<"pool">>, v) <=> IsSet(PoolOf(c)) /\ v = PoolOf(c)
            /\ Gives(o, <<"machine">>, v) <=>
                 IsSet(c.machineType) /\ v = c.machineType
            /\ Gives(o, <<"bios">>, v) <=> IsSet(c.bios) /\ v = c.bios
            /\ Gives(o, <<"efidisk0">>, v) <=>
                 c.bios = "ovmf" /\ v = PickStorage(c.disk.selector)
            /\ Gives(o, <<"vga">>, v) <=> IsSet(c.vga) /\ v = c.vga
            /\ Gives(o, <<"numa">>, v) <=> c.numa /\ v = 1
            /\ Gives(o, <<"hugepages">>, v) <=>
                 IsSet(c.hugepages) /\ v = Hugepages(c.hugepages)
            /\ Gives(o, <<"balloon">>, v) <=> c.balloon = "off" /\ v = 0
  /\ GivesDevices(o, "scsi", 1, Len(c.disks), DiskValues(c))
  /\ GivesDevices(o, "net", 1, Len(c.nics), NICValues(c))
  /\ GivesDevices(o, "hostpci", 0, Len(c.pcis), PCIValues(c))
  /\ GivesDevices(o, "usb", 0, Len(c.usbs), USBValues(c))

LEMMA OptionsTell ==
  ASSUME NEW m, NEW c \in MachineClass
  PROVE  Tidy(Options(m, c)) /\ Tells(Options(m, c), m, c)
  <1> DEFINE
        name == Single("name", m)
        cpu == Single("cpu", CPUType(c))
        cores == Single("cores", c.cores)
        sockets == Single("sockets", c.sockets)
        memory == Single("memory", c.memory)
        first == << <<<<"scsi", 0>>, DiskValue(c.disk)>>,
                      <<<<"net", 0>>, NICValue(Bridge(c), c.firewall # "off",
                                               c.vlan)>> >>
        tags == When(AllTags(c) # {}, Single("tags", AllTags(c)))
        pool == When(IsSet(PoolOf(c)), Single("pool", PoolOf(c)))
        disks == AdditionalDisks(c)
        machine == When(IsSet(c.machineType),
                        Single("machine", c.machineType))
        bios == When(IsSet(c.bios), Single("bios", c.bios))
        efidisk == When(c.bios = "ovmf",
                       Single("efidisk0", PickStorage(c.disk.selector)))
        vga == When(IsSet(c.vga), Single("vga", c.vga))
        numa == When(c.numa, Single("numa", 1))
        pages == When(IsSet(c.hugepages),
                     Single("hugepages", Hugepages(c.hugepages)))
        balloon == When(c.balloon = "off", Single("balloon", 0))
        nics == AdditionalNICs(c)
        pcis == PCIOptions(c)
        usbs == USBDeviceOptions(c)
        all == name \o cpu \o cores \o sockets \o memory \o first \o tags
                 \o pool \o disks \o machine \o (bios \o efidisk \o vga)
                 \o numa \o pages \o balloon \o nics \o pcis \o usbs
  <1>1. Options(m, c) = all
    BY Zenon DEF Options, FirmwareOptions, TagsOption, AllTags, IsSet, CPUType,
       Bridge, PCIOptions
  <1>2. /\ Tidy(name) /\ About(name, {"name"})
        /\ \A v : Gives(name, <<"name">>, v) <=> v = m
        /\ Tidy(cpu) /\ About(cpu, {"cpu"})
        /\ \A v : Gives(cpu, <<"cpu">>, v) <=> v = CPUType(c)
        /\ Tidy(cores) /\ About(cores, {"cores"})
        /\ \A v : Gives(cores, <<"cores">>, v) <=> v = c.cores
        /\ Tidy(sockets) /\ About(sockets, {"sockets"})
        /\ \A v : Gives(sockets, <<"sockets">>, v) <=> v = c.sockets
        /\ Tidy(memory) /\ About(memory, {"memory"})
        /\ \A v : Gives(memory, <<"memory">>, v) <=> v = c.memory
    BY SingleTidy
  <1>3. /\ c.numa \in BOOLEAN /\ IsSet(PoolOf(c)) \in BOOLEAN
        /\ \A text : IsSet(text) \in BOOLEAN
    <2>1. c.numa \in BOOLEAN
      BY DEF MachineClass
    <2> QED BY <2>1, Zenon DEF IsSet
  <1>4. /\ Tidy(tags) /\ About(tags, {"tags"})
        /\ \A v : Gives(tags, <<"tags">>, v) <=>
                    AllTags(c) # {} /\ v = AllTags(c)
    BY <1>3, OptionalTidy
  <1>5. /\ Tidy(pool) /\ About(pool, {"pool"})
        /\ \A v : Gives(pool, <<"pool">>, v) <=>
                    IsSet(PoolOf(c)) /\ v = PoolOf(c)
    BY <1>3, OptionalTidy
  <1>6. /\ Tidy(machine) /\ About(machine, {"machine"})
        /\ \A v : Gives(machine, <<"machine">>, v) <=>
                    IsSet(c.machineType) /\ v = c.machineType
    BY <1>3, OptionalTidy
  <1>7. /\ Tidy(bios) /\ About(bios, {"bios"})
        /\ \A v : Gives(bios, <<"bios">>, v) <=> IsSet(c.bios) /\ v = c.bios
    BY <1>3, OptionalTidy
  <1>8. /\ Tidy(efidisk) /\ About(efidisk, {"efidisk0"})
        /\ \A v : Gives(efidisk, <<"efidisk0">>, v) <=>
                    c.bios = "ovmf" /\ v = PickStorage(c.disk.selector)
    <2> DEFINE C == c.bios = "ovmf"
               x == PickStorage(c.disk.selector)
    <2>1. C \in BOOLEAN
      OBVIOUS
    <2> HIDE DEF C, x
    <2>2. /\ Tidy(When(C, Single("efidisk0", x)))
          /\ About(When(C, Single("efidisk0", x)), {"efidisk0"})
          /\ \A n, v : Gives(When(C, Single("efidisk0", x)), n, v) <=>
                         C /\ n = <<"efidisk0">> /\ v = x
      BY <2>1, OptionalTidy
    <2> QED BY <2>2 DEF C, x
  <1>9. /\ Tidy(vga) /\ About(vga, {"vga"})
        /\ \A v : Gives(vga, <<"vga">>, v) <=> IsSet(c.vga) /\ v = c.vga
    BY <1>3, OptionalTidy
  <1>10. /\ Tidy(numa) /\ About(numa, {"numa"})
        /\ \A v : Gives(numa, <<"numa">>, v) <=> c.numa /\ v = 1
    BY <1>3, OptionalTidy
  <1>11. /\ Tidy(pages) /\ About(pages, {"hugepages"})
        /\ \A v : Gives(pages, <<"hugepages">>, v) <=>
                    IsSet(c.hugepages) /\ v = Hugepages(c.hugepages)
    BY <1>3, OptionalTidy
  <1>12. /\ Tidy(balloon) /\ About(balloon, {"balloon"})
        /\ \A v : Gives(balloon, <<"balloon">>, v) <=>
                    c.balloon = "off" /\ v = 0
    <2> DEFINE C == c.balloon = "off"
    <2>1. C \in BOOLEAN
      OBVIOUS
    <2> HIDE DEF C
    <2>2. /\ Tidy(When(C, Single("balloon", 0)))
          /\ About(When(C, Single("balloon", 0)), {"balloon"})
          /\ \A n, v : Gives(When(C, Single("balloon", 0)), n, v) <=>
                         C /\ n = <<"balloon">> /\ v = 0
      BY <2>1, OptionalTidy
    <2> QED BY <2>2 DEF C
  <1>13. /\ Tidy(first) /\ About(first, {"scsi0", "net0"})
         /\ \A v : /\ Gives(first, <<"scsi", 0>>, v) <=> v = DiskValue(c.disk)
                   /\ Gives(first, <<"net", 0>>, v) <=>
                        v = NICValue(Bridge(c), c.firewall # "off", c.vlan)
    BY FirstDevicesTidy
  <1>14. /\ DevicePart(disks, "scsi", 1, Len(c.disks), DiskValues(c))
         /\ DevicePart(nics, "net", 1, Len(c.nics), NICValues(c))
         /\ DevicePart(pcis, "hostpci", 0, Len(c.pcis), PCIValues(c))
         /\ DevicePart(usbs, "usb", 0, Len(c.usbs), USBValues(c))
    BY DevicesTidy
  <1> HIDE DEF name, cpu, cores, sockets, memory, first, tags, pool, disks,
               machine, bios, efidisk, vga, numa, pages, balloon, nics, pcis,
               usbs
  <1> DEFINE boot == bios \o efidisk
             firmware == boot \o vga
             bootKinds == {"bios"} \cup {"efidisk0"}
             firmwareKinds == bootKinds \cup {"vga"}
             q1 == name \o cpu
             q2 == q1 \o cores
             q3 == q2 \o sockets
             q4 == q3 \o memory
             q5 == q4 \o first
             q6 == q5 \o tags
             q7 == q6 \o pool
             q8 == q7 \o disks
             q9 == q8 \o machine
             q10 == q9 \o firmware
             q11 == q10 \o numa
             q12 == q11 \o pages
             q13 == q12 \o balloon
             q14 == q13 \o nics
             q15 == q14 \o pcis
             q16 == q15 \o usbs
             k1 == {"name"} \cup {"cpu"}
             k2 == k1 \cup {"cores"}
             k3 == k2 \cup {"sockets"}
             k4 == k3 \cup {"memory"}
             k5 == k4 \cup {"scsi0", "net0"}
             k6 == k5 \cup {"tags"}
             k7 == k6 \cup {"pool"}
             k8 == k7 \cup {"scsi"}
             k9 == k8 \cup {"machine"}
             k10 == k9 \cup firmwareKinds
             k11 == k10 \cup {"numa"}
             k12 == k11 \cup {"hugepages"}
             k13 == k12 \cup {"balloon"}
             k14 == k13 \cup {"net"}
             k15 == k14 \cup {"hostpci"}
             k16 == k15 \cup {"usb"}
  <1> HIDE DEF boot, firmware, bootKinds, firmwareKinds,
               q1, q2, q3, q4, q5, q6, q7, q8, q9, q10, q11, q12, q13, q14,
               q15, q16,
               k1, k2, k3, k4, k5, k6, k7, k8, k9, k10, k11, k12, k13, k14,
               k15, k16
  <1>15. Tidy(boot) /\ About(boot, bootKinds) /\ Joins(boot, bios, efidisk)
    <2>1. Apart({"bios"}, {"efidisk0"})
      BY DEF Apart
    <2> QED BY <1>7, <1>8, <2>1, JoinedTidy DEF boot, bootKinds
  <1>16. /\ Tidy(firmware) /\ About(firmware, firmwareKinds)
         /\ Joins(firmware, boot, vga)
    <2>1. Apart(bootKinds, {"vga"})
      BY DEF Apart, bootKinds
    <2> QED BY <1>9, <1>15, <2>1, JoinedTidy DEF firmware, firmwareKinds
  <1>17. Tidy(q1) /\ About(q1, k1) /\ Joins(q1, name, cpu)
    <2>1. Apart({"name"}, {"cpu"})
      BY DEF Apart
    <2> QED BY <1>2, <2>1, JoinedTidy DEF q1, k1
  <1>18. Tidy(q2) /\ About(q2, k2) /\ Joins(q2, q1, cores)
    <2>1. Apart(k1, {"cores"})
      BY DEF Apart, k1
    <2> QED BY <1>2, <1>17, <2>1, JoinedTidy DEF q2, k2
  <1>19. Tidy(q3) /\ About(q3, k3) /\ Joins(q3, q2, sockets)
    <2>1. Apart(k2, {"sockets"})
      BY DEF Apart, k1, k2
    <2> QED BY <1>2, <1>18, <2>1, JoinedTidy DEF q3, k3
  <1>20. Tidy(q4) /\ About(q4, k4) /\ Joins(q4, q3, memory)
    <2>1. Apart(k3, {"memory"})
      BY DEF Apart, k1, k2, k3
    <2> QED BY <1>2, <1>19, <2>1, JoinedTidy DEF q4, k4
  <1>21. Tidy(q5) /\ About(q5, k5) /\ Joins(q5, q4, first)
    <2>1. Apart(k4, {"scsi0", "net0"})
      BY DEF Apart, k1, k2, k3, k4
    <2> QED BY <1>13, <1>20, <2>1, JoinedTidy DEF q5, k5
  <1>22. Tidy(q6) /\ About(q6, k6) /\ Joins(q6, q5, tags)
    <2>1. Apart(k5, {"tags"})
      BY DEF Apart, k1, k2, k3, k4, k5
    <2> QED BY <1>4, <1>21, <2>1, JoinedTidy DEF q6, k6
  <1>23. Tidy(q7) /\ About(q7, k7) /\ Joins(q7, q6, pool)
    <2>1. Apart(k6, {"pool"})
      BY DEF Apart, k1, k2, k3, k4, k5, k6
    <2> QED BY <1>5, <1>22, <2>1, JoinedTidy DEF q7, k7
  <1>24. Tidy(q8) /\ About(q8, k8) /\ Joins(q8, q7, disks)
    <2>1. Apart(k7, {"scsi"})
      BY DEF Apart, k1, k2, k3, k4, k5, k6, k7
    <2> QED BY <1>14, <1>23, <2>1, JoinedTidy DEF q8, k8, DevicePart
  <1>25. Tidy(q9) /\ About(q9, k9) /\ Joins(q9, q8, machine)
    <2>1. Apart(k8, {"machine"})
      BY DEF Apart, k1, k2, k3, k4, k5, k6, k7, k8
    <2> QED BY <1>6, <1>24, <2>1, JoinedTidy DEF q9, k9
  <1>26. Tidy(q10) /\ About(q10, k10) /\ Joins(q10, q9, firmware)
    <2>1. Apart(k9, firmwareKinds)
      BY DEF Apart, k1, k2, k3, k4, k5, k6, k7, k8, k9, firmwareKinds,
             bootKinds
    <2> QED BY <1>16, <1>25, <2>1, JoinedTidy DEF q10, k10
  <1>27. Tidy(q11) /\ About(q11, k11) /\ Joins(q11, q10, numa)
    <2>1. Apart(k10, {"numa"})
      BY DEF Apart, k1, k2, k3, k4, k5, k6, k7, k8, k9, k10, firmwareKinds,
             bootKinds
    <2> QED BY <1>10, <1>26, <2>1, JoinedTidy DEF q11, k11
  <1>28. Tidy(q12) /\ About(q12, k12) /\ Joins(q12, q11, pages)
    <2>1. Apart(k11, {"hugepages"})
      BY DEF Apart, k1, k2, k3, k4, k5, k6, k7, k8, k9, k10, k11,
             firmwareKinds, bootKinds
    <2> QED BY <1>11, <1>27, <2>1, JoinedTidy DEF q12, k12
  <1>29. Tidy(q13) /\ About(q13, k13) /\ Joins(q13, q12, balloon)
    <2>1. Apart(k12, {"balloon"})
      BY DEF Apart, k1, k2, k3, k4, k5, k6, k7, k8, k9, k10, k11, k12,
             firmwareKinds, bootKinds
    <2> QED BY <1>12, <1>28, <2>1, JoinedTidy DEF q13, k13
  <1>30. Tidy(q14) /\ About(q14, k14) /\ Joins(q14, q13, nics)
    <2>1. Apart(k13, {"net"})
      BY DEF Apart, k1, k2, k3, k4, k5, k6, k7, k8, k9, k10, k11, k12, k13,
             firmwareKinds, bootKinds
    <2> QED BY <1>14, <1>29, <2>1, JoinedTidy DEF q14, k14, DevicePart
  <1>31. Tidy(q15) /\ About(q15, k15) /\ Joins(q15, q14, pcis)
    <2>1. Apart(k14, {"hostpci"})
      BY DEF Apart, k1, k2, k3, k4, k5, k6, k7, k8, k9, k10, k11, k12, k13,
             k14, firmwareKinds, bootKinds
    <2> QED BY <1>14, <1>30, <2>1, JoinedTidy DEF q15, k15, DevicePart
  <1>32. Tidy(q16) /\ About(q16, k16) /\ Joins(q16, q15, usbs)
    <2>1. Apart(k15, {"usb"})
      BY DEF Apart, k1, k2, k3, k4, k5, k6, k7, k8, k9, k10, k11, k12, k13,
             k14, k15, firmwareKinds, bootKinds
    <2> QED BY <1>14, <1>31, <2>1, JoinedTidy DEF q16, k16, DevicePart
  <1> DEFINE o == Options(m, c)
  <1>33. o = q16
    BY <1>1 DEF firmware, boot, q1, q2, q3, q4, q5, q6, q7, q8, q9, q10, q11,
       q12, q13, q14, q15, q16
  <1> HIDE DEF o
  <1>34. \A n, v :
           Gives(q16, n, v) <=>
             \/ Gives(name, n, v) \/ Gives(cpu, n, v) \/ Gives(cores, n, v)
             \/ Gives(sockets, n, v) \/ Gives(memory, n, v)
             \/ Gives(first, n, v)
             \/ Gives(tags, n, v) \/ Gives(pool, n, v) \/ Gives(disks, n, v)
             \/ Gives(machine, n, v) \/ Gives(numa, n, v) \/ Gives(pages, n, v)
             \/ Gives(balloon, n, v) \/ Gives(nics, n, v) \/ Gives(pcis, n, v)
             \/ Gives(usbs, n, v) \/ Gives(bios, n, v) \/ Gives(efidisk, n, v)
             \/ Gives(vga, n, v)
    BY <1>15, <1>16, <1>17, <1>18, <1>19, <1>20, <1>21, <1>22, <1>23, <1>24,
       <1>25, <1>26, <1>27, <1>28, <1>29, <1>30, <1>31, <1>32 DEF Joins
  <1>35. \A n, v :
           /\ Kind(n) = "name" =>
                (Gives(o, n, v) <=> Gives(name, n, v))
           /\ Kind(n) = "efidisk0" =>
                (Gives(o, n, v) <=> Gives(efidisk, n, v))
           /\ Kind(n) = "cpu" =>
                (Gives(o, n, v) <=> Gives(cpu, n, v))
           /\ Kind(n) = "cores" =>
                (Gives(o, n, v) <=> Gives(cores, n, v))
           /\ Kind(n) = "sockets" =>
                (Gives(o, n, v) <=> Gives(sockets, n, v))
           /\ Kind(n) = "memory" =>
                (Gives(o, n, v) <=> Gives(memory, n, v))
           /\ Kind(n) = "tags" =>
                (Gives(o, n, v) <=> Gives(tags, n, v))
           /\ Kind(n) = "pool" =>
                (Gives(o, n, v) <=> Gives(pool, n, v))
           /\ Kind(n) = "machine" =>
                (Gives(o, n, v) <=> Gives(machine, n, v))
           /\ Kind(n) = "bios" =>
                (Gives(o, n, v) <=> Gives(bios, n, v))
           /\ Kind(n) = "vga" =>
                (Gives(o, n, v) <=> Gives(vga, n, v))
           /\ Kind(n) = "numa" =>
                (Gives(o, n, v) <=> Gives(numa, n, v))
           /\ Kind(n) = "hugepages" =>
                (Gives(o, n, v) <=> Gives(pages, n, v))
           /\ Kind(n) = "balloon" =>
                (Gives(o, n, v) <=> Gives(balloon, n, v))
           /\ Kind(n) = "hostpci" =>
                (Gives(o, n, v) <=> Gives(pcis, n, v))
           /\ Kind(n) = "usb" =>
                (Gives(o, n, v) <=> Gives(usbs, n, v))
           /\ Kind(n) = "scsi" =>
                (Gives(o, n, v) <=> Gives(disks, n, v))
           /\ Kind(n) = "net" =>
                (Gives(o, n, v) <=> Gives(nics, n, v))
           /\ Kind(n) = "scsi0" =>
                (Gives(o, n, v) <=> Gives(first, n, v))
           /\ Kind(n) = "net0" =>
                (Gives(o, n, v) <=> Gives(first, n, v))
    BY <1>2, <1>4, <1>5, <1>6, <1>7, <1>8, <1>9, <1>10, <1>11, <1>12, <1>13,
       <1>14, <1>33, <1>34 DEF About, DevicePart
  <1>36. /\ Kind(<<"name">>) = "name"
        /\ Kind(<<"efidisk0">>) = "efidisk0"
        /\ Kind(<<"cpu">>) = "cpu"
        /\ Kind(<<"cores">>) = "cores"
        /\ Kind(<<"sockets">>) = "sockets"
        /\ Kind(<<"memory">>) = "memory"
        /\ Kind(<<"tags">>) = "tags"
        /\ Kind(<<"pool">>) = "pool"
        /\ Kind(<<"machine">>) = "machine"
        /\ Kind(<<"bios">>) = "bios"
        /\ Kind(<<"vga">>) = "vga"
        /\ Kind(<<"numa">>) = "numa"
        /\ Kind(<<"hugepages">>) = "hugepages"
        /\ Kind(<<"balloon">>) = "balloon"
        /\ Kind(<<"scsi", 0>>) = "scsi0" /\ Kind(<<"net", 0>>) = "net0"
    BY DEF Kind
  <1>37. /\ GivesDevices(o, "scsi", 1, Len(c.disks), DiskValues(c))
         /\ GivesDevices(o, "net", 1, Len(c.nics), NICValues(c))
         /\ GivesDevices(o, "hostpci", 0, Len(c.pcis), PCIValues(c))
         /\ GivesDevices(o, "usb", 0, Len(c.usbs), USBValues(c))
    <2>1. /\ Len(c.disks) \in Nat /\ Len(c.nics) \in Nat
          /\ Len(c.pcis) \in Nat /\ Len(c.usbs) \in Nat
      BY DEF MachineClass
    <2>2. 1 \in Nat /\ 1 # 0 /\ 0 \in Nat
          /\ "hostpci" \notin {"scsi", "net"} /\ "usb" \notin {"scsi", "net"}
      OBVIOUS
    <2> QED BY <1>14, <1>35, <2>1, <2>2, DevicesOf
  <1>38. Tidy(o) /\ Tells(o, m, c)
    BY <1>2, <1>4, <1>5, <1>6, <1>7, <1>8, <1>9, <1>10, <1>11, <1>12, <1>13,
       <1>32, <1>33, <1>35, <1>36, <1>37 DEF Tells
  <1> QED BY <1>38 DEF o

----------------------------------------------------------------------------
(* What a value says. *)

\* The value has one part with this key, x; or none.
HasPart(value, key, x) ==
  \A p : p \in value /\ p[1] = key <=> p = <<key, x>>

LacksPart(value, key) == \A p \in value : p[1] # key

LEMMA PartGiven ==
  ASSUME NEW value, NEW key, NEW x, NEW default, HasPart(value, key, x)
  PROVE  PartOf(value, key, default) = x
  <1> DEFINE q == <<key, x>>
  <1>1. q[2] = x
    OBVIOUS
  <1>2. \A p : p \in value /\ p[1] = key <=> p = q
    BY DEF HasPart
  <1> HIDE DEF q
  <1>3. (CHOOSE p \in value : p[1] = key) = q
    BY <1>2
  <1>4. \E p \in value : p[1] = key
    BY <1>2
  <1> QED BY <1>1, <1>3, <1>4 DEF PartOf

LEMMA PartMissing ==
  ASSUME NEW value, NEW key, NEW default, LacksPart(value, key)
  PROVE  PartOf(value, key, default) = default
  BY DEF PartOf, LacksPart

LEMMA DiskRead ==
  ASSUME NEW d \in AdditionalDisk
  PROVE  ReadDisk(DiskValue(d)) = Placed(d)
  <1> DEFINE value == DiskValue(d)
  <1>1. d.ssd \in BOOLEAN /\ d.discard \in BOOLEAN /\ d.iothread \in BOOLEAN
    BY DEF AdditionalDisk
  <1>2. \A p :
          p \in value <=>
            \/ p = <<"storage", PickStorage(d.selector)>>
            \/ p = <<"size", d.size>>
            \/ d.ssd /\ p = <<"ssd", "1">>
            \/ d.discard /\ p = <<"discard", "on">>
            \/ d.iothread /\ p = <<"iothread", "1">>
            \/ IsSet(d.cache) /\ p = <<"cache", d.cache>>
            \/ IsSet(d.aio) /\ p = <<"aio", d.aio>>
    <2>1. /\ \A p : p \in Part(IsSet(d.cache), "cache", d.cache) <=>
                     IsSet(d.cache) /\ p = <<"cache", d.cache>>
          /\ \A p : p \in Part(IsSet(d.aio), "aio", d.aio) <=>
                     IsSet(d.aio) /\ p = <<"aio", d.aio>>
      BY DEF Part
    <2>2. value = {<<"storage", PickStorage(d.selector)>>, <<"size", d.size>>}
                    \cup Part(d.ssd, "ssd", "1")
                    \cup Part(d.discard, "discard", "on")
                    \cup Part(d.iothread, "iothread", "1")
                    \cup Part(IsSet(d.cache), "cache", d.cache)
                    \cup Part(IsSet(d.aio), "aio", d.aio)
      BY Zenon DEF DiskValue, IsSet
    <2>3. /\ \A p : p \in Part(d.ssd, "ssd", "1") <=> d.ssd /\ p = <<"ssd", "1">>
          /\ \A p : p \in Part(d.discard, "discard", "on") <=>
                     d.discard /\ p = <<"discard", "on">>
          /\ \A p : p \in Part(d.iothread, "iothread", "1") <=>
                     d.iothread /\ p = <<"iothread", "1">>
      BY <1>1 DEF Part
    <2> HIDE DEF value
    <2> QED BY <2>1, <2>2, <2>3
  <1> HIDE DEF value
  <1>3. /\ HasPart(value, "storage", PickStorage(d.selector))
        /\ HasPart(value, "size", d.size)
        /\ d.ssd => HasPart(value, "ssd", "1")
        /\ d.discard => HasPart(value, "discard", "on")
        /\ d.iothread => HasPart(value, "iothread", "1")
        /\ IsSet(d.cache) => HasPart(value, "cache", d.cache)
        /\ IsSet(d.aio) => HasPart(value, "aio", d.aio)
    BY <1>2 DEF HasPart
  <1>4. /\ ~d.ssd => LacksPart(value, "ssd")
        /\ ~d.discard => LacksPart(value, "discard")
        /\ ~d.iothread => LacksPart(value, "iothread")
        /\ ~IsSet(d.cache) => LacksPart(value, "cache")
        /\ ~IsSet(d.aio) => LacksPart(value, "aio")
    BY <1>2 DEF LacksPart
  <1>5. /\ PartOf(value, "storage", NoStorage) = PickStorage(d.selector)
        /\ PartOf(value, "size", 0) = d.size
    BY <1>3, PartGiven
  <1>6. (PartOf(value, "ssd", "0") = "1") = d.ssd
    BY <1>1, <1>3, <1>4, PartGiven, PartMissing
  <1>7. (PartOf(value, "discard", "ignore") = "on") = d.discard
    BY <1>1, <1>3, <1>4, PartGiven, PartMissing
  <1>8. (PartOf(value, "iothread", "0") = "1") = d.iothread
    BY <1>1, <1>3, <1>4, PartGiven, PartMissing
  <1>9. PartOf(value, "cache", "") = d.cache /\ PartOf(value, "aio", "") = d.aio
    <2>1. \A default : PartOf(value, "cache", default) =
                           IF IsSet(d.cache) THEN d.cache ELSE default
      BY <1>3, <1>4, PartGiven, PartMissing
    <2>2. \A default : PartOf(value, "aio", default) =
                           IF IsSet(d.aio) THEN d.aio ELSE default
      BY <1>3, <1>4, PartGiven, PartMissing
    <2> QED BY <2>1, <2>2, Zenon DEF IsSet
  <1>10. Placed(d) = [selector |-> PickStorage(d.selector), size |-> d.size,
                      ssd |-> d.ssd, discard |-> d.discard,
                      iothread |-> d.iothread, cache |-> d.cache,
                      aio |-> d.aio]
    BY DEF Placed, AdditionalDisk
  <1>11. ReadDisk(value) = Placed(d)
    BY <1>5, <1>6, <1>7, <1>8, <1>9, <1>10 DEF ReadDisk
  <1> QED BY <1>11 DEF value

LEMMA NICRead ==
  ASSUME NEW bridge, NEW firewall \in BOOLEAN, NEW vlan \in Nat
  PROVE  ReadNIC(NICValue(bridge, firewall, vlan)) =
           [bridge |-> bridge, firewall |-> firewall, vlan |-> vlan]
  <1> DEFINE value == NICValue(bridge, firewall, vlan)
  <1>1. PICK bit : bit = IF firewall THEN 1 ELSE 0
    OBVIOUS
  <1>2. \A p :
          p \in value <=>
            \/ p = <<"model", "virtio">>
            \/ p = <<"bridge", bridge>>
            \/ p = <<"firewall", bit>>
            \/ vlan # 0 /\ p = <<"tag", vlan>>
    BY <1>1 DEF NICValue, Part
  <1> HIDE DEF value
  <1>3. /\ HasPart(value, "bridge", bridge)
        /\ HasPart(value, "firewall", bit)
        /\ vlan # 0 => HasPart(value, "tag", vlan)
    BY <1>2 DEF HasPart
  <1>4. vlan = 0 => LacksPart(value, "tag")
    BY <1>2 DEF LacksPart
  <1>5. PartOf(value, "bridge", "") = bridge /\ PartOf(value, "firewall", 0) = bit
    BY <1>3, PartGiven
  <1>6. (bit = 1) = firewall
    BY <1>1
  <1>7. PartOf(value, "tag", 0) = vlan
    BY <1>3, <1>4, PartGiven, PartMissing
  <1>8. ReadNIC(value) =
          [bridge |-> bridge, firewall |-> firewall, vlan |-> vlan]
    BY <1>5, <1>6, <1>7 DEF ReadNIC
  <1> QED BY <1>8 DEF value

\* A device has a ROM BAR in the end, whether its class says on, off or nothing.
LEMMA PCIRead ==
  ASSUME NEW d \in PCIDevice
  PROVE  ReadPCI(PCIValue(d)) = [d EXCEPT !.romBar = TRUE]
  <1> DEFINE value == PCIValue(d)
  <1>1. d.pcie \in BOOLEAN /\ d.primaryGPU \in BOOLEAN
    BY DEF PCIDevice
  <1>2. \A p :
          p \in value <=>
            \/ p = <<"mapping", d.mapping>>
            \/ d.pcie /\ p = <<"pcie", "1">>
            \/ d.primaryGPU /\ p = <<"x-vga", "1">>
            \/ d.romBar = "on" /\ p = <<"rombar", "1">>
            \/ IsSet(d.mdev) /\ p = <<"mdev", d.mdev>>
    <2>1. /\ \A p : p \in Part(d.pcie, "pcie", "1") <=>
                     d.pcie /\ p = <<"pcie", "1">>
          /\ \A p : p \in Part(d.primaryGPU, "x-vga", "1") <=>
                     d.primaryGPU /\ p = <<"x-vga", "1">>
          /\ \A p : p \in Part(d.romBar = "on", "rombar", "1") <=>
                     d.romBar = "on" /\ p = <<"rombar", "1">>
          /\ \A p : p \in Part(IsSet(d.mdev), "mdev", d.mdev) <=>
                     IsSet(d.mdev) /\ p = <<"mdev", d.mdev>>
      BY <1>1 DEF Part
    <2>2. value = {<<"mapping", d.mapping>>}
                    \cup Part(d.pcie, "pcie", "1")
                    \cup Part(d.primaryGPU, "x-vga", "1")
                    \cup Part(d.romBar = "on", "rombar", "1")
                    \cup Part(IsSet(d.mdev), "mdev", d.mdev)
      BY Zenon DEF PCIValue, IsSet
    <2> HIDE DEF value
    <2> QED BY <2>1, <2>2
  <1> HIDE DEF value
  <1>3. /\ HasPart(value, "mapping", d.mapping)
        /\ d.pcie => HasPart(value, "pcie", "1")
        /\ d.primaryGPU => HasPart(value, "x-vga", "1")
        /\ d.romBar = "on" => HasPart(value, "rombar", "1")
        /\ IsSet(d.mdev) => HasPart(value, "mdev", d.mdev)
    BY <1>2 DEF HasPart
  <1>4. /\ ~d.pcie => LacksPart(value, "pcie")
        /\ ~d.primaryGPU => LacksPart(value, "x-vga")
        /\ d.romBar # "on" => LacksPart(value, "rombar")
        /\ ~IsSet(d.mdev) => LacksPart(value, "mdev")
    BY <1>2 DEF LacksPart
  <1>5. PartOf(value, "mapping", "") = d.mapping
    BY <1>3, PartGiven
  <1>6. (PartOf(value, "pcie", "0") = "1") = d.pcie
    BY <1>1, <1>3, <1>4, PartGiven, PartMissing
  <1>7. (PartOf(value, "x-vga", "0") = "1") = d.primaryGPU
    BY <1>1, <1>3, <1>4, PartGiven, PartMissing
  <1>8. PartOf(value, "rombar", "1") = "1"
    BY <1>3, <1>4, PartGiven, PartMissing
  <1>9. PartOf(value, "mdev", "") = d.mdev
    <2>1. \A default : PartOf(value, "mdev", default) =
                           IF IsSet(d.mdev) THEN d.mdev ELSE default
      BY <1>3, <1>4, PartGiven, PartMissing
    <2> QED BY <2>1, Zenon DEF IsSet
  <1>10. \A v :
           [d EXCEPT !.romBar = v] =
             [mapping |-> d.mapping, pcie |-> d.pcie,
              primaryGPU |-> d.primaryGPU, romBar |-> v, mdev |-> d.mdev]
    <2>1. PICK mapping, pcie, primaryGPU, romBar, mdev :
            d = [mapping |-> mapping, pcie |-> pcie, primaryGPU |-> primaryGPU,
                 romBar |-> romBar, mdev |-> mdev]
      <3>1. d = [mapping |-> d.mapping, pcie |-> d.pcie,
                 primaryGPU |-> d.primaryGPU, romBar |-> d.romBar,
                 mdev |-> d.mdev]
        BY Zenon DEF PCIDevice
      <3> QED BY <3>1, Zenon
    <2> QED BY <2>1
  <1>11. ReadPCI(value) = [d EXCEPT !.romBar = TRUE]
    <2>1. ReadPCI(value) =
            [mapping |-> d.mapping, pcie |-> d.pcie,
             primaryGPU |-> d.primaryGPU, romBar |-> TRUE, mdev |-> d.mdev]
      BY <1>5, <1>6, <1>7, <1>8, <1>9 DEF ReadPCI
    <2> QED BY <2>1, <1>10, Zenon
  <1> QED BY <1>11 DEF value

LEMMA USBRead ==
  ASSUME NEW d \in USBDevice
  PROVE  ReadUSB(USBValue(d)) = d
  <1> DEFINE value == USBValue(d)
  <1>1. d.usb3 \in BOOLEAN
    BY DEF USBDevice
  <1>2. \A p :
          p \in value <=>
            \/ p = <<"mapping", d.mapping>>
            \/ d.usb3 /\ p = <<"usb3", "1">>
    BY <1>1 DEF USBValue, Part
  <1> HIDE DEF value
  <1>3. /\ HasPart(value, "mapping", d.mapping)
        /\ d.usb3 => HasPart(value, "usb3", "1")
    BY <1>2 DEF HasPart
  <1>4. ~d.usb3 => LacksPart(value, "usb3")
    BY <1>2 DEF LacksPart
  <1>5. PartOf(value, "mapping", "") = d.mapping
    BY <1>3, PartGiven
  <1>6. (PartOf(value, "usb3", "0") = "1") = d.usb3
    BY <1>1, <1>3, <1>4, PartGiven, PartMissing
  <1>7. d = [mapping |-> d.mapping, usb3 |-> d.usb3]
    BY DEF USBDevice
  <1>8. ReadUSB(value) = d
    BY <1>5, <1>6, <1>7 DEF ReadUSB
  <1> QED BY <1>8 DEF value

----------------------------------------------------------------------------
(* The VM that is asked for. *)

\* The list has the option x for the name, always or on condition C.
Has(list, name, x) == \A v : Gives(list, name, v) <=> v = x

HasIf(list, name, C, x) == \A v : Gives(list, name, v) <=> C /\ v = x

\* It has the text if the text is set.
HasText(list, name, x) ==
  \A v : Gives(list, name, v) <=> IsSet(x) /\ v = x

LEMMA GetHas ==
  ASSUME NEW s, Tidy(s), NEW name, NEW x, NEW default, Has(s, name, x)
  PROVE  Get(Request(s), name, default) = x
  BY RequestIsList DEF Get, Has

LEMMA GetHasIf ==
  ASSUME NEW s, Tidy(s), NEW name, NEW C \in BOOLEAN, NEW x, NEW default,
         HasIf(s, name, C, x)
  PROVE  Get(Request(s), name, default) = IF C THEN x ELSE default
  BY GetIs DEF HasIf

\* An option that is there if its field is set says what the field says.
LEMMA GetText ==
  ASSUME NEW s, Tidy(s), NEW name, NEW x, HasText(s, name, x)
  PROVE  Get(Request(s), name, "") = x
  <1>1. PICK C \in BOOLEAN : C = IsSet(x)
    BY DEF IsSet
  <1>2. HasIf(s, name, C, x)
    BY <1>1 DEF HasText, HasIf
  <1>3. \A default :
          Get(Request(s), name, default) = IF C THEN x ELSE default
    BY <1>2, GetHasIf
  <1> QED BY <1>1, <1>3, Zenon DEF IsSet

\* The plain options of the request.
ReadsPlain(r, m, c) ==
  \A default :
    /\ Get(r, <<"name">>, default) = m
    /\ Get(r, <<"cpu">>, default) = CPUType(c)
    /\ Get(r, <<"cores">>, default) = c.cores
    /\ Get(r, <<"sockets">>, default) = c.sockets
    /\ Get(r, <<"memory">>, default) = c.memory
    /\ Get(r, <<"scsi", 0>>, default) = DiskValue(c.disk)
    /\ Get(r, <<"net", 0>>, default) =
         NICValue(Bridge(c), c.firewall # "off", c.vlan)

LEMMA PlainRead ==
  ASSUME NEW m, NEW c \in MachineClass, NEW o, Tidy(o), Tells(o, m, c)
  PROVE  ReadsPlain(Request(o), m, c)
  <1>1. PICK nic : nic = NICValue(Bridge(c), c.firewall # "off", c.vlan)
    OBVIOUS
  <1>2. /\ Has(o, <<"name">>, m)
        /\ Has(o, <<"cpu">>, CPUType(c))
        /\ Has(o, <<"cores">>, c.cores)
        /\ Has(o, <<"sockets">>, c.sockets)
        /\ Has(o, <<"memory">>, c.memory)
        /\ Has(o, <<"scsi", 0>>, DiskValue(c.disk))
        /\ Has(o, <<"net", 0>>, nic)
    BY <1>1 DEF Tells, Has
  <1> QED BY <1>1, <1>2, GetHas DEF ReadsPlain

LEMMA TextsRead ==
  ASSUME NEW m, NEW c \in MachineClass, NEW o, Tidy(o), Tells(o, m, c)
  PROVE  /\ Get(Request(o), <<"pool">>, "") = PoolOf(c)
         /\ Get(Request(o), <<"machine">>, "") = c.machineType
         /\ Get(Request(o), <<"bios">>, "") = c.bios
         /\ Get(Request(o), <<"vga">>, "") = c.vga
  <1>1. /\ HasText(o, <<"pool">>, PoolOf(c))
        /\ HasText(o, <<"machine">>, c.machineType)
        /\ HasText(o, <<"bios">>, c.bios)
        /\ HasText(o, <<"vga">>, c.vga)
    BY DEF Tells, HasText
  <1> QED BY <1>1, GetText

\* The options on a condition, and the size of the pages.
LEMMA ConditionsRead ==
  ASSUME NEW m, NEW c \in MachineClass, NEW o, Tidy(o), Tells(o, m, c)
  PROVE  /\ Get(Request(o), <<"tags">>, {}) = AllTags(c)
         /\ Get(Request(o), <<"efidisk0">>, NoStorage) =
              IF c.bios = "ovmf" THEN PickStorage(c.disk.selector)
                                 ELSE NoStorage
         /\ (Get(Request(o), <<"numa">>, 0) = 1) = c.numa
         /\ (Get(Request(o), <<"balloon">>, 1) # 0) = (c.balloon # "off")
         /\ PageSize(Get(Request(o), <<"hugepages">>, "")) =
              PageSize(c.hugepages)
  <1>1. PICK some \in BOOLEAN : some <=> AllTags(c) # {}
    OBVIOUS
  <1>2. PICK ovmf \in BOOLEAN : ovmf <=> c.bios = "ovmf"
    OBVIOUS
  <1>3. PICK off \in BOOLEAN : off <=> c.balloon = "off"
    OBVIOUS
  <1>4. PICK huge \in BOOLEAN : huge = IsSet(c.hugepages)
    BY DEF IsSet
  <1>5. c.numa \in BOOLEAN
    BY DEF MachineClass
  <1>6. /\ HasIf(o, <<"tags">>, some, AllTags(c))
        /\ HasIf(o, <<"efidisk0">>, ovmf, PickStorage(c.disk.selector))
        /\ HasIf(o, <<"numa">>, c.numa, 1)
        /\ HasIf(o, <<"balloon">>, off, 0)
        /\ HasIf(o, <<"hugepages">>, huge, Hugepages(c.hugepages))
    BY <1>1, <1>2, <1>3, <1>4, <1>5 DEF Tells, HasIf
  <1>7. Get(Request(o), <<"tags">>, {}) = AllTags(c)
    BY <1>1, <1>6, GetHasIf
  <1>8. Get(Request(o), <<"efidisk0">>, NoStorage) =
          IF c.bios = "ovmf" THEN PickStorage(c.disk.selector) ELSE NoStorage
    BY <1>2, <1>6, GetHasIf
  <1>9. (Get(Request(o), <<"numa">>, 0) = 1) = c.numa
    BY <1>5, <1>6, GetHasIf
  <1>10. (Get(Request(o), <<"balloon">>, 1) # 0) = (c.balloon # "off")
    BY <1>3, <1>6, GetHasIf
  <1>11. PageSize(Get(Request(o), <<"hugepages">>, "")) = PageSize(c.hugepages)
    <2>1. \A default :
            Get(Request(o), <<"hugepages">>, default) =
              IF huge THEN Hugepages(c.hugepages) ELSE default
      BY <1>6, GetHasIf
    <2>2. PageSize(Hugepages(c.hugepages)) = PageSize(c.hugepages)
      BY DEF PageSize, Hugepages
    <2>3. CASE huge
      BY <2>1, <2>2, <2>3, Zenon
    <2>4. CASE ~huge
      BY <1>4, <2>1, <2>4, Zenon DEF IsSet
    <2> QED BY <2>3, <2>4
  <1> QED BY <1>7, <1>8, <1>9, <1>10, <1>11, Zenon

\* Its devices.
ReadsDevices(r, c) ==
  /\ [i \in Numbers(r, "scsi", 1) |-> ReadDisk(r[<<"scsi", i>>])] =
       [i \in DOMAIN c.disks |-> Placed(c.disks[i])]
  /\ [i \in Numbers(r, "net", 1) |-> ReadNIC(r[<<"net", i>>])] = c.nics
  /\ [i \in Numbers(r, "hostpci", 0) |-> ReadPCI(r[<<"hostpci", i - 1>>])] =
       [i \in DOMAIN c.pcis |-> [c.pcis[i] EXCEPT !.romBar = TRUE]]
  /\ [i \in Numbers(r, "usb", 0) |-> ReadUSB(r[<<"usb", i - 1>>])] = c.usbs

LEMMA DevicesRead ==
  ASSUME NEW m, NEW c \in MachineClass, NEW o, Tidy(o), Tells(o, m, c),
         NEW r, r = Request(o)
  PROVE  ReadsDevices(r, c)
  <1>1. /\ c.disks \in Seq(AdditionalDisk) /\ c.nics \in Seq(AdditionalNIC)
        /\ c.pcis \in Seq(PCIDevice) /\ c.usbs \in Seq(USBDevice)
    BY DEF MachineClass
  <1>2. /\ GivesDevices(o, "scsi", 1, Len(c.disks), DiskValues(c))
        /\ GivesDevices(o, "net", 1, Len(c.nics), NICValues(c))
        /\ GivesDevices(o, "hostpci", 0, Len(c.pcis), PCIValues(c))
        /\ GivesDevices(o, "usb", 0, Len(c.usbs), USBValues(c))
    BY DEF Tells
  <1>3. [i \in Numbers(r, "scsi", 1) |-> ReadDisk(r[<<"scsi", i>>])] =
          [i \in DOMAIN c.disks |-> Placed(c.disks[i])]
    <2>1. /\ Numbers(r, "scsi", 1) = DOMAIN c.disks
          /\ \A i \in DOMAIN c.disks :
               r[Slot("scsi", 1, i)] = DiskValues(c)[i]
      BY <1>1, <1>2, NumbersAre
    <2>2. ASSUME NEW i \in DOMAIN c.disks
          PROVE  ReadDisk(r[<<"scsi", i>>]) = Placed(c.disks[i])
      <3>1. Slot("scsi", 1, i) = <<"scsi", i>>
        BY <1>1 DEF Slot
      <3>2. r[<<"scsi", i>>] = DiskValue(c.disks[i])
        BY <2>1, <3>1 DEF DiskValues
      <3>3. c.disks[i] \in AdditionalDisk
        BY <1>1
      <3> QED BY <3>2, <3>3, DiskRead
    <2> QED BY <2>1, <2>2
  <1>4. [i \in Numbers(r, "net", 1) |-> ReadNIC(r[<<"net", i>>])] = c.nics
    <2>1. /\ Numbers(r, "net", 1) = DOMAIN c.nics
          /\ \A i \in DOMAIN c.nics : r[Slot("net", 1, i)] = NICValues(c)[i]
      BY <1>1, <1>2, NumbersAre
    <2>2. ASSUME NEW i \in DOMAIN c.nics
          PROVE  ReadNIC(r[<<"net", i>>]) = c.nics[i]
      <3>1. Slot("net", 1, i) = <<"net", i>>
        BY <1>1 DEF Slot
      <3>2. r[<<"net", i>>] =
              NICValue(c.nics[i].bridge, c.nics[i].firewall, c.nics[i].vlan)
        BY <2>1, <3>1 DEF NICValues
      <3>3. c.nics[i] \in AdditionalNIC
        BY <1>1
      <3>4. c.nics[i] = [bridge |-> c.nics[i].bridge,
                         firewall |-> c.nics[i].firewall,
                         vlan |-> c.nics[i].vlan]
        BY <3>3 DEF AdditionalNIC
      <3>5. c.nics[i].firewall \in BOOLEAN /\ c.nics[i].vlan \in Nat
        BY <3>3 DEF AdditionalNIC
      <3> QED BY <3>2, <3>4, <3>5, NICRead
    <2>3. c.nics = [i \in DOMAIN c.nics |-> c.nics[i]]
      BY <1>1
    <2> QED BY <2>1, <2>2, <2>3
  <1>5. [i \in Numbers(r, "hostpci", 0) |-> ReadPCI(r[<<"hostpci", i - 1>>])] =
          [i \in DOMAIN c.pcis |-> [c.pcis[i] EXCEPT !.romBar = TRUE]]
    <2>1. /\ Numbers(r, "hostpci", 0) = DOMAIN c.pcis
          /\ \A i \in DOMAIN c.pcis :
               r[Slot("hostpci", 0, i)] = PCIValues(c)[i]
      BY <1>1, <1>2, NumbersAre
    <2>2. ASSUME NEW i \in DOMAIN c.pcis
          PROVE  ReadPCI(r[<<"hostpci", i - 1>>]) =
                   [c.pcis[i] EXCEPT !.romBar = TRUE]
      <3>1. Slot("hostpci", 0, i) = <<"hostpci", i - 1>>
        BY <1>1 DEF Slot
      <3>2. r[<<"hostpci", i - 1>>] = PCIValue(c.pcis[i])
        BY <2>1, <3>1 DEF PCIValues
      <3>3. c.pcis[i] \in PCIDevice
        BY <1>1
      <3>4. ReadPCI(PCIValue(c.pcis[i])) = [c.pcis[i] EXCEPT !.romBar = TRUE]
        BY <3>3, PCIRead, Zenon
      <3> QED BY <3>2, <3>4, Zenon
    <2> QED BY <2>1, <2>2, Zenon
  <1>6. [i \in Numbers(r, "usb", 0) |-> ReadUSB(r[<<"usb", i - 1>>])] = c.usbs
    <2>1. /\ Numbers(r, "usb", 0) = DOMAIN c.usbs
          /\ \A i \in DOMAIN c.usbs : r[Slot("usb", 0, i)] = USBValues(c)[i]
      <3>1. Len(c.usbs) \in Nat /\ DOMAIN c.usbs = 1..Len(c.usbs)
        BY <1>1
      <3>2. GivesDevices(o, "usb", 0, Len(c.usbs), USBValues(c))
        BY <1>2
      <3> QED BY <3>1, <3>2, NumbersAre
    <2>2. ASSUME NEW i \in DOMAIN c.usbs
          PROVE  ReadUSB(r[<<"usb", i - 1>>]) = c.usbs[i]
      <3>1. Slot("usb", 0, i) = <<"usb", i - 1>>
        BY <1>1 DEF Slot
      <3>2. r[<<"usb", i - 1>>] = USBValue(c.usbs[i])
        BY <2>1, <3>1 DEF USBValues
      <3>3. c.usbs[i] \in USBDevice
        BY <1>1
      <3> QED BY <3>2, <3>3, USBRead
    <2>3. c.usbs = [i \in DOMAIN c.usbs |-> c.usbs[i]]
      BY <1>1
    <2> QED BY <2>1, <2>2, <2>3
  <1> QED BY <1>3, <1>4, <1>5, <1>6, Zenon DEF ReadsDevices

\* The machine of class c with these of its parts; the others are what the class
\* says.
With(m, c, cpu, disk, nic, tags, pool, efi, pages, balloon, disks, pcis) ==
  [name |-> m, cpuType |-> cpu, cores |-> c.cores, sockets |-> c.sockets,
   memory |-> c.memory, disk |-> disk, nic |-> nic, tags |-> tags,
   pool |-> pool, machineType |-> c.machineType, bios |-> c.bios,
   efiStorage |-> efi, vga |-> c.vga, numa |-> c.numa, hugepages |-> pages,
   balloon |-> balloon, disks |-> disks, nics |-> c.nics, pcis |-> pcis,
   usbs |-> c.usbs]

\* A list of PCI devices, and a machine, with this for every ROM BAR.
ROMBars(pcis, v) == [i \in DOMAIN pcis |-> [pcis[i] EXCEPT !.romBar = v]]

SetROMBars(machine, v) ==
  [machine EXCEPT !.pcis = [i \in DOMAIN @ |-> [@[i] EXCEPT !.romBar = v]]]

\* Only the PCI devices are replaced.
LEMMA WithROMBars ==
  ASSUME NEW m, NEW c, NEW cpu, NEW disk, NEW nic, NEW tags, NEW pool, NEW efi,
         NEW pages, NEW balloon, NEW disks, NEW pcis, NEW v
  PROVE  SetROMBars(With(m, c, cpu, disk, nic, tags, pool, efi, pages, balloon,
                         disks, pcis), v)
           = With(m, c, cpu, disk, nic, tags, pool, efi, pages, balloon, disks,
                  ROMBars(pcis, v))
  BY DEF With, ROMBars, SetROMBars

\* Proxmox is asked for what the class means, and for every ROM BAR.
LEMMA RequestIsBuilt ==
  ASSUME NEW m, NEW c \in MachineClass
  PROVE  Reads(Request(Options(m, c))) = Built(m, c)
  <1> DEFINE o == Options(m, c)
             r == Request(o)
             on == [i \in DOMAIN c.pcis |-> [c.pcis[i] EXCEPT !.romBar = TRUE]]
  <1>1. Tidy(o) /\ Tells(o, m, c)
    BY OptionsTell
  <1> HIDE DEF o
  <1>2. /\ Get(r, <<"name">>, "") = m
        /\ Get(r, <<"cpu">>, "kvm64") = CPUType(c)
        /\ Get(r, <<"cores">>, 1) = c.cores
        /\ Get(r, <<"sockets">>, 1) = c.sockets
        /\ Get(r, <<"memory">>, 512) = c.memory
        /\ Get(r, <<"scsi", 0>>, {}) = DiskValue(c.disk)
        /\ Get(r, <<"net", 0>>, {}) =
             NICValue(Bridge(c), c.firewall # "off", c.vlan)
    <2>1. ReadsPlain(r, m, c)
      BY <1>1, PlainRead
    <2> QED BY <2>1, Zenon DEF ReadsPlain
  <1>3. ReadDisk(DiskValue(c.disk)) = Placed(c.disk)
    <2>1. c.disk \in AdditionalDisk
      BY DEF MachineClass
    <2> QED BY <2>1, DiskRead
  <1>4. ReadNIC(NICValue(Bridge(c), c.firewall # "off", c.vlan)) =
          [bridge |-> Bridge(c), firewall |-> c.firewall # "off",
           vlan |-> c.vlan]
    <2>1. PICK firewall \in BOOLEAN : firewall = (c.firewall # "off")
      OBVIOUS
    <2>2. c.vlan \in Nat
      BY DEF MachineClass
    <2> QED BY <2>1, <2>2, NICRead, Zenon
  <1>5. /\ Get(r, <<"pool">>, "") = PoolOf(c)
        /\ Get(r, <<"machine">>, "") = c.machineType
        /\ Get(r, <<"bios">>, "") = c.bios
        /\ Get(r, <<"vga">>, "") = c.vga
    BY <1>1, TextsRead, Zenon
  <1>6. /\ Get(r, <<"tags">>, {}) = AllTags(c)
        /\ Get(r, <<"efidisk0">>, NoStorage) =
             IF c.bios = "ovmf" THEN PickStorage(c.disk.selector)
                                ELSE NoStorage
        /\ (Get(r, <<"numa">>, 0) = 1) = c.numa
        /\ (Get(r, <<"balloon">>, 1) # 0) = (c.balloon # "off")
        /\ PageSize(Get(r, <<"hugepages">>, "")) = PageSize(c.hugepages)
    BY <1>1, ConditionsRead, Zenon
  <1>7. /\ [i \in Numbers(r, "scsi", 1) |-> ReadDisk(r[<<"scsi", i>>])] =
             [i \in DOMAIN c.disks |-> Placed(c.disks[i])]
        /\ [i \in Numbers(r, "net", 1) |-> ReadNIC(r[<<"net", i>>])] = c.nics
        /\ [i \in Numbers(r, "hostpci", 0) |->
              ReadPCI(r[<<"hostpci", i - 1>>])] = on
        /\ [i \in Numbers(r, "usb", 0) |-> ReadUSB(r[<<"usb", i - 1>>])] =
             c.usbs
    <2>1. ReadsDevices(r, c)
      BY <1>1, DevicesRead
    <2> QED BY <2>1, Zenon DEF ReadsDevices
  <1>8. AllTags(c) = c.tags \cup {<<"request", s>> : s \in {c.set} \ {""}}
    <2>1. CASE IsSet(c.set)
      <3>1. {c.set} \ {""} = {c.set}
        BY <2>1, Zenon DEF IsSet
      <3>2. {<<"request", s>> : s \in {c.set}} = {<<"request", c.set>>}
        OBVIOUS
      <3> QED BY <2>1, <3>1, <3>2, Zenon DEF AllTags, IsSet
    <2>2. CASE ~IsSet(c.set)
      <3>1. {c.set} \ {""} = {}
        BY <2>2, Zenon DEF IsSet
      <3>2. {<<"request", s>> : s \in {}} = {}
        OBVIOUS
      <3> QED BY <2>2, <3>1, <3>2, Zenon DEF AllTags, IsSet
    <2> QED BY <2>1, <2>2
  <1>9. /\ PoolOf(c) = IF c.pool # "" THEN c.pool ELSE c.set
        /\ CPUType(c) = IF c.cpuType = "" THEN "x86-64-v2-AES" ELSE c.cpuType
        /\ Bridge(c) = IF c.bridge = "" THEN "vmbr0" ELSE c.bridge
    BY Zenon DEF PoolOf, CPUType, Bridge, Or
  <1> DEFINE nic == [bridge |-> Bridge(c), firewall |-> c.firewall # "off",
                     vlan |-> c.vlan]
             efi == IF c.bios = "ovmf" THEN PickStorage(c.disk.selector)
                                       ELSE NoStorage
             disks == [i \in DOMAIN c.disks |-> Placed(c.disks[i])]
             pcis == [i \in DOMAIN c.pcis |->
                        [c.pcis[i] EXCEPT !.romBar = @ # "off"]]
             balloon == c.balloon # "off"
             Of(devices) ==
               With(m, c, CPUType(c), Placed(c.disk), nic, AllTags(c),
                    PoolOf(c), efi, PageSize(c.hugepages), balloon, disks,
                    devices)
  <1>10. Reads(r) = Of(on)
    <2>1. /\ ReadDisk(Get(r, <<"scsi", 0>>, {})) = Placed(c.disk)
          /\ ReadNIC(Get(r, <<"net", 0>>, {})) = nic
      BY <1>2, <1>3, <1>4, Zenon
    <2> HIDE DEF nic, efi, disks, pcis, on, r
    <2> QED BY <1>2, <1>5, <1>6, <1>7, <2>1, Zenon DEF Reads, With, efi, disks
  <1>11. Meaning(m, c) = Of(pcis)
    <2> HIDE DEF disks, pcis
    <2> QED BY <1>8, <1>9, Zenon DEF Meaning, With, disks, pcis
  <1>12. ROMBars(pcis, TRUE) = on
    <2>1. ASSUME NEW i \in DOMAIN c.pcis
          PROVE  [pcis[i] EXCEPT !.romBar = TRUE] =
                   [c.pcis[i] EXCEPT !.romBar = TRUE]
      OBVIOUS
    <2> QED BY <2>1 DEF ROMBars
  <1>13. Built(m, c) = Of(ROMBars(pcis, TRUE))
    <2> HIDE DEF nic, efi, disks, pcis, balloon
    <2>1. Built(m, c) = SetROMBars(Of(pcis), TRUE)
      <3>1. Built(m, c) = SetROMBars(Meaning(m, c), TRUE)
        BY Zenon DEF Built, SetROMBars
      <3> QED BY <1>11, <3>1, Zenon
    <2>2. \A v : SetROMBars(Of(pcis), v) = Of(ROMBars(pcis, v))
      BY WithROMBars
    <2>3. SetROMBars(Of(pcis), TRUE) = Of(ROMBars(pcis, TRUE))
      BY <2>2, Zenon
    <2> QED BY <2>1, <2>3, Zenon
  <1> QED BY <1>10, <1>12, <1>13, Zenon DEF o

\* Whatever the classes are, Proxmox is asked for the VM that the class of the
\* machine means, in every field and device by device.  It is asked for nothing
\* else, and no option is there twice, of which only the last would count.
\* Only the ROM BAR of a PCI device is on even if the class switches it off.
THEOREM AsksForTheClassHolds == Spec => []AsksForTheClass
  <1>1. TypeInv => AsksForTheClass
    <2> SUFFICES ASSUME TypeInv, NEW m \in Machines
                 PROVE  Asked(m) = Built(m, Class(m))
      BY DEF AsksForTheClass
    <2>1. class[m] \in Classes
      BY TypeParts DEF TypeInv, OmniData
    <2>2. Class(m) \in MachineClass
      BY <2>1, DataAssumption DEF Class, Classes
    <2> QED BY <2>2, RequestIsBuilt, Zenon DEF Asked
  <1> QED BY TypeInit, TypeNext, <1>1, PTL DEF Spec

=============================================================================
