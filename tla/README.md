# Verification of the Proxmox infrastructure provider

TLA+ models of `omni-infra-provider-proxmox`, the configurations that check them
with TLC, and proofs that TLAPS checks. Paths below are relative to the
repository root (`PROJECT.json` writes them with the prefix `src/`).

The provider is one process. Omni hands it *machine requests*; for each it
places a VM on a Proxmox node, creates it, starts it, puts it under the control
of Proxmox HA if its class asks for that, and tears it down again. Everything
that can go wrong lies between three parties that do not share a transaction:
the state Omni persists per machine, the state Proxmox keeps, and the state the
process keeps in memory.

## 1. Inventory

| Component | Code | State it keeps | Operations |
|---|---|---|---|
| Machine lifecycle | `internal/pkg/provider/provision.go` | `MachineSpec` of each machine, persisted by Omni; the locals of a reconcile | steps `pickNode`, `uploadISO`, `syncVM`, `startVM`, `registerHA`, `syncHARules`; `Deprovision` |
| Scheduler | `scheduler.go`, `pickNode` step | `reservations`: request → node, set, memory, time; in memory, under a mutex | `pick`, `release`, `applyReservations`, `purge`, four strategies |
| HA manager: registration | `ha/manager.go` | none; the HA resources are Proxmox's | `Register`, `config`, `Teardown`, `FindVMNode`, `RegisterStep` |
| HA manager: rules | `ha/manager.go` | none; the rules and their digests are Proxmox's | `SyncRules`, `addToRule`, `createOrAdopt`, `setMembers`, purge |
| ISO download | `uploadISO` step | `pendingDownloads`: ISO → task; in memory, under a mutex | start, join or replace a download |
| Pools | `ensurePool`, `cleanupPool`, the request of `syncVM` | none; `poolMu` serialises them | create on demand, delete when empty |
| VM options | `syncVM`, `data.go` | none | build tags, disks, NICs, devices from a class |
| Storage selection | `pickStorage` | none | first storage a CEL expression accepts |
| Machine state resource | `resources/`, `api/specs` | generated code | — |
| Provider process | `cmd/`, `config/`, `meta/` | flags | start-up |

How they interact:

* Omni runs one reconcile of a machine at a time, and reconciles different
  machines concurrently. A reconcile runs the steps from the first one. What a
  step assigns to the machine's state is persisted when it returns nil or asks
  for a retry; any other error, and the death of the process, loses it.
* Every call to Proxmox is remote. Create, start, stop and delete return a task
  (a UPID) that ends later. A step records the UPID and later reconciles ping it.
* Reconciles meet in the process only in the scheduler's ledger, the map of
  pending downloads and `poolMu`; in Proxmox they meet in the vmids, the HA
  rules, the pools and the ISO files.

What is hard: a call that took effect and a record that did not happen; records
that outlive what they name (a vmid that was recycled, a node HA moved the VM
away from, a task whose log is gone); snapshots taken outside the lock; a tear-down
of several calls, each of which may fail after the ones before it; reconciles
that compete for vmids, nodes and rules. `PROJECT.json` lists each of these
hazards with its line and the properties that cover it, or the reason why none
does yet.

What makes each component correct:

* *Lifecycle*: a machine is never recorded to be further than Proxmox is; a
  machine reported provisioned runs; a machine reported gone has left nothing;
  nobody touches another machine's VM; both directions complete.
* *Scheduler*: concurrent placements of one set see each other; reservations
  agree with what is recorded and do not outlive their request.
* *HA rules*: no member of a set is lost by concurrent edits, and every rule
  holds managed VMs only.
* *ISO*: one download per ISO and node at a time; no machine goes on without its
  ISO; a download that will never deliver is replaced.
* *Pools*: none is deleted under a request that names it or without being the
  provider's own and empty, none is left behind; the mutex is always given back.
* *VM options*: Proxmox is asked for the VM the class means: no setting is dropped,
  misread or replaced by another one.

## 2. Modules

| Module | Models |
|---|---|
| `Provisioner` | the life of the machines: all provision steps but `uploadISO`, and `Deprovision`, against a model of Proxmox's VMs, tasks and HA resources |
| `MachineLife` | what the provider promises of a machine and its VM, as if every request took effect in one step |
| `MCProvisioner` | fault budgets for TLC |
| `Provisioner_proofs`, `StepOrder_proofs`, `OwnVM_proofs`, `VMLife_proofs` | type correctness; the order of the recorded steps; that machines keep out of each other's VMs; that a machine has one VM, which runs once it is provisioned, and leaves nothing when it is gone; that `Provisioner` implements `MachineLife` |
| `Scheduler` | placement: the `pickNode` step and the reservation ledger |
| `MCScheduler`, `Scheduler_proofs` | classes and assignments for TLC; type correctness, the ledger's invariants and the spreading of concurrent placements |
| `Membership` | what the HA rules promise: machines join and leave rules in one step |
| `HARules` | how `SyncRules`, `addToRule`, `setMembers` and `Teardown` keep that promise call by call |
| `MCHARules`, `HARules_proofs` | classes and scenarios for TLC; the refinement; whom the rules cover |
| `IsoDownload` | the `uploadISO` step and the map of pending downloads |
| `MCIsoDownload`, `IsoDownload_proofs` | fault budgets for TLC; landed ISOs; one download at a time |
| `VMOptions` | the options of a new VM as operators on a machine class, how Proxmox reads them, and what a class means |
| `SyncVM` | `syncVM` from the choice of a storage to the create request, and the end of `Deprovision`: the pools under `poolMu`, with the request of `VMOptions` |
| `MCSyncVM`, `SyncVM_proofs` | classes and scenarios for TLC; which pools are deleted, and which are left; that Proxmox is asked for what the class means |

The modules share no variables: each takes the part of a step it is about call by
call, and what the other modules model as one action or not at all. `Provisioner`
chooses any online node where `Scheduler` picks one, has no ISO, no pools and one
action for all rule edits; `IsoDownload` and `SyncVM` stop where `Provisioner`
goes on.

### Provisioner

`rec[m]` is the machine's `MachineSpec` (uuid, schematic, Talos version, storage
volume and pool are left out: no property tells them apart). `pc[m]` is the call or commit the
machine's reconcile performs next, `work[m]` its local variables. `vm`, `tasks`, `haRes` and
`online` are Proxmox. A UPID is an index of `tasks[m]`; 0 stands for the empty
task id and for no vmid.

Each remote call is an action, and so is each commit that follows a call which
changes Proxmox:

| Code | Actions |
|---|---|
| `pickNode` step | `PickNode` (which node is `Scheduler`'s matter) |
| `syncVM` step | `CheckCreateTask`, `NextID`, `CreateVM`, `CommitCreate` |
| `startVM` step | `CheckStartTask`, `InjectConfig`, `StartVM`, `CommitStart` |
| `registerHA`, `syncHARules` | `RegisterHA`, `CommitRegister`, `SyncHARules` |
| `Deprovision` | `BeginDeprovision`, `TeardownHA`, `ListNodes`, `ScanNode`, `FindNothing`, `GetVM`, `StopVM`, `AwaitStop`, `DeleteVM`, `AwaitDelete` |
| Proxmox (external) | `TaskEnds`, `NodeUp`, `NodeDown`, `MigrateVM` |
| failures | `CallFails`, `ReplyLost`, `Crash` |
| people | `RequestTeardown`, `EditHA`, `AdminRemovesVM` |

What the model takes for granted about Proxmox, from the way the code uses it:

* `NextID` answers the lowest free vmid and reserves nothing; a create request
  for a vmid that is taken is refused; when none is free, `NextID` is an error.
* A VM with a running task is locked and refuses requests. A running VM is
  neither started nor deleted: the task fails.
* A failed create task leaves no VM behind.
* Only an HA resource is migrated. A `GET` through a node that is offline either
  fails or counts as "not found", as the code's `isNotFound` accepts both.
* A task is pinged through its node, so that it cannot be while the node is offline.

`ReplyLost` covers an answer that never arrives and a commit that fails;
`CallFails` a call without effect, or a step that fails on any other error.

### MachineLife

The abstract specification of a machine: its `phase`, its VM (`guest`: none, made, running,
stopped, removed) and whether that is under HA (`protected`). Each action is one promise, as
`Finish`: a machine counts as provisioned only while its VM runs and, if its class asks for HA, is
protected; or `Stop` and `Remove`: only after Omni has asked for the tear-down and the protection
is gone, and in this order. A VM is made and started once.

`Provisioner` has no such state. `Guest(m)` reads it from Proxmox: which VMs were created for `m`,
whether one runs, and whether a stop or delete task of `m` has succeeded. A task that is requested, or
fails, is no step of the life; the end of one that succeeds is. `Protected` is who has an HA
resource. `LivesAsPromised` is `MachineLife!Spec` under this mapping: reconciles, retries, pings,
failed tasks, migrations and whatever other machines do are stutters. Unlike the invariants it
speaks of the whole history of a VM. `HAMachines` is the class of the machine as it was
created, so that the contract has nothing to say of an edited `ha:` block.

### Scheduler

A reconcile takes a snapshot of the cluster call by call (`ListNodes`, then
`ListVMs` per node), and only then calls `pick` under the lock (`Pick`); the node is recorded in
another step (`Commit`) that may not happen (`StepFails`). `reservations` is
the ledger, a function on the requests that have an entry. A pick purges what has
materialised or expired, applies the reservations of the other requests of the set, and
selects. The order in which Go ranges over the map does not matter to what is
applied, and the sort is not stable, so that `SelectNode` is the *set* of nodes that no
other precedes. Strategies are those of `scheduler.go`; memory is compared by
cross-multiplication where the code divides.

`HasTag` is external, and `ListHasTag` says what it answers for VMs from the list
endpoint. A comment in `ha/manager.go:468` says false; see the findings.

`forgotten` is a history variable: the ledger has lost an entry that still mattered (a restart, an
expired entry, a pick whose node was never recorded). `InFlightSpread` promises nothing after
that.

### HARules and Membership

`SyncRules` works on the rules of a class one after the other (`Jobs`), each with several calls,
and every call is an action: `CreateNodeRule`, `GetRule`, `UpdateRule`, `ListResources`,
`ListNodes`, `ListVMs` per node, `CreateSetRule`. `work[m].read` is what `getRule` returned. The
digest Proxmox returns is that of its whole rule configuration, so `UpdateRule` succeeds iff
`rules` is what was read: a change of any rule is a conflict. Members are a set; their order and
the text of the calls do not matter. A failing call, a lost answer and a restart are one action,
`Fails`, which may follow any call, also one that took effect.

Taken for granted about Proxmox: it refuses unmanaged resources and a negative rule with more
members than online nodes; a purge drops a resource-affinity rule with fewer than two members and
a node-affinity rule with none. That an administrator keeps the rules a class lists is assumed
too.

`Membership` is the abstract specification: a rule is founded, joined, left, edited or deleted in
one step, and only resources that are managed and entitled get in. `MembershipIsAtomic` states
that `HARules` implements it. An update that loses a member, revives one that was purged or undoes
an administrator's edit maps to no step of `Membership`.

`calm` is a history variable: no rule was deleted, no VM moved and no node went offline, which the
code does not claim to survive without another sync; and no VM was deleted that a sync had on its
list of resources and had not come to yet (`IsLookedFor`), which leaves a set without its rule
(`rule_never_forms`). `SyncedIsCovered` promises nothing after that.

### IsoDownload

`upload[m]` is the recorded `VolumeUploadTask`, `pending` the map
`pendingISODownloads`, `mu` its mutex, which the code holds over the lookup, the
ping and the download request; each of them is an action, so that a failure,
a lost answer or a restart can come between any two. A machine that has recorded
a task waits for it (`CheckUpload`); one that has none, or a failed one, looks for
the ISO (`ResolveMedia`, `Lock`, `FindISO` or `MissISO`), joins the pending
download if that is live (`JoinDownload`) or drops its entry (`DropEntry`), and starts
another one (`Download`, `Commit`). `TakeISO` is the lookup in `syncVM`.

Taken for granted about Proxmox: a download appears in the storage when it is
complete; one that finds the file there may succeed or fail; a task that has
ended may be forgotten, and then every ping of it fails. The Talos image factory that names
the ISO is left out: the name is a value.

`calm` is a history variable: the provider has missed nothing, that is no
restart, lost answer, failing lookup or ping, or forgotten task. After one of these a
download may run that nobody knows of, and `OneDownload` promises nothing.

Two more things the model shows and the code accepts. The entry of a download that
succeeded stays in the map (`isTaskLive` counts it): when the ISO is removed,
machines that come later join that task, pass, and fail in `syncVM` for ever. And
a machine that has passed once never looks again.

### VMOptions and SyncVM

`VMOptions` has an operator for each group of options and puts them together in the order of
`syncVM`; a CEL selector is the set of storages it accepts. `Request` is
what is left of the list in the form that is posted: one value per name.
`Reads` is the VM Proxmox makes of it: each option and each part by its name, with Proxmox's
own value for one that is missing, and the devices of a kind by their numbers. `Meaning` is
the reference, the VM a class stands for: its fields (`data.go`) with the documented
defaults. The two agree in every field but one: `rombar` is documented as true
unless it is set to false, but false emits no option, as if the field were absent, and Proxmox
leaves the ROM visible. `Built` is `Meaning` with every ROM BAR on, and is what
`AsksForTheClass` compares with: a ROM BAR that the class disables is lost, against
`data.go:64`.
`MachineClass` is the set of all classes: the Go types of `data.go`, with the order of tags and the
spelling of CEL left out. A value with parts is a set of pairs, and a tag of the class is
not the tag of a machine request set: that no text of a class contains a separator, nor a tag
the prefix of the set's tag, is taken for granted, and not checked by the code.

`SyncVM` lets up to three machines run through `ensurePool` and the request
(`PickPrimary`, `LockPool`, `FindPool`, `NewPool`, `RequestVM`, `Commit`) and through
`cleanupPool` (`Deprovision`, `LockCleanup`, `ListPools`, `LoadPool`, `DeletePool`).
`poolMu` is released on every return (`Return`). A VM becomes a member of its pool
when its create task ends (`CreateEnds`), which is after the mutex was released:
a pool may be deleted between a request that names it and the end of that task, and the
VM is then in no pool. The code promises nothing for a VM in flight, and no property asks for it.

`calm` is a history variable: no call failed after the pool was ensured, no answer
was lost, no restart. After one of these an empty pool may stay behind,
since it is recorded only together with the create task.

## 3. Runs

| Run | Instance | Shows |
|---|---|---|
| `lifecycle_undisturbed` | 2 machines (one with HA), 2 nodes, 2 vmids; a start task fails, a VM migrates; liveness | what is reported to Omni is true; vmids are exclusive; a request only meets the machine's own VM; deregistered before deleted; the VM of each machine goes through the life that `MachineLife` promises; both machines are provisioned unless torn down |
| `lifecycle_failing` | the same, but a failing call and a failing create task instead of the start task; 2 requests per kind; liveness | a failure that is reported leaks no VM and no HA resource; step order; a machine that has not lost its VM is provisioned unless torn down |
| `lifecycle_interrupted` | 1 machine; a failing call, a lost answer, a crash, a failing create task, a removed VM, an offline node, an edited `ha:` block; liveness | step order survives; tear-down always completes |
| `placement_ledger` | 3 requests, 2 nodes of different size, all four strategies, sets mixed with pinned and set-less machines, TTL, restarts, lost records | ledger stays true to the records, releases what is torn down, keeps concurrent placements apart |
| `rule_membership` | six scenarios with 3 machines, 2 nodes: three that share positive rules, three with a rule that is infeasible, two beside one without HA under edits, deletions, migrations, offline nodes and failing calls, one that lists a full rule; 2 tries per rule | membership is atomic; a machine that has synced is in its rules; every sync ends |
| `iso_download` | 2 machines that need one ISO on the same node or on two, any two of six kinds of fault; liveness | one download is shared; a machine passes only with its ISO landed; faults only delay it |
| `vm_creation` | 865 classes one by one; 2 machines of one set, or of two that share a pool, under one kind of fault each; 3 machines undisturbed; liveness | Proxmox is asked for what the class means; pools are neither deleted in use nor left behind; the mutex is always given back |
| `rule_never_forms` | 4 machines of one class on one node, no fault; the machines are symmetric | a finding below |
| `recycled_vmid`, `unrecorded_ha_resource`, `set_vms_uncounted`, `pinned_to_dead_task` | one fault, or none | the findings below |

Why the bounds are enough:

* *Machines*: two compete for a vmid, and two are needed for a vmid to be
  recycled once. A third takes part only in a chain that recycles it twice, which
  these runs do not reach (see `GoneMeansNoVM` below). `lifecycle_interrupted` has one machine
  because its properties are about one machine and the faults, not about neighbours.
* *Nodes*: two, so that HA can move a VM off the recorded one. With one node the offline
  fault takes the whole cluster away.
* *VMIDs*: two, so that there is a free one, and so that they run out: a second
  VM after a lost record is possible.
* *Fault budget*: each kind named by a budget happens once, in any combination and order.
* *MaxRequests*: Proxmox refuses more requests of a kind. `Twice` allows the first request and a
  repetition. After a crash between a start and its record every further start
  task fails for as long as the VM runs, so `StartsTwice` cuts off repetitions that
  change nothing; with the other budgets the bound is never met (`Unlimited`).
* *Requests, classes*: three requests are the least for which a reservation may be
  purged by one request while another one's snapshot is out of date. They are symmetric, and
  the assignments name one representative per multiset of classes.
  The requests' symmetry set is used with invariants and an action property only.
* *Time*: TTL 0 and one tick are the least with an entry that has expired and one that is exactly
  at the limit.

* *Rules*: three machines are needed for a rule that is created by two while a third one is left
  out of both member lists. A fourth is needed for a rule that is founded and dropped again while
  the third one looks for members (`rule_never_forms`); the proof of `SyncedIsCovered` covers any
  number. With `RuleRetries` 2 both a retry and giving up happen (10 in the code). The scenarios
  are initial states of one run, so that all are checked with the same properties.
* *Downloads*: a machine starts one and another joins, drops or replaces it, on
  the same node or on its own; a third would do what the second does. Any two kinds of
  fault happen once each, in any order.
* *Classes*: all pairs of 41 settings, at least one for each field and for each part of a
  device: two options that get into each other's way do so in pairs. Sequences
  of devices have up to two entries, which is where numbering starts to matter.
* *Pools*: two machines make a pool appear and disappear under each other; the third one
  makes neither of them the last. `MaxVMs` 2 allows the VM and a second one after
  a lost record; when it is reached, Proxmox refuses the request.

Deadlock is not checked: when all machines are gone and no fault is left, or the requests are used
up, the system may stop.

*Fairness* (`FairSpec`): Omni keeps reconciling a machine that is neither provisioned nor gone,
which is weak fairness of `Provision(m) \/ Deprovision(m)` for each machine (of `Sync(m)` in
`HARules`); Proxmox ends its tasks; a node comes back. Nothing is assumed of people or faults.
Weak fairness suffices as nothing disables a machine's next call for good: a call that fails ends
the reconcile, and the next one starts. The exception is a mutex that others take again and again:
`SyncVM` assumes strong fairness of `Locking(m)`, because a goroutine that waits for a
`sync.Mutex` gets it however often others ask. In `IsoDownload` weak fairness is enough: no
machine takes the mutex again and again unless something fails each time.

Properties that hold only on the budgets they are checked with, and why:

* `GoneMeansNoVM`, `AtMostOneVM`: not with a crash or lost answer between create and record: the
  vmid is recorded only after the request (`provision.go:593-599`), so that the next reconcile
  makes another VM, and `Deprovision`, which sees vmid 0, returns nil and leaves the first.
  `GoneMeansNoVM` also not with an offline node in `FindVMNode`, which skips it.
* `GoneMeansNoVM` with a failing call holds for the two machines of `lifecycle_failing`,
  not for three that get one vmid in turn: m1's delete succeeds but waiting for it
  fails; m2 gets the vmid and registers its HA resource; m1's retry deletes m2's VM;
  m3, without HA, gets the vmid, and the resource m2 left lets HA move m3's VM off its
  recorded node, the only one m3's tear-down looks at. The cause is
  that of `recycled_vmid`, one machine further.
* `ActsOnlyOnOwnVM`: not when a call may fail. `Deprovision` then starts over after its delete
  has succeeded and may meet a recycled vmid.
* `LivesAsPromised`: not with the faults that break one of the properties above, which it joins,
  nor with an edited `ha:` block.
* `ProvisioningCompletes` exempts a machine that has lost its VM (`LostVM`), which is never
  provisioned and never gets another one. There are two ways to lose it in `lifecycle_failing`. The
  create task fails: it stays recorded and is checked forever. Or another machine's tear-down takes
  the VM away: m1's delete succeeds but waiting for it fails, m2 gets the freed vmid, and m1's
  retry deletes m2's VM, whose `startVM` then looks for it forever; the cause is that of
  `recycled_vmid`. The property does not hold after a crash or lost answer
  between a start and its record, since every further start task fails, and is not
  checked with VMs that are removed out-of-band, offline nodes and edited classes.
* `OneDownload`, `NoPoolLeftBehind` and `SyncedIsCovered`: until `calm` is lost (see the modules).
* `SyncedIsCovered` also needs `RulesApart` and `OneNegativeClass` (see the proofs), which
  `MCHARules` has TLC evaluate.
* `UploadCompletes`: until an ISO that was there is removed, or a task forgotten
  (`pinned_to_dead_task`).
* `DeletesOnlyUnused`: with an administrator who changes the pools once. A pool that is
  removed and made again between the provider's look at it and its delete is deleted
  although it is not the provider's any more.

### Mutants

For every property of a passing run there is a variant of one definition, marked "Faulty variant" in
its module and placed just before the definition it replaces, under
which TLC finds the property violated. The variants are plausible mistakes: a task that
does not run any more counts as done, the node is trusted although HA moves
VMs, a reservation survives a tear-down that finds no VM.

### Findings

1. `recycled_vmid`: `Deprovision` identifies a VM by node and vmid. If the VM was
   removed out-of-band and its vmid given to another machine, that machine's VM is stopped and
   deleted, where the comment at `provision.go:700` says that there is nothing left to tear down.
2. `unrecorded_ha_resource`: `config` refuses a dropped `ha:` block only if the
   registration is recorded. If its answer was lost and the block is dropped before
   the retry, the HA resource is orphaned, which the comment at `manager.go:509` says must not happen.
3. `set_vms_uncounted`: `pickNode` counts a set's VMs with `HasTag` on VMs from the
   list endpoint, for which it is false according to `manager.go:468`. VMs of the
   set then count for nothing once their reservations are gone. With
   `ListHasTag = TRUE` the property holds on the same instance.
4. `pinned_to_dead_task`: `uploadISO` re-issues a recorded download only when the task failed.
   When Proxmox does not know the task any more, every reconcile returns the error of its ping,
   whether the ISO has landed or not. The comments at `provision.go:938` and `provision.go:259`
   want such a task to be replaced "instead of pinning every machine to a dead task", and the
   entry in memory is; the recorded one is not.
5. `rule_never_forms`: `setMembers` looks at VMs only if they are on a list of resources read
   earlier. m3 has the list m1, m2, m3 and is slow; m4 registers and joins the rule that m1 has
   founded; m1 and m2 are torn down, which makes Proxmox drop the rule, and deleted. m3 then finds
   itself alone and is done, m4 was done before, and neither syncs again: two members and no rule.
   The comments at `manager.go:297` and `manager.go:412` say that the rule is created once the set
   has two members, and that a member created in the same wave is still seen. TLC shows it on 4
   machines; it turned up when the proof of `SyncedIsCovered` failed, which TLC had checked with
   3.

One more disagreement is part of a property that holds: `rombar: false` of a PCI device adds
nothing to the request (`provision.go:576`), so that the device has a ROM BAR, where `data.go:64`
says "default true, set false to disable". `AsksForTheClass` names this exception (`Built`), and no
other. The field is a plain bool: `false` and an absent field are the same to the code.

## 4. Proofs

All theorems hold for every value of the constants, under the named assumptions of the module
they are about and the conditions given here. Each action has a lemma of its
own; lemmas on what a step leaves alone carry the invariant over the other machines.

### Lifecycle

* `TypeCorrect == Spec => []TypeOK` (`Provisioner_proofs`). `TypeOK` is `Typed`, the
  sets the variables range over, and `VMIDKnown`, which says that a reconcile at a step that uses the
  vmid has one. Neither is inductive alone: a request is posted for `rec[m].vmid`, which must be
  a real vmid for the task log to keep its type. Together they are.
* `StepOrderHolds == Spec => []StepOrder` (`StepOrder_proofs`): the vmid, the start
  task and the HA registration of a machine each rest on a task that Proxmox has done
  for that very vmid, for any number of machines and any faults. `StepOrder`
  speaks of records; a commit writes what an earlier action computed under a guard
  that was evaluated earlier still. The inductive `Ordered` therefore has two
  parts: `RecordOrdered`, which is `StepOrder` with the indices made well-defined, and
  `ReconcileOrdered`, which remembers for each step of a reconcile in progress what
  its predecessors established. `LogKept` (task logs only grow, and a
  task that is done stays done) carries both over the steps of Proxmox and of other
  machines, and `Quiet` covers every step that records nothing.
* `VMIDsAreExclusiveHolds`, `ActsOnlyOnOwnVMHolds` (`OwnVM_proofs`), when the budget of
  the faults in `Disruptions` is 0: no failing call, crash, failing create task, removed
  VM or offline node. Any number of start tasks may fail, VMs move, answers to creations
  get lost and `ha:` blocks change. Both rest on ownership: the VM a machine has recorded is
  its own until a delete task of that machine has succeeded and the machine still waits for it
  (`Owned`). Nobody else can delete it, because a delete task that runs is the
  one its machine waits for (`AwaitsOwnDelete`), and nobody can take its vmid, because a vmid with an
  owner is not free (`FreeUnowned`). Each of the five disruptions breaks the
  sentence "and the machine still waits for it", or takes the VM away without it.

* `AtMostOneVMHolds`, `NoStrandedHAResourceHolds` (`VMLife_proofs`), when the budget of crashes
  and lost answers is 0: every other fault may happen as often as it likes. `KnownInv` says that
  the owner of a VM names it, in its record or in the commit that comes next, so that a machine
  with two VMs would have two vmids; and that each HA resource has a machine that has recorded its
  registration, or is about to, is not gone, and has the deregistration ahead of it (`Registers`).
  An interruption is what separates an effect from the commit that names it.
* `GoneMeansNoVMHolds`, `DeregisteredBeforeDeleteHolds` (`VMLife_proofs`), when the budget of
  `Disruptions` and of lost answers is 0; start tasks fail, VMs move and `ha:` blocks change
  without limit. `LifeInv` joins the invariants above with `TrackInv`: the VM a machine owns is
  where its tear-down is going to look for it (`At`). While it was never registered it is on the
  recorded node; while `FindVMNode` goes through the nodes, on one not visited yet; and from then
  on on the node that was found, because it was deregistered before and moves no more.
* `ProvisionedMeansRunningHolds` (`VMLife_proofs`), when the `ha:` block does not change either.
  `RunInv` adds to `LifeInv` what the tasks of a machine tell of its VM (`TasksTell`: one runs at
  a time, on that VM; none stops or deletes it while the machine is in use; a start task that
  succeeded has left it running with the machine's join configuration) and that a registration
  lasts while the machine is in use (`HAKept`). Any number of failed start tasks may precede the
  one that counts.
* `LivesAsPromisedHolds == Spec => LivesAsPromised` (`VMLife_proofs`), under the same conditions:
  `Provisioner` implements `MachineLife`. What the invariants above do not say is in which order
  things happened to a VM. `OnwardInv` adds to `RunInv` that a reconcile which provisions has no
  stop or delete task behind it (`Provisions`), since a start that is requested beside one would
  bring a stopped VM back; that no start task is running any more once there is one, that a
  started VM runs until then, that a running stop task is the one its machine waits for, and that a
  delete task is there only after a stop that succeeded (`TaskOnward`); and that a machine that is
  provisioned has no reconcile in progress. The proof has one lemma per kind of action: it names the step
  of `MachineLife` it is mapped to, or shows that the guest and the protection stay; the
  steps that leave other machines alone (`Untouched`) leave their guests alone (`GuestStays`).

### Scheduler

* `TypeCorrect == Spec => []TypeOK` (`Scheduler_proofs`), for finite `Requests`. What needs an
  argument is that the memory machines take from a node is a natural number: `VMsOn` sums over a
  set with a fold. `LeastNatural` (a set of naturals that is not empty has a least element) stands
  in for induction: a smallest set whose sum were no number would leave a smaller one when its
  chosen element is taken out (`SumNatural`).
* `NoStrandedReservationHolds`, `LedgerMatchesRecordHolds` (`Scheduler_proofs`).
  `LedgerInv` adds to the two properties what a snapshot looks like
  (`Snapshots`), that a machine is placed once and before its tear-down goes on
  (`Stage`), and that an entry is for the node that is recorded *or about to be*
  (`Ledger`): between `Pick` and `Commit` only the choice says which node it is.
* `InFlightSpreadHolds`, for finite `Requests` and `ListHasTag = FALSE`, which is what
  the list endpoint does. `Complete` states that the ledger knows exactly
  the placed machines as long as it forgot none, `Uncounted` that snapshots
  count none; what a pick counts on a node is then the cardinality of the machines placed there.

### HA rules

* `RefinesMembership == Spec => MembershipIsAtomic` (`HARules_proofs`), for finite
  `Resources`: every action is mapped to an action of `Membership` or to a stutter. What makes
  it true is in `MemberInv`: a rule that exists has members, and the job a sync
  works on, and the machines it has found, belong to the set of its machine. The step of
  interest is `UpdateRule`: it writes back members that were read earlier, and succeeds
  only if `rules` is what was read, so that it adds one member to the rule as it is *now*.
* `TypeCorrect == Spec => []TypeOK`, from the same invariant.
* `SyncedIsCoveredHolds` (`HARules_proofs`), for finite `Resources` and `Nodes`. Two more
  conditions: `RulesApart`, no two sets share a rule name and no class lists the rule of a set,
  which `ruleName` does not guarantee, and no set has a rule at the start; and `OneNegativeClass`, the machines of a set that keeps
  them apart have one class, because the size at which such a set is given up is counted per
  class. `CoverInv` is `MemberInv` and, while it is calm, `Covered`:
  * `Joined`: who has passed a node-affinity or listed job is in that rule; a purge cannot drop
    such a rule under a member.
  * `Search`: whatever a machine that looks for its set has on its list and has not found yet
    still exists and lies on a node it has not visited; and of two machines that look, one has the
    other on its list: the one that listed the resources later found the other one registered.
  * `SetInv`: while the set's rule exists it has everybody who has passed it; while it does not,
    at most one has, and every machine that looks for the set either has that one on its list, or
    has one on it that left, so that its create request will be refused, or is or will find a
    member. This last part is what makes it inductive: it says that no machine can found a rule
    without the ones that went ahead, nor go on alone beside one.
  * A set too large for the nodes is exempt (`TooMany`): best effort. Every kind of step that ends
    a look-up has its lemma: alone (`AloneCovers`), founding (`FoundCovers`), joining
    (`MemberTurn`), and giving up (`IdleTurn`); a purge is `TeardownCovers`.

### ISO download

* `TypeCorrect` and `PassesOnlyLandedHolds` (`IsoDownload_proofs`), under any faults.
  `LandedInv` adds that a task recorded for a machine, posted for it or pending for a
  volume is a download of that very volume (`Traced`) and that the ISO of a
  successful download was there (`Delivered`).
* `OneDownloadHolds` (`IsoDownload_proofs`). As long as the provider is calm, a download that runs
  is the pending one of its volume, whose ISO is not there (`Tracked`). Under the mutex, what a
  machine has looked up stays true: when it requests a download there is no entry and no ISO, and
  an ISO that lands before it pings was brought by the pending download (`Looked`).

### Pools

* `TypeCorrect` (`SyncVM_proofs`): with `HasPool`, `TypeOK` says who holds `poolMu`.
* `DeletesOnlyUnusedHolds`, when an administrator changes the pools at most once.
  `OursAtDelete` remembers that the pool about to be deleted is still the provider's, or
  that the one change was its removal.
* `NoPoolLeftBehindHolds`, without conditions (`calm` is in the property). `PoolInv`: while the
  provider is calm, the machine that asked for a VM knows of it, and when it is done with the VM,
  that is in no pool for good (`Traced`); and every pool of the provider has foreign members or a
  machine that has yet to go through `cleanupPool` (`Kept`).

### VM options

* `AsksForTheClassHolds == Spec => []AsksForTheClass` (`SyncVM_proofs`), for any sequences of
  storages and of classes, where `DataAssumption` says that these are of type `MachineClass`: what
  the run checks on 865 classes is a statement about all classes here, with any number of devices.
  * `Tidy`: a list names no option twice. Two tidy lists about different kinds of options
    (`Kind`: `scsi0` and `net0`, which every VM has, are kinds of their own) make a tidy list
    (`JoinedTidy`); the devices of one kind are tidy, because each is numbered by its
    position (`NumberedTidy`). No induction over the list is needed: it is a fixed number of
    parts, and devices are a function on positions.
  * `Tells`: which value the list gives to every name, in terms of the fields of the
    class, and that it gives none to any other name of a device (`OptionsTell`).
  * `RequestIsList`: the request of a tidy list says what the list says. So Proxmox reads in an
    option what its field says, given or not (`PlainRead`, `TextsRead`, `ConditionsRead`), finds as
    many devices as the class has, at their positions (`NumbersAre`), and reads each of them by
    the keys of its parts (`DiskRead`, `NICRead`, `PCIRead`, `USBRead`). `RequestIsBuilt` joins
    these: `Reads(Request(Options(m, c))) = Built(m, c)`.
  * `PCIRead` is where the exception comes from: the ROM BAR that is read is on, whatever
    the class says.

### Model-checked only

* The liveness properties `ProvisioningCompletes`, `TeardownCompletes`, `SyncCompletes`,
  `UploadCompletes` and `MutexIsFree`: fairness and `ENABLED` are beyond the
  prover.
* The properties of the findings do not hold; TLC shows it.

## 5. Not modelled

* `taskFailure` formats a task log; only that it is an error matters, and is modelled.
* Generated protobuf code, flags, configuration and client set-up.
* How CEL evaluates a selector, and what a Talos image factory answers: libraries and services.
* The text of tags, member lists and option values, and options that are the same for all VMs.
* Tasks that Proxmox forgets are in `IsoDownload` only; `Provisioner` keeps every task of
  `syncVM` and `startVM`. A forgotten create task would stop a machine as a failed one does.
* Two sets whose ids `ruleName` maps to one rule name: `HARules` allows for it, but the
  instance has one set.

## 6. Plan

Done: the modules above, and a theorem for every safety property of a passing run. What is left:

1. Forgotten tasks in `Provisioner`.
2. A scenario with two sets that share a rule name.
