----------------------------- MODULE Scheduler -----------------------------
(***************************************************************************)
(* Placement: the pickNode step (internal/pkg/provider/provision.go) and   *)
(* the scheduler's ledger of reservations (scheduler.go).                  *)
(*                                                                         *)
(* A reconcile first takes a snapshot of the cluster, one call for the     *)
(* nodes and one for the VMs of each of them, and only then asks the       *)
(* scheduler, whose lock makes pick and release atomic.  The node that is  *)
(* picked is recorded when the step returns; the VM appears in Proxmox     *)
(* much later.  The ledger bridges that gap: a pick counts the             *)
(* reservations of other requests of its set as if their VMs existed.  A   *)
(* reservation goes when its VM is seen in a snapshot, when it is older    *)
(* than the TTL, when the request is torn down, or with the process.       *)
(***************************************************************************)
EXTENDS Naturals, FiniteSets, FiniteSetsExt

CONSTANTS
  Requests,      \* machine requests, which are also the names of their VMs
  Nodes,         \* Proxmox nodes
  NoNode,        \* no node
  NoSet,         \* the request set of a machine that belongs to none
  Classes,       \* the machine classes
  Assignments,   \* the ways the requests are given classes
  MaxMem,        \* the memory of each node
  NameRank,      \* the position of each node's name in the order of names
  ListHasTag,    \* whether HasTag finds a tag of a VM from the list endpoint
  TTL,           \* how old a reservation may get
  Unstable,      \* the nodes that go offline and come back: a bound for TLC
  MaxTime        \* the last moment that is looked at: a bound for TLC

Strategies == {"spread", "fewer-vms", "round-robin", "binpack"}

ASSUME NoNodeAssumption == NoNode \notin Nodes
ASSUME ClassesAssumption ==
  \A c \in Classes :
    /\ c.strategy \in Strategies /\ c.memory \in Nat /\ c.ha \in BOOLEAN
    /\ c.pinned \in Nodes \cup {NoNode}
ASSUME AssignmentsAssumption == Assignments \subseteq [Requests -> Classes]
ASSUME MaxMemAssumption == MaxMem \in [Nodes -> Nat \ {0}]
ASSUME NameRankAssumption == NameRank \in [Nodes -> Nat]
ASSUME UnstableAssumption == Unstable \subseteq Nodes
ASSUME TimeAssumption == TTL \in Nat /\ MaxTime \in Nat
ASSUME ListHasTagAssumption == ListHasTag \in BOOLEAN

VARIABLES
  class,         \* the machine class of each request
  phase,         \* how far the life of each request has got
  node,          \* the node recorded for each request in Omni
  pc,            \* what the request's pickNode step does next
  snapshot,      \* the nodes and VMs this step has seen
  todo,          \* the nodes whose VMs it has yet to list
  choice,        \* the node the scheduler has answered
  reservations,  \* the ledger: a function on the requests that have an entry
  vmOn,          \* Proxmox: the node each request's VM is on, if it exists
  online,        \* Proxmox: the nodes that are online
  now,           \* the time
  forgotten      \* history: the ledger has lost an entry that still mattered

stepVars == <<pc, snapshot, todo, choice>>
worldVars == <<vmOn, online, now>>
requestVars == <<class, phase, node>>
vars == <<requestVars, stepVars, reservations, worldVars, forgotten>>

----------------------------------------------------------------------------
(* State. *)

Phases == {"wanted", "tearingDown", "released", "gone"}

\* same: VMs of the machine request set; total: all VMs; free: free memory.
NodeStatus == [same: Nat, total: Nat, free: Nat]

\* The statuses of the nodes that were online, and the VMs (materialized in the
\* code) that carried the tag of the set.
IsSnapshot(s) ==
  /\ DOMAIN s.status \subseteq Nodes
  /\ \A n \in DOMAIN s.status : s.status[n] \in NodeStatus
  /\ s.seen \subseteq Requests

NoSnapshot == [status |-> [n \in {} |-> 0], seen |-> {}]

Reservation ==
  [node: Nodes, set: {c.set : c \in Classes}, memory: Nat, at: Nat]

TypeOK ==
  /\ class \in Assignments
  /\ phase \in [Requests -> Phases]
  /\ node \in [Requests -> Nodes \cup {NoNode}]
  /\ pc \in [Requests -> {"idle", "listing", "picked"}]
  /\ \A r \in Requests : IsSnapshot(snapshot[r])
  /\ todo \in [Requests -> SUBSET Nodes]
  /\ choice \in [Requests -> Nodes \cup {NoNode}]
  /\ DOMAIN reservations \in SUBSET Requests
  /\ \A r \in DOMAIN reservations : reservations[r] \in Reservation
  /\ vmOn \in [Requests -> Nodes \cup {NoNode}]
  /\ online \in SUBSET Nodes
  /\ now \in 0 .. MaxTime
  /\ forgotten \in BOOLEAN

Init ==
  /\ class \in Assignments
  /\ phase = [r \in Requests |-> "wanted"]
  /\ node = [r \in Requests |-> NoNode]
  /\ pc = [r \in Requests |-> "idle"]
  /\ snapshot = [r \in Requests |-> NoSnapshot]
  /\ todo = [r \in Requests |-> {}]
  /\ choice = [r \in Requests |-> NoNode]
  /\ reservations = [r \in {} |-> 0]
  /\ vmOn = [r \in Requests |-> NoNode]
  /\ online = Nodes
  /\ now = 0
  /\ forgotten = FALSE

----------------------------------------------------------------------------
(* The cluster, as the list endpoints show it. *)

\* Faulty variant: the difference is taken without a guard.
Difference(a, b) == a - b

Monus(a, b) == IF a >= b THEN a - b ELSE 0

VMsOn(n) == {r \in Requests : vmOn[r] = n}

MemoryOf(rs) == MapThenSumSet(LAMBDA r : class[r].memory, rs)

FreeMem(n) == Monus(MaxMem[n], MemoryOf(VMsOn(n)))

\* The VMs of n that the code takes for VMs of the request set s.
TaggedOn(n, s) == IF ListHasTag THEN {r \in VMsOn(n) : class[r].set = s} ELSE {}

\* HA places the VMs of a class with an ha: block, and a machine of no set has
\* no set to spread.
CountsSetVMs(r) == class[r].set # NoSet /\ ~class[r].ha

----------------------------------------------------------------------------
(* The scheduler's arithmetic. *)

\* A status with the reservations rs of one node applied to it; the order in
\* which the code ranges over its map does not matter.
Applied(strategy, status, rs) ==
  CASE strategy = "fewer-vms" ->
         [status EXCEPT !.total = @ + Cardinality(rs)]
    [] strategy = "binpack" ->
         [status EXCEPT !.free =
            Monus(@, MapThenSumSet(LAMBDA r : reservations[r].memory, rs))]
    [] strategy \in {"spread", "round-robin"} ->
         [status EXCEPT !.same = @ + Cardinality(rs)]

\* The share of node a's memory that is free is larger than that of node b.
FreerThan(st, a, b) == st[a].free * MaxMem[b] > st[b].free * MaxMem[a]

\* pickNode: fewest VMs of the set first, then the largest share of free memory.
SpreadBefore(st, a, b) ==
  \/ st[a].same < st[b].same
  \/ st[a].same = st[b].same /\ FreerThan(st, a, b)

FewerBefore(st, a, b) ==
  \/ st[a].total < st[b].total
  \/ st[a].total = st[b].total /\ FreerThan(st, a, b)

RoundRobinBefore(st, a, b) ==
  \/ st[a].same < st[b].same
  \/ st[a].same = st[b].same /\ NameRank[a] < NameRank[b]

\* pickBinpack: nodes that fit first, the fullest of them first; of those that
\* do not fit the emptiest.
BinpackBefore(st, memory, a, b) ==
  LET fits(n) == st[n].free >= memory IN
  \/ fits(a) /\ ~fits(b)
  \/ fits(a) /\ fits(b) /\ st[a].free < st[b].free
  \/ ~fits(a) /\ ~fits(b) /\ st[a].free > st[b].free

Before(strategy, st, memory, a, b) ==
  CASE strategy = "spread"      -> SpreadBefore(st, a, b)
    [] strategy = "fewer-vms"   -> FewerBefore(st, a, b)
    [] strategy = "round-robin" -> RoundRobinBefore(st, a, b)
    [] strategy = "binpack"     -> BinpackBefore(st, memory, a, b)

\* The nodes that may come first when the list is sorted: the sort is not
\* stable, so it may be any node that no other node precedes.
SelectNode(strategy, st, memory) ==
  {a \in DOMAIN st :
     \A b \in DOMAIN st : ~Before(strategy, st, memory, b, a)}

Expired(r) == now - reservations[r].at > TTL

\* The ledger without what has materialized or expired.
Purged(seen) ==
  LET kept == {r \in DOMAIN reservations : r \notin seen /\ ~Expired(r)}
  IN [r \in kept |-> reservations[r]]

----------------------------------------------------------------------------
(* The pickNode step. *)

EndStep(r) ==
  /\ pc' = [pc EXCEPT ![r] = "idle"]
  /\ snapshot' = [snapshot EXCEPT ![r] = NoSnapshot]
  /\ todo' = [todo EXCEPT ![r] = {}]
  /\ choice' = [choice EXCEPT ![r] = NoNode]

ToPlace(r) == pc[r] = "idle" /\ phase[r] = "wanted" /\ node[r] = NoNode

\* The class names a node: it is used, if it is online, without the ledger.
UsePinned(r) ==
  /\ ToPlace(r)
  /\ class[r].pinned \in online
  /\ node' = [node EXCEPT ![r] = class[r].pinned]
  /\ UNCHANGED <<class, phase, stepVars, reservations, worldVars, forgotten>>

ListNodes(r) ==
  /\ ToPlace(r)
  /\ class[r].pinned = NoNode
  /\ online # {}
  /\ snapshot' =
       [snapshot EXCEPT
          ![r].status = [n \in online |->
                           [same |-> 0, total |-> 0, free |-> FreeMem(n)]]]
  /\ todo' = [todo EXCEPT ![r] = IF CountsSetVMs(r) THEN online ELSE {}]
  /\ pc' = [pc EXCEPT ![r] = "listing"]
  /\ UNCHANGED <<requestVars, choice, reservations, worldVars, forgotten>>

ListVMs(r) ==
  /\ pc[r] = "listing"
  /\ \E n \in todo[r] \cap online :
       LET tagged == TaggedOn(n, class[r].set) IN
       /\ snapshot' =
            [snapshot EXCEPT
               ![r].status[n].total = Cardinality(VMsOn(n)),
               ![r].status[n].same = Cardinality(tagged),
               ![r].seen = @ \cup tagged]
       /\ todo' = [todo EXCEPT ![r] = @ \ {n}]
  /\ UNCHANGED <<requestVars, pc, choice, reservations, worldVars, forgotten>>

\* Faulty variant: a machine counts only once its node is recorded.
AdjustedByRecord(r, ledger) ==
  [n \in DOMAIN snapshot[r].status |->
     Applied(class[r].strategy, snapshot[r].status[n],
             {q \in DOMAIN ledger \ {r} :
                ledger[q].set = class[r].set /\ node[q] = n})]

\* What r sees once the reservations of the other requests of its set that are
\* left in the ledger are applied to its snapshot.
Adjusted(r, ledger) ==
  [n \in DOMAIN snapshot[r].status |->
     Applied(class[r].strategy, snapshot[r].status[n],
             {q \in DOMAIN ledger \ {r} :
                ledger[q].set = class[r].set /\ ledger[q].node = n})]

Placements(r, ledger) ==
  SelectNode(class[r].strategy, Adjusted(r, ledger), class[r].memory)

NewReservation(r, n) ==
  [node |-> n, set |-> class[r].set, memory |-> class[r].memory, at |-> now]

\* Faulty variant: a request that is placed again keeps its old reservation.
PickOnce(r) ==
  LET ledger == Purged(snapshot[r].seen) IN
  /\ pc[r] = "listing" /\ todo[r] = {} /\ class[r].set # NoSet
  /\ \E n \in Placements(r, ledger) :
       /\ choice' = [choice EXCEPT ![r] = n]
       /\ reservations' = [q \in DOMAIN ledger \cup {r} |->
            IF q \in DOMAIN ledger THEN ledger[q] ELSE NewReservation(r, n)]
  /\ pc' = [pc EXCEPT ![r] = "picked"]
  /\ snapshot' = [snapshot EXCEPT ![r] = NoSnapshot]
  /\ forgotten' = (forgotten \/ \E q \in DOMAIN reservations \ {r} : Expired(q))
  /\ UNCHANGED <<requestVars, todo, worldVars>>

\* pick purges the ledger, counts the other requests of the set as if their
\* VMs existed, and reserves the node it selects.
Pick(r) ==
  LET ledger == Purged(snapshot[r].seen) IN
  /\ pc[r] = "listing" /\ todo[r] = {} /\ class[r].set # NoSet
  /\ \E n \in Placements(r, ledger) :
       /\ choice' = [choice EXCEPT ![r] = n]
       /\ reservations' = [q \in DOMAIN ledger \cup {r} |->
            IF q = r THEN NewReservation(r, n) ELSE ledger[q]]
  /\ pc' = [pc EXCEPT ![r] = "picked"]
  /\ snapshot' = [snapshot EXCEPT ![r] = NoSnapshot]
  /\ forgotten' = (forgotten \/ \E q \in DOMAIN reservations \ {r} : Expired(q))
  /\ UNCHANGED <<requestVars, todo, worldVars>>

\* A machine of no set is placed without the ledger.
PickAlone(r) ==
  /\ pc[r] = "listing" /\ todo[r] = {} /\ class[r].set = NoSet
  /\ \E n \in SelectNode("spread", snapshot[r].status, class[r].memory) :
       choice' = [choice EXCEPT ![r] = n]
  /\ pc' = [pc EXCEPT ![r] = "picked"]
  /\ snapshot' = [snapshot EXCEPT ![r] = NoSnapshot]
  /\ UNCHANGED <<requestVars, todo, reservations, worldVars, forgotten>>

Commit(r) ==
  /\ pc[r] = "picked"
  /\ node' = [node EXCEPT ![r] = choice[r]]
  /\ EndStep(r)
  /\ UNCHANGED <<class, phase, reservations, worldVars, forgotten>>

\* A call fails, or the node that was picked could not be recorded.
StepFails(r) ==
  /\ pc[r] # "idle"
  /\ EndStep(r)
  /\ forgotten' = (forgotten \/ pc[r] = "picked")
  /\ UNCHANGED <<requestVars, reservations, worldVars>>

----------------------------------------------------------------------------
(* Deprovision, as far as placement is concerned. *)

\* Faulty variant: a request that has no VM yet is not released.
ReleaseWithVM(r) ==
  /\ pc[r] = "idle" /\ phase[r] = "tearingDown"
  /\ phase' = [phase EXCEPT
                 ![r] = IF vmOn[r] = NoNode THEN "gone" ELSE "released"]
  /\ reservations' = [q \in DOMAIN reservations
                        \ (IF vmOn[r] = NoNode THEN {} ELSE {r})
                        |-> reservations[q]]
  /\ UNCHANGED <<class, node, stepVars, worldVars, forgotten>>

\* Deprovision releases the request up front; without a VM that is all.
Release(r) ==
  /\ pc[r] = "idle" /\ phase[r] = "tearingDown"
  /\ phase' = [phase EXCEPT
                 ![r] = IF vmOn[r] = NoNode THEN "gone" ELSE "released"]
  /\ reservations' = [q \in DOMAIN reservations \ {r} |-> reservations[q]]
  /\ UNCHANGED <<class, node, stepVars, worldVars, forgotten>>

DeleteVM(r) ==
  /\ phase[r] = "released"
  /\ phase' = [phase EXCEPT ![r] = "gone"]
  /\ vmOn' = [vmOn EXCEPT ![r] = NoNode]
  /\ UNCHANGED <<class, node, stepVars, reservations, online, now, forgotten>>

----------------------------------------------------------------------------
(* The rest of the system. *)

\* The later provision steps create the VM on the node that was recorded.
CreateVM(r) ==
  /\ phase[r] = "wanted" /\ pc[r] = "idle"
  /\ node[r] \in online /\ vmOn[r] = NoNode
  /\ vmOn' = [vmOn EXCEPT ![r] = node[r]]
  /\ UNCHANGED <<requestVars, stepVars, reservations, online, now, forgotten>>

RequestTeardown(r) ==
  /\ phase[r] = "wanted"
  /\ phase' = [phase EXCEPT ![r] = "tearingDown"]
  /\ UNCHANGED <<class, node, stepVars, reservations, worldVars, forgotten>>

NodeChanges(n) ==
  /\ online' = (online \ {n}) \cup ({n} \ online)
  /\ UNCHANGED <<requestVars, stepVars, reservations, vmOn, now, forgotten>>

Tick ==
  /\ now < MaxTime
  /\ now' = now + 1
  /\ UNCHANGED <<requestVars, stepVars, reservations, vmOn, online, forgotten>>

\* The provider is restarted: steps and ledger are lost.
Restart ==
  /\ pc' = [r \in Requests |-> "idle"]
  /\ snapshot' = [r \in Requests |-> NoSnapshot]
  /\ todo' = [r \in Requests |-> {}]
  /\ choice' = [r \in Requests |-> NoNode]
  /\ reservations' = [r \in {} |-> 0]
  /\ forgotten' = TRUE
  /\ UNCHANGED <<requestVars, worldVars>>

Next ==
  \/ \E r \in Requests :
       \/ UsePinned(r) \/ ListNodes(r) \/ ListVMs(r)
       \/ Pick(r) \/ PickAlone(r) \/ Commit(r) \/ StepFails(r)
       \/ Release(r) \/ DeleteVM(r)
       \/ CreateVM(r) \/ RequestTeardown(r)
  \/ \E n \in Unstable : NodeChanges(n)
  \/ Tick
  \/ Restart

Spec == Init /\ [][Next]_vars

----------------------------------------------------------------------------
(* Properties. *)

\* The machines of r's set other than r that the scheduler has placed on n and
\* whose tear-down has not begun.
PlacedBeside(r, n) ==
  {q \in Requests \ {r} :
     /\ class[q].set = class[r].set /\ class[q].pinned = NoNode
     /\ phase[q] \in {"wanted", "tearingDown"}
     /\ n \in {node[q], choice[q]}}

Picks(r) == pc[r] = "listing" /\ pc'[r] = "picked" /\ class[r].set # NoSet

Balances(r) == class[r].strategy \in {"spread", "round-robin"}

\* As long as the ledger has lost no entry, a machine is placed on a node with
\* the fewest machines of its set, those included that have been picked by
\* concurrent reconciles and exist nowhere yet: snapshots are taken outside
\* the lock and are out of date when the scheduler uses them.
InFlightSpread ==
  [][\A r \in Requests : Picks(r) /\ Balances(r) /\ ~forgotten' =>
       \A n \in DOMAIN snapshot[r].status :
         Cardinality(PlacedBeside(r, choice'[r]))
           <= Cardinality(PlacedBeside(r, n))]_vars

\* A machine that is the only one in flight or torn down, and has seen the VMs
\* of all nodes as they are, is placed on a node with the fewest VMs of its set.
SetVMsSpread ==
  [][\A r \in Requests : Picks(r) /\ class[r].strategy = "spread" =>
       LET st == snapshot[r].status
           ofSet(n) == Cardinality({q \in VMsOn(n) : class[q].set = class[r].set})
       IN
       /\ \A q \in Requests \ {r} :
            phase[q] # "gone" => phase[q] = "wanted" /\ vmOn[q] # NoNode
       /\ \A n \in DOMAIN st : st[n].total = Cardinality(VMsOn(n))
       => \A n \in DOMAIN st : ofSet(choice'[r]) <= ofSet(n)]_vars

\* A request whose tear-down has released it holds no reservation any more,
\* whatever its reconciles did before and however often it was placed.
NoStrandedReservation ==
  \A r \in DOMAIN reservations : phase[r] \notin {"released", "gone"}

\* A reservation of a machine that is placed is for the node it is placed on,
\* also when an earlier placement of it was lost.
LedgerMatchesRecord ==
  \A r \in DOMAIN reservations : node[r] \in {NoNode, reservations[r].node}

=============================================================================
