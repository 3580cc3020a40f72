------------------------------ MODULE HARules ------------------------------
(***************************************************************************)
(* The affinity rules of Proxmox HA, as SyncRules, setMembers, addToRule   *)
(* and Teardown maintain them (internal/pkg/provider/ha/manager.go).       *)
(*                                                                         *)
(* Every machine syncs on its own, and the rules are shared.  A member is  *)
(* added by reading the rule and writing it back whole, on the condition   *)
(* that its digest has not changed.  The digest Proxmox returns with a     *)
(* rule is that of its whole rule configuration, which is how it is        *)
(* modelled: the write succeeds iff the rules are those that were read.    *)
(* A rule that does not exist yet is created: a node-affinity rule by its  *)
(* first member, a resource-affinity rule by the first machine that sees   *)
(* two members of its set.                                                 *)
(*                                                                         *)
(* Proxmox is external: it refuses to put a resource into a rule that is   *)
(* not under HA management, and a negative rule with more members than     *)
(* nodes; a purge takes a resource out of all rules and drops those that   *)
(* are left with too few members.                                          *)
(***************************************************************************)
EXTENDS Naturals, Sequences, FiniteSets

CONSTANTS
  Machines,      \* machines, which are also their resources (sids)
  Foreign,       \* HA resources of other owners
  Nodes,         \* Proxmox nodes
  RuleNames,     \* names of rules
  Sets,          \* machine request sets
  NoSet,         \* the set of a machine that belongs to none
  NodeRule,      \* the name of the node-affinity rule of each set
  ResourceRule,  \* the name of the resource-affinity rule of each set
  NodeLists,     \* the node lists of rules
  NoNodes,       \* the empty node list
  NoRule,        \* what is under a name without a rule
  Classes,       \* the machine classes
  Scenarios,     \* classes, places and listed rules to start with: for TLC
  RuleRetries    \* how often a conflicting write is tried

Affinities == {"none", "positive", "negative"}
FaultKinds ==
  {"fails",      \* a call fails, its answer is lost, or the provider restarts
   "edited",     \* an administrator changes the node list of a rule
   "deleted",    \* an administrator deletes the rule of a set
   "migrated",   \* HA moves a VM
   "offline"}    \* a node goes offline

RuleTypes == {"node-affinity", "resource-affinity"}

Resources == Machines \cup Foreign

Rule ==
  [type: RuleTypes, affinity: Affinities,
   nodes: NodeLists \cup {NoNodes}, members: SUBSET Resources]

ASSUME ForeignAssumption == Foreign \cap Machines = {}
ASSUME NoSetAssumption == NoSet \notin Sets
ASSUME NoNodesAssumption == NoNodes \notin NodeLists
ASSUME NoRuleAssumption == NoRule \notin Rule
ASSUME NamesAssumption ==
  NodeRule \in [Sets -> RuleNames] /\ ResourceRule \in [Sets -> RuleNames]
ASSUME ClassesAssumption ==
  \A c \in Classes :
    /\ c.set \in Sets \cup {NoSet} /\ c.ha \in BOOLEAN
    /\ c.nodes \in NodeLists \cup {NoNodes} /\ c.affinity \in Affinities
    /\ c.rules \in Seq(RuleNames)
ASSUME ScenariosAssumption ==
  \A s \in Scenarios :
    /\ s.class \in [Machines -> Classes] /\ s.host \in [Machines -> Nodes]
    /\ s.rules \in [RuleNames -> {NoRule}
                      \cup {r \in Rule : r.members \in (SUBSET Foreign) \ {{}}}]
    /\ s.faults \in [FaultKinds -> Nat]
ASSUME RetriesAssumption == RuleRetries \in Nat \ {0}

VARIABLES
  class,   \* the machine class of each machine
  phase,   \* how far the life of each machine has got
  pc,      \* the call the machine's SyncRules makes next
  work,    \* its local variables
  rules,   \* Proxmox: the rules
  host,    \* Proxmox: the node of each machine's VM
  online,  \* Proxmox: the nodes that are online
  faults,  \* the faults still to happen
  calm     \* history: no rule was deleted, no VM moved, no node went offline,
           \* and no sync overlooked a member

syncVars == <<pc, work>>
worldVars == <<host, online, faults, calm>>
vars == <<class, phase, syncVars, rules, worldVars>>

----------------------------------------------------------------------------
(* State. *)

\* created: the VM exists; syncing: it is an HA resource; synced: SyncRules has
\* returned nil; deregistered: its HA resource is gone; gone: so is the VM.
Phases == {"created", "syncing", "synced", "deregistered", "gone"}

Steps == {"idle", "createNodeRule", "getRule", "updateRule", "listResources",
          "listNodes", "listVMs", "done"}

\* job: which of the class's rules is worked on; adopting: addToRule is called
\* by createOrAdopt; tries: conflicts so far; read: the rules that getRule saw;
\* listed, todo, found: setMembers's resources, nodes to visit and result.
NoWork ==
  [job |-> 0, adopting |-> FALSE, tries |-> 0, read |-> <<>>,
   listed |-> {}, todo |-> {}, found |-> {}]

IsWork(w) ==
  /\ w.job \in Nat /\ w.adopting \in BOOLEAN /\ w.tries \in 0 .. RuleRetries - 1
  /\ w.read \in {<<>>} \cup [RuleNames -> Rule \cup {NoRule}]
  /\ w.listed \subseteq Resources /\ w.todo \subseteq Nodes
  /\ w.found \subseteq Machines

TypeOK ==
  /\ class \in [Machines -> Classes]
  /\ phase \in [Machines -> Phases]
  /\ pc \in [Machines -> Steps]
  /\ \A m \in Machines : IsWork(work[m])
  /\ rules \in [RuleNames -> Rule \cup {NoRule}]
  /\ host \in [Machines -> Nodes]
  /\ online \in SUBSET Nodes
  /\ faults \in [FaultKinds -> Nat]
  /\ calm \in BOOLEAN

Init ==
  /\ \E s \in Scenarios :
       class = s.class /\ host = s.host /\ rules = s.rules /\ faults = s.faults
  /\ phase = [m \in Machines |-> "created"]
  /\ pc = [m \in Machines |-> "idle"]
  /\ work = [m \in Machines |-> NoWork]
  /\ online = Nodes
  /\ calm = TRUE

Registered == {m \in Machines : phase[m] \in {"syncing", "synced"}} \cup Foreign

Exists(name) == rules[name] # NoRule

Spend(kind) ==
  /\ faults[kind] > 0
  /\ faults' = [faults EXCEPT ![kind] = @ - 1]

----------------------------------------------------------------------------
(* The rules a class asks for, in the order SyncRules works on them. *)

Only(condition, job) == IF condition THEN <<job>> ELSE <<>>

Jobs(c) ==
  Only(c.set # NoSet /\ c.nodes # NoNodes,
       [kind |-> "node-affinity", rule |-> NodeRule[c.set]])
  \o Only(c.set # NoSet /\ c.affinity # "none",
          [kind |-> "resource-affinity", rule |-> ResourceRule[c.set]])
  \o [i \in DOMAIN c.rules |-> [kind |-> "listed", rule |-> c.rules[i]]]

Job(m) == Jobs(class[m])[work[m].job]
Target(m) == Job(m).rule

----------------------------------------------------------------------------
(* Control of a sync. *)

Goto(m, step) == pc' = [pc EXCEPT ![m] = step]

StartJob(m, j) ==
  /\ work' = [work EXCEPT ![m] = [NoWork EXCEPT !.job = j]]
  /\ Goto(m, IF j > Len(Jobs(class[m])) THEN "done"
             ELSE IF Jobs(class[m])[j].kind = "node-affinity"
                  THEN "createNodeRule" ELSE "getRule")

NextJob(m) == StartJob(m, work[m].job + 1)

\* An error: the step fails and is run again by a later reconcile.
Abandon(m) ==
  /\ Goto(m, "idle")
  /\ work' = [work EXCEPT ![m] = NoWork]

\* Proxmox finds a rule with these members infeasible.
Infeasible(affinity, members) ==
  affinity = "negative" /\ Cardinality(members) > Cardinality(online)

\* Only a resource-affinity rule is best effort.
PassOver(m) ==
  IF Job(m).kind = "resource-affinity" THEN NextJob(m) ELSE Abandon(m)

----------------------------------------------------------------------------
(* SyncRules, call by call. *)

BeginSync(m) ==
  /\ phase[m] = "syncing" /\ pc[m] = "idle"
  /\ StartJob(m, 1)
  /\ UNCHANGED <<class, phase, rules, worldVars>>

\* ensureNodeAffinity creates the rule, or joins the one that exists; that its
\* nodes differ is only logged.
CreateNodeRule(m) ==
  /\ pc[m] = "createNodeRule"
  /\ \/ /\ ~Exists(Target(m))
        /\ rules' = [rules EXCEPT
             ![Target(m)] = [type |-> "node-affinity", affinity |-> "none",
                             nodes |-> class[m].nodes, members |-> {m}]]
        /\ NextJob(m)
     \/ /\ Exists(Target(m))
        /\ Goto(m, "getRule")
        /\ UNCHANGED <<work, rules>>
  /\ UNCHANGED <<class, phase, worldVars>>

\* A rule addToRule does not find is an error, except to the first addToRule of
\* ensureResourceAffinity, which goes on to create it.
NotFound(m) ==
  \/ /\ Job(m).kind = "resource-affinity" /\ ~work[m].adopting
     /\ Goto(m, "listResources")
     /\ work' = [work EXCEPT ![m] = [NoWork EXCEPT !.job = work[m].job]]
  \/ /\ Job(m).kind # "resource-affinity" \/ work[m].adopting
     /\ Abandon(m)

\* addToRule reads the rule; a machine that is a member already is done.
GetRule(m) ==
  /\ pc[m] = "getRule"
  /\ \/ ~Exists(Target(m)) /\ NotFound(m)
     \/ /\ Exists(Target(m)) /\ m \in rules[Target(m)].members
        /\ NextJob(m)
     \/ /\ Exists(Target(m)) /\ m \notin rules[Target(m)].members
        /\ Goto(m, "updateRule")
        /\ work' = [work EXCEPT ![m].read = rules]
  /\ UNCHANGED <<class, phase, rules, worldVars>>

\* Faulty variant: one retry too many.
ConflictOnceMore(m) ==
  \/ /\ work[m].tries < RuleRetries
     /\ Goto(m, "getRule")
     /\ work' = [work EXCEPT ![m].tries = @ + 1, ![m].read = <<>>]
  \/ work[m].tries = RuleRetries /\ Abandon(m)

\* Faulty variant: running out of retries is no error.
ConflictGivesUp(m) ==
  \/ /\ work[m].tries + 1 < RuleRetries
     /\ Goto(m, "getRule")
     /\ work' = [work EXCEPT ![m].tries = @ + 1, ![m].read = <<>>]
  \/ work[m].tries + 1 = RuleRetries /\ NextJob(m)

\* The digest has changed: the rule is read again, RuleRetries times in all.
Conflict(m) ==
  \/ /\ work[m].tries + 1 < RuleRetries
     /\ Goto(m, "getRule")
     /\ work' = [work EXCEPT ![m].tries = @ + 1, ![m].read = <<>>]
  \/ work[m].tries + 1 = RuleRetries /\ Abandon(m)

\* The rule that was read, with m as one more member, is written back.
WithMember(m) == [work[m].read[Target(m)] EXCEPT !.members = @ \cup {m}]

\* Faulty variant: the rule is written without a digest.
DigestOmitted(m) == FALSE

DigestDiffers(m) == rules # work[m].read

UpdateRule(m) ==
  LET rule == WithMember(m) IN
  /\ pc[m] = "updateRule"
  /\ \/ ~Exists(Target(m)) /\ NotFound(m) /\ UNCHANGED rules
     \/ /\ Exists(Target(m)) /\ DigestDiffers(m)
        /\ Conflict(m)
        /\ UNCHANGED rules
     \/ /\ Exists(Target(m)) /\ ~DigestDiffers(m)
        /\ Infeasible(rule.affinity, rule.members)
        /\ PassOver(m)
        /\ UNCHANGED rules
     \/ /\ Exists(Target(m)) /\ ~DigestDiffers(m)
        /\ ~Infeasible(rule.affinity, rule.members)
        /\ rules' = [rules EXCEPT ![Target(m)] = rule]
        /\ NextJob(m)
  /\ UNCHANGED <<class, phase, worldVars>>

\* setMembers: the machine itself is a member if it is listed as a resource ...
ListResources(m) ==
  /\ pc[m] = "listResources"
  /\ work' = [work EXCEPT ![m].listed = Registered,
                          ![m].found = {m} \cap Registered]
  /\ Goto(m, "listNodes")
  /\ UNCHANGED <<class, phase, rules, worldVars>>

ListNodes(m) ==
  /\ pc[m] = "listNodes"
  /\ work' = [work EXCEPT ![m].todo = online]
  /\ Goto(m, "listVMs")
  /\ UNCHANGED <<class, phase, rules, worldVars>>

\* Faulty variant: the members are not looked up in the list of resources.
TaggedOn(m, n) ==
  {q \in Machines :
     host[q] = n /\ phase[q] # "gone" /\ class[q].set = class[m].set}

\* The VMs of node n with the tag of m's set, if they are listed as resources.
MembersOn(m, n) ==
  {q \in work[m].listed \cap Machines :
     host[q] = n /\ phase[q] # "gone" /\ class[q].set = class[m].set}

\* ... and so are the VMs of its set, node by node.  A node that has gone
\* offline fails the step.
ListVMs(m) ==
  /\ pc[m] = "listVMs"
  /\ \E n \in work[m].todo :
       \/ /\ n \in online
          /\ work' = [work EXCEPT
               ![m].todo = @ \ {n},
               ![m].found = @ \cup MembersOn(m, n)]
          /\ UNCHANGED pc
       \/ n \notin online /\ Abandon(m)
  /\ UNCHANGED <<class, phase, rules, worldVars>>

\* createOrAdopt joins the rule that another machine has created.
Adopt(m) ==
  /\ Goto(m, "getRule")
  /\ work' = [work EXCEPT
                ![m] = [NoWork EXCEPT !.job = work[m].job, !.adopting = TRUE]]

\* The rule is created with all members, if there are two.
CreateSetRule(m) ==
  LET found == work[m].found IN
  /\ pc[m] = "listVMs" /\ work[m].todo = {}
  /\ \/ /\ Cardinality(found) < 2
        /\ NextJob(m)
        /\ UNCHANGED rules
     \/ /\ Cardinality(found) >= 2 /\ Exists(Target(m))
        /\ Adopt(m)
        /\ UNCHANGED rules
     \/ /\ Cardinality(found) >= 2 /\ ~Exists(Target(m))
        /\ ~(found \subseteq Registered)
        /\ Abandon(m)
        /\ UNCHANGED rules
     \/ /\ Cardinality(found) >= 2 /\ ~Exists(Target(m))
        /\ found \subseteq Registered /\ Infeasible(class[m].affinity, found)
        /\ NextJob(m)
        /\ UNCHANGED rules
     \/ /\ Cardinality(found) >= 2 /\ ~Exists(Target(m))
        /\ found \subseteq Registered /\ ~Infeasible(class[m].affinity, found)
        /\ rules' = [rules EXCEPT
             ![Target(m)] = [type |-> "resource-affinity", nodes |-> NoNodes,
                             affinity |-> class[m].affinity, members |-> found]]
        /\ NextJob(m)
  /\ UNCHANGED <<class, phase, worldVars>>

EndSync(m) ==
  /\ pc[m] = "done"
  /\ phase' = [phase EXCEPT ![m] = "synced"]
  /\ Abandon(m)
  /\ UNCHANGED <<class, rules, worldVars>>

----------------------------------------------------------------------------
(* Registration and tear-down. *)

RegisterHA(m) ==
  /\ phase[m] = "created" /\ class[m].ha
  /\ phase' = [phase EXCEPT ![m] = "syncing"]
  /\ UNCHANGED <<class, syncVars, rules, worldVars>>

\* A rule without r, or none: Proxmox drops a rule that would be invalid.
Purged(rule, r) ==
  LET rest == rule.members \ {r}
      least == IF rule.type = "resource-affinity" THEN 2 ELSE 1
  IN IF r \in rule.members /\ Cardinality(rest) < least
     THEN NoRule ELSE [rule EXCEPT !.members = rest]

Teardown(m) ==
  /\ phase[m] \in {"syncing", "synced"} /\ pc[m] = "idle"
  /\ phase' = [phase EXCEPT ![m] = "deregistered"]
  /\ rules' = [name \in RuleNames |->
                 IF Exists(name) THEN Purged(rules[name], m) ELSE NoRule]
  /\ UNCHANGED <<class, syncVars, worldVars>>

\* A sync has m on its list of resources and has not come to its VM.
IsLookedFor(m) ==
  \E q \in Machines :
    /\ pc[q] \in {"listNodes", "listVMs"}
    /\ class[q].set = class[m].set
    /\ m \in work[q].listed \ work[q].found

DeleteVM(m) ==
  /\ phase[m] = "deregistered"
  /\ phase' = [phase EXCEPT ![m] = "gone"]
  /\ calm' = (calm /\ ~IsLookedFor(m))
  /\ UNCHANGED <<class, syncVars, rules, host, online, faults>>

----------------------------------------------------------------------------
(* Faults, administrators and the HA stack. *)

\* A call of m fails, its answer is lost, or the provider dies.
Fails(m) ==
  /\ Spend("fails")
  /\ pc[m] # "idle"
  /\ Abandon(m)
  /\ UNCHANGED <<class, phase, rules, host, online, calm>>

AdminEdits(name) ==
  /\ Spend("edited")
  /\ Exists(name) /\ rules[name].type = "node-affinity"
  /\ \E l \in NodeLists : rules' = [rules EXCEPT ![name].nodes = l]
  /\ UNCHANGED <<class, phase, syncVars, host, online, calm>>

\* Rules the classes list belong to the administrators, who keep them.
SetRules == {NodeRule[s] : s \in Sets} \cup {ResourceRule[s] : s \in Sets}

AdminDeletes(name) ==
  /\ Spend("deleted")
  /\ Exists(name) /\ name \in SetRules
  /\ rules' = [rules EXCEPT ![name] = NoRule]
  /\ calm' = FALSE
  /\ UNCHANGED <<class, phase, syncVars, host, online>>

MigrateVM(m, n) ==
  /\ Spend("migrated")
  /\ m \in Registered /\ n \in online \ {host[m]}
  /\ host' = [host EXCEPT ![m] = n]
  /\ calm' = FALSE
  /\ UNCHANGED <<class, phase, syncVars, rules, online>>

NodeDown(n) ==
  /\ Spend("offline")
  /\ n \in online
  /\ online' = online \ {n}
  /\ calm' = FALSE
  /\ UNCHANGED <<class, phase, syncVars, rules, host>>

NodeUp(n) ==
  /\ n \notin online
  /\ online' = online \cup {n}
  /\ UNCHANGED <<class, phase, syncVars, rules, host, faults, calm>>

----------------------------------------------------------------------------
(* The specification. *)

Sync(m) ==
  \/ BeginSync(m)
  \/ CreateNodeRule(m)
  \/ GetRule(m)
  \/ UpdateRule(m)
  \/ ListResources(m)
  \/ ListNodes(m)
  \/ ListVMs(m)
  \/ CreateSetRule(m)
  \/ EndSync(m)

Next ==
  \/ \E m \in Machines :
       \/ Sync(m) \/ RegisterHA(m) \/ Teardown(m) \/ DeleteVM(m) \/ Fails(m)
  \/ \E name \in RuleNames : AdminEdits(name) \/ AdminDeletes(name)
  \/ \E m \in Machines, n \in Nodes : MigrateVM(m, n)
  \/ \E n \in Nodes : NodeDown(n) \/ NodeUp(n)

Spec == Init /\ [][Next]_vars

\* Omni keeps reconciling a machine until its sync has succeeded.
FairSpec == Spec /\ \A m \in Machines : WF_syncVars(Sync(m))

----------------------------------------------------------------------------
(* Properties. *)

RuleSettings(rule) == <<rule.type, rule.affinity, rule.nodes>>

\* The rules a resource may be put into: those of its class, and the
\* resource-affinity rule of its set, which a machine whose class was edited
\* creates for all of them.
Entitled(r) ==
  {name \in RuleNames :
     /\ r \in Machines
     /\ \/ \E j \in DOMAIN Jobs(class[r]) : name = Jobs(class[r])[j].rule
        \/ class[r].set # NoSet /\ name = ResourceRule[class[r].set]}

Abstract ==
  INSTANCE Membership WITH
    Settings  <- RuleTypes \X Affinities \X (NodeLists \cup {NoNodes}),
    NoSetting <- <<>>,
    managed   <- Registered,
    members   <- [name \in RuleNames |->
                    IF Exists(name) THEN rules[name].members ELSE {}],
    settings  <- [name \in RuleNames |->
                    IF Exists(name) THEN RuleSettings(rules[name]) ELSE <<>>],
    entitled  <- [r \in Resources |-> Entitled(r)]

\* However machines, purges and administrators interleave, the rules change as
\* if every machine joined and left them in one step: a read-modify-write never
\* takes another member out, brings one back that was purged, or undoes what an
\* administrator has set, and only resources under HA management get in.
MembershipIsAtomic == Abstract!Spec

\* The synced machines of m's set whose class asks for the same rule.
Sharing(m, job) ==
  {q \in Machines :
     /\ phase[q] = "synced" /\ class[q].set = class[m].set
     /\ \E j \in DOMAIN Jobs(class[q]) : Jobs(class[q])[j] = job}

\* A machine whose sync has succeeded is in the rules of its class: in its
\* resource-affinity rule, that is, as soon as a second machine of its set has
\* synced, whichever of them saw the other and whoever created the rule.  The
\* first machine found itself alone and does not sync again.
SyncedIsCovered ==
  calm => \A m \in Machines : phase[m] = "synced" =>
    \A j \in DOMAIN Jobs(class[m]) :
      LET job == Jobs(class[m])[j] IN
      \/ job.kind = "resource-affinity" /\ Sharing(m, job) = {m}
      \/ /\ job.kind = "resource-affinity"
         /\ Infeasible(class[m].affinity,
                       {q \in Machines : class[q] = class[m]})
      \/ Exists(job.rule) /\ Sharing(m, job) \subseteq rules[job.rule].members

\* Two machines of a set that want to be together are in a rule once both have
\* synced (the comments on ensureResourceAffinity and setMembers).
SetRuleForms ==
  \A m, q \in Machines :
    /\ m # q /\ phase[m] = "synced" /\ phase[q] = "synced"
    /\ class[q] = class[m]
    /\ class[m].set # NoSet /\ class[m].affinity = "positive"
    => Exists(ResourceRule[class[m].set])

\* What the proof of SyncedIsCovered takes for granted.  The names of rules tell sets apart,
\* and no class lists the rule of a set (ruleName does not make sure of it).
RulesApart ==
  /\ \A s, t \in Sets : /\ ResourceRule[s] # NodeRule[t]
                        /\ s # t => ResourceRule[s] # ResourceRule[t]
  /\ \A c \in Classes : \A i \in DOMAIN c.rules : c.rules[i] \notin SetRules
  /\ \A s \in Scenarios : \A name \in SetRules : s.rules[name] = NoRule

\* Machines of one set have one class if it keeps them apart.
OneNegativeClass ==
  \A s \in Scenarios : \A m, q \in Machines :
    /\ s.class[m].set # NoSet /\ s.class[q].set = s.class[m].set
    /\ s.class[m].ha /\ s.class[q].ha /\ s.class[m].affinity = "negative"
    => s.class[q] = s.class[m]

\* A rule the class of m lists has no room for m.
IsShutOut(m) ==
  \E i \in DOMAIN class[m].rules :
    LET rule == rules[class[m].rules[i]] IN
    rule # NoRule /\ Infeasible(rule.affinity, rule.members \cup {m})

\* A machine under HA gets through its sync in the end: conflicts, members that
\* come and go, machines of its set that are not under HA, and rules of the set
\* that are infeasible only delay it.
SyncCompletes ==
  \A m \in Machines :
    phase[m] = "syncing" ~> phase[m] # "syncing" \/ IsShutOut(m)

=============================================================================
