----------------------------- MODULE MCHARules -----------------------------
(* Instances of HARules for TLC. *)
EXTENDS HARules, TLC

CONSTANTS m1, m2, m3, n1, n2, workers, naff, raff, listed, l1, l2, vm0, vm1

Together == [set |-> workers, ha |-> TRUE, nodes |-> NoNodes,
             affinity |-> "positive", rules |-> <<>>]
Pinned   == [Together EXCEPT !.affinity = "negative", !.nodes = l1]
Listing  == [Pinned EXCEPT !.affinity = "none", !.rules = <<listed>>]
Plain    == [Together EXCEPT !.ha = FALSE]
Apart    == [Together EXCEPT !.affinity = "negative"]

AllClasses == {Together, Pinned, Listing, Plain, Apart}

\* The rule that classes list: one for all, and one that is full with two nodes.
Shared == [type |-> "node-affinity", affinity |-> "none", nodes |-> l2,
           members |-> {vm0}]
Full   == [type |-> "resource-affinity", affinity |-> "negative",
           nodes |-> NoNodes, members |-> {vm0, vm1}]

Budget(kinds) == [k \in FaultKinds |-> IF k \in kinds THEN 1 ELSE 0]

Scenario(c1, c2, c3, rule, kinds) ==
  [class |-> (m1 :> c1 @@ m2 :> c2 @@ m3 :> c3),
   host |-> (m1 :> n1 @@ m2 :> n2 @@ m3 :> n1),
   rules |-> [name \in RuleNames |-> IF name = listed THEN rule ELSE NoRule],
   faults |-> Budget(kinds)]

\* Three machines of one set, with a rule that can be and one that cannot; two
\* machines beside one that is not under HA, disturbed in different ways.
Calm     == Scenario(Together, Together, Together, Shared, {"fails"})
Negative == Scenario(Apart, Apart, Apart, Shared, {})
Edited   ==
  Scenario(Pinned, Pinned, Plain, Shared, {"fails", "edited", "deleted"})
Moving   ==
  Scenario(Apart, Apart, Plain, Shared, {"fails", "offline", "migrated"})
Several  == Scenario(Listing, Listing, Plain, Shared, {"fails", "edited"})
Crowded  == Scenario(Listing, Together, Plain, Full, {})

AllScenarios == {Calm, Negative, Edited, Moving, Several, Crowded}

\* All machines of one class on one node, and nothing goes wrong.
NoFaults ==
  {[class |-> [m \in Machines |-> Together], host |-> [m \in Machines |-> n1],
    rules |-> [name \in RuleNames |-> NoRule], faults |-> Budget({})]}

AnyMachine == Permutations(Machines)

\* The conditions of the theorem on SyncedIsCovered hold here.
ASSUME CoveredAssumption == RulesApart /\ OneNegativeClass

ByWorkers(name) == (workers :> name)
NodeRules == ByWorkers(naff)
ResourceRules == ByWorkers(raff)
=============================================================================
