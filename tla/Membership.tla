----------------------------- MODULE Membership -----------------------------
(***************************************************************************)
(* What the affinity rules promise: the membership of HA resources in      *)
(* rules, as if every machine joined and left in one step.  HARules, where *)
(* the same takes reads, conditional writes and retries, implements it.    *)
(***************************************************************************)
EXTENDS Naturals, FiniteSets

CONSTANTS
  Resources,  \* HA resources, those of other owners included
  RuleNames,  \* the names of rules
  Settings,   \* what an administrator may set in a rule
  NoSetting   \* the setting of a rule that does not exist

VARIABLES
  managed,    \* the resources that are under HA management
  members,    \* the members of each rule; a rule without members does not exist
  settings,   \* the settings of each rule
  entitled    \* the rules each resource may be put into by the provider

vars == <<managed, members, settings, entitled>>

Init ==
  /\ managed \in SUBSET Resources
  /\ members \in [RuleNames -> SUBSET managed]
  /\ settings \in [RuleNames -> Settings \cup {NoSetting}]
  /\ entitled \in [Resources -> SUBSET RuleNames]

Manage(r) ==
  /\ managed' = managed \cup {r}
  /\ UNCHANGED <<members, settings, entitled>>

\* A rule is created with resources that belong into it.
Found(name) ==
  /\ members[name] = {}
  /\ \E rs \in SUBSET {r \in managed : name \in entitled[r]} :
       members' = [members EXCEPT ![name] = rs]
  /\ members'[name] # {}
  /\ \E s \in Settings : settings' = [settings EXCEPT ![name] = s]
  /\ UNCHANGED <<managed, entitled>>

\* A resource joins a rule that exists; nothing else about the rule changes.
Join(r, name) ==
  /\ members[name] # {}
  /\ r \in managed /\ name \in entitled[r]
  /\ members' = [members EXCEPT ![name] = @ \cup {r}]
  /\ UNCHANGED <<managed, settings, entitled>>

\* A resource leaves all rules at once; those it leaves with at most one other
\* member may go with it.
Leave(r) ==
  /\ r \in managed
  /\ \E dropped \in SUBSET {name \in RuleNames :
       r \in members[name] /\ Cardinality(members[name] \ {r}) <= 1} :
       /\ managed' = managed \ {r}
       /\ members' = [name \in RuleNames |->
                        IF name \in dropped THEN {} ELSE members[name] \ {r}]
       /\ settings' = [name \in RuleNames |->
                         IF name \in dropped THEN NoSetting ELSE settings[name]]
  /\ UNCHANGED entitled

\* An administrator changes the settings of a rule, or deletes it.
Edit(name) ==
  /\ members[name] # {}
  /\ \E s \in Settings : settings' = [settings EXCEPT ![name] = s]
  /\ UNCHANGED <<managed, members, entitled>>

Delete(name) ==
  /\ members' = [members EXCEPT ![name] = {}]
  /\ settings' = [settings EXCEPT ![name] = NoSetting]
  /\ UNCHANGED <<managed, entitled>>

Next ==
  \/ \E r \in Resources : Manage(r) \/ Leave(r)
  \/ \E r \in Resources, name \in RuleNames : Join(r, name)
  \/ \E name \in RuleNames : Found(name) \/ Edit(name) \/ Delete(name)

Spec == Init /\ [][Next]_vars

=============================================================================
