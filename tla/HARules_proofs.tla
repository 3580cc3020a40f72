---------------------------- MODULE HARules_proofs ----------------------------
(* Proofs about HARules: that it implements Membership, and whom its rules cover. *)
EXTENDS HARules, SequenceTheorems, FiniteSetTheorems, TLAPS

Work ==
  [job: Nat, adopting: BOOLEAN, tries: 0 .. RuleRetries - 1,
   read: {<<>>} \cup [RuleNames -> Rule \cup {NoRule}],
   listed: SUBSET Resources, todo: SUBSET Nodes, found: SUBSET Machines]

\* What a class may ask for.
JobsOf(c) ==
  (IF c.set = NoSet THEN {}
   ELSE {[kind |-> "node-affinity", rule |-> NodeRule[c.set]],
         [kind |-> "resource-affinity", rule |-> ResourceRule[c.set]]})
  \cup [kind: {"listed"}, rule: {c.rules[i] : i \in DOMAIN c.rules}]

\* A machine that performs step s with the local variables w.
Local(m, s, w) ==
  /\ s \in Steps /\ w \in Work
  /\ s # "idle" => phase[m] = "syncing"
  /\ s \notin {"idle", "done"} => w.job \in DOMAIN Jobs(class[m])
  /\ s = "createNodeRule" => Jobs(class[m])[w.job].kind = "node-affinity"
  /\ s \in {"listResources", "listNodes", "listVMs"} =>
       Jobs(class[m])[w.job].kind = "resource-affinity"
  /\ \A q \in w.found : class[q].set = class[m].set

SyncInv ==
  /\ class \in [Machines -> Classes]
  /\ phase \in [Machines -> Phases]
  /\ pc \in [Machines -> Steps] /\ work \in [Machines -> Work]
  /\ \A m \in Machines : Local(m, pc[m], work[m])

\* A rule that exists has members.
RealRule == {r \in Rule : r.members # {}}

RulesInv == rules \in [RuleNames -> RealRule \cup {NoRule}]

WorldInv ==
  /\ host \in [Machines -> Nodes] /\ online \in SUBSET Nodes
  /\ faults \in [FaultKinds -> Nat] /\ calm \in BOOLEAN

MemberInv == SyncInv /\ RulesInv /\ WorldInv

----------------------------------------------------------------------------
(* Jobs. *)

LEMMA OnlyTyped ==
  ASSUME NEW S, NEW condition, NEW job, condition => job \in S
  PROVE  Only(condition, job) \in Seq(S)
  <1>1. CASE condition
    BY <1>1 DEF Only
  <1>2. CASE ~condition
    BY <1>2, EmptySeq DEF Only
  <1> QED BY <1>1, <1>2

LEMMA JobsTyped ==
  ASSUME NEW c \in Classes
  PROVE  Jobs(c) \in Seq(JobsOf(c))
  <1> DEFINE J == JobsOf(c)
             naff == [kind |-> "node-affinity", rule |-> NodeRule[c.set]]
             raff == [kind |-> "resource-affinity", rule |-> ResourceRule[c.set]]
             a == Only(c.set # NoSet /\ c.nodes # NoNodes, naff)
             b == Only(c.set # NoSet /\ c.affinity # "none", raff)
             d == [i \in DOMAIN c.rules |-> [kind |-> "listed", rule |-> c.rules[i]]]
  <1>1. a \in Seq(J)
    <2>1. c.set # NoSet /\ c.nodes # NoNodes => naff \in J
      BY DEF JobsOf
    <2> HIDE DEF naff, J
    <2> QED BY <2>1, OnlyTyped
  <1>2. b \in Seq(J)
    <2>1. c.set # NoSet /\ c.affinity # "none" => raff \in J
      BY DEF JobsOf
    <2> HIDE DEF raff, J
    <2> QED BY <2>1, OnlyTyped
  <1>3. d \in Seq(J)
    <2>1. c.rules \in Seq(RuleNames)
      BY ClassesAssumption
    <2>2. \A i \in DOMAIN c.rules : [kind |-> "listed", rule |-> c.rules[i]] \in J
      BY <2>1 DEF JobsOf
    <2>3. Len(c.rules) \in Nat /\ DOMAIN c.rules = 1 .. Len(c.rules)
      BY <2>1, LenProperties
    <2> HIDE DEF J
    <2>4. d \in [1 .. Len(c.rules) -> J]
      BY <2>2, <2>3
    <2> HIDE DEF d
    <2> QED BY <2>3, <2>4, SeqDef
  <1> HIDE DEF J, a, b, d
  <1>4. (a \o b) \o d \in Seq(J)
    BY <1>1, <1>2, <1>3, ConcatProperties
  <1> QED BY <1>4 DEF Jobs, a, b, d, J

LEMMA JobTyped ==
  ASSUME NEW c \in Classes, NEW j \in DOMAIN Jobs(c)
  PROVE  /\ Jobs(c)[j] \in JobsOf(c) /\ Jobs(c)[j].rule \in RuleNames
         /\ Jobs(c)[j].kind = "resource-affinity" =>
              c.set # NoSet /\ Jobs(c)[j].rule = ResourceRule[c.set]
  <1>1. Jobs(c)[j] \in JobsOf(c)
    BY JobsTyped
  <1>2. /\ c.set \in Sets \cup {NoSet}
        /\ \A i \in DOMAIN c.rules : c.rules[i] \in RuleNames
    BY ClassesAssumption
  <1>3. ASSUME NEW job \in JobsOf(c)
        PROVE  /\ job.rule \in RuleNames
               /\ job.kind = "resource-affinity" =>
                    c.set # NoSet /\ job.rule = ResourceRule[c.set]
    BY <1>2, <1>3, NamesAssumption DEF JobsOf
  <1> QED BY <1>1, <1>3

LEMMA JobNumbers ==
  ASSUME NEW c \in Classes
  PROVE  Len(Jobs(c)) \in Nat /\ DOMAIN Jobs(c) = 1 .. Len(Jobs(c))
  BY JobsTyped, LenProperties

----------------------------------------------------------------------------
(* Control. *)

\* The machine moves on to another step.
Moves(m) ==
  \E s \in Steps, w \in Work :
    /\ Local(m, s, w)
    /\ pc' = [pc EXCEPT ![m] = s] /\ work' = [work EXCEPT ![m] = w]

LEMMA MovesKeeps ==
  ASSUME SyncInv, NEW m \in Machines, Moves(m), UNCHANGED <<class, phase>>
  PROVE  SyncInv'
  <1>1. PICK s \in Steps, w \in Work :
          /\ Local(m, s, w)
          /\ pc' = [pc EXCEPT ![m] = s] /\ work' = [work EXCEPT ![m] = w]
    BY DEF Moves
  <1>2. /\ pc' \in [Machines -> Steps] /\ work' \in [Machines -> Work]
        /\ \A x \in Machines : /\ pc'[x] = IF x = m THEN s ELSE pc[x]
                               /\ work'[x] = IF x = m THEN w ELSE work[x]
    BY <1>1 DEF SyncInv
  <1>3. \A x \in Machines : Local(x, pc'[x], work'[x])
    BY <1>1, <1>2 DEF SyncInv
  <1>4. ASSUME NEW x \in Machines PROVE Local(x, pc[x], work[x])'
    BY <1>3 DEF Local
  <1> QED BY <1>2, <1>4 DEF SyncInv

LEMMA NoWorkTyped == NoWork \in Work /\ NoWork.found = {}
  BY RetriesAssumption DEF NoWork, Work

LEMMA AbandonMoves ==
  ASSUME NEW m \in Machines, Abandon(m)
  PROVE  Moves(m)
  <1>1. Local(m, "idle", NoWork)
    BY NoWorkTyped DEF Local, Steps
  <1>2. "idle" \in Steps
    BY DEF Steps
  <1>3. pc' = [pc EXCEPT ![m] = "idle"] /\ work' = [work EXCEPT ![m] = NoWork]
    BY DEF Abandon, Goto
  <1> QED BY <1>1, <1>2, <1>3, NoWorkTyped DEF Moves

LEMMA StartMoves ==
  ASSUME SyncInv, NEW m \in Machines, phase[m] = "syncing",
         NEW j \in Nat \ {0}, StartJob(m, j)
  PROVE  Moves(m)
  <1> DEFINE w == [NoWork EXCEPT !.job = j]
             s == IF j > Len(Jobs(class[m])) THEN "done"
                  ELSE IF Jobs(class[m])[j].kind = "node-affinity"
                  THEN "createNodeRule" ELSE "getRule"
  <1>1. w \in Work /\ w.found = {} /\ w.job = j
    BY NoWorkTyped DEF Work
  <1>2. s \in Steps \ {"idle", "listResources", "listNodes", "listVMs"}
    BY DEF Steps
  <1>3. s # "done" => j \in DOMAIN Jobs(class[m])
    BY JobNumbers DEF SyncInv
  <1>4. pc' = [pc EXCEPT ![m] = s] /\ work' = [work EXCEPT ![m] = w]
    BY DEF StartJob, Goto
  <1>k. s = "createNodeRule" => Jobs(class[m])[j].kind = "node-affinity"
    OBVIOUS
  <1> HIDE DEF s, w
  <1>5. Local(m, s, w)
    BY <1>1, <1>2, <1>3, <1>k DEF Local
  <1> QED BY <1>1, <1>2, <1>4, <1>5 DEF Moves

LEMMA NextMoves ==
  ASSUME SyncInv, NEW m \in Machines, phase[m] = "syncing", NextJob(m)
  PROVE  Moves(m)
  <1>1. work[m].job + 1 \in Nat \ {0}
    BY DEF SyncInv, Work
  <1> QED BY <1>1, StartMoves DEF NextJob

\* The machine moves on with other local variables.
LEMMA StepMoves ==
  ASSUME SyncInv, NEW m \in Machines, NEW s \in Steps, NEW w \in Work,
         Local(m, s, w), work' = [work EXCEPT ![m] = w],
         Goto(m, s) \/ (UNCHANGED pc /\ pc[m] = s)
  PROVE  Moves(m)
  <1>1. pc' = [pc EXCEPT ![m] = s]
    BY DEF Goto, SyncInv
  <1> QED BY <1>1 DEF Moves

LEMMA NotFoundMoves ==
  ASSUME SyncInv, NEW m \in Machines, pc[m] \in {"getRule", "updateRule"},
         NotFound(m)
  PROVE  Moves(m)
  <1>0. Local(m, pc[m], work[m]) /\ work[m] \in Work
    BY DEF SyncInv
  <1>1. CASE /\ Job(m).kind = "resource-affinity"
             /\ Goto(m, "listResources")
             /\ work' = [work EXCEPT ![m] = [NoWork EXCEPT !.job = work[m].job]]
    <2> DEFINE w == [NoWork EXCEPT !.job = work[m].job]
    <2>1. w \in Work /\ w.found = {} /\ w.job = work[m].job
      BY <1>0, NoWorkTyped DEF Work
    <2>2. "listResources" \in Steps
      BY DEF Steps
    <2> HIDE DEF w
    <2>3. Local(m, "listResources", w)
      BY <1>0, <1>1, <2>1, <2>2 DEF Local, Job
    <2>4. work' = [work EXCEPT ![m] = w]
      BY <1>1 DEF w
    <2> QED BY <1>1, <2>1, <2>2, <2>3, <2>4, StepMoves
  <1> QED BY <1>1, AbandonMoves DEF NotFound

LEMMA ConflictMoves ==
  ASSUME SyncInv, NEW m \in Machines, pc[m] = "updateRule", Conflict(m)
  PROVE  Moves(m)
  <1>0. Local(m, pc[m], work[m]) /\ work[m] \in Work
    BY DEF SyncInv
  <1>1. CASE /\ work[m].tries + 1 < RuleRetries
             /\ Goto(m, "getRule")
             /\ work' = [work EXCEPT ![m].tries = @ + 1, ![m].read = <<>>]
    <2> DEFINE w == [work[m] EXCEPT !.tries = @ + 1, !.read = <<>>]
    <2>1. work[m].tries + 1 \in 0 .. RuleRetries - 1
      BY <1>0, <1>1, RetriesAssumption DEF Work
    <2>2. w \in Work /\ w.found = work[m].found /\ w.job = work[m].job
      BY <1>0, <2>1 DEF Work
    <2>3. "getRule" \in Steps
      BY DEF Steps
    <2>4. work' = [work EXCEPT ![m] = w]
      BY <1>1 DEF SyncInv
    <2> HIDE DEF w
    <2>5. Local(m, "getRule", w)
      BY <1>0, <2>2, <2>3 DEF Local
    <2> QED BY <1>1, <2>2, <2>3, <2>4, <2>5, StepMoves
  <1> QED BY <1>1, AbandonMoves DEF Conflict

LEMMA AdoptMoves ==
  ASSUME SyncInv, NEW m \in Machines, pc[m] = "listVMs", Adopt(m)
  PROVE  Moves(m)
  <1> DEFINE w == [NoWork EXCEPT !.job = work[m].job, !.adopting = TRUE]
  <1>0. Local(m, pc[m], work[m]) /\ work[m] \in Work
    BY DEF SyncInv
  <1>1. w \in Work /\ w.found = {} /\ w.job = work[m].job
    BY <1>0, NoWorkTyped DEF Work
  <1>2. "getRule" \in Steps
    BY DEF Steps
  <1>3. Goto(m, "getRule") /\ work' = [work EXCEPT ![m] = w]
    BY DEF Adopt
  <1> HIDE DEF w
  <1>4. Local(m, "getRule", w)
    BY <1>0, <1>1, <1>2 DEF Local
  <1> QED BY <1>1, <1>2, <1>3, <1>4, StepMoves

\* The calls that read only.
LEMMA ReadsMove ==
  ASSUME SyncInv, RulesInv, WorldInv, NEW m \in Machines,
         GetRule(m) \/ ListResources(m) \/ ListNodes(m) \/ ListVMs(m)
  PROVE  Moves(m)
  <1>0. Local(m, pc[m], work[m]) /\ work[m] \in Work
    BY DEF SyncInv
  <1>s. {"updateRule", "listNodes", "listVMs"} \subseteq Steps
    BY DEF Steps
  <1>1. CASE GetRule(m)
    <2>1. CASE ~Exists(Target(m)) /\ NotFound(m)
      BY <1>1, <2>1, NotFoundMoves DEF GetRule
    <2>2. CASE NextJob(m)
      BY <1>0, <1>1, <2>2, NextMoves DEF GetRule, Local
    <2>3. CASE Goto(m, "updateRule") /\ work' = [work EXCEPT ![m].read = rules]
      <3> DEFINE w == [work[m] EXCEPT !.read = rules]
      <3>1. rules \in [RuleNames -> Rule \cup {NoRule}]
        BY DEF RulesInv, RealRule
      <3>2. w \in Work /\ w.found = work[m].found /\ w.job = work[m].job
        BY <1>0, <3>1 DEF Work
      <3>3. work' = [work EXCEPT ![m] = w]
        BY <2>3 DEF SyncInv
      <3> HIDE DEF w
      <3>4. Local(m, "updateRule", w)
        BY <1>0, <1>1, <1>s, <3>2 DEF Local, GetRule
      <3> QED BY <1>s, <2>3, <3>2, <3>3, <3>4, StepMoves
    <2> QED BY <1>1, <2>1, <2>2, <2>3 DEF GetRule
  <1>2. CASE ListResources(m)
    <2> DEFINE w == [work[m] EXCEPT !.listed = Registered,
                                    !.found = {m} \cap Registered]
    <2>1. Registered \subseteq Resources
      BY DEF Registered, Resources
    <2>2. w \in Work /\ w.found \subseteq {m} /\ w.job = work[m].job
      BY <1>0, <2>1 DEF Work
    <2>3. Goto(m, "listNodes") /\ work' = [work EXCEPT ![m] = w]
      BY <1>2 DEF ListResources, SyncInv
    <2> HIDE DEF w
    <2>4. Local(m, "listNodes", w)
      BY <1>0, <1>2, <1>s, <2>2 DEF Local, ListResources
    <2> QED BY <1>s, <2>2, <2>3, <2>4, StepMoves
  <1>3. CASE ListNodes(m)
    <2> DEFINE w == [work[m] EXCEPT !.todo = online]
    <2>1. w \in Work /\ w.found = work[m].found /\ w.job = work[m].job
      BY <1>0 DEF Work, WorldInv
    <2>2. Goto(m, "listVMs") /\ work' = [work EXCEPT ![m] = w]
      BY <1>3 DEF ListNodes, SyncInv
    <2> HIDE DEF w
    <2>3. Local(m, "listVMs", w)
      BY <1>0, <1>3, <1>s, <2>1 DEF Local, ListNodes
    <2> QED BY <1>s, <2>1, <2>2, <2>3, StepMoves
  <1>4. CASE ListVMs(m)
    <2>1. CASE Abandon(m)
      BY <2>1, AbandonMoves
    <2>2. ASSUME NEW n \in work[m].todo, UNCHANGED pc,
                 work' = [work EXCEPT ![m].todo = @ \ {n},
                                      ![m].found = @ \cup MembersOn(m, n)]
          PROVE  Moves(m)
      <3> DEFINE w == [work[m] EXCEPT !.todo = @ \ {n},
                                      !.found = @ \cup MembersOn(m, n)]
      <3>1. /\ MembersOn(m, n) \subseteq Machines
            /\ \A q \in MembersOn(m, n) : class[q].set = class[m].set
        BY DEF MembersOn
      <3>2. /\ w \in Work /\ w.found = work[m].found \cup MembersOn(m, n)
            /\ w.job = work[m].job
        BY <1>0, <3>1 DEF Work
      <3>3. work' = [work EXCEPT ![m] = w]
        BY <2>2 DEF SyncInv
      <3> HIDE DEF w
      <3>4. pc[m] = "listVMs" /\ Local(m, "listVMs", w)
        BY <1>0, <1>4, <1>s, <3>1, <3>2 DEF Local, ListVMs
      <3> QED BY <1>s, <2>2, <3>2, <3>3, <3>4, StepMoves
    <2> QED BY <1>4, <2>1, <2>2 DEF ListVMs
  <1> QED BY <1>1, <1>2, <1>3, <1>4

\* The calls that may write.
LEMMA WritesMove ==
  ASSUME SyncInv, NEW m \in Machines,
         BeginSync(m) \/ CreateNodeRule(m) \/ UpdateRule(m) \/ CreateSetRule(m)
  PROVE  Moves(m)
  <1>0. Local(m, pc[m], work[m]) /\ work[m] \in Work
    BY DEF SyncInv
  <1>1. CASE BeginSync(m)
    BY <1>1, StartMoves DEF BeginSync
  <1>2. CASE CreateNodeRule(m)
    <2>1. CASE NextJob(m)
      BY <1>0, <1>2, <2>1, NextMoves DEF CreateNodeRule, Local
    <2>2. CASE Goto(m, "getRule") /\ UNCHANGED work
      <3>1. "getRule" \in Steps /\ work' = [work EXCEPT ![m] = work[m]]
        BY <2>2 DEF Steps, SyncInv
      <3>2. Local(m, "getRule", work[m])
        BY <1>0, <1>2, <3>1 DEF Local, CreateNodeRule
      <3> QED BY <1>0, <2>2, <3>1, <3>2, StepMoves
    <2> QED BY <1>2, <2>1, <2>2 DEF CreateNodeRule
  <1>3. CASE UpdateRule(m)
    <2>1. pc[m] = "updateRule" /\ phase[m] = "syncing"
      BY <1>0, <1>3 DEF UpdateRule, Local
    <2> QED BY <1>3, <2>1, NotFoundMoves, ConflictMoves, NextMoves, AbandonMoves
            DEF UpdateRule, PassOver
  <1>4. CASE CreateSetRule(m)
    <2>1. pc[m] = "listVMs" /\ phase[m] = "syncing"
      BY <1>0, <1>4 DEF CreateSetRule, Local
    <2> QED BY <1>4, <2>1, AdoptMoves, NextMoves, AbandonMoves DEF CreateSetRule
  <1> QED BY <1>1, <1>2, <1>3, <1>4

----------------------------------------------------------------------------
(* The abstract state. *)

AbsMembers(name) == IF Exists(name) THEN rules[name].members ELSE {}
AbsSettings(name) == IF Exists(name) THEN RuleSettings(rules[name]) ELSE <<>>

AbsStep == Abstract!Next \/ UNCHANGED Abstract!vars

LEMMA SettingsTyped ==
  ASSUME NEW rule \in RealRule
  PROVE  RuleSettings(rule)
           \in RuleTypes \X Affinities \X (NodeLists \cup {NoNodes})
  BY DEF RealRule, Rule, RuleSettings

LEMMA SameEntitled ==
  ASSUME UNCHANGED class
  PROVE  [r \in Resources |-> Entitled(r)]' = [r \in Resources |-> Entitled(r)]
  BY DEF Entitled

\* What the abstract state sees does not change.
LEMMA Stutters ==
  ASSUME UNCHANGED <<class, rules>>, Registered' = Registered
  PROVE  AbsStep
  <1>1. UNCHANGED Abstract!vars
    BY SameEntitled DEF Abstract!vars, Exists
  <1> QED BY <1>1 DEF AbsStep

LEMMA OnlyRule ==
  ASSUME RulesInv, NEW name \in RuleNames, NEW rule \in RealRule,
         rules' = [rules EXCEPT ![name] = rule]
  PROVE  /\ RulesInv' /\ Exists(name)'
         /\ AbsMembers(name)' = rule.members
         /\ AbsSettings(name)' = RuleSettings(rule)
         /\ \A x \in RuleNames : x # name =>
              /\ AbsMembers(x)' = AbsMembers(x)
              /\ AbsSettings(x)' = AbsSettings(x)
  <1>1. RulesInv'
    BY DEF RulesInv
  <1>2. \A x \in RuleNames : rules'[x] = IF x = name THEN rule ELSE rules[x]
    BY DEF RulesInv
  <1>3. rule # NoRule
    BY NoRuleAssumption DEF RealRule
  <1> QED BY <1>1, <1>2, <1>3 DEF AbsMembers, AbsSettings, Exists, RuleSettings

LEMMA FoundStep ==
  ASSUME RulesInv, NEW name \in RuleNames, NEW rule \in RealRule,
         ~Exists(name), rules' = [rules EXCEPT ![name] = rule],
         rule.members \subseteq Registered,
         \A q \in rule.members : name \in Entitled(q),
         UNCHANGED class, Registered' = Registered
  PROVE  RulesInv' /\ AbsStep
  <1>1. /\ RulesInv' /\ AbsMembers(name)' = rule.members
        /\ AbsSettings(name)' = RuleSettings(rule)
        /\ \A x \in RuleNames : x # name =>
             /\ AbsMembers(x)' = AbsMembers(x)
             /\ AbsSettings(x)' = AbsSettings(x)
    BY OnlyRule
  <1>2. AbsMembers(name) = {} /\ rule.members # {}
        /\ rule.members \subseteq Resources
    BY DEF AbsMembers, RealRule, Rule
  <1>3. [x \in RuleNames |-> AbsMembers(x)]'
          = [[x \in RuleNames |-> AbsMembers(x)] EXCEPT ![name] = rule.members]
    BY <1>1
  <1>4. [x \in RuleNames |-> AbsSettings(x)]'
          = [[x \in RuleNames |-> AbsSettings(x)]
               EXCEPT ![name] = RuleSettings(rule)]
    BY <1>1
  <1>5. rule.members
          \in SUBSET {r \in Registered :
                        name \in [q \in Resources |-> Entitled(q)][r]}
    BY <1>2
  <1>6. Abstract!Found(name)
    BY <1>1, <1>2, <1>3, <1>4, <1>5, SettingsTyped, SameEntitled
       DEF Abstract!Found, AbsMembers, AbsSettings
  <1> QED BY <1>1, <1>6 DEF AbsStep, Abstract!Next

LEMMA JoinStep ==
  ASSUME RulesInv, NEW m \in Machines, NEW name \in RuleNames,
         Exists(name), m \in Registered, name \in Entitled(m),
         rules' = [rules EXCEPT ![name] =
                     [rules[name] EXCEPT !.members = @ \cup {m}]],
         UNCHANGED class, Registered' = Registered
  PROVE  RulesInv' /\ AbsStep
  <1> DEFINE rule == [rules[name] EXCEPT !.members = @ \cup {m}]
  <1>0. m \in Resources /\ rules[name] \in RealRule
    BY DEF Resources, RulesInv, Exists
  <1>1. /\ rule \in RealRule
        /\ rule.members = rules[name].members \cup {m}
        /\ RuleSettings(rule) = RuleSettings(rules[name])
    BY <1>0 DEF RealRule, Rule, RuleSettings
  <1>2. rules' = [rules EXCEPT ![name] = rule]
    OBVIOUS
  <1> HIDE DEF rule
  <1>3. /\ RulesInv' /\ AbsMembers(name)' = rule.members
        /\ AbsSettings(name)' = RuleSettings(rule)
        /\ \A x \in RuleNames : x # name =>
             /\ AbsMembers(x)' = AbsMembers(x)
             /\ AbsSettings(x)' = AbsSettings(x)
    BY <1>1, <1>2, OnlyRule
  <1>4. /\ AbsMembers(name) = rules[name].members /\ AbsMembers(name) # {}
        /\ AbsSettings(name) = RuleSettings(rules[name])
    BY <1>0 DEF AbsMembers, AbsSettings, RealRule
  <1>5. [x \in RuleNames |-> AbsMembers(x)]'
          = [[x \in RuleNames |-> AbsMembers(x)] EXCEPT ![name] = @ \cup {m}]
    BY <1>1, <1>3, <1>4
  <1>6. [x \in RuleNames |-> AbsSettings(x)]'
          = [x \in RuleNames |-> AbsSettings(x)]
    BY <1>1, <1>3, <1>4
  <1>7. Abstract!Join(m, name)
    BY <1>0, <1>4, <1>5, <1>6, SameEntitled
       DEF Abstract!Join, AbsMembers, AbsSettings
  <1> QED BY <1>0, <1>3, <1>7 DEF AbsStep, Abstract!Next

LEMMA EditStep ==
  ASSUME RulesInv, NEW name \in RuleNames, Exists(name), NEW l \in NodeLists,
         rules' = [rules EXCEPT ![name].nodes = l],
         UNCHANGED class, Registered' = Registered
  PROVE  RulesInv' /\ AbsStep
  <1> DEFINE rule == [rules[name] EXCEPT !.nodes = l]
  <1>0. rules[name] \in RealRule
    BY DEF RulesInv, Exists
  <1>1. rule \in RealRule /\ rule.members = rules[name].members
    BY <1>0 DEF RealRule, Rule
  <1>2. rules' = [rules EXCEPT ![name] = rule]
    BY DEF RulesInv
  <1> HIDE DEF rule
  <1>3. /\ RulesInv' /\ AbsMembers(name)' = rule.members
        /\ AbsSettings(name)' = RuleSettings(rule)
        /\ \A x \in RuleNames : x # name =>
             /\ AbsMembers(x)' = AbsMembers(x)
             /\ AbsSettings(x)' = AbsSettings(x)
    BY <1>1, <1>2, OnlyRule
  <1>4. AbsMembers(name) = rules[name].members /\ AbsMembers(name) # {}
    BY <1>0 DEF AbsMembers, RealRule
  <1>5. [x \in RuleNames |-> AbsMembers(x)]'
          = [x \in RuleNames |-> AbsMembers(x)]
    BY <1>1, <1>3, <1>4
  <1>6. [x \in RuleNames |-> AbsSettings(x)]'
          = [[x \in RuleNames |-> AbsSettings(x)]
               EXCEPT ![name] = RuleSettings(rule)]
    BY <1>3
  <1>7. Abstract!Edit(name)
    BY <1>1, <1>4, <1>5, <1>6, SameEntitled, SettingsTyped
       DEF Abstract!Edit, AbsMembers, AbsSettings
  <1> QED BY <1>3, <1>7 DEF AbsStep, Abstract!Next

LEMMA DeleteStep ==
  ASSUME RulesInv, NEW name \in RuleNames,
         rules' = [rules EXCEPT ![name] = NoRule],
         UNCHANGED class, Registered' = Registered
  PROVE  RulesInv' /\ AbsStep
  <1>1. RulesInv'
    BY DEF RulesInv
  <1>2. \A x \in RuleNames : rules'[x] = IF x = name THEN NoRule ELSE rules[x]
    BY DEF RulesInv
  <1>3. /\ AbsMembers(name)' = {} /\ AbsSettings(name)' = <<>>
        /\ \A x \in RuleNames : x # name =>
             /\ AbsMembers(x)' = AbsMembers(x)
             /\ AbsSettings(x)' = AbsSettings(x)
    BY <1>2 DEF AbsMembers, AbsSettings, Exists, RuleSettings
  <1>4. [x \in RuleNames |-> AbsMembers(x)]'
          = [[x \in RuleNames |-> AbsMembers(x)] EXCEPT ![name] = {}]
    BY <1>3
  <1>5. [x \in RuleNames |-> AbsSettings(x)]'
          = [[x \in RuleNames |-> AbsSettings(x)] EXCEPT ![name] = <<>>]
    BY <1>3
  <1>6. Abstract!Delete(name)
    BY <1>4, <1>5, SameEntitled DEF Abstract!Delete, AbsMembers, AbsSettings
  <1> QED BY <1>1, <1>6 DEF AbsStep, Abstract!Next

\* A purge takes a resource out of the rules and leaves none without members.
LEMMA PurgedRule ==
  ASSUME IsFiniteSet(Resources), NEW rule \in RealRule, NEW r
  PROVE  \/ /\ Purged(rule, r) = NoRule
            /\ r \in rule.members /\ Cardinality(rule.members \ {r}) <= 1
            /\ rule.type = "node-affinity" => rule.members \ {r} = {}
         \/ /\ Purged(rule, r) \in RealRule
            /\ Purged(rule, r).members = rule.members \ {r}
            /\ RuleSettings(Purged(rule, r)) = RuleSettings(rule)
  <1> DEFINE rest == rule.members \ {r}
             least == IF rule.type = "resource-affinity" THEN 2 ELSE 1
  <1>1. IsFiniteSet(rest) /\ Cardinality(rest) \in Nat
    BY FS_Subset, FS_CardinalityType DEF RealRule, Rule
  <1>2. rest = {} => Cardinality(rest) = 0
    BY FS_EmptySet
  <1>3. CASE r \in rule.members /\ Cardinality(rest) < least
    <2>1. rule.type = "node-affinity" => rest = {}
      BY <1>1, <1>3, FS_EmptySet
    <2> QED BY <1>1, <1>3, <2>1 DEF Purged
  <1>4. CASE ~(r \in rule.members /\ Cardinality(rest) < least)
    <2>1. Purged(rule, r) = [rule EXCEPT !.members = rest]
      BY <1>4 DEF Purged
    <2>2. rest # {}
      BY <1>1, <1>2, <1>4 DEF RealRule
    <2> HIDE DEF rest
    <2>3. rest \in SUBSET Resources
      BY DEF rest, RealRule, Rule
    <2>4. /\ [rule EXCEPT !.members = rest] \in RealRule
          /\ [rule EXCEPT !.members = rest].members = rest
      BY <2>2, <2>3 DEF RealRule, Rule
    <2>5. RuleSettings([rule EXCEPT !.members = rest]) = RuleSettings(rule)
      BY DEF RuleSettings, RealRule, Rule
    <2> QED BY <2>1, <2>4, <2>5 DEF rest
  <1> QED BY <1>3, <1>4

\* Membership's instance of Cardinality is the same operator.
LEMMA SameCardinality ==
  ASSUME NEW S
  PROVE  Abstract!Cardinality(S) = Cardinality(S)
  BY DEF Abstract!Cardinality, Cardinality

LEMMA LeaveStep ==
  ASSUME IsFiniteSet(Resources), RulesInv, NEW m \in Machines, m \in Registered,
         rules' = [name \in RuleNames |->
                     IF Exists(name) THEN Purged(rules[name], m) ELSE NoRule],
         UNCHANGED class, Registered' = Registered \ {m}
  PROVE  RulesInv' /\ AbsStep
  <1> DEFINE dropped == {name \in RuleNames :
                           Exists(name) /\ Purged(rules[name], m) = NoRule}
  <1>0. \A name \in RuleNames : Exists(name) => rules[name] \in RealRule
    BY DEF RulesInv, Exists
  <1>n. NoRule \notin RealRule
    BY NoRuleAssumption DEF RealRule
  <1>1. \A name \in RuleNames :
          rules'[name] = IF Exists(name) THEN Purged(rules[name], m) ELSE NoRule
    OBVIOUS
  <1>2. RulesInv'
    <2>1. \A name \in RuleNames :
            Exists(name) => Purged(rules[name], m) \in RealRule \cup {NoRule}
      BY <1>0, PurgedRule
    <2> QED BY <2>1 DEF RulesInv
  <1>3. ASSUME NEW name \in RuleNames
        PROVE  /\ AbsMembers(name)' = IF name \in dropped THEN {}
                                      ELSE AbsMembers(name) \ {m}
               /\ AbsSettings(name)' = IF name \in dropped THEN <<>>
                                       ELSE AbsSettings(name)
               /\ name \in dropped => /\ m \in AbsMembers(name)
                                      /\ Cardinality(AbsMembers(name) \ {m}) <= 1
    <2>1. CASE ~Exists(name)
      BY <1>1, <2>1 DEF AbsMembers, AbsSettings, Exists
    <2>2. CASE Exists(name) /\ Purged(rules[name], m) = NoRule
      <3>1. /\ m \in rules[name].members
            /\ Cardinality(rules[name].members \ {m}) <= 1
        BY <1>0, <1>n, <2>2, PurgedRule
      <3> QED BY <1>1, <2>2, <3>1 DEF AbsMembers, AbsSettings, Exists
    <2>3. CASE Exists(name) /\ Purged(rules[name], m) # NoRule
      <3>1. /\ Purged(rules[name], m).members = rules[name].members \ {m}
            /\ RuleSettings(Purged(rules[name], m)) = RuleSettings(rules[name])
        BY <1>0, <2>3, PurgedRule
      <3>2. rules'[name] = Purged(rules[name], m) /\ name \notin dropped
        BY <1>1, <2>3
      <3> QED BY <2>3, <3>1, <3>2 DEF AbsMembers, AbsSettings, Exists, RuleSettings
    <2> QED BY <2>1, <2>2, <2>3
  <1> HIDE DEF dropped
  <1> DEFINE mem == [name \in RuleNames |->
                       IF Exists(name) THEN rules[name].members ELSE {}]
             set == [name \in RuleNames |->
                       IF Exists(name) THEN RuleSettings(rules[name]) ELSE <<>>]
  <1>4. dropped \in SUBSET {name \in RuleNames :
                              m \in mem[name] /\ Cardinality(mem[name] \ {m}) <= 1}
    <2>1. dropped \subseteq RuleNames
      BY DEF dropped
    <2> QED BY <1>3, <2>1 DEF AbsMembers
  <1>5. /\ mem' = [name \in RuleNames |->
                     IF name \in dropped THEN {} ELSE mem[name] \ {m}]
        /\ set' = [name \in RuleNames |->
                     IF name \in dropped THEN <<>> ELSE set[name]]
    BY <1>3 DEF AbsMembers, AbsSettings
  <1>6. Abstract!Leave(m)
    <2>1. UNCHANGED [r \in Resources |-> Entitled(r)]
      BY SameEntitled
    <2> HIDE DEF mem, set
    <2>2. \E d \in SUBSET {name \in RuleNames :
                           m \in mem[name] /\ Abstract!Cardinality(mem[name] \ {m}) <= 1} :
            /\ Registered' = Registered \ {m}
            /\ mem' = [name \in RuleNames |->
                         IF name \in d THEN {} ELSE mem[name] \ {m}]
            /\ set' = [name \in RuleNames |->
                         IF name \in d THEN <<>> ELSE set[name]]
      BY <1>4, <1>5, SameCardinality
    <2> USE DEF mem, set
    <2> QED BY <2>1, <2>2, Zenon DEF Abstract!Leave
  <1> QED BY <1>2, <1>6 DEF AbsStep, Abstract!Next, Resources

LEMMA ManageStep ==
  ASSUME NEW m \in Machines, UNCHANGED <<class, rules>>,
         Registered' = Registered \cup {m}
  PROVE  AbsStep
  <1>1. Abstract!Manage(m)
    BY SameEntitled DEF Abstract!Manage, Exists
  <1> QED BY <1>1 DEF AbsStep, Abstract!Next, Resources

----------------------------------------------------------------------------
(* Every step. *)

\* The rule a sync works on is one its machine may be put into.
LEMMA TargetEntitled ==
  ASSUME SyncInv, NEW m \in Machines, pc[m] \notin {"idle", "done"}
  PROVE  /\ Target(m) \in RuleNames /\ Target(m) \in Entitled(m)
         /\ m \in Registered /\ phase[m] = "syncing" /\ class[m] \in Classes
         /\ Job(m).kind = "resource-affinity" =>
              class[m].set # NoSet /\ Target(m) = ResourceRule[class[m].set]
  <1>1. /\ work[m].job \in DOMAIN Jobs(class[m]) /\ phase[m] = "syncing"
        /\ class[m] \in Classes
    BY DEF SyncInv, Local
  <1>2. Target(m) = Jobs(class[m])[work[m].job].rule
    BY DEF Target, Job
  <1> QED BY <1>1, <1>2, JobTyped DEF Entitled, Registered, Job

\* A step of a sync that writes no rule.
LEMMA QuietStep ==
  ASSUME MemberInv, NEW m \in Machines, Moves(m),
         UNCHANGED <<class, phase, rules, worldVars>>
  PROVE  MemberInv' /\ AbsStep
  <1>1. SyncInv'
    BY MovesKeeps DEF MemberInv
  <1>2. RulesInv' /\ WorldInv'
    BY DEF MemberInv, RulesInv, WorldInv, worldVars
  <1>3. AbsStep
    BY Stutters DEF Registered
  <1> QED BY <1>1, <1>2, <1>3 DEF MemberInv

\* A step of a sync that keeps the rules' promise.
LEMMA WritingStep ==
  ASSUME MemberInv, NEW m \in Machines, Moves(m),
         UNCHANGED <<class, phase, worldVars>>, RulesInv', AbsStep
  PROVE  MemberInv' /\ AbsStep
  <1>1. SyncInv'
    BY MovesKeeps DEF MemberInv
  <1> QED BY <1>1 DEF MemberInv, WorldInv, worldVars

LEMMA CreateNodeRuleStep ==
  ASSUME MemberInv, NEW m \in Machines, CreateNodeRule(m)
  PROVE  MemberInv' /\ AbsStep
  <1>0. SyncInv /\ RulesInv /\ Moves(m) /\ UNCHANGED <<class, phase, worldVars>>
    BY WritesMove DEF MemberInv, CreateNodeRule
  <1>1. CASE UNCHANGED rules
    BY <1>0, <1>1, QuietStep
  <1>2. CASE /\ ~Exists(Target(m))
             /\ rules' = [rules EXCEPT
                  ![Target(m)] = [type |-> "node-affinity", affinity |-> "none",
                                  nodes |-> class[m].nodes, members |-> {m}]]
    <2> DEFINE rule == [type |-> "node-affinity", affinity |-> "none",
                        nodes |-> class[m].nodes, members |-> {m}]
    <2>1. pc[m] = "createNodeRule"
      BY DEF CreateNodeRule
    <2>2. /\ Target(m) \in RuleNames /\ Target(m) \in Entitled(m)
          /\ m \in Registered /\ class[m].nodes \in NodeLists \cup {NoNodes}
      BY <1>0, <2>1, TargetEntitled, ClassesAssumption
    <2>3. rule \in RealRule /\ rule.members = {m}
      BY <2>2 DEF RealRule, Rule, RuleTypes, Affinities, Resources
    <2>4. rules' = [rules EXCEPT ![Target(m)] = rule]
      BY <1>2
    <2> HIDE DEF rule
    <2>5. RulesInv' /\ AbsStep
      BY <1>0, <1>2, <2>2, <2>3, <2>4, FoundStep DEF Registered
    <2> QED BY <1>0, <2>5, WritingStep
  <1> QED BY <1>1, <1>2 DEF CreateNodeRule

LEMMA UpdateRuleStep ==
  ASSUME MemberInv, NEW m \in Machines, UpdateRule(m)
  PROVE  MemberInv' /\ AbsStep
  <1>0. SyncInv /\ RulesInv /\ Moves(m) /\ UNCHANGED <<class, phase, worldVars>>
    BY WritesMove DEF MemberInv, UpdateRule
  <1>1. CASE UNCHANGED rules
    BY <1>0, <1>1, QuietStep
  <1>2. CASE /\ Exists(Target(m)) /\ ~DigestDiffers(m)
             /\ rules' = [rules EXCEPT ![Target(m)] = WithMember(m)]
    <2>1. pc[m] = "updateRule"
      BY DEF UpdateRule
    <2>2. /\ Target(m) \in RuleNames /\ Target(m) \in Entitled(m)
          /\ m \in Registered
      BY <1>0, <2>1, TargetEntitled
    <2>3. rules' = [rules EXCEPT ![Target(m)] =
                      [rules[Target(m)] EXCEPT !.members = @ \cup {m}]]
      BY <1>2 DEF WithMember, DigestDiffers
    <2>4. RulesInv' /\ AbsStep
      BY <1>0, <1>2, <2>2, <2>3, JoinStep DEF Registered
    <2> QED BY <1>0, <2>4, WritingStep
  <1> QED BY <1>1, <1>2 DEF UpdateRule

LEMMA CreateSetRuleStep ==
  ASSUME IsFiniteSet(Resources), MemberInv, NEW m \in Machines, CreateSetRule(m)
  PROVE  MemberInv' /\ AbsStep
  <1>0. SyncInv /\ RulesInv /\ Moves(m) /\ UNCHANGED <<class, phase, worldVars>>
    BY WritesMove DEF MemberInv, CreateSetRule
  <1>1. CASE UNCHANGED rules
    BY <1>0, <1>1, QuietStep
  <1>2. CASE /\ Cardinality(work[m].found) >= 2 /\ ~Exists(Target(m))
             /\ work[m].found \subseteq Registered
             /\ rules' = [rules EXCEPT
                  ![Target(m)] = [type |-> "resource-affinity", nodes |-> NoNodes,
                                  affinity |-> class[m].affinity,
                                  members |-> work[m].found]]
    <2> DEFINE found == work[m].found
               rule == [type |-> "resource-affinity", nodes |-> NoNodes,
                        affinity |-> class[m].affinity, members |-> found]
    <2>1. pc[m] = "listVMs" /\ Local(m, pc[m], work[m])
      BY <1>0 DEF CreateSetRule, SyncInv
    <2>2. /\ Target(m) \in RuleNames /\ class[m] \in Classes
          /\ class[m].set # NoSet /\ Target(m) = ResourceRule[class[m].set]
      BY <1>0, <2>1, TargetEntitled DEF Local, Job
    <2>3. found # {}
      BY <1>2, FS_EmptySet
    <2>4. /\ found \subseteq Machines
          /\ \A q \in found : class[q].set = class[m].set
      BY <2>1 DEF Local, Work
    <2>5. \A q \in found : Target(m) \in Entitled(q)
      BY <2>2, <2>4 DEF Entitled
    <2>6. rule \in RealRule /\ rule.members = found
      <3>1. class[m].affinity \in Affinities
        BY <2>2, ClassesAssumption
      <3> HIDE DEF found
      <3> QED BY <2>3, <2>4, <3>1 DEF RealRule, Rule, RuleTypes, Resources
    <2>7. rules' = [rules EXCEPT ![Target(m)] = rule]
      BY <1>2
    <2> HIDE DEF rule
    <2>8. RulesInv' /\ AbsStep
      BY <1>0, <1>2, <2>2, <2>5, <2>6, <2>7, FoundStep DEF Registered
    <2> QED BY <1>0, <2>8, WritingStep
  <1> QED BY <1>1, <1>2 DEF CreateSetRule

LEMMA SyncStep ==
  ASSUME IsFiniteSet(Resources), MemberInv, NEW m \in Machines, Sync(m)
  PROVE  MemberInv' /\ AbsStep
  <1>0. SyncInv /\ RulesInv /\ WorldInv
    BY DEF MemberInv
  <1>1. CASE BeginSync(m)
    BY <1>0, <1>1, WritesMove, QuietStep DEF BeginSync
  <1>2. CASE GetRule(m) \/ ListResources(m) \/ ListNodes(m) \/ ListVMs(m)
    <2>1. Moves(m)
      BY <1>0, <1>2, ReadsMove
    <2>2. UNCHANGED <<class, phase, rules, worldVars>>
      BY <1>2 DEF GetRule, ListResources, ListNodes, ListVMs
    <2> QED BY <2>1, <2>2, QuietStep
  <1>3. CASE EndSync(m)
    <2>1. /\ pc[m] = "done" /\ phase[m] = "syncing"
          /\ phase' = [phase EXCEPT ![m] = "synced"]
          /\ pc' = [pc EXCEPT ![m] = "idle"]
          /\ work' = [work EXCEPT ![m] = NoWork]
          /\ UNCHANGED <<class, rules, worldVars>>
      BY <1>0, <1>3 DEF EndSync, Abandon, Goto, SyncInv, Local
    <2>2. Registered' = Registered
      BY <1>0, <2>1 DEF Registered, SyncInv
    <2>3. /\ \A x \in Machines : x # m =>
               phase'[x] = phase[x] /\ pc'[x] = pc[x] /\ work'[x] = work[x]
          /\ pc'[m] = "idle" /\ work'[m] = NoWork
      BY <1>0, <2>1 DEF SyncInv
    <2>4. ASSUME NEW x \in Machines PROVE Local(x, pc[x], work[x])'
      BY <1>0, <2>1, <2>3, NoWorkTyped DEF Local, SyncInv, Steps
    <2>5. /\ phase' \in [Machines -> Phases] /\ pc' \in [Machines -> Steps]
          /\ work' \in [Machines -> Work]
      BY <1>0, <2>1, NoWorkTyped DEF SyncInv, Phases, Steps
    <2>6. SyncInv'
      BY <1>0, <2>1, <2>4, <2>5 DEF SyncInv
    <2> QED BY <1>0, <2>1, <2>2, <2>6, Stutters
            DEF MemberInv, RulesInv, WorldInv, worldVars
  <1> QED BY <1>1, <1>2, <1>3, CreateNodeRuleStep, UpdateRuleStep,
             CreateSetRuleStep DEF Sync

\* A machine that does not sync at the moment enters another phase of its life.
LEMMA PhaseChanges ==
  ASSUME SyncInv, NEW m \in Machines, NEW to \in Phases, pc[m] = "idle",
         phase' = [phase EXCEPT ![m] = to], UNCHANGED <<class, syncVars>>
  PROVE  SyncInv'
  <1>1. phase' \in [Machines -> Phases] /\ UNCHANGED <<pc, work>>
    BY DEF SyncInv, syncVars
  <1>2. ASSUME NEW x \in Machines PROVE Local(x, pc[x], work[x])'
    BY <1>1 DEF Local, SyncInv
  <1> QED BY <1>1, <1>2 DEF SyncInv

LEMMA LifeStep ==
  ASSUME IsFiniteSet(Resources), MemberInv, NEW m \in Machines,
         RegisterHA(m) \/ Teardown(m) \/ DeleteVM(m) \/ Fails(m)
  PROVE  MemberInv' /\ AbsStep
  <1>0. /\ SyncInv /\ RulesInv /\ WorldInv
        /\ phase \in [Machines -> Phases]
        /\ phase[m] # "syncing" => pc[m] = "idle"
    BY DEF MemberInv, SyncInv, Local
  <1>1. CASE RegisterHA(m)
    <2>1. /\ phase[m] = "created" /\ phase' = [phase EXCEPT ![m] = "syncing"]
          /\ UNCHANGED <<class, syncVars, rules, worldVars>>
      BY <1>1 DEF RegisterHA
    <2>2. Registered' = Registered \cup {m}
      BY <1>0, <2>1 DEF Registered
    <2>3. SyncInv'
      BY <1>0, <2>1, PhaseChanges DEF Phases
    <2> QED BY <1>0, <2>1, <2>2, <2>3, ManageStep
            DEF MemberInv, RulesInv, WorldInv, worldVars
  <1>2. CASE Teardown(m)
    <2>1. /\ phase[m] \in {"syncing", "synced"} /\ pc[m] = "idle"
          /\ phase' = [phase EXCEPT ![m] = "deregistered"]
          /\ UNCHANGED <<class, syncVars, worldVars>>
      BY <1>2 DEF Teardown
    <2>2. m \in Registered /\ Registered' = Registered \ {m}
      BY <1>0, <2>1, ForeignAssumption DEF Registered
    <2>3. SyncInv'
      BY <1>0, <2>1, PhaseChanges DEF Phases
    <2>4. RulesInv' /\ AbsStep
      BY <1>0, <1>2, <2>1, <2>2, LeaveStep DEF Teardown
    <2> QED BY <1>0, <2>1, <2>3, <2>4 DEF MemberInv, WorldInv, worldVars
  <1>3. CASE DeleteVM(m)
    <2>1. /\ phase[m] = "deregistered" /\ phase' = [phase EXCEPT ![m] = "gone"]
          /\ calm' = (calm /\ ~IsLookedFor(m))
          /\ UNCHANGED <<class, syncVars, rules, host, online, faults>>
      BY <1>3 DEF DeleteVM
    <2>2. Registered' = Registered
      BY <1>0, <2>1 DEF Registered
    <2>3. SyncInv'
      BY <1>0, <2>1, PhaseChanges DEF Phases
    <2>4. calm' \in BOOLEAN
      BY <2>1
    <2> QED BY <1>0, <2>1, <2>2, <2>3, <2>4, Stutters
            DEF MemberInv, RulesInv, WorldInv
  <1>4. CASE Fails(m)
    <2>1. Moves(m) /\ UNCHANGED <<class, phase, rules, host, online, calm>>
      BY <1>4, AbandonMoves DEF Fails
    <2>2. faults' \in [FaultKinds -> Nat]
      BY <1>0, <1>4 DEF Fails, Spend, WorldInv, FaultKinds
    <2>3. SyncInv'
      BY <1>0, <2>1, MovesKeeps
    <2>4. AbsStep
      BY <2>1, Stutters DEF Registered
    <2> QED BY <1>0, <2>1, <2>2, <2>3, <2>4 DEF MemberInv, RulesInv, WorldInv
  <1> QED BY <1>1, <1>2, <1>3, <1>4

LEMMA WorldStep ==
  ASSUME MemberInv,
         \/ \E name \in RuleNames : AdminEdits(name) \/ AdminDeletes(name)
         \/ \E m \in Machines, n \in Nodes : MigrateVM(m, n)
         \/ \E n \in Nodes : NodeDown(n) \/ NodeUp(n)
         \/ UNCHANGED vars
  PROVE  MemberInv' /\ AbsStep
  <1>0. SyncInv /\ RulesInv /\ WorldInv
    BY DEF MemberInv
  <1>1. UNCHANGED <<class, phase, pc, work>> /\ Registered' = Registered
    BY DEF AdminEdits, AdminDeletes, MigrateVM, NodeDown, NodeUp, vars, syncVars,
       Registered
  <1>2. SyncInv'
    BY <1>0, <1>1 DEF SyncInv, Local
  <1>3. WorldInv'
    <2>1. UNCHANGED faults \/ \E kind \in FaultKinds : Spend(kind)
      BY DEF AdminEdits, AdminDeletes, MigrateVM, NodeDown, NodeUp, vars,
         worldVars, FaultKinds
    <2>2. faults' \in [FaultKinds -> Nat]
      BY <1>0, <2>1 DEF Spend, WorldInv
    <2>3. /\ UNCHANGED host \/ \E m \in Machines, n \in Nodes :
                                host' = [host EXCEPT ![m] = n]
          /\ UNCHANGED online \/ \E n \in Nodes :
                                  online' \in {online \ {n}, online \cup {n}}
          /\ UNCHANGED calm \/ calm' = FALSE
      BY DEF AdminEdits, AdminDeletes, MigrateVM, NodeDown, NodeUp, vars,
         worldVars
    <2>4. host' \in [Machines -> Nodes]
      BY <1>0, <2>3 DEF WorldInv
    <2>5. online' \in SUBSET Nodes /\ calm' \in BOOLEAN
      BY <1>0, <2>3 DEF WorldInv
    <2> QED BY <2>2, <2>4, <2>5 DEF WorldInv
  <1>4. CASE \E name \in RuleNames : AdminEdits(name)
    <2>1. PICK name \in RuleNames, l \in NodeLists :
            Exists(name) /\ rules' = [rules EXCEPT ![name].nodes = l]
      BY <1>4 DEF AdminEdits
    <2>2. RulesInv' /\ AbsStep
      BY <1>0, <1>1, <2>1, EditStep
    <2> QED BY <1>2, <1>3, <2>2 DEF MemberInv
  <1>5. CASE \E name \in RuleNames : AdminDeletes(name)
    <2>1. PICK name \in RuleNames : rules' = [rules EXCEPT ![name] = NoRule]
      BY <1>5 DEF AdminDeletes
    <2>2. RulesInv' /\ AbsStep
      BY <1>0, <1>1, <2>1, DeleteStep
    <2> QED BY <1>2, <1>3, <2>2 DEF MemberInv
  <1>6. CASE UNCHANGED rules
    <2>1. RulesInv' /\ AbsStep
      BY <1>0, <1>1, <1>6, Stutters DEF RulesInv
    <2> QED BY <1>2, <1>3, <2>1 DEF MemberInv
  <1> QED BY <1>4, <1>5, <1>6 DEF MigrateVM, NodeDown, NodeUp, vars

LEMMA StartInv == Init => MemberInv /\ Abstract!Init
  <1> SUFFICES ASSUME Init PROVE MemberInv /\ Abstract!Init
    OBVIOUS
  <1>1. PICK s \in Scenarios : /\ class = s.class /\ host = s.host
                               /\ rules = s.rules /\ faults = s.faults
    BY DEF Init
  <1>2. /\ class \in [Machines -> Classes] /\ host \in [Machines -> Nodes]
        /\ rules \in [RuleNames -> {NoRule}
                        \cup {r \in Rule : r.members \in (SUBSET Foreign) \ {{}}}]
        /\ faults \in [FaultKinds -> Nat]
    BY <1>1, ScenariosAssumption
  <1>3. /\ phase = [m \in Machines |-> "created"]
        /\ pc = [m \in Machines |-> "idle"]
        /\ work = [m \in Machines |-> NoWork]
        /\ online = Nodes /\ calm = TRUE
    BY DEF Init
  <1>4. SyncInv
    <2>1. \A m \in Machines : Local(m, "idle", NoWork)
      BY NoWorkTyped DEF Local, Steps
    <2>2. \A m \in Machines : pc[m] = "idle" /\ work[m] = NoWork
      BY <1>3
    <2>3. /\ phase \in [Machines -> Phases] /\ pc \in [Machines -> Steps]
          /\ work \in [Machines -> Work]
      BY <1>3, NoWorkTyped DEF Steps, Phases
    <2> QED BY <1>2, <2>1, <2>2, <2>3 DEF SyncInv
  <1>5. RulesInv
    <2>1. {r \in Rule : r.members \in (SUBSET Foreign) \ {{}}} \subseteq RealRule
      BY DEF RealRule
    <2> QED BY <1>2, <2>1 DEF RulesInv
  <1>6. WorldInv
    BY <1>2, <1>3 DEF WorldInv
  <1>7. Foreign \subseteq Registered /\ Registered \subseteq Resources
    BY DEF Registered, Resources
  <1>8. \A name \in RuleNames : /\ AbsMembers(name) \in SUBSET Registered
                                /\ AbsSettings(name)
                                     \in (RuleTypes \X Affinities \X
                                            (NodeLists \cup {NoNodes})) \cup {<<>>}
    <2>1. \A name \in RuleNames :
            Exists(name) => /\ rules[name] \in RealRule
                            /\ rules[name].members \subseteq Foreign
      BY <1>2, <1>5 DEF RulesInv, Exists
    <2> QED BY <1>7, <2>1, SettingsTyped DEF AbsMembers, AbsSettings
  <1>9. [r \in Resources |-> Entitled(r)] \in [Resources -> SUBSET RuleNames]
    BY DEF Entitled
  <1>10. Abstract!Init
    BY <1>7, <1>8, <1>9 DEF Abstract!Init, AbsMembers, AbsSettings
  <1> QED BY <1>4, <1>5, <1>6, <1>10 DEF MemberInv

LEMMA MemberNext ==
  ASSUME IsFiniteSet(Resources), MemberInv, [Next]_vars
  PROVE  MemberInv' /\ AbsStep
  BY SyncStep, LifeStep, WorldStep DEF Next

\* The rules change as if every machine joined and left them in one step, for
\* any machines, classes, rules, retries, administrators and failures: what
\* machines do in reads, conditional writes and retries implements Membership.
THEOREM RefinesMembership ==
  ASSUME IsFiniteSet(Resources)
  PROVE  Spec => MembershipIsAtomic
  <1>1. MemberInv /\ [Next]_vars => MemberInv' /\ [Abstract!Next]_(Abstract!vars)
    BY MemberNext DEF AbsStep
  <1> QED BY StartInv, <1>1, PTL DEF Spec, MembershipIsAtomic, Abstract!Spec

\* The state keeps its types: no retry beyond the last, no rule in a form that
\* Proxmox does not have, and a sync always has a job to do.
THEOREM TypeCorrect ==
  ASSUME IsFiniteSet(Resources)
  PROVE  Spec => []TypeOK
  <1>1. MemberInv => TypeOK
    <2> SUFFICES ASSUME MemberInv PROVE TypeOK
      OBVIOUS
    <2>1. \A w \in Work : IsWork(w)
      BY DEF Work, IsWork
    <2>2. rules \in [RuleNames -> Rule \cup {NoRule}]
      BY DEF MemberInv, RulesInv, RealRule
    <2> QED BY <2>1, <2>2 DEF MemberInv, SyncInv, WorldInv, TypeOK
  <1>2. MemberInv /\ [Next]_vars => MemberInv'
    BY MemberNext
  <1> QED BY StartInv, <1>1, <1>2, PTL DEF Spec

----------------------------------------------------------------------------
(* Which machines the rules of a sync cover. *)

SetJob(s) == [kind |-> "resource-affinity", rule |-> ResourceRule[s]]

InSet(s) == {m \in Machines : class[m].set = s}

\* Machines that had an HA resource and have none any more.
Left == {m \in Machines : phase[m] \in {"deregistered", "gone"}}

\* Machines whose last sync, if it has not ended, is beyond this job.
Passed(job) ==
  {m \in Machines :
     \E j \in DOMAIN Jobs(class[m]) :
       /\ Jobs(class[m])[j] = job
       /\ phase[m] = "synced" \/ (pc[m] # "idle" /\ work[m].job > j)}

\* Machines that have listed the resources and look for the VMs of their set.
Looking == {q \in Machines : pc[q] \in {"listNodes", "listVMs"}}

\* The machines of its set on the list of q.
Shown(q) == work[q].listed \cap InSet(class[q].set)

\* The machines of set s are more than the nodes, and are kept apart.
TooMany(s) ==
  \E x \in InSet(s) :
    /\ class[x].ha /\ class[x].affinity = "negative"
    /\ Cardinality({q \in Machines : class[q] = class[x]}) > Cardinality(Nodes)

\* Machines.
LifeShape ==
  /\ online = Nodes
  /\ \A m \in Machines :
       /\ phase[m] # "created" => class[m].ha
       /\ pc[m] = "done" => work[m].job > Len(Jobs(class[m]))
       /\ \A q \in Machines :
            /\ class[m].set # NoSet /\ class[q].set = class[m].set
            /\ class[m].ha /\ class[q].ha /\ class[m].affinity = "negative"
            => class[q] = class[m]

\* The rules of sets are the provider's, the others have members of others.
RuleShape ==
  \A name \in RuleNames : Exists(name) =>
    /\ \A s \in Sets : name = ResourceRule[s] =>
         /\ rules[name].members \subseteq InSet(s) \cap Registered
         /\ rules[name].affinity = "negative" =>
              \E x \in InSet(s) : class[x].ha /\ class[x].affinity = "negative"
    /\ \A s \in Sets : name = NodeRule[s] => rules[name].type = "node-affinity"
    /\ name \notin SetRules => rules[name].members \cap Foreign # {}

\* Node-affinity and listed rules have the machines that are done with them.
Joined ==
  \A m \in Machines : \A j \in DOMAIN Jobs(class[m]) :
    LET job == Jobs(class[m])[j] IN
    m \in Passed(job) /\ job.kind # "resource-affinity"
      => m \in AbsMembers(job.rule)

\* What a machine that looks for its set knows and will find.
Search ==
  \A q \in Looking :
    /\ q \in Shown(q)
    /\ \A x \in Shown(q) :
         /\ phase[x] # "created"
         /\ \/ x \in work[q].found
            \/ /\ phase[x] # "gone"
               /\ pc[q] = "listNodes" \/ host[x] \in work[q].todo
    /\ \A p \in Looking :
         class[p].set = class[q].set => p \in Shown(q) \/ q \in Shown(p)

\* The resource-affinity rule of set s has the machines that are done with it,
\* of which there is one at most while there is no rule.  A machine that looks
\* for its set is in the rule, or has one on its list that is in the rule or has
\* left (so that it will not make a rule), or there is no rule and it has
\* on its list whoever is done.
SetInv(s) ==
  LET A == AbsMembers(ResourceRule[s])
      P == Passed(SetJob(s))
  IN /\ A # {} => P \subseteq A
     /\ A = {} => \A a, b \in P : a = b
     /\ \A q \in Looking \cap InSet(s) :
          \/ q \in A
          \/ Shown(q) \cap (A \cup Left) # {}
          \/ A = {} /\ P \subseteq Shown(q)

Covered ==
  /\ LifeShape /\ RuleShape /\ Joined /\ Search
  /\ \A s \in Sets : TooMany(s) \/ SetInv(s)

CoverInv == MemberInv /\ (calm => Covered)

\* The kinds of jobs, and the rules they are about.
LEMMA JobKinds ==
  ASSUME NEW c \in Classes, NEW j \in DOMAIN Jobs(c), NEW job, job = Jobs(c)[j]
  PROVE  \/ c.set \in Sets /\ job = SetJob(c.set)
         \/ c.set \in Sets /\ job.kind = "node-affinity" /\ job.rule = NodeRule[c.set]
         \/ job.kind = "listed" /\ \E i \in DOMAIN c.rules : job.rule = c.rules[i]
  <1>1. job \in JobsOf(c) /\ c.set \in Sets \cup {NoSet}
    BY JobTyped, ClassesAssumption
  <1> QED BY <1>1 DEF JobsOf, SetJob

LEMMA JobApart ==
  ASSUME RulesApart, NEW c \in Classes, NEW j \in DOMAIN Jobs(c),
         NEW job, job = Jobs(c)[j]
  PROVE  /\ \A s \in Sets : job.rule = ResourceRule[s] =>
                              c.set = s /\ job = SetJob(s)
         /\ \A s \in Sets : job = SetJob(s) => c.set = s
         /\ job.kind = "resource-affinity" => c.set \in Sets /\ job = SetJob(c.set)
         /\ job.kind # "resource-affinity" =>
              \/ c.set \in Sets /\ job.rule = NodeRule[c.set]
              \/ job.rule \notin SetRules
  <1>1. CASE c.set \in Sets /\ job = SetJob(c.set)
    <2>1. job.kind = "resource-affinity" /\ job.rule = ResourceRule[c.set]
      BY <1>1 DEF SetJob
    <2>2. \A s \in Sets : ResourceRule[s] = ResourceRule[c.set] => s = c.set
      BY <1>1 DEF RulesApart
    <2>3. \A s \in Sets : job = SetJob(s) => ResourceRule[s] = job.rule
      BY DEF SetJob
    <2> QED BY <1>1, <2>1, <2>2, <2>3
  <1>2. CASE c.set \in Sets /\ job.kind = "node-affinity" /\ job.rule = NodeRule[c.set]
    <2>1. \A s \in Sets : job.rule # ResourceRule[s] /\ job # SetJob(s)
      BY <1>2 DEF RulesApart, SetJob
    <2> QED BY <1>2, <2>1
  <1>3. CASE job.kind = "listed" /\ \E i \in DOMAIN c.rules : job.rule = c.rules[i]
    <2>1. job.rule \notin SetRules
      BY <1>3 DEF RulesApart
    <2>2. \A s \in Sets : job.rule # ResourceRule[s] /\ job # SetJob(s)
      BY <1>3, <2>1 DEF SetRules, SetJob
    <2> QED BY <1>3, <2>1, <2>2
  <1> QED BY <1>1, <1>2, <1>3, JobKinds

\* What is known of a machine that is done with a job.
LEMMA PassedShape ==
  ASSUME SyncInv, RulesApart, NEW job
  PROVE  /\ \A m \in Passed(job) : /\ m \in Machines /\ m \in Registered
                                   /\ phase[m] \in {"syncing", "synced"}
         /\ \A s \in Sets : job = SetJob(s) => Passed(job) \subseteq InSet(s)
  <1>1. ASSUME NEW m \in Passed(job)
        PROVE  /\ m \in Machines /\ m \in Registered
               /\ phase[m] \in {"syncing", "synced"}
    <2>1. m \in Machines /\ (phase[m] = "synced" \/ pc[m] # "idle")
      BY DEF Passed
    <2>2. phase[m] \in {"syncing", "synced"}
      BY <2>1 DEF SyncInv, Local
    <2> QED BY <2>1, <2>2 DEF Registered
  <1>2. ASSUME NEW s \in Sets, job = SetJob(s), NEW m \in Passed(job)
        PROVE  m \in InSet(s)
    <2>1. PICK j \in DOMAIN Jobs(class[m]) : Jobs(class[m])[j] = job
      BY DEF Passed
    <2>2. m \in Machines /\ class[m] \in Classes
      BY DEF Passed, SyncInv
    <2> QED BY <1>2, <2>1, <2>2, JobApart DEF InSet
  <1> QED BY <1>1, <1>2

----------------------------------------------------------------------------
(* What keeps the parts of the invariant. *)

\* No machine starts to look for its set.
Unsearched ==
  /\ Looking' \subseteq Looking
  /\ \A q \in Looking' : pc'[q] = pc[q] /\ work'[q] = work[q]

\* No machine gets a list of resources.
Unlisted ==
  /\ Looking' \subseteq Looking
  /\ \A q \in Looking' : work'[q].listed = work[q].listed

LEMMA SearchKeeps ==
  ASSUME Search, Unsearched, UNCHANGED <<class, host>>,
         \A x \in Machines : /\ phase[x] # "created" => phase'[x] # "created"
                             /\ phase'[x] = "gone" => phase[x] = "gone"
  PROVE  Search'
  <1> SUFFICES ASSUME NEW q \in Looking'
               PROVE  /\ q \in Shown(q)'
                      /\ \A x \in Shown(q)' :
                           /\ phase'[x] # "created"
                           /\ \/ x \in work'[q].found
                              \/ /\ phase'[x] # "gone"
                                 /\ pc'[q] = "listNodes" \/ host'[x] \in work'[q].todo
                      /\ \A p \in Looking' : class'[p].set = class'[q].set =>
                           p \in Shown(q)' \/ q \in Shown(p)'
    BY DEF Search
  <1>1. q \in Looking /\ pc'[q] = pc[q] /\ work'[q] = work[q]
    BY DEF Unsearched
  <1>2. \A p \in Looking' : p \in Looking /\ Shown(p)' = Shown(p)
    BY DEF Unsearched, Shown, InSet
  <1>3. \A x \in Shown(q) : x \in Machines
    BY DEF Shown, InSet
  <1> QED BY <1>1, <1>2, <1>3 DEF Search

\* Who is done with the job of set s is in its rule, which is not founded.
LEMMA SetKeeps ==
  ASSUME NEW s \in Sets, SetInv(s), Unlisted, UNCHANGED class, Left \subseteq Left',
         NEW A, A = AbsMembers(ResourceRule[s]),
         NEW B, B = AbsMembers(ResourceRule[s])',
         A \subseteq B, A = {} => B = {},
         Passed(SetJob(s))' \subseteq Passed(SetJob(s)) \cup B
  PROVE  SetInv(s)'
  <1> DEFINE P == Passed(SetJob(s))
  <1>1. \A q \in Looking' \cap InSet(s)' :
          q \in Looking \cap InSet(s) /\ Shown(q)' = Shown(q)
    BY DEF Unlisted, Shown, InSet
  <1>2. /\ A # {} => P \subseteq A
        /\ A = {} => \A a, b \in P : a = b
        /\ \A q \in Looking \cap InSet(s) :
             \/ q \in A
             \/ Shown(q) \cap (A \cup Left) # {}
             \/ A = {} /\ P \subseteq Shown(q)
    BY DEF SetInv
  <1>3. P' \subseteq P \cup B
    OBVIOUS
  <1> HIDE DEF P
  <1>4. B # {} => P' \subseteq B
    BY <1>2, <1>3
  <1>5. B = {} => \A a, b \in P' : a = b
    BY <1>2, <1>3
  <1>6. ASSUME NEW q \in Looking' \cap InSet(s)'
        PROVE  \/ q \in B
               \/ Shown(q)' \cap (B \cup Left') # {}
               \/ B = {} /\ P' \subseteq Shown(q)'
    <2>1. q \in Looking \cap InSet(s) /\ Shown(q)' = Shown(q)
      BY <1>1
    <2>2. CASE q \in A
      BY <2>2
    <2>3. CASE Shown(q) \cap (A \cup Left) # {}
      BY <2>1, <2>3
    <2>4. CASE A = {} /\ P \subseteq Shown(q)
      BY <1>3, <2>1, <2>4
    <2> QED BY <1>2, <2>1, <2>2, <2>3, <2>4
  <1> QED BY <1>4, <1>5, <1>6 DEF SetInv, P

\* Whoever is done with a job for a node-affinity or listed rule is in it.
LEMMA JoinedKeeps ==
  ASSUME Joined, SyncInv, UNCHANGED class,
         \A name \in RuleNames : AbsMembers(name) \subseteq AbsMembers(name)',
         \A job : job.kind # "resource-affinity" =>
                    Passed(job)' \subseteq Passed(job) \cup AbsMembers(job.rule)'
  PROVE  Joined'
  <1> SUFFICES ASSUME NEW m \in Machines, NEW j \in DOMAIN Jobs(class[m]),
                      NEW job, job = Jobs(class[m])[j],
                      m \in Passed(job)', job.kind # "resource-affinity"
               PROVE  m \in AbsMembers(job.rule)'
    BY DEF Joined
  <1>1. job.rule \in RuleNames
    BY JobTyped DEF SyncInv
  <1>2. m \in Passed(job) => m \in AbsMembers(job.rule)
    BY DEF Joined
  <1> QED BY <1>1, <1>2

----------------------------------------------------------------------------
(* Turns: steps of a sync after which the machine does not look for its set. *)

\* m turns to another call, and is done with its job number k (0: with none).
Turns(m, k) ==
  \E s \in Steps \ {"listNodes", "listVMs"}, w \in Work :
    /\ pc' = [pc EXCEPT ![m] = s] /\ work' = [work EXCEPT ![m] = w]
    /\ s = "done" => w.job > Len(Jobs(class[m]))
    /\ \A j \in DOMAIN Jobs(class[m]) :
         s # "idle" /\ w.job > j => j = k \/ (pc[m] # "idle" /\ work[m].job > j)

\* m goes on with the job it has.
LEMMA StepTurns ==
  ASSUME SyncInv, NEW m \in Machines,
         NEW s \in Steps \ {"listNodes", "listVMs", "done"}, NEW w \in Work,
         work' = [work EXCEPT ![m] = w], pc' = [pc EXCEPT ![m] = s],
         s = "idle" \/ (pc[m] # "idle" /\ w.job = work[m].job)
  PROVE  Turns(m, 0)
  BY DEF Turns

LEMMA AbandonTurns ==
  ASSUME SyncInv, NEW m \in Machines, Abandon(m)
  PROVE  Turns(m, 0)
  <1>1. pc' = [pc EXCEPT ![m] = "idle"] /\ work' = [work EXCEPT ![m] = NoWork]
    BY DEF Abandon, Goto
  <1>2. "idle" \in Steps \ {"listNodes", "listVMs", "done"}
    BY DEF Steps
  <1> QED BY <1>1, <1>2, NoWorkTyped, StepTurns

LEMMA StartTurns ==
  ASSUME SyncInv, NEW m \in Machines, NEW k \in Nat, NEW j, j = k + 1,
         StartJob(m, j), k = 0 \/ (pc[m] # "idle" /\ k = work[m].job)
  PROVE  Turns(m, k)
  <1> DEFINE w == [NoWork EXCEPT !.job = j]
             s == IF j > Len(Jobs(class[m])) THEN "done"
                  ELSE IF Jobs(class[m])[j].kind = "node-affinity"
                  THEN "createNodeRule" ELSE "getRule"
  <1>1. w \in Work /\ w.job = j
    BY NoWorkTyped DEF Work
  <1>2. s \in Steps \ {"listNodes", "listVMs"}
    BY DEF Steps
  <1>3. s = "done" => j > Len(Jobs(class[m]))
    OBVIOUS
  <1>4. pc' = [pc EXCEPT ![m] = s] /\ work' = [work EXCEPT ![m] = w]
    BY DEF StartJob, Goto
  <1> HIDE DEF s, w
  <1>5. work[m].job \in Nat /\ DOMAIN Jobs(class[m]) \subseteq Nat \ {0}
    BY JobNumbers DEF SyncInv, Work
  <1>6. \A i \in DOMAIN Jobs(class[m]) :
          j > i => i = k \/ (pc[m] # "idle" /\ work[m].job > i)
    BY <1>5
  <1> QED BY <1>1, <1>2, <1>3, <1>4, <1>6 DEF Turns

LEMMA NextTurns ==
  ASSUME SyncInv, NEW m \in Machines, pc[m] # "idle", NextJob(m)
  PROVE  Turns(m, work[m].job)
  <1>1. work[m].job \in Nat
    BY DEF SyncInv, Work
  <1>2. StartJob(m, work[m].job + 1)
    BY DEF NextJob
  <1> QED BY <1>1, <1>2, StartTurns

LEMMA NotFoundTurns ==
  ASSUME SyncInv, NEW m \in Machines, pc[m] # "idle", NotFound(m)
  PROVE  Turns(m, 0)
  <1>1. CASE /\ Goto(m, "listResources")
             /\ work' = [work EXCEPT ![m] = [NoWork EXCEPT !.job = work[m].job]]
    <2> DEFINE w == [NoWork EXCEPT !.job = work[m].job]
    <2>1. w \in Work /\ w.job = work[m].job
      BY NoWorkTyped DEF Work, SyncInv
    <2>2. pc' = [pc EXCEPT ![m] = "listResources"] /\ work' = [work EXCEPT ![m] = w]
      BY <1>1 DEF Goto
    <2>3. "listResources" \in Steps \ {"listNodes", "listVMs", "done"}
      BY DEF Steps
    <2> HIDE DEF w
    <2> QED BY <2>1, <2>2, <2>3, StepTurns
  <1> QED BY <1>1, AbandonTurns DEF NotFound

LEMMA ConflictTurns ==
  ASSUME SyncInv, NEW m \in Machines, pc[m] # "idle", Conflict(m)
  PROVE  Turns(m, 0)
  <1>1. CASE /\ work[m].tries + 1 < RuleRetries
             /\ Goto(m, "getRule")
             /\ work' = [work EXCEPT ![m].tries = @ + 1, ![m].read = <<>>]
    <2> DEFINE w == [work[m] EXCEPT !.tries = @ + 1, !.read = <<>>]
    <2>1. work[m] \in Work /\ work[m].tries + 1 \in 0 .. RuleRetries - 1
      BY <1>1, RetriesAssumption DEF Work, SyncInv
    <2>2. w \in Work /\ w.job = work[m].job
      BY <2>1 DEF Work
    <2>3. pc' = [pc EXCEPT ![m] = "getRule"] /\ work' = [work EXCEPT ![m] = w]
      BY <1>1 DEF Goto, SyncInv
    <2>4. "getRule" \in Steps \ {"listNodes", "listVMs", "done"}
      BY DEF Steps
    <2> HIDE DEF w
    <2> QED BY <2>2, <2>3, <2>4, StepTurns
  <1> QED BY <1>1, AbandonTurns DEF Conflict

LEMMA AdoptTurns ==
  ASSUME SyncInv, NEW m \in Machines, pc[m] # "idle", Adopt(m)
  PROVE  Turns(m, 0)
  <1> DEFINE w == [NoWork EXCEPT !.job = work[m].job, !.adopting = TRUE]
  <1>1. w \in Work /\ w.job = work[m].job
    BY NoWorkTyped DEF Work, SyncInv
  <1>2. pc' = [pc EXCEPT ![m] = "getRule"] /\ work' = [work EXCEPT ![m] = w]
    BY DEF Adopt, Goto
  <1>3. "getRule" \in Steps \ {"listNodes", "listVMs", "done"}
    BY DEF Steps
  <1> HIDE DEF w
  <1> QED BY <1>1, <1>2, <1>3, StepTurns

\* The job number k of m, if there is one.
Done(m, k, job) == k \in DOMAIN Jobs(class[m]) /\ job = Jobs(class[m])[k]

LEMMA TurnFacts ==
  ASSUME SyncInv, LifeShape, NEW m \in Machines, NEW k, Turns(m, k),
         UNCHANGED <<class, phase, online>>
  PROVE  /\ Unsearched /\ LifeShape'
         /\ \A job : Passed(job)' \subseteq Passed(job) \cup {x \in {m} : Done(m, k, job)}
  <1>1. PICK s \in Steps \ {"listNodes", "listVMs"}, w \in Work :
          /\ pc' = [pc EXCEPT ![m] = s] /\ work' = [work EXCEPT ![m] = w]
          /\ s = "done" => w.job > Len(Jobs(class[m]))
          /\ \A j \in DOMAIN Jobs(class[m]) : s # "idle" /\ w.job > j
               => j = k \/ (pc[m] # "idle" /\ work[m].job > j)
    BY DEF Turns
  <1>2. \A x \in Machines : /\ pc'[x] = IF x = m THEN s ELSE pc[x]
                            /\ work'[x] = IF x = m THEN w ELSE work[x]
    BY <1>1 DEF SyncInv
  <1>3. Unsearched
    BY <1>1, <1>2 DEF Unsearched, Looking
  <1>4. LifeShape'
    BY <1>1, <1>2 DEF LifeShape
  <1>5. ASSUME NEW job, NEW x \in Passed(job)', x \notin Passed(job)
        PROVE  x = m /\ Done(m, k, job)
    <2>1. x \in Machines
      BY <1>5 DEF Passed
    <2>2. PICK j \in DOMAIN Jobs(class[x]) :
            /\ Jobs(class[x])[j] = job
            /\ phase[x] = "synced" \/ (pc'[x] # "idle" /\ work'[x].job > j)
      BY <1>5 DEF Passed
    <2>3. ~(phase[x] = "synced" \/ (pc[x] # "idle" /\ work[x].job > j))
      BY <1>5, <2>1, <2>2 DEF Passed
    <2>4. x = m
      BY <1>2, <2>1, <2>2, <2>3
    <2>5. j = k
      BY <1>1, <1>2, <2>2, <2>3, <2>4
    <2> QED BY <2>2, <2>4, <2>5 DEF Done
  <1> QED BY <1>3, <1>4, <1>5

\* A turn keeps what rules grow by, but for what it does to set t.
LEMMA TurnKeeps ==
  ASSUME SyncInv, RulesApart, Covered, NEW m \in Machines, NEW k, Turns(m, k), NEW t,
         UNCHANGED <<class, phase, host, online>>, RuleShape',
         \A name \in RuleNames : AbsMembers(name) \subseteq AbsMembers(name)',
         \A s \in Sets : \/ s = t
                         \/ AbsMembers(ResourceRule[s]) # {}
                         \/ AbsMembers(ResourceRule[s])' = {},
         \A job : Done(m, k, job) => \/ m \in AbsMembers(job.rule)'
                                     \/ t \in Sets /\ job = SetJob(t)
  PROVE  /\ LifeShape' /\ Joined' /\ Search'
         /\ \A s \in Sets : s # t => TooMany(s)' \/ SetInv(s)'
  <1>1. /\ Unsearched /\ LifeShape'
        /\ \A job : Passed(job)' \subseteq Passed(job) \cup {x \in {m} : Done(m, k, job)}
    BY TurnFacts DEF Covered
  <1>2. Search'
    BY <1>1, SearchKeeps DEF Covered
  <1>3. Joined'
    <2>1. ASSUME NEW job, job.kind # "resource-affinity"
          PROVE  Passed(job)' \subseteq Passed(job) \cup AbsMembers(job.rule)'
      <3>1. job # SetJob(t)
        BY <2>1 DEF SetJob
      <3> QED BY <1>1, <3>1
    <2> QED BY <2>1, JoinedKeeps DEF Covered
  <1>4. ASSUME NEW s \in Sets, s # t, ~TooMany(s)
        PROVE  SetInv(s)'
    <2>1. PICK A, B : A = AbsMembers(ResourceRule[s]) /\ B = AbsMembers(ResourceRule[s])'
      OBVIOUS
    <2>2. ResourceRule[s] \in RuleNames
      BY NamesAssumption
    <2>3. A \subseteq B /\ (A = {} => B = {})
      BY <1>4, <2>1, <2>2
    <2>4. ~(t \in Sets /\ SetJob(s) = SetJob(t))
      BY <1>4 DEF SetJob, RulesApart
    <2>5. Passed(SetJob(s))' \subseteq Passed(SetJob(s)) \cup B
      <3>1. SetJob(s).rule = ResourceRule[s]
        BY DEF SetJob
      <3>2. Done(m, k, SetJob(s)) => m \in B
        BY <2>1, <2>4, <3>1
      <3> QED BY <1>1, <3>2
    <2>6. Left \subseteq Left' /\ SetInv(s)
      BY <1>4 DEF Left, Covered
    <2>7. Unlisted
      BY <1>1 DEF Unsearched, Unlisted
    <2> QED BY <2>1, <2>3, <2>5, <2>6, <2>7, SetKeeps
  <1>5. \A s \in Sets : TooMany(s)' = TooMany(s)
    BY DEF TooMany, InSet
  <1> QED BY <1>1, <1>2, <1>3, <1>4, <1>5

\* Machines that are done with the rule of a set they are too many for need not
\* be in it.
LEMMA TurnCovers ==
  ASSUME SyncInv, RulesApart, Covered, NEW m \in Machines, NEW k, Turns(m, k),
         UNCHANGED <<class, phase, host, online>>, RuleShape',
         \A name \in RuleNames : AbsMembers(name) \subseteq AbsMembers(name)',
         \A s \in Sets : \/ AbsMembers(ResourceRule[s]) # {}
                         \/ AbsMembers(ResourceRule[s])' = {},
         \A job : Done(m, k, job) => \/ m \in AbsMembers(job.rule)'
                                     \/ \E t \in Sets : job = SetJob(t) /\ TooMany(t)
  PROVE  Covered'
  <1>1. CASE \E t \in Sets : Done(m, k, SetJob(t)) /\ TooMany(t)
    <2>1. PICK t \in Sets : Done(m, k, SetJob(t)) /\ TooMany(t)
      BY <1>1
    <2>2. \A job : Done(m, k, job) => job = SetJob(t)
      BY <2>1 DEF Done
    <2>3. /\ LifeShape' /\ Joined' /\ Search'
          /\ \A s \in Sets : s # t => TooMany(s)' \/ SetInv(s)'
      BY <2>2, TurnKeeps
    <2>4. TooMany(t)'
      BY <2>1 DEF TooMany, InSet
    <2> QED BY <2>3, <2>4 DEF Covered
  <1>2. CASE ~\E t \in Sets : Done(m, k, SetJob(t)) /\ TooMany(t)
    <2>1. \A job : Done(m, k, job) => m \in AbsMembers(job.rule)'
      BY <1>2
    <2>2. /\ LifeShape' /\ Joined' /\ Search'
          /\ \A s \in Sets : s # NoSet => TooMany(s)' \/ SetInv(s)'
      BY <2>1, TurnKeeps
    <2> QED BY <2>2, NoSetAssumption DEF Covered
  <1> QED BY <1>1, <1>2

LEMMA SameRules ==
  ASSUME UNCHANGED <<class, rules>>, Registered' = Registered
  PROVE  /\ RuleShape => RuleShape'
         /\ \A name : AbsMembers(name)' = AbsMembers(name)
  <1>1. RuleShape => RuleShape'
    BY DEF RuleShape, Exists, InSet
  <1> QED BY <1>1 DEF AbsMembers, Exists

LEMMA QuietTurn ==
  ASSUME SyncInv, RulesApart, Covered, NEW m \in Machines, NEW k, Turns(m, k),
         UNCHANGED <<class, phase, host, online, rules>>,
         \A job : Done(m, k, job) => \/ m \in AbsMembers(job.rule)
                                     \/ \E t \in Sets : job = SetJob(t) /\ TooMany(t)
  PROVE  Covered'
  <1>1. Registered' = Registered
    BY DEF Registered
  <1>2. RuleShape' /\ \A name : AbsMembers(name)' = AbsMembers(name)
    BY <1>1, SameRules DEF Covered
  <1>3. \A s \in Sets : ResourceRule[s] \in RuleNames
    BY NamesAssumption
  <1> QED BY <1>2, <1>3, TurnCovers

\* A turn with which m is done with nothing.
LEMMA IdleTurn ==
  ASSUME SyncInv, RulesApart, Covered, NEW m \in Machines, Turns(m, 0),
         UNCHANGED <<class, phase, host, online, rules>>
  PROVE  Covered'
  <1>1. 0 \notin DOMAIN Jobs(class[m])
    BY JobNumbers DEF SyncInv
  <1>2. \A job : ~Done(m, 0, job)
    BY <1>1 DEF Done
  <1> QED BY <1>2, QuietTurn

LEMMA TargetShape ==
  ASSUME SyncInv, RulesApart, NEW m \in Machines, pc[m] \notin {"idle", "done"}
  PROVE  /\ Target(m) = Job(m).rule /\ Target(m) \in RuleNames
         /\ class[m] \in Classes /\ m \in Registered /\ phase[m] = "syncing"
         /\ \A job : Done(m, work[m].job, job) => job = Job(m)
         /\ \A s \in Sets : Target(m) = ResourceRule[s] =>
                              class[m].set = s /\ Job(m) = SetJob(s)
         /\ Job(m).kind = "resource-affinity" =>
              class[m].set \in Sets /\ Job(m) = SetJob(class[m].set)
         /\ Job(m).kind = "node-affinity" =>
              class[m].set \in Sets /\ Target(m) = NodeRule[class[m].set]
  <1>1. /\ work[m].job \in DOMAIN Jobs(class[m]) /\ phase[m] = "syncing"
        /\ class[m] \in Classes
    BY DEF SyncInv, Local
  <1>2. Job(m) = Jobs(class[m])[work[m].job] /\ Target(m) = Job(m).rule
    BY DEF Target, Job
  <1>3. /\ \A s \in Sets : Job(m).rule = ResourceRule[s] =>
                              class[m].set = s /\ Job(m) = SetJob(s)
        /\ Job(m).kind = "resource-affinity" =>
              class[m].set \in Sets /\ Job(m) = SetJob(class[m].set)
    BY <1>1, <1>2, JobApart
  <1>4. Job(m).kind = "node-affinity" =>
          class[m].set \in Sets /\ Job(m).rule = NodeRule[class[m].set]
    BY <1>1, <1>2, JobKinds DEF SetJob
  <1>5. Job(m).rule \in RuleNames /\ m \in Registered
    BY <1>1, <1>2, JobTyped DEF Registered
  <1>6. \A job : Done(m, work[m].job, job) => job = Job(m)
    BY <1>2 DEF Done
  <1> QED BY <1>1, <1>2, <1>3, <1>4, <1>5, <1>6

\* m passes its job as a member of the rule.
LEMMA MemberTurn ==
  ASSUME SyncInv, RulesApart, Covered, NEW m \in Machines,
         pc[m] \notin {"idle", "done"}, NextJob(m), NEW name, name = Target(m),
         UNCHANGED <<class, phase, host, online>>, RuleShape',
         \A x \in RuleNames : AbsMembers(x) \subseteq AbsMembers(x)',
         \A s \in Sets : \/ AbsMembers(ResourceRule[s]) # {}
                         \/ AbsMembers(ResourceRule[s])' = {},
         m \in AbsMembers(name)'
  PROVE  Covered'
  <1>1. Turns(m, work[m].job)
    BY NextTurns
  <1>2. \A job : Done(m, work[m].job, job) => m \in AbsMembers(job.rule)'
    BY TargetShape
  <1> QED BY <1>1, <1>2, TurnCovers

\* A rule that exists has members.
LEMMA ExistsShape ==
  ASSUME RulesInv, NEW name \in RuleNames
  PROVE  /\ Exists(name) <=> AbsMembers(name) # {}
         /\ Exists(name) => /\ rules[name] \in RealRule
                            /\ AbsMembers(name) = rules[name].members
  <1>1. rules[name] \in RealRule \cup {NoRule}
    BY DEF RulesInv
  <1> QED BY <1>1 DEF Exists, AbsMembers, RealRule

\* One rule is made, or gets another member or other nodes.
LEMMA RuleGrows ==
  ASSUME SyncInv, RulesInv, RuleShape, UNCHANGED <<class, phase>>,
         NEW name \in RuleNames, NEW rule \in RealRule,
         rules' = [rules EXCEPT ![name] = rule],
         AbsMembers(name) \subseteq rule.members,
         \A s \in Sets : name = ResourceRule[s] =>
           /\ rule.members \subseteq InSet(s) \cap Registered
           /\ rule.affinity = "negative" =>
                \E x \in InSet(s) : class[x].ha /\ class[x].affinity = "negative",
         \A s \in Sets : name = NodeRule[s] => rule.type = "node-affinity",
         name \notin SetRules => rule.members \cap Foreign # {}
  PROVE  /\ RuleShape'
         /\ \A x \in RuleNames : AbsMembers(x) \subseteq AbsMembers(x)'
         /\ \A x \in RuleNames : x # name => AbsMembers(x)' = AbsMembers(x)
         /\ AbsMembers(name)' = rule.members
  <1>1. /\ AbsMembers(name)' = rule.members
        /\ \A x \in RuleNames : x # name => AbsMembers(x)' = AbsMembers(x)
    BY OnlyRule
  <1>2. \A x \in RuleNames : rules'[x] = IF x = name THEN rule ELSE rules[x]
    BY DEF RulesInv
  <1>3. Registered' = Registered /\ \A s : InSet(s)' = InSet(s)
    BY DEF Registered, InSet
  <1>4. ASSUME NEW x \in RuleNames, Exists(x)'
        PROVE  /\ \A s \in Sets : x = ResourceRule[s] =>
                    /\ rules'[x].members \subseteq InSet(s) \cap Registered
                    /\ rules'[x].affinity = "negative" => \E y \in InSet(s) :
                         class[y].ha /\ class[y].affinity = "negative"
               /\ \A s \in Sets : x = NodeRule[s] => rules'[x].type = "node-affinity"
               /\ x \notin SetRules => rules'[x].members \cap Foreign # {}
    <2>1. CASE x = name
      BY <1>2, <2>1
    <2>2. CASE x # name
      <3>1. rules'[x] = rules[x] /\ Exists(x)
        BY <1>2, <1>4, <2>2 DEF Exists
      <3> QED BY <3>1 DEF RuleShape
    <2> QED BY <2>1, <2>2
  <1>5. RuleShape'
    BY <1>3, <1>4 DEF RuleShape, SetRules
  <1> QED BY <1>1, <1>5

----------------------------------------------------------------------------
(* The invariant over the steps of a sync. *)

LEMMA CreateNodeRuleCovers ==
  ASSUME SyncInv, RulesInv, RulesApart, Covered, NEW m \in Machines, CreateNodeRule(m)
  PROVE  Covered'
  <1>0. /\ pc[m] = "createNodeRule" /\ UNCHANGED <<class, phase, host, online>>
        /\ Local(m, pc[m], work[m])
    BY DEF CreateNodeRule, worldVars, SyncInv
  <1>1. CASE Goto(m, "getRule") /\ UNCHANGED <<work, rules>>
    <2>1. "getRule" \in Steps \ {"listNodes", "listVMs", "done"}
      BY DEF Steps
    <2>2. work' = [work EXCEPT ![m] = work[m]] /\ work[m] \in Work
      BY <1>1 DEF SyncInv
    <2>3. Turns(m, 0)
      BY <1>0, <1>1, <2>1, <2>2, StepTurns DEF Goto
    <2> QED BY <1>0, <1>1, <2>3, IdleTurn
  <1>2. CASE /\ ~Exists(Target(m))
             /\ rules' = [rules EXCEPT
                  ![Target(m)] = [type |-> "node-affinity", affinity |-> "none",
                                  nodes |-> class[m].nodes, members |-> {m}]]
             /\ NextJob(m)
    <2>1. PICK name, rule :
            /\ name = Target(m)
            /\ rule = [type |-> "node-affinity", affinity |-> "none",
                       nodes |-> class[m].nodes, members |-> {m}]
      OBVIOUS
    <2>2. /\ name \in RuleNames /\ class[m] \in Classes
          /\ class[m].set \in Sets /\ name = NodeRule[class[m].set]
      BY <1>0, <2>1, TargetShape DEF Local, Job
    <2>3. rule \in RealRule /\ rule.members = {m} /\ rule.type = "node-affinity"
      <3>1. class[m].nodes \in NodeLists \cup {NoNodes}
        BY <2>2, ClassesAssumption
      <3> QED BY <2>1, <3>1 DEF RealRule, Rule, RuleTypes, Affinities, Resources
    <2>4. rules' = [rules EXCEPT ![name] = rule] /\ AbsMembers(name) = {}
      BY <1>2, <2>1 DEF AbsMembers
    <2>5. name \in SetRules /\ \A s \in Sets : name # ResourceRule[s]
      BY <2>2 DEF SetRules, RulesApart
    <2>6. /\ RuleShape'
          /\ \A x \in RuleNames : AbsMembers(x) \subseteq AbsMembers(x)'
          /\ \A x \in RuleNames : x # name => AbsMembers(x)' = AbsMembers(x)
          /\ AbsMembers(name)' = rule.members
      BY <1>0, <2>2, <2>3, <2>4, <2>5, RuleGrows DEF Covered
    <2>7. \A s \in Sets : \/ AbsMembers(ResourceRule[s]) # {}
                          \/ AbsMembers(ResourceRule[s])' = {}
      <3>1. \A s \in Sets : ResourceRule[s] \in RuleNames /\ ResourceRule[s] # name
        BY <2>5, NamesAssumption
      <3> QED BY <2>6, <3>1
    <2> QED BY <1>0, <1>2, <2>1, <2>3, <2>6, <2>7, MemberTurn
  <1> QED BY <1>1, <1>2 DEF CreateNodeRule

LEMMA GetRuleCovers ==
  ASSUME SyncInv, RulesInv, RulesApart, Covered, NEW m \in Machines, GetRule(m)
  PROVE  Covered'
  <1>0. /\ pc[m] = "getRule" /\ UNCHANGED <<class, phase, host, online, rules>>
    BY DEF GetRule, worldVars
  <1>1. CASE NotFound(m)
    BY <1>0, <1>1, NotFoundTurns, IdleTurn
  <1>2. CASE Exists(Target(m)) /\ m \in rules[Target(m)].members /\ NextJob(m)
    <2>1. PICK name : name = Target(m)
      OBVIOUS
    <2>2. Registered' = Registered
      BY <1>0 DEF Registered
    <2>3. RuleShape' /\ \A x : AbsMembers(x)' = AbsMembers(x)
      BY <1>0, <2>2, SameRules DEF Covered
    <2>4. m \in AbsMembers(name)
      BY <1>2, <2>1 DEF AbsMembers
    <2>5. \A s \in Sets : AbsMembers(ResourceRule[s])' = AbsMembers(ResourceRule[s])
      BY <2>3
    <2> QED BY <1>0, <1>2, <2>1, <2>3, <2>4, <2>5, MemberTurn
  <1>3. CASE Goto(m, "updateRule") /\ work' = [work EXCEPT ![m].read = rules]
    <2> DEFINE w == [work[m] EXCEPT !.read = rules]
    <2>1. rules \in [RuleNames -> Rule \cup {NoRule}]
      BY DEF RulesInv, RealRule
    <2>w. work[m] \in Work
      BY DEF SyncInv
    <2>2. w \in Work /\ w.job = work[m].job
      BY <2>1, <2>w DEF Work
    <2>3. work' = [work EXCEPT ![m] = w] /\ pc' = [pc EXCEPT ![m] = "updateRule"]
      BY <1>3 DEF SyncInv, Goto
    <2>4. "updateRule" \in Steps \ {"listNodes", "listVMs", "done"}
      BY DEF Steps
    <2> HIDE DEF w
    <2>5. Turns(m, 0)
      BY <1>0, <2>2, <2>3, <2>4, StepTurns
    <2> QED BY <1>0, <2>5, IdleTurn
  <1> QED BY <1>1, <1>2, <1>3 DEF GetRule

\* Whoever is under HA in a set that keeps its machines apart has one class.
LEMMA OneClass ==
  ASSUME SyncInv, LifeShape, NEW s \in Sets, NEW x \in InSet(s),
         class[x].ha, class[x].affinity = "negative",
         NEW members, members \subseteq InSet(s) \cap Registered
  PROVE  members \subseteq {q \in Machines : class[q] = class[x]}
  <1> SUFFICES ASSUME NEW q \in members PROVE q \in Machines /\ class[q] = class[x]
    OBVIOUS
  <1>1. q \in Machines /\ class[q].set = s /\ q \in Registered
    BY DEF InSet
  <1>2. phase[q] \in {"syncing", "synced"}
    BY <1>1, ForeignAssumption DEF Registered
  <1>3. class[q].ha
    BY <1>1, <1>2 DEF LifeShape
  <1>4. x \in Machines /\ class[x].set = s /\ s # NoSet
    BY NoSetAssumption DEF InSet
  <1> QED BY <1>1, <1>3, <1>4 DEF LifeShape

\* A rule of such a set that has more members than there are nodes shows that
\* the set is too large.
LEMMA InfeasibleMeansTooMany ==
  ASSUME IsFiniteSet(Resources), IsFiniteSet(Nodes), SyncInv, LifeShape,
         NEW s \in Sets, NEW x \in InSet(s),
         class[x].ha, class[x].affinity = "negative",
         NEW members, members \subseteq InSet(s) \cap Registered,
         Cardinality(members) > Cardinality(online)
  PROVE  TooMany(s)
  <1> DEFINE same == {q \in Machines : class[q] = class[x]}
  <1>1. members \subseteq same /\ online = Nodes
    BY OneClass DEF LifeShape
  <1>2. IsFiniteSet(same)
    BY FS_Subset DEF Resources
  <1>3. /\ Cardinality(members) \in Nat /\ Cardinality(same) \in Nat
        /\ Cardinality(members) <= Cardinality(same)
    BY <1>1, <1>2, FS_Subset, FS_CardinalityType
  <1>4. Cardinality(Nodes) \in Nat
    BY FS_CardinalityType
  <1>5. Cardinality(same) > Cardinality(Nodes)
    BY <1>1, <1>3, <1>4
  <1> QED BY <1>5 DEF TooMany

LEMMA UpdateRuleCovers ==
  ASSUME IsFiniteSet(Resources), IsFiniteSet(Nodes), SyncInv, RulesInv, RulesApart,
         Covered, NEW m \in Machines, UpdateRule(m)
  PROVE  Covered'
  <1>0. /\ pc[m] = "updateRule" /\ UNCHANGED <<class, phase, host, online>>
    BY DEF UpdateRule, worldVars
  <1>1. PICK name : name = Target(m)
    OBVIOUS
  <1>2. /\ name \in RuleNames /\ m \in Registered
        /\ \A s \in Sets : name = ResourceRule[s] => class[m].set = s
        /\ Job(m).kind = "resource-affinity" =>
             class[m].set \in Sets /\ Job(m) = SetJob(class[m].set)
        /\ Job(m).rule = name
    BY <1>0, <1>1, TargetShape
  <1>3. CASE NotFound(m) /\ UNCHANGED rules
    BY <1>0, <1>3, NotFoundTurns, IdleTurn
  <1>4. CASE Conflict(m) /\ UNCHANGED rules
    BY <1>0, <1>4, ConflictTurns, IdleTurn
  <1>5. CASE Exists(name) /\ ~DigestDiffers(m)
    <2> DEFINE rule == [rules[name] EXCEPT !.members = @ \cup {m}]
    <2>1. WithMember(m) = rule
      BY <1>1, <1>5 DEF WithMember, DigestDiffers
    <2>2. rules[name] \in RealRule /\ AbsMembers(name) = rules[name].members
      BY <1>2, <1>5, ExistsShape
    <2>3. /\ rule \in RealRule /\ rule.members = AbsMembers(name) \cup {m}
          /\ rule.type = rules[name].type /\ rule.affinity = rules[name].affinity
      BY <2>2 DEF RealRule, Rule, Resources
    <2> HIDE DEF rule
    <2>4. \A s \in Sets : name = ResourceRule[s] =>
            /\ rule.members \subseteq InSet(s) \cap Registered
            /\ rule.affinity = "negative" =>
                 \E x \in InSet(s) : class[x].ha /\ class[x].affinity = "negative"
      BY <1>2, <1>5, <2>2, <2>3 DEF Covered, RuleShape, InSet
    <2>5. CASE Infeasible(rule.affinity, rule.members) /\ PassOver(m) /\ UNCHANGED rules
      <3>1. CASE Job(m).kind = "resource-affinity"
        <4>1. PICK s \in Sets : s = class[m].set /\ Job(m) = SetJob(s)
          BY <1>2, <3>1
        <4>2. name = ResourceRule[s]
          BY <1>2, <4>1 DEF SetJob
        <4>3. /\ rule.affinity = "negative"
              /\ Cardinality(rule.members) > Cardinality(online)
          BY <2>5 DEF Infeasible
        <4>4. PICK x \in InSet(s) : class[x].ha /\ class[x].affinity = "negative"
          BY <2>4, <4>2, <4>3
        <4>5. TooMany(s)
          BY <2>4, <4>2, <4>3, <4>4, InfeasibleMeansTooMany DEF Covered
        <4>6. NextJob(m)
          BY <2>5, <3>1 DEF PassOver
        <4>7. Turns(m, work[m].job)
          BY <1>0, <4>6, NextTurns
        <4>8. \A job : Done(m, work[m].job, job) => job = SetJob(s)
          BY <1>0, <4>1, TargetShape
        <4> QED BY <1>0, <2>5, <4>5, <4>7, <4>8, QuietTurn
      <3>2. CASE Job(m).kind # "resource-affinity"
        <4>1. Abandon(m)
          BY <2>5, <3>2 DEF PassOver
        <4> QED BY <1>0, <2>5, <4>1, AbandonTurns, IdleTurn
      <3> QED BY <3>1, <3>2
    <2>6. CASE rules' = [rules EXCEPT ![name] = rule] /\ NextJob(m)
      <3>1. \A s \in Sets : name = NodeRule[s] => rule.type = "node-affinity"
        BY <1>2, <1>5, <2>3 DEF Covered, RuleShape
      <3>2. name \notin SetRules => rule.members \cap Foreign # {}
        BY <1>2, <1>5, <2>2, <2>3 DEF Covered, RuleShape
      <3>3. /\ RuleShape'
            /\ \A x \in RuleNames : AbsMembers(x) \subseteq AbsMembers(x)'
            /\ \A x \in RuleNames : x # name => AbsMembers(x)' = AbsMembers(x)
            /\ AbsMembers(name)' = rule.members
        BY <1>0, <1>2, <2>3, <2>4, <2>6, <3>1, <3>2, RuleGrows DEF Covered
      <3>4. AbsMembers(name) # {}
        BY <1>2, <1>5, ExistsShape
      <3>5. \A s \in Sets : \/ AbsMembers(ResourceRule[s]) # {}
                            \/ AbsMembers(ResourceRule[s])' = {}
        <4>1. \A s \in Sets : ResourceRule[s] \in RuleNames
          BY NamesAssumption
        <4> QED BY <3>3, <3>4, <4>1
      <3>6. m \in AbsMembers(name)'
        BY <2>3, <3>3
      <3> QED BY <1>0, <1>1, <2>6, <3>3, <3>5, <3>6, MemberTurn
    <2> QED BY <1>1, <1>5, <2>1, <2>5, <2>6 DEF UpdateRule
  <1> QED BY <1>1, <1>3, <1>4, <1>5 DEF UpdateRule

\* A machine that goes on with its job is done with no other.
LEMMA SameJobPassed ==
  ASSUME SyncInv, NEW m \in Machines, pc[m] # "idle",
         NEW s \in Steps, NEW w \in Work, w.job = work[m].job,
         pc' = [pc EXCEPT ![m] = s], work' = [work EXCEPT ![m] = w],
         UNCHANGED <<class, phase>>
  PROVE  \A job : Passed(job)' \subseteq Passed(job)
  <1> SUFFICES ASSUME NEW job, NEW x \in Passed(job)' PROVE x \in Passed(job)
    OBVIOUS
  <1>1. \A y \in Machines : /\ pc'[y] = IF y = m THEN s ELSE pc[y]
                            /\ work'[y] = IF y = m THEN w ELSE work[y]
    BY DEF SyncInv
  <1>2. x \in Machines
    BY DEF Passed
  <1>3. PICK j \in DOMAIN Jobs(class[x]) :
          /\ Jobs(class[x])[j] = job
          /\ phase[x] = "synced" \/ (pc'[x] # "idle" /\ work'[x].job > j)
    BY DEF Passed
  <1>4. phase[x] = "synced" \/ (pc[x] # "idle" /\ work[x].job > j)
    BY <1>1, <1>2, <1>3
  <1> QED BY <1>2, <1>3, <1>4 DEF Passed

\* What a machine that looks for its set is and does.
LEMMA LookerShape ==
  ASSUME SyncInv, RulesApart, NEW m \in Machines,
         pc[m] \in {"listResources", "listNodes", "listVMs"}
  PROVE  /\ class[m].set \in Sets /\ Job(m) = SetJob(class[m].set)
         /\ Target(m) = ResourceRule[class[m].set] /\ phase[m] = "syncing"
         /\ m \in InSet(class[m].set) \cap Registered
         /\ work[m] \in Work /\ work[m].found \subseteq InSet(class[m].set)
  <1>1. Local(m, pc[m], work[m]) /\ work[m] \in Work
    BY DEF SyncInv
  <1>2. Job(m).kind = "resource-affinity" /\ phase[m] = "syncing"
    BY <1>1 DEF Local, Job
  <1>3. class[m].set \in Sets /\ Job(m) = SetJob(class[m].set) /\ Target(m) = Job(m).rule
    BY <1>2, TargetShape
  <1>4. work[m].found \subseteq InSet(class[m].set)
    BY <1>1 DEF Local, InSet, Work
  <1> QED BY <1>1, <1>2, <1>3, <1>4 DEF SetJob, InSet, Registered

\* Steps that leave rules and phases alone and get nobody done with a job.
LEMMA LookSteps ==
  ASSUME SyncInv, RulesApart, Covered, NEW m \in Machines, pc[m] # "idle",
         NEW s \in {"listNodes", "listVMs"}, NEW w \in Work, w.job = work[m].job,
         pc' = [pc EXCEPT ![m] = s], work' = [work EXCEPT ![m] = w],
         UNCHANGED <<class, phase, host, online, rules>>
  PROVE  /\ LifeShape' /\ RuleShape' /\ Joined'
         /\ \A job : Passed(job)' \subseteq Passed(job)
         /\ \A name : AbsMembers(name)' = AbsMembers(name)
         /\ \A x \in Machines : /\ pc'[x] = IF x = m THEN s ELSE pc[x]
                                /\ work'[x] = IF x = m THEN w ELSE work[x]
         /\ \A q \in Machines : q # m => Shown(q)' = Shown(q)
         /\ Shown(m)' = w.listed \cap InSet(class[m].set)
         /\ Looking' = Looking \cup {m}
         /\ Left' = Left
  <1>1. \A x \in Machines : /\ pc'[x] = IF x = m THEN s ELSE pc[x]
                            /\ work'[x] = IF x = m THEN w ELSE work[x]
    BY DEF SyncInv
  <1>2. s \in Steps
    BY DEF Steps
  <1>3. \A job : Passed(job)' \subseteq Passed(job)
    BY <1>2, SameJobPassed
  <1>4. Registered' = Registered
    BY DEF Registered
  <1>5. RuleShape' /\ \A name : AbsMembers(name)' = AbsMembers(name)
    BY <1>4, SameRules DEF Covered
  <1>6. LifeShape'
    BY <1>1 DEF LifeShape, Covered
  <1>7. Joined'
    BY <1>3, <1>5, JoinedKeeps DEF Covered
  <1>8. /\ \A q \in Machines : q # m => Shown(q)' = Shown(q)
        /\ Shown(m)' = w.listed \cap InSet(class[m].set)
    BY <1>1 DEF Shown, InSet
  <1>9. Looking' = Looking \cup {m}
    BY <1>1 DEF Looking
  <1>10. Left' = Left
    BY DEF Left
  <1> QED BY <1>1, <1>3, <1>5, <1>6, <1>7, <1>8, <1>9, <1>10

LEMMA ListResourcesCovers ==
  ASSUME SyncInv, RulesInv, RulesApart, Covered, NEW m \in Machines, ListResources(m)
  PROVE  Covered'
  <1> DEFINE w == [work[m] EXCEPT !.listed = Registered, !.found = {m} \cap Registered]
  <1>0. /\ pc[m] = "listResources"
        /\ UNCHANGED <<class, phase, host, online, rules>>
    BY DEF ListResources, worldVars
  <1>1. /\ class[m].set \in Sets /\ work[m] \in Work
        /\ m \in InSet(class[m].set) \cap Registered
    BY <1>0, LookerShape
  <1>2. PICK t \in Sets : t = class[m].set
    BY <1>1
  <1>3. Registered \subseteq Resources
    BY DEF Registered, Resources
  <1>4. w \in Work /\ w.job = work[m].job /\ w.listed = Registered /\ m \in w.found
    BY <1>1, <1>3 DEF Work
  <1>5. pc' = [pc EXCEPT ![m] = "listNodes"] /\ work' = [work EXCEPT ![m] = w]
    BY DEF ListResources, Goto, SyncInv
  <1> HIDE DEF w
  <1>6. /\ LifeShape' /\ RuleShape' /\ Joined'
        /\ \A job : Passed(job)' \subseteq Passed(job)
        /\ \A name : AbsMembers(name)' = AbsMembers(name)
        /\ \A x \in Machines : /\ pc'[x] = IF x = m THEN "listNodes" ELSE pc[x]
                               /\ work'[x] = IF x = m THEN w ELSE work[x]
        /\ \A q \in Machines : q # m => Shown(q)' = Shown(q)
        /\ Shown(m)' = w.listed \cap InSet(class[m].set)
        /\ Looking' = Looking \cup {m}
        /\ Left' = Left
    BY <1>0, <1>4, <1>5, LookSteps
  <1>7. Shown(m)' = Registered \cap InSet(t)
    BY <1>2, <1>4, <1>6
  <1>8. \A x \in Registered \cap InSet(t) : phase[x] \in {"syncing", "synced"}
    BY ForeignAssumption DEF Registered, InSet
  <1>9. \A p \in Looking : p \in Registered /\ p \in Machines
    BY DEF Looking, SyncInv, Local, Registered
  <1>10. Search'
    <2> SUFFICES ASSUME NEW q \in Looking'
                 PROVE  /\ q \in Shown(q)'
                        /\ \A x \in Shown(q)' :
                             /\ phase'[x] # "created"
                             /\ \/ x \in work'[q].found
                                \/ /\ phase'[x] # "gone"
                                   /\ pc'[q] = "listNodes" \/ host'[x] \in work'[q].todo
                        /\ \A p \in Looking' : class'[p].set = class'[q].set =>
                             p \in Shown(q)' \/ q \in Shown(p)'
      BY DEF Search
    <2>1. CASE q = m
      <3>1. \A p \in Looking' : class[p].set = t => p \in Registered \cap InSet(t)
        BY <1>1, <1>2, <1>6, <1>9 DEF InSet
      <3> QED BY <1>0, <1>1, <1>2, <1>6, <1>7, <1>8, <2>1, <3>1
    <2>2. CASE q # m
      <3>1. q \in Looking /\ q \in Machines
        BY <1>6, <1>9, <2>2
      <3>2. class[q].set = t => q \in Shown(m)'
        BY <1>7, <1>9, <3>1 DEF InSet
      <3>3. \A x \in Shown(q) : x \in Machines
        BY DEF Shown, InSet
      <3> QED BY <1>0, <1>2, <1>6, <1>9, <2>2, <3>1, <3>2, <3>3 DEF Search, Covered
    <2> QED BY <2>1, <2>2
  <1>11. ASSUME NEW s \in Sets, SetInv(s)
         PROVE  SetInv(s)'
    <2>1. PICK A : A = AbsMembers(ResourceRule[s]) /\ A = AbsMembers(ResourceRule[s])'
      BY <1>6
    <2>2. PICK P : P = Passed(SetJob(s))
      OBVIOUS
    <2>3. Passed(SetJob(s))' \subseteq P
      BY <1>6, <2>2
    <2>4. /\ A # {} => P \subseteq A
          /\ A = {} => \A a, b \in P : a = b
          /\ \A q \in Looking \cap InSet(s) :
               \/ q \in A
               \/ Shown(q) \cap (A \cup Left) # {}
               \/ A = {} /\ P \subseteq Shown(q)
      BY <1>11, <2>1, <2>2 DEF SetInv
    <2>5. InSet(s)' = InSet(s)
      BY <1>0 DEF InSet
    <2>6. ASSUME NEW q \in Looking' \cap InSet(s)
          PROVE  \/ q \in A
                 \/ Shown(q)' \cap (A \cup Left) # {}
                 \/ A = {} /\ P \subseteq Shown(q)'
      <3>1. CASE q = m
        <4>1. s = t
          BY <1>2, <2>6, <3>1 DEF InSet
        <4>2. CASE A # {}
          <5>1. ResourceRule[s] \in RuleNames
            BY NamesAssumption
          <5>2. A \subseteq InSet(s) \cap Registered
            BY <2>1, <4>2, <5>1, ExistsShape DEF Covered, RuleShape
          <5> QED BY <1>7, <3>1, <4>1, <4>2, <5>2
        <4>3. CASE A = {}
          <5>1. P \subseteq Registered \cap InSet(s)
            BY <2>2, PassedShape
          <5> QED BY <1>7, <3>1, <4>1, <4>3, <5>1
        <4> QED BY <4>2, <4>3
      <3>2. CASE q # m
        <4>1. q \in Looking /\ Shown(q)' = Shown(q)
          BY <1>6, <1>9, <2>6, <3>2 DEF InSet
        <4> QED BY <2>4, <2>6, <4>1
      <3> QED BY <3>1, <3>2
    <2> QED BY <1>6, <2>1, <2>3, <2>4, <2>5, <2>6 DEF SetInv
  <1>12. \A s \in Sets : TooMany(s)' = TooMany(s)
    BY <1>0 DEF TooMany, InSet
  <1> QED BY <1>6, <1>10, <1>11, <1>12 DEF Covered

\* A machine goes on looking with the list that it has.
LEMMA LookCovers ==
  ASSUME SyncInv, RulesApart, Covered, NEW m \in Looking,
         NEW s \in {"listNodes", "listVMs"}, NEW w \in Work, w.job = work[m].job,
         w.listed = work[m].listed,
         pc' = [pc EXCEPT ![m] = s], work' = [work EXCEPT ![m] = w],
         UNCHANGED <<class, phase, host, online, rules>>,
         \A x \in Shown(m) :
           x \in w.found \/ (phase[x] # "gone" /\ (s = "listNodes" \/ host[x] \in w.todo))
  PROVE  Covered'
  <1>0. m \in Machines /\ pc[m] # "idle" /\ \A q \in Looking : q \in Machines
    BY DEF Looking
  <1>1. /\ LifeShape' /\ RuleShape' /\ Joined'
        /\ \A job : Passed(job)' \subseteq Passed(job)
        /\ \A name : AbsMembers(name)' = AbsMembers(name)
        /\ \A x \in Machines : /\ pc'[x] = IF x = m THEN s ELSE pc[x]
                               /\ work'[x] = IF x = m THEN w ELSE work[x]
        /\ \A q \in Machines : q # m => Shown(q)' = Shown(q)
        /\ Shown(m)' = w.listed \cap InSet(class[m].set)
        /\ Looking' = Looking \cup {m}
        /\ Left' = Left
    BY <1>0, LookSteps
  <1>2. Looking' = Looking /\ \A q \in Looking : Shown(q)' = Shown(q)
    BY <1>0, <1>1 DEF Shown
  <1>3. Search'
    <2> SUFFICES ASSUME NEW q \in Looking
                 PROVE  /\ q \in Shown(q)'
                        /\ \A x \in Shown(q)' :
                             /\ phase'[x] # "created"
                             /\ \/ x \in work'[q].found
                                \/ /\ phase'[x] # "gone"
                                   /\ pc'[q] = "listNodes" \/ host'[x] \in work'[q].todo
                        /\ \A p \in Looking : class'[p].set = class'[q].set =>
                             p \in Shown(q)' \/ q \in Shown(p)'
      BY <1>2 DEF Search
    <2>1. /\ q \in Shown(q)
          /\ \A x \in Shown(q) : phase[x] # "created"
          /\ \A p \in Looking : class[p].set = class[q].set =>
               p \in Shown(q) \/ q \in Shown(p)
      BY DEF Search, Covered
    <2>2. \A x \in Shown(q) : \/ x \in work'[q].found
                              \/ /\ phase[x] # "gone"
                                 /\ pc'[q] = "listNodes" \/ host[x] \in work'[q].todo
      BY <1>0, <1>1 DEF Search, Covered
    <2> QED BY <1>2, <2>1, <2>2
  <1>4. Unlisted
    BY <1>0, <1>1, <1>2 DEF Unlisted
  <1>5. ASSUME NEW t \in Sets, SetInv(t)
        PROVE  SetInv(t)'
    <2>1. PICK A : A = AbsMembers(ResourceRule[t]) /\ A = AbsMembers(ResourceRule[t])'
      BY <1>1
    <2>2. Passed(SetJob(t))' \subseteq Passed(SetJob(t)) \cup A
      BY <1>1
    <2> QED BY <1>1, <1>4, <1>5, <2>1, <2>2, SetKeeps
  <1>6. \A t \in Sets : TooMany(t)' = TooMany(t)
    BY DEF TooMany, InSet
  <1> QED BY <1>1, <1>3, <1>5, <1>6 DEF Covered

LEMMA ListNodesCovers ==
  ASSUME SyncInv, RulesInv, WorldInv, RulesApart, Covered,
         NEW m \in Machines, ListNodes(m)
  PROVE  Covered'
  <1> DEFINE w == [work[m] EXCEPT !.todo = online]
  <1>0. /\ pc[m] = "listNodes" /\ m \in Looking
        /\ UNCHANGED <<class, phase, host, online, rules>>
    BY DEF ListNodes, worldVars, Looking
  <1>1. work[m] \in Work
    BY DEF SyncInv
  <1>2. /\ w \in Work /\ w.job = work[m].job /\ w.listed = work[m].listed
        /\ w.todo = online /\ w.found = work[m].found
    BY <1>1 DEF Work, WorldInv
  <1>3. pc' = [pc EXCEPT ![m] = "listVMs"] /\ work' = [work EXCEPT ![m] = w]
    BY DEF ListNodes, Goto, SyncInv
  <1> HIDE DEF w
  <1>4. \A x \in Shown(m) : /\ x \in Machines
                            /\ x \in work[m].found \/ phase[x] # "gone"
    BY <1>0 DEF Search, Covered, Shown, InSet
  <1>5. \A x \in Shown(m) : x \in w.found \/ (phase[x] # "gone" /\ host[x] \in w.todo)
    BY <1>2, <1>4 DEF WorldInv, LifeShape, Covered
  <1> QED BY <1>0, <1>2, <1>3, <1>5, LookCovers

LEMMA ListVMsCovers ==
  ASSUME SyncInv, RulesInv, WorldInv, RulesApart, Covered,
         NEW m \in Machines, ListVMs(m)
  PROVE  Covered'
  <1>0. /\ pc[m] = "listVMs" /\ m \in Looking
        /\ UNCHANGED <<class, phase, host, online, rules>>
    BY DEF ListVMs, worldVars, Looking
  <1>1. CASE Abandon(m)
    BY <1>0, <1>1, AbandonTurns, IdleTurn
  <1>2. ASSUME NEW n \in work[m].todo, UNCHANGED pc,
               work' = [work EXCEPT ![m].todo = @ \ {n},
                                    ![m].found = @ \cup MembersOn(m, n)]
        PROVE  Covered'
    <2> DEFINE w == [work[m] EXCEPT !.todo = @ \ {n}, !.found = @ \cup MembersOn(m, n)]
    <2>1. work[m] \in Work /\ MembersOn(m, n) \subseteq Machines
      BY DEF SyncInv, MembersOn
    <2>2. /\ w \in Work /\ w.job = work[m].job /\ w.listed = work[m].listed
          /\ w.todo = work[m].todo \ {n}
          /\ w.found = work[m].found \cup MembersOn(m, n)
      BY <2>1 DEF Work
    <2>3. pc' = [pc EXCEPT ![m] = "listVMs"] /\ work' = [work EXCEPT ![m] = w]
      BY <1>0, <1>2 DEF SyncInv
    <2> HIDE DEF w
    <2>4. \A x \in Shown(m) :
            \/ x \in work[m].found
            \/ phase[x] # "gone" /\ host[x] \in work[m].todo
      BY <1>0 DEF Search, Covered
    <2>5. \A x \in Shown(m) :
            phase[x] # "gone" /\ host[x] = n => x \in MembersOn(m, n)
      BY DEF Shown, InSet, MembersOn
    <2>6. \A x \in Shown(m) : x \in w.found \/ (phase[x] # "gone" /\ host[x] \in w.todo)
      BY <2>2, <2>4, <2>5
    <2> QED BY <1>0, <2>2, <2>3, <2>6, LookCovers
  <1> QED BY <1>1, <1>2 DEF ListVMs

LEMMA FewerThanTwo ==
  ASSUME NEW S, IsFiniteSet(S), Cardinality(S) <= 1, NEW a \in S, NEW b \in S
  PROVE  a = b
  <1>1. Cardinality({a}) = 1 /\ {a} \in SUBSET S
    BY FS_Singleton
  <1>2. Cardinality(S) \in Nat /\ Cardinality({a}) <= Cardinality(S)
    BY <1>1, FS_Subset, FS_CardinalityType
  <1>3. Cardinality(S) = Cardinality({a})
    BY <1>1, <1>2
  <1>4. S = {a}
    BY <1>1, <1>3, FS_Subset
  <1> QED BY <1>4

\* A machine that finds only itself gets done with no rule, and nobody else is
\* done with it; those that look for the set have it on their lists.
LEMMA AloneCovers ==
  ASSUME IsFiniteSet(Resources), SyncInv, RulesInv, RulesApart, Covered,
         NEW m \in Machines, pc[m] = "listVMs", work[m].todo = {},
         Cardinality(work[m].found) < 2, NextJob(m),
         UNCHANGED <<class, phase, host, online, rules>>
  PROVE  Covered'
  <1>1. PICK s \in Sets : /\ s = class[m].set /\ Job(m) = SetJob(s)
                          /\ m \in InSet(s) \cap Registered
                          /\ phase[m] = "syncing" /\ work[m] \in Work
    BY LookerShape
  <1>2. m \in Looking
    BY DEF Looking
  <1>3. \A x \in Shown(m) : x \in work[m].found
    BY <1>2 DEF Search, Covered
  <1>4. m \in Shown(m) /\ \A x \in Shown(m) : x = m
    <2>1. m \in Shown(m)
      BY <1>2 DEF Search, Covered
    <2>2. IsFiniteSet(work[m].found) /\ Cardinality(work[m].found) <= 1
      <3>1. work[m].found \in SUBSET Resources
        BY <1>1 DEF Work, Resources
      <3>2. IsFiniteSet(work[m].found)
        BY <3>1, FS_Subset
      <3> QED BY <3>2, FS_CardinalityType
    <2> QED BY <1>3, <2>1, <2>2, FewerThanTwo
  <1>5. Turns(m, work[m].job)
    BY NextTurns
  <1>6. \A job : Done(m, work[m].job, job) => job = SetJob(s)
    BY <1>1, TargetShape
  <1>7. Registered' = Registered
    BY DEF Registered
  <1>8. RuleShape' /\ \A name : AbsMembers(name)' = AbsMembers(name)
    BY <1>7, SameRules DEF Covered
  <1>9. /\ LifeShape' /\ Joined' /\ Search'
        /\ \A t \in Sets : t # s => TooMany(t)' \/ SetInv(t)'
    BY <1>5, <1>6, <1>8, TurnKeeps
  <1>10. ASSUME SetInv(s)
         PROVE  SetInv(s)'
    <2>1. PICK A : A = AbsMembers(ResourceRule[s]) /\ A = AbsMembers(ResourceRule[s])'
      BY <1>8
    <2>2. PICK P : P = Passed(SetJob(s))
      OBVIOUS
    <2>3. /\ A # {} => P \subseteq A
          /\ A = {} => \A a, b \in P : a = b
          /\ \A q \in Looking \cap InSet(s) :
               \/ q \in A
               \/ Shown(q) \cap (A \cup Left) # {}
               \/ A = {} /\ P \subseteq Shown(q)
      BY <1>10, <2>1, <2>2 DEF SetInv
    <2>4. m \notin Left
      BY <1>1 DEF Left
    <2>5. A # {} => m \in A
      BY <1>1, <1>2, <1>4, <2>3, <2>4
    <2>6. A = {} => P \subseteq {m}
      BY <1>1, <1>2, <1>4, <2>3, <2>4
    <2>7. /\ Unsearched
          /\ \A job : Passed(job)' \subseteq Passed(job) \cup {m}
      BY <1>5, TurnFacts DEF Covered
    <2>8. Passed(SetJob(s))' \subseteq P \cup {m}
      BY <2>2, <2>7
    <2>9. ASSUME NEW q \in Looking' \cap InSet(s)
          PROVE  \/ q \in A
                 \/ Shown(q)' \cap (A \cup Left) # {}
                 \/ A = {} /\ P \cup {m} \subseteq Shown(q)'
      <3>1. q \in Looking /\ Shown(q)' = Shown(q) /\ q # m
        <4>1. q # m
          <5>1. pc'[m] \notin {"listNodes", "listVMs"}
            BY <1>5 DEF Turns, SyncInv
          <5> QED BY <5>1 DEF Looking
        <4> QED BY <2>7, <4>1 DEF Unsearched, Shown, InSet
      <3>2. q \notin Shown(m)
        BY <1>4, <3>1
      <3>3. m \in Shown(q)
        BY <1>1, <1>2, <3>1, <3>2 DEF Search, Covered, InSet
      <3> QED BY <2>3, <3>1, <3>3
    <2>10. InSet(s)' = InSet(s) /\ Left' = Left
      BY DEF InSet, Left
    <2> QED BY <2>1, <2>3, <2>5, <2>6, <2>8, <2>9, <2>10 DEF SetInv
  <1>11. TooMany(s)' = TooMany(s)
    BY DEF TooMany, InSet
  <1> QED BY <1>8, <1>9, <1>10, <1>11 DEF Covered

\* The machine that founds the rule of its set puts in whoever is done, and
\* whoever looks for the set finds it there or finds a member.
LEMMA FoundCovers ==
  ASSUME SyncInv, RulesInv, RulesApart, Covered,
         NEW m \in Machines, pc[m] = "listVMs", work[m].todo = {},
         NEW s \in Sets, s = class[m].set,
         NEW found, found = work[m].found, found # {}, found \subseteq Registered,
         NEW name, name = Target(m), ~Exists(name),
         rules' = [rules EXCEPT
           ![name] = [type |-> "resource-affinity", nodes |-> NoNodes,
                      affinity |-> class[m].affinity, members |-> found]],
         NextJob(m), UNCHANGED <<class, phase, host, online>>
  PROVE  Covered'
  <1> DEFINE rule == [type |-> "resource-affinity", nodes |-> NoNodes,
                      affinity |-> class[m].affinity, members |-> found]
  <1>1. /\ name = ResourceRule[s] /\ Job(m) = SetJob(s) /\ phase[m] = "syncing"
        /\ m \in InSet(s) \cap Registered /\ found \subseteq InSet(s)
    BY LookerShape
  <1>2. name \in RuleNames /\ name \in SetRules /\ \A t \in Sets : name # NodeRule[t]
    BY <1>1, NamesAssumption DEF SetRules, RulesApart
  <1>3. /\ rule \in RealRule /\ rule.members = found
        /\ rule.affinity = class[m].affinity
    <2>1. class[m].affinity \in Affinities
      BY ClassesAssumption DEF SyncInv
    <2>2. found \subseteq Resources
      BY <1>1 DEF InSet, Resources
    <2> QED BY <2>1, <2>2 DEF RealRule, Rule, RuleTypes
  <1>4. rules' = [rules EXCEPT ![name] = rule]
    OBVIOUS
  <1> HIDE DEF rule
  <1>5. AbsMembers(name) = {}
    BY DEF AbsMembers
  <1>6. \A t \in Sets : name = ResourceRule[t] => t = s
    BY <1>1 DEF RulesApart
  <1>7. \A t \in Sets : name = ResourceRule[t] =>
          /\ rule.members \subseteq InSet(t) \cap Registered
          /\ rule.affinity = "negative" =>
               \E x \in InSet(t) : class[x].ha /\ class[x].affinity = "negative"
    <2>1. class[m].ha
      BY <1>1 DEF Covered, LifeShape
    <2> QED BY <1>1, <1>3, <1>6, <2>1
  <1>8. /\ RuleShape'
        /\ \A x \in RuleNames : AbsMembers(x) \subseteq AbsMembers(x)'
        /\ \A x \in RuleNames : x # name => AbsMembers(x)' = AbsMembers(x)
        /\ AbsMembers(name)' = found
    <2>1. AbsMembers(name) \subseteq rule.members
      BY <1>5
    <2>2. \A t \in Sets : name = NodeRule[t] => rule.type = "node-affinity"
      BY <1>2
    <2>3. name \notin SetRules => rule.members \cap Foreign # {}
      BY <1>2
    <2>4. AbsMembers(name)' = rule.members => AbsMembers(name)' = found
      BY <1>3
    <2>5. RuleShape /\ UNCHANGED <<class, phase>>
      BY DEF Covered
    <2>6. /\ RuleShape'
          /\ \A x \in RuleNames : AbsMembers(x) \subseteq AbsMembers(x)'
          /\ \A x \in RuleNames : x # name => AbsMembers(x)' = AbsMembers(x)
          /\ AbsMembers(name)' = rule.members
      BY <1>2, <1>3, <1>4, <1>7, <2>1, <2>2, <2>3, <2>5, RuleGrows
    <2> QED BY <2>4, <2>6
  <1>9. m \in Looking
    BY DEF Looking
  <1>10. m \in Shown(m) /\ Shown(m) \subseteq found
    BY <1>9 DEF Search, Covered
  <1>11. Turns(m, work[m].job)
    BY NextTurns
  <1>12. \A job : Done(m, work[m].job, job) => job = SetJob(s)
    BY <1>1, TargetShape
  <1>13. /\ LifeShape' /\ Joined' /\ Search'
         /\ \A t \in Sets : t # s => TooMany(t)' \/ SetInv(t)'
    <2>1. \A t \in Sets : \/ t = s
                          \/ AbsMembers(ResourceRule[t]) # {}
                          \/ AbsMembers(ResourceRule[t])' = {}
      <3> SUFFICES ASSUME NEW t \in Sets, t # s
                   PROVE  AbsMembers(ResourceRule[t])' = AbsMembers(ResourceRule[t])
        OBVIOUS
      <3>1. PICK x \in RuleNames : x = ResourceRule[t]
        BY NamesAssumption
      <3>2. AbsMembers(x)' = AbsMembers(x)
        BY <1>6, <1>8, <3>1
      <3> QED BY <3>1, <3>2
    <2>2. \A job : Done(m, work[m].job, job) =>
            \/ m \in AbsMembers(job.rule)'
            \/ s \in Sets /\ job = SetJob(s)
      BY <1>12
    <2> QED BY <1>8, <1>11, <2>1, <2>2, TurnKeeps
  <1>14. ASSUME SetInv(s)
         PROVE  SetInv(s)'
    <2>1. PICK P : P = Passed(SetJob(s))
      OBVIOUS
    <2>2. \A q \in Looking \cap InSet(s) :
            Shown(q) \cap Left # {} \/ P \subseteq Shown(q)
      BY <1>1, <1>5, <1>14, <2>1 DEF SetInv
    <2>3. P \subseteq Shown(m)
      <3>1. \A x \in Registered \cap Machines : x \notin Left
        BY ForeignAssumption DEF Registered, Left
      <3>2. Shown(m) \cap Left = {}
        BY <1>1, <1>10, <3>1 DEF InSet
      <3> QED BY <1>1, <1>9, <2>2, <3>2
    <2>4. /\ Unsearched
          /\ \A job : Passed(job)' \subseteq Passed(job) \cup {m}
      BY <1>11, TurnFacts DEF Covered
    <2>5. Passed(SetJob(s))' \subseteq found
      BY <1>10, <2>1, <2>3, <2>4
    <2>6. ASSUME NEW q \in Looking' \cap InSet(s), q \notin found
          PROVE  Shown(q)' \cap found # {}
      <3>1. q \in Looking /\ Shown(q)' = Shown(q)
        BY <2>4 DEF Unsearched, Shown, InSet
      <3>2. q \notin Shown(m)
        BY <1>10, <2>6
      <3>3. m \in Shown(q)
        BY <1>1, <1>9, <2>6, <3>1, <3>2 DEF Search, Covered, InSet
      <3> QED BY <1>10, <3>1, <3>3
    <2>7. InSet(s)' = InSet(s)
      BY DEF InSet
    <2>8. AbsMembers(ResourceRule[s])' = found
      BY <1>1, <1>8
    <2> HIDE DEF SetInv
    <2> QED BY <2>5, <2>6, <2>7, <2>8 DEF SetInv
  <1>15. TooMany(s)' = TooMany(s)
    BY DEF TooMany, InSet
  <1> QED BY <1>8, <1>13, <1>14, <1>15 DEF Covered

LEMMA CreateSetRuleCovers ==
  ASSUME IsFiniteSet(Resources), IsFiniteSet(Nodes), SyncInv, RulesInv, RulesApart,
         Covered, NEW m \in Machines, CreateSetRule(m)
  PROVE  Covered'
  <1>0. /\ pc[m] = "listVMs" /\ work[m].todo = {}
        /\ UNCHANGED <<class, phase, host, online>>
    BY DEF CreateSetRule, worldVars
  <1>1. PICK s \in Sets : /\ s = class[m].set /\ Job(m) = SetJob(s)
                          /\ m \in InSet(s) /\ phase[m] = "syncing"
                          /\ work[m].found \subseteq InSet(s)
    BY <1>0, LookerShape
  <1>2. PICK found : found = work[m].found
    OBVIOUS
  <1>3. PICK name : name = Target(m)
    OBVIOUS
  <1>4. CASE Cardinality(found) < 2 /\ NextJob(m) /\ UNCHANGED rules
    BY <1>0, <1>2, <1>4, AloneCovers
  <1>5. CASE (Adopt(m) \/ Abandon(m)) /\ UNCHANGED rules
    BY <1>0, <1>5, AdoptTurns, AbandonTurns, IdleTurn
  <1>6. CASE /\ found \subseteq Registered /\ Infeasible(class[m].affinity, found)
             /\ NextJob(m) /\ UNCHANGED rules
    <2>1. class[m].affinity = "negative" /\ Cardinality(found) > Cardinality(online)
      BY <1>6 DEF Infeasible
    <2>2. class[m].ha
      BY <1>1 DEF Covered, LifeShape
    <2>3. TooMany(s)
      BY <1>1, <1>2, <1>6, <2>1, <2>2, InfeasibleMeansTooMany DEF Covered
    <2>4. Turns(m, work[m].job)
      BY <1>0, <1>6, NextTurns
    <2>5. \A job : Done(m, work[m].job, job) => job = SetJob(s)
      BY <1>0, <1>1, TargetShape
    <2> QED BY <1>0, <1>6, <2>3, <2>4, <2>5, QuietTurn
  <1>7. CASE /\ Cardinality(found) >= 2 /\ ~Exists(name) /\ found \subseteq Registered
             /\ rules' = [rules EXCEPT
                  ![name] = [type |-> "resource-affinity", nodes |-> NoNodes,
                             affinity |-> class[m].affinity, members |-> found]]
             /\ NextJob(m)
    <2>1. found # {}
      BY <1>7, FS_EmptySet
    <2> QED BY <1>0, <1>1, <1>2, <1>3, <1>7, <2>1, FoundCovers
  <1> QED BY <1>2, <1>3, <1>4, <1>5, <1>6, <1>7 DEF CreateSetRule

\* A step that leaves the members of the rules alone.
LEMMA StillCovered ==
  ASSUME SyncInv, Covered, UNCHANGED class, LifeShape', RuleShape', Search',
         Unlisted, Left \subseteq Left',
         \A name \in RuleNames : AbsMembers(name)' = AbsMembers(name),
         \A job : Passed(job)' \subseteq Passed(job)
  PROVE  Covered'
  <1>1. Joined'
    BY JoinedKeeps DEF Covered
  <1>2. ASSUME NEW s \in Sets, SetInv(s)
        PROVE  SetInv(s)'
    <2>1. PICK x \in RuleNames : x = ResourceRule[s]
      BY NamesAssumption
    <2>2. PICK A : A = AbsMembers(x) /\ A = AbsMembers(x)'
      OBVIOUS
    <2>3. A = AbsMembers(ResourceRule[s]) /\ A = AbsMembers(ResourceRule[s])'
      BY <2>1, <2>2
    <2>4. Passed(SetJob(s))' \subseteq Passed(SetJob(s)) \cup A
      <3>1. PICK job : job = SetJob(s)
        OBVIOUS
      <3>2. Passed(job)' \subseteq Passed(job)
        OBVIOUS
      <3> QED BY <3>1, <3>2
    <2> QED BY <1>2, <2>3, <2>4, SetKeeps
  <1>3. \A s \in Sets : TooMany(s)' = TooMany(s)
    BY DEF TooMany, InSet
  <1> QED BY <1>1, <1>2, <1>3 DEF Covered

LEMMA BeginSyncCovers ==
  ASSUME SyncInv, RulesApart, Covered, NEW m \in Machines, BeginSync(m)
  PROVE  Covered'
  <1>1. StartJob(m, 1) /\ UNCHANGED <<class, phase, host, online, rules>>
    BY DEF BeginSync, worldVars
  <1>2. Turns(m, 0)
    BY <1>1, StartTurns
  <1> QED BY <1>1, <1>2, IdleTurn

\* A machine whose sync ends is beyond all its jobs already.
LEMMA EndSyncCovers ==
  ASSUME SyncInv, RulesApart, Covered, NEW m \in Machines, EndSync(m)
  PROVE  Covered'
  <1>1. /\ pc[m] = "done" /\ phase[m] = "syncing"
        /\ UNCHANGED <<class, host, online, rules>>
        /\ \A x \in Machines :
             /\ phase'[x] = IF x = m THEN "synced" ELSE phase[x]
             /\ pc'[x] = IF x = m THEN "idle" ELSE pc[x]
             /\ work'[x] = IF x = m THEN NoWork ELSE work[x]
    BY DEF EndSync, Abandon, Goto, SyncInv, Local, worldVars
  <1>2. work[m].job > Len(Jobs(class[m])) /\ work[m].job \in Nat
    BY <1>1 DEF Covered, LifeShape, SyncInv, Work
  <1>3. DOMAIN Jobs(class[m]) = 1 .. Len(Jobs(class[m])) /\ Len(Jobs(class[m])) \in Nat
    BY JobNumbers DEF SyncInv
  <1>4. Registered' = Registered /\ Left' = Left
    BY <1>1 DEF Registered, Left
  <1>5. RuleShape' /\ \A name : AbsMembers(name)' = AbsMembers(name)
    BY <1>1, <1>4, SameRules DEF Covered
  <1>6. LifeShape'
    BY <1>1 DEF LifeShape, Covered
  <1>7. Unsearched /\ Unlisted
    BY <1>1 DEF Unsearched, Unlisted, Looking
  <1>8. Search'
    BY <1>1, <1>7, SearchKeeps DEF Covered
  <1>9. ASSUME NEW job, NEW x \in Passed(job)'
        PROVE  x \in Passed(job)
    <2>1. x \in Machines
      BY <1>9 DEF Passed
    <2>2. PICK j \in DOMAIN Jobs(class[x]) :
            /\ Jobs(class[x])[j] = job
            /\ phase'[x] = "synced" \/ (pc'[x] # "idle" /\ work'[x].job > j)
      BY <1>1, <1>9 DEF Passed
    <2>3. phase[x] = "synced" \/ (pc[x] # "idle" /\ work[x].job > j)
      BY <1>1, <1>2, <1>3, <2>1, <2>2
    <2> QED BY <2>1, <2>2, <2>3 DEF Passed
  <1> QED BY <1>1, <1>4, <1>5, <1>6, <1>7, <1>8, <1>9, StillCovered

LEMMA SyncCovers ==
  ASSUME IsFiniteSet(Resources), IsFiniteSet(Nodes), SyncInv, RulesInv, WorldInv,
         RulesApart, Covered, NEW m \in Machines, Sync(m)
  PROVE  Covered'
  BY BeginSyncCovers, CreateNodeRuleCovers, GetRuleCovers, UpdateRuleCovers,
     ListResourcesCovers, ListNodesCovers, ListVMsCovers, CreateSetRuleCovers,
     EndSyncCovers DEF Sync

----------------------------------------------------------------------------
(* The invariant over the other steps of a machine's life. *)

\* A machine without a sync enters another phase, other than synced.
LEMMA PhaseFacts ==
  ASSUME SyncInv, NEW m \in Machines, pc[m] = "idle", NEW to, to # "synced",
         phase' = [phase EXCEPT ![m] = to], UNCHANGED <<class, pc, work>>
  PROVE  /\ \A x \in Machines : phase'[x] = IF x = m THEN to ELSE phase[x]
         /\ Unsearched /\ Unlisted
         /\ \A job : Passed(job)' \subseteq Passed(job) \ {m}
  <1>1. \A x \in Machines : phase'[x] = IF x = m THEN to ELSE phase[x]
    BY DEF SyncInv
  <1>2. Unsearched /\ Unlisted
    BY DEF Unsearched, Unlisted, Looking
  <1>3. ASSUME NEW job, NEW x \in Passed(job)'
        PROVE  x \in Passed(job) \ {m}
    <2>1. x \in Machines
      BY <1>3 DEF Passed
    <2>2. PICK j \in DOMAIN Jobs(class[x]) :
            /\ Jobs(class[x])[j] = job
            /\ phase'[x] = "synced" \/ (pc[x] # "idle" /\ work[x].job > j)
      BY <1>3 DEF Passed
    <2>3. x # m
      BY <1>1, <2>1, <2>2
    <2>4. phase[x] = "synced" \/ (pc[x] # "idle" /\ work[x].job > j)
      BY <1>1, <2>1, <2>2, <2>3
    <2> QED BY <2>1, <2>2, <2>3, <2>4 DEF Passed
  <1> QED BY <1>1, <1>2, <1>3

LEMMA RegisterCovers ==
  ASSUME SyncInv, RulesApart, Covered, NEW m \in Machines, RegisterHA(m)
  PROVE  Covered'
  <1>1. /\ phase[m] = "created" /\ class[m].ha /\ pc[m] = "idle"
        /\ phase' = [phase EXCEPT ![m] = "syncing"]
        /\ UNCHANGED <<class, host, online, rules, pc, work>>
    BY DEF RegisterHA, syncVars, worldVars, SyncInv, Local
  <1>2. /\ \A x \in Machines : phase'[x] = IF x = m THEN "syncing" ELSE phase[x]
        /\ Unsearched /\ Unlisted
        /\ \A job : Passed(job)' \subseteq Passed(job) \ {m}
    BY <1>1, PhaseFacts
  <1>3. Left' = Left /\ Registered \subseteq Registered'
    BY <1>1, <1>2 DEF Left, Registered
  <1>4. LifeShape'
    BY <1>1, <1>2 DEF LifeShape, Covered
  <1>5. Search'
    BY <1>1, <1>2, SearchKeeps DEF Covered
  <1>6. RuleShape'
    BY <1>1, <1>3 DEF RuleShape, Covered, Exists, InSet
  <1>7. \A name : AbsMembers(name)' = AbsMembers(name)
    BY <1>1 DEF AbsMembers, Exists
  <1> QED BY <1>1, <1>2, <1>3, <1>4, <1>5, <1>6, <1>7, StillCovered

\* A VM that is still looked for is not deleted as long as all is calm.
LEMMA DeleteCovers ==
  ASSUME SyncInv, RulesApart, Covered, NEW m \in Machines, DeleteVM(m), calm'
  PROVE  Covered'
  <1>1. /\ phase[m] = "deregistered" /\ pc[m] = "idle" /\ ~IsLookedFor(m)
        /\ phase' = [phase EXCEPT ![m] = "gone"]
        /\ UNCHANGED <<class, host, online, rules, pc, work>>
    BY DEF DeleteVM, syncVars, SyncInv, Local
  <1>2. /\ \A x \in Machines : phase'[x] = IF x = m THEN "gone" ELSE phase[x]
        /\ Unsearched /\ Unlisted
        /\ \A job : Passed(job)' \subseteq Passed(job) \ {m}
    BY <1>1, PhaseFacts
  <1>3. Left' = Left /\ Registered' = Registered
    BY <1>1, <1>2 DEF Left, Registered
  <1>4. LifeShape'
    BY <1>1, <1>2 DEF LifeShape, Covered
  <1>5. RuleShape' /\ \A name : AbsMembers(name)' = AbsMembers(name)
    BY <1>1, <1>3, SameRules DEF Covered
  <1>6. Looking' = Looking /\ \A q : Shown(q)' = Shown(q)
    BY <1>1 DEF Looking, Shown, InSet
  <1>7. ASSUME NEW q \in Looking, NEW x \in Shown(q)
        PROVE  /\ phase'[x] # "created"
               /\ x \in work[q].found \/ phase[x] = "gone" \/ phase'[x] # "gone"
    <2>1. x \in Machines /\ q \in Machines /\ pc[q] \in {"listNodes", "listVMs"}
      BY DEF Shown, InSet, Looking
    <2>2. CASE x = m
      <3>1. class[q].set = class[m].set /\ m \in work[q].listed
        BY <2>2 DEF Shown, InSet
      <3> QED BY <1>1, <1>2, <2>1, <2>2, <3>1 DEF IsLookedFor
    <2>3. CASE x # m
      BY <1>2, <2>1, <2>3 DEF Search, Covered
    <2> QED BY <2>2, <2>3
  <1>8. Search'
    <2> SUFFICES ASSUME NEW q \in Looking
                 PROVE  /\ q \in Shown(q)
                        /\ \A x \in Shown(q) :
                             /\ phase'[x] # "created"
                             /\ \/ x \in work[q].found
                                \/ /\ phase'[x] # "gone"
                                   /\ pc[q] = "listNodes" \/ host[x] \in work[q].todo
                        /\ \A p \in Looking : class[p].set = class[q].set =>
                             p \in Shown(q) \/ q \in Shown(p)
      BY <1>1, <1>6 DEF Search
    <2> QED BY <1>7 DEF Search, Covered
  <1> QED BY <1>1, <1>2, <1>3, <1>4, <1>5, <1>8, StillCovered

\* A machine leaves the rules: each keeps its other members, or had one other
\* member at most and is dropped.
LEMMA TeardownShape ==
  ASSUME IsFiniteSet(Resources), SyncInv, RulesInv, NEW m \in Machines, Teardown(m),
         NEW name \in RuleNames
  PROVE  \/ ~Exists(name) /\ ~Exists(name)'
         \/ /\ Exists(name) /\ ~Exists(name)'
            /\ m \in rules[name].members
            /\ \A a, b \in rules[name].members \ {m} : a = b
            /\ rules[name].type = "node-affinity" => rules[name].members \subseteq {m}
         \/ /\ Exists(name) /\ Exists(name)'
            /\ rules'[name].members = rules[name].members \ {m}
            /\ rules'[name].type = rules[name].type
            /\ rules'[name].affinity = rules[name].affinity
  <1>1. rules'[name] = IF Exists(name) THEN Purged(rules[name], m) ELSE NoRule
    BY DEF Teardown
  <1>2. CASE ~Exists(name)
    BY <1>1, <1>2 DEF Exists
  <1>3. CASE Exists(name)
    <2>1. PICK rule \in RealRule : rule = rules[name]
      BY <1>3, ExistsShape
    <2>2. CASE /\ Purged(rule, m) = NoRule
               /\ m \in rule.members /\ Cardinality(rule.members \ {m}) <= 1
               /\ rule.type = "node-affinity" => rule.members \ {m} = {}
      <3>1. PICK rest : rest = rule.members \ {m}
        OBVIOUS
      <3>2. IsFiniteSet(rest) /\ Cardinality(rest) <= 1
        BY <2>2, <3>1, FS_Subset DEF RealRule, Rule
      <3>3. \A a, b \in rest : a = b
        BY <3>2, FewerThanTwo
      <3> QED BY <1>1, <1>3, <2>1, <2>2, <3>1, <3>3 DEF Exists
    <2>3. CASE /\ Purged(rule, m) \in RealRule
               /\ Purged(rule, m).members = rule.members \ {m}
               /\ RuleSettings(Purged(rule, m)) = RuleSettings(rule)
      <3>1. rules'[name] = Purged(rule, m) /\ Exists(name)'
        BY <1>1, <1>3, <2>1, <2>3, NoRuleAssumption DEF Exists, RealRule
      <3>2. /\ rules'[name].type = rule.type
            /\ rules'[name].affinity = rule.affinity
        BY <2>3, <3>1 DEF RuleSettings
      <3> QED BY <1>3, <2>1, <2>3, <3>1, <3>2
    <2> QED BY <2>2, <2>3, PurgedRule
  <1> QED BY <1>2, <1>3

LEMMA TeardownCovers ==
  ASSUME IsFiniteSet(Resources), SyncInv, RulesInv, RulesApart, Covered,
         NEW m \in Machines, Teardown(m)
  PROVE  Covered'
  <1>1. /\ phase[m] \in {"syncing", "synced"} /\ pc[m] = "idle"
        /\ phase' = [phase EXCEPT ![m] = "deregistered"]
        /\ UNCHANGED <<class, host, online, pc, work>>
    BY DEF Teardown, syncVars, worldVars
  <1>2. /\ \A x \in Machines : phase'[x] = IF x = m THEN "deregistered" ELSE phase[x]
        /\ Unsearched /\ Unlisted
        /\ \A job : Passed(job)' \subseteq Passed(job) \ {m}
    BY <1>1, PhaseFacts
  <1>3. Left' = Left \cup {m} /\ Registered' = Registered \ {m}
    BY <1>1, <1>2, ForeignAssumption DEF Left, Registered
  <1>4. LifeShape'
    BY <1>1, <1>2 DEF LifeShape, Covered
  <1>5. Search'
    BY <1>1, <1>2, SearchKeeps DEF Covered
  <1>6. Looking' = Looking /\ \A s : InSet(s)' = InSet(s) /\ Shown(s)' = Shown(s)
    BY <1>1 DEF Looking, Shown, InSet
  <1>7. RuleShape'
    <2> SUFFICES ASSUME NEW name \in RuleNames, Exists(name)'
                 PROVE  /\ \A s \in Sets : name = ResourceRule[s] =>
                             /\ rules'[name].members \subseteq InSet(s) \cap Registered'
                             /\ rules'[name].affinity = "negative" =>
                                  \E x \in InSet(s) :
                                    class[x].ha /\ class[x].affinity = "negative"
                        /\ \A s \in Sets : name = NodeRule[s] =>
                             rules'[name].type = "node-affinity"
                        /\ name \notin SetRules => rules'[name].members \cap Foreign # {}
      BY <1>1, <1>6 DEF RuleShape, SetRules
    <2>1. /\ Exists(name)
          /\ rules'[name].members = rules[name].members \ {m}
          /\ rules'[name].type = rules[name].type
          /\ rules'[name].affinity = rules[name].affinity
      BY TeardownShape
    <2> QED BY <1>3, <2>1, ForeignAssumption DEF RuleShape, Covered
  <1>8. ASSUME NEW x \in Machines, NEW j \in DOMAIN Jobs(class[x]),
               NEW job, job = Jobs(class[x])[j],
               x \in Passed(job)', job.kind # "resource-affinity"
        PROVE  x \in AbsMembers(job.rule)'
    <2>1. PICK name \in RuleNames : name = job.rule
      BY <1>8, JobTyped DEF SyncInv
    <2>2. x # m /\ x \in AbsMembers(name)
      BY <1>2, <1>8, <2>1 DEF Joined, Covered
    <2>3. Exists(name) /\ x \in rules[name].members
      BY <2>2 DEF AbsMembers
    <2>4. Exists(name)'
      <3>1. CASE name \in SetRules
        <4>1. class[x].set \in Sets /\ name = NodeRule[class[x].set]
          BY <1>8, <2>1, <3>1, JobApart DEF SyncInv
        <4>2. rules[name].type = "node-affinity"
          BY <2>3, <4>1 DEF RuleShape, Covered
        <4> QED BY <2>2, <2>3, <4>2, TeardownShape
      <3>2. CASE name \notin SetRules
        <4>1. PICK f \in Foreign : f \in rules[name].members
          BY <2>3, <3>2 DEF RuleShape, Covered
        <4>2. f # m /\ f # x
          BY ForeignAssumption
        <4> QED BY <2>2, <2>3, <4>1, <4>2, TeardownShape
      <3> QED BY <3>1, <3>2
    <2>5. x \in AbsMembers(name)'
      <3>1. rules'[name].members = rules[name].members \ {m}
        BY <2>3, <2>4, TeardownShape
      <3> QED BY <2>2, <2>3, <2>4, <3>1 DEF AbsMembers
    <2> QED BY <2>1, <2>5
  <1>9. Joined'
    BY <1>1, <1>8 DEF Joined
  <1>10. ASSUME NEW s \in Sets, SetInv(s)
         PROVE  SetInv(s)'
    <2>1. PICK name \in RuleNames : name = ResourceRule[s]
      BY NamesAssumption
    <2>2. PICK A : A = AbsMembers(name)
      OBVIOUS
    <2>3. PICK B : B = AbsMembers(name)'
      OBVIOUS
    <2>4. PICK P : P = Passed(SetJob(s))
      OBVIOUS
    <2>5. Passed(SetJob(s))' \subseteq P \ {m}
      BY <1>2, <2>4
    <2>6. \/ B = A \ {m}
          \/ B = {} /\ A # {} /\ \A a, b \in A \ {m} : a = b
      <3>1. CASE ~Exists(name) /\ ~Exists(name)'
        BY <2>2, <2>3, <3>1 DEF AbsMembers
      <3>2. CASE /\ Exists(name) /\ ~Exists(name)' /\ m \in rules[name].members
                 /\ \A a, b \in rules[name].members \ {m} : a = b
        BY <2>2, <2>3, <3>2 DEF AbsMembers
      <3>3. CASE /\ Exists(name) /\ Exists(name)'
                 /\ rules'[name].members = rules[name].members \ {m}
        BY <2>2, <2>3, <3>3 DEF AbsMembers
      <3> QED BY <3>1, <3>2, <3>3, TeardownShape
    <2>7. /\ A # {} => P \subseteq A
          /\ A = {} => \A a, b \in P : a = b
          /\ \A q \in Looking \cap InSet(s) :
               \/ q \in A
               \/ Shown(q) \cap (A \cup Left) # {}
               \/ A = {} /\ P \subseteq Shown(q)
      BY <1>10, <2>1, <2>2, <2>4 DEF SetInv
    <2>8. B # {} => P \ {m} \subseteq B
      BY <2>6, <2>7
    <2>9. B = {} => \A a, b \in P \ {m} : a = b
      BY <2>6, <2>7
    <2>10. ASSUME NEW q \in Looking \cap InSet(s)
           PROVE  \/ q \in B
                  \/ Shown(q) \cap (B \cup Left \cup {m}) # {}
                  \/ B = {} /\ P \ {m} \subseteq Shown(q)
      <3>1. q \in Shown(q) /\ q # m
        BY <1>1 DEF Search, Covered, Looking
      <3>2. CASE B = A \ {m}
        BY <2>7, <3>1, <3>2
      <3>3. CASE B = {} /\ A # {} /\ \A a, b \in A \ {m} : a = b
        BY <2>7, <3>1, <3>3
      <3> QED BY <2>6, <3>2, <3>3
    <2>11. B = AbsMembers(ResourceRule[s])'
      BY <2>1, <2>3
    <2> QED BY <1>3, <1>6, <2>5, <2>8, <2>9, <2>10, <2>11 DEF SetInv
  <1>11. \A s \in Sets : TooMany(s)' = TooMany(s)
    BY <1>1 DEF TooMany, InSet
  <1> QED BY <1>4, <1>5, <1>7, <1>9, <1>10, <1>11 DEF Covered

----------------------------------------------------------------------------
(* The invariant from the start to the end. *)

LEMMA EditCovers ==
  ASSUME SyncInv, RulesInv, RulesApart, Covered,
         NEW name \in RuleNames, AdminEdits(name)
  PROVE  Covered'
  <1>1. PICK l \in NodeLists :
          /\ Exists(name) /\ rules[name].type = "node-affinity"
          /\ rules' = [rules EXCEPT ![name].nodes = l]
          /\ UNCHANGED <<class, phase, pc, work, host, online>>
    BY DEF AdminEdits, syncVars
  <1>2. rules[name] \in RealRule
    BY <1>1, ExistsShape
  <1>3. PICK rule \in RealRule :
          /\ rules' = [rules EXCEPT ![name] = rule]
          /\ rule.members = rules[name].members /\ rule.type = rules[name].type
          /\ rule.affinity = rules[name].affinity
    <2> DEFINE r == [rules[name] EXCEPT !.nodes = l]
    <2>1. /\ r \in RealRule
          /\ r.members = rules[name].members /\ r.type = rules[name].type
          /\ r.affinity = rules[name].affinity
      BY <1>2 DEF RealRule, Rule
    <2>2. rules' = [rules EXCEPT ![name] = r]
      BY <1>1
    <2> QED BY <2>1, <2>2
  <1>4. \A x \in RuleNames : rules'[x] = IF x = name THEN rule ELSE rules[x]
    BY <1>3 DEF RulesInv
  <1>5. \A x \in RuleNames : AbsMembers(x)' = AbsMembers(x) /\ Exists(x)' = Exists(x)
    BY <1>1, <1>2, <1>3, <1>4, NoRuleAssumption DEF AbsMembers, Exists, RealRule
  <1>6. \A x \in RuleNames : Exists(x) => /\ rules'[x].members = rules[x].members
                                          /\ rules'[x].type = rules[x].type
                                          /\ rules'[x].affinity = rules[x].affinity
    BY <1>3, <1>4
  <1>7. Registered' = Registered /\ Left' = Left /\ \A s : InSet(s)' = InSet(s)
    BY <1>1 DEF Registered, Left, InSet
  <1>8. RuleShape'
    BY <1>1, <1>5, <1>6, <1>7 DEF RuleShape, Covered, SetRules
  <1>9. Unsearched /\ Unlisted /\ LifeShape'
    BY <1>1 DEF Unsearched, Unlisted, Looking, LifeShape, Covered
  <1>10. Search'
    BY <1>1, <1>9, SearchKeeps DEF Covered
  <1>11. \A job : Passed(job)' = Passed(job)
    BY <1>1 DEF Passed
  <1> QED BY <1>1, <1>5, <1>7, <1>8, <1>9, <1>10, <1>11, StillCovered

LEMMA StepCovers ==
  ASSUME IsFiniteSet(Resources), IsFiniteSet(Nodes), MemberInv, RulesApart, Covered,
         [Next]_vars, calm'
  PROVE  Covered'
  <1>0. SyncInv /\ RulesInv /\ WorldInv /\ online = Nodes
    BY DEF MemberInv, Covered, LifeShape
  <1>1. CASE \E m \in Machines :
               \/ Sync(m) \/ RegisterHA(m) \/ Teardown(m) \/ DeleteVM(m) \/ Fails(m)
    <2>1. PICK m \in Machines :
            \/ Sync(m) \/ RegisterHA(m) \/ Teardown(m) \/ DeleteVM(m) \/ Fails(m)
      BY <1>1
    <2>2. CASE Fails(m)
      <3>1. Abandon(m) /\ UNCHANGED <<class, phase, rules, host, online>>
        BY <2>2 DEF Fails
      <3> QED BY <1>0, <3>1, AbandonTurns, IdleTurn
    <2> QED BY <1>0, <2>1, <2>2, SyncCovers, RegisterCovers, TeardownCovers,
               DeleteCovers
  <1>2. CASE \E name \in RuleNames : AdminEdits(name)
    BY <1>0, <1>2, EditCovers
  <1>3. CASE UNCHANGED vars
    <2>1. UNCHANGED <<class, phase, pc, work, rules, host, online>>
      BY <1>3 DEF vars, syncVars, worldVars
    <2>2. /\ Unsearched /\ Unlisted /\ LifeShape'
          /\ Registered' = Registered /\ Left' = Left
      BY <2>1 DEF Unsearched, Unlisted, Looking, LifeShape, Covered, Registered, Left
    <2>3. RuleShape' /\ \A name : AbsMembers(name)' = AbsMembers(name)
      BY <2>1, <2>2, SameRules DEF Covered
    <2>4. Search'
      BY <2>1, <2>2, SearchKeeps DEF Covered
    <2>5. \A job : Passed(job)' = Passed(job)
      BY <2>1 DEF Passed
    <2> QED BY <1>0, <2>1, <2>2, <2>3, <2>4, <2>5, StillCovered
  <1>4. ~(\E name \in RuleNames : AdminDeletes(name))
    BY DEF AdminDeletes
  <1>5. ~(\E m \in Machines, n \in Nodes : MigrateVM(m, n))
    BY DEF MigrateVM
  <1>6. ~(\E n \in Nodes : NodeDown(n) \/ NodeUp(n))
    BY <1>0 DEF NodeDown, NodeUp
  <1> QED BY <1>1, <1>2, <1>3, <1>4, <1>5, <1>6 DEF Next

LEMMA StaysCalm ==
  ASSUME MemberInv, [Next]_vars, calm'
  PROVE  calm
  <1>1. ASSUME NEW m \in Machines, Sync(m) PROVE UNCHANGED calm
    BY <1>1 DEF Sync, BeginSync, CreateNodeRule, GetRule, UpdateRule, ListResources,
                ListNodes, ListVMs, CreateSetRule, EndSync, worldVars
  <1>2. ASSUME NEW m \in Machines, RegisterHA(m) \/ Teardown(m) \/ Fails(m)
        PROVE  UNCHANGED calm
    BY <1>2 DEF RegisterHA, Teardown, Fails, worldVars
  <1>3. ASSUME NEW m \in Machines, DeleteVM(m) PROVE calm
    BY <1>3 DEF DeleteVM
  <1>4. ASSUME UNCHANGED vars PROVE UNCHANGED calm
    BY <1>4 DEF vars, worldVars
  <1> QED BY <1>1, <1>2, <1>3, <1>4
          DEF Next, AdminEdits, AdminDeletes, MigrateVM, NodeDown, NodeUp

LEMMA StartCovers ==
  ASSUME RulesApart, OneNegativeClass, Init
  PROVE  Covered
  <1>1. PICK s \in Scenarios : class = s.class /\ rules = s.rules
    BY DEF Init
  <1>2. /\ online = Nodes
        /\ \A m \in Machines : phase[m] = "created" /\ pc[m] = "idle"
    BY DEF Init
  <1>3. /\ rules \in [RuleNames -> {NoRule}
                        \cup {r \in Rule : r.members \in (SUBSET Foreign) \ {{}}}]
        /\ \A name \in SetRules : ~Exists(name)
    BY <1>1, ScenariosAssumption DEF RulesApart, Exists
  <1>4. Looking = {} /\ \A job : Passed(job) = {}
    BY <1>2 DEF Looking, Passed
  <1>5. LifeShape
    BY <1>1, <1>2 DEF LifeShape, OneNegativeClass
  <1>6. RuleShape
    <2> SUFFICES ASSUME NEW name \in RuleNames, Exists(name)
                 PROVE  name \notin SetRules /\ rules[name].members \cap Foreign # {}
      BY DEF RuleShape, SetRules
    <2>1. rules[name].members \in (SUBSET Foreign) \ {{}}
      BY <1>3 DEF Exists
    <2> QED BY <1>3, <2>1
  <1>7. Joined /\ Search
    BY <1>4 DEF Joined, Search
  <1>8. ASSUME NEW t \in Sets PROVE SetInv(t)
    <2>1. AbsMembers(ResourceRule[t]) = {}
      BY <1>3 DEF AbsMembers, SetRules
    <2> QED BY <1>4, <2>1 DEF SetInv
  <1> QED BY <1>5, <1>6, <1>7, <1>8 DEF Covered

\* Whoever is synced is done with all its jobs.
LEMMA SharingPassed ==
  ASSUME NEW m \in Machines, NEW job
  PROVE  Sharing(m, job) \subseteq Passed(job)
  BY DEF Sharing, Passed

LEMMA CoveredMeans ==
  ASSUME SyncInv, RulesInv, RulesApart, Covered
  PROVE  SyncedIsCovered
  <1> SUFFICES ASSUME NEW m \in Machines, phase[m] = "synced",
                      NEW j \in DOMAIN Jobs(class[m]),
                      NEW job, job = Jobs(class[m])[j]
               PROVE  \/ job.kind = "resource-affinity" /\ Sharing(m, job) = {m}
                      \/ /\ job.kind = "resource-affinity"
                         /\ Infeasible(class[m].affinity,
                                       {q \in Machines : class[q] = class[m]})
                      \/ /\ Exists(job.rule)
                         /\ Sharing(m, job) \subseteq rules[job.rule].members
    BY DEF SyncedIsCovered
  <1>1. m \in Sharing(m, job) /\ Sharing(m, job) \subseteq Passed(job)
    BY SharingPassed DEF Sharing
  <1>2. PICK name \in RuleNames : name = job.rule
    BY JobTyped DEF SyncInv
  <1>3. Sharing(m, job) \subseteq AbsMembers(name) =>
          /\ Exists(job.rule) /\ Sharing(m, job) \subseteq rules[job.rule].members
    BY <1>1, <1>2, ExistsShape
  <1>4. CASE job.kind # "resource-affinity"
    <2>1. ASSUME NEW q \in Sharing(m, job) PROVE q \in AbsMembers(name)
      <3>1. q \in Machines /\ q \in Passed(job)
        BY <1>1 DEF Sharing
      <3>2. PICK i \in DOMAIN Jobs(class[q]) : Jobs(class[q])[i] = job
        BY DEF Sharing
      <3> QED BY <1>2, <1>4, <3>1, <3>2 DEF Joined, Covered
    <2> QED BY <1>3, <2>1
  <1>5. CASE job.kind = "resource-affinity"
    <2>1. PICK s \in Sets : s = class[m].set /\ job = SetJob(s)
      BY <1>5, JobApart DEF SyncInv
    <2>2. CASE TooMany(s)
      <3>1. PICK x \in InSet(s) :
              /\ class[x].ha /\ class[x].affinity = "negative"
              /\ Cardinality({q \in Machines : class[q] = class[x]})
                   > Cardinality(Nodes)
        BY <2>2 DEF TooMany
      <3>2. x \in Machines /\ class[x].set = s /\ s # NoSet
        BY NoSetAssumption DEF InSet
      <3>3. class[m].ha /\ online = Nodes
        BY DEF LifeShape, Covered
      <3>4. class[m] = class[x]
        BY <2>1, <3>1, <3>2, <3>3 DEF LifeShape, Covered
      <3> QED BY <1>5, <3>1, <3>3, <3>4 DEF Infeasible
    <2>3. CASE SetInv(s)
      <3>1. name = ResourceRule[s]
        BY <1>2, <2>1 DEF SetJob
      <3>2. /\ AbsMembers(name) # {} => Passed(job) \subseteq AbsMembers(name)
            /\ AbsMembers(name) = {} => \A a, b \in Passed(job) : a = b
        BY <2>1, <2>3, <3>1 DEF SetInv
      <3> QED BY <1>1, <1>3, <1>5, <3>2
    <2> QED BY <2>2, <2>3 DEF Covered
  <1> QED BY <1>4, <1>5

\* While no rule is deleted, no VM moves, no node goes offline and no sync
\* overlooks a member that is deleted under it, a machine whose sync has
\* succeeded is in the rules of its class: in its resource-affinity rule as soon
\* as a second machine of its set has synced, whatever calls fail and are run
\* again, whoever joins and leaves meanwhile and in whatever order two machines
\* list the resources, look for each other's VMs and found the rule.  Taken for
\* granted: ruleName gives every set rules of its own, that no class lists, and
\* the machines of a set that keeps them apart have one class.
THEOREM SyncedIsCoveredHolds ==
  ASSUME IsFiniteSet(Resources), IsFiniteSet(Nodes), RulesApart, OneNegativeClass
  PROVE  Spec => []SyncedIsCovered
  <1>1. Init => CoverInv
    BY StartInv, StartCovers DEF CoverInv
  <1>2. CoverInv /\ [Next]_vars => CoverInv'
    BY MemberNext, StepCovers, StaysCalm DEF CoverInv
  <1>3. CoverInv => SyncedIsCovered
    <2>1. ~calm => SyncedIsCovered
      BY DEF SyncedIsCovered
    <2> QED BY <2>1, CoveredMeans DEF CoverInv, MemberInv
  <1> QED BY <1>1, <1>2, <1>3, PTL DEF Spec

=============================================================================
