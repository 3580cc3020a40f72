--------------------------- MODULE Scheduler_proofs ---------------------------
(* Proofs about Scheduler. *)
EXTENDS Scheduler, FiniteSetTheorems, TLAPS

\* The control state and the nodes that are recorded, chosen and reserved.  What
\* a status counts does not matter here.
Shape ==
  /\ class \in [Requests -> Classes]
  /\ phase \in [Requests -> Phases]
  /\ node \in [Requests -> Nodes \cup {NoNode}]
  /\ pc \in [Requests -> {"idle", "listing", "picked"}]
  /\ choice \in [Requests -> Nodes \cup {NoNode}]
  /\ DOMAIN reservations \subseteq Requests
  /\ \A r \in DOMAIN reservations : reservations[r].node \in Nodes
  /\ online \subseteq Nodes

\* A snapshot and its statuses keep their fields and show nodes only.
HasFields(s) ==
  /\ DOMAIN s = {"status", "seen"}
  /\ DOMAIN s.status \subseteq Nodes
  /\ \A n \in DOMAIN s.status : DOMAIN s.status[n] = {"same", "total", "free"}

Snapshots ==
  /\ DOMAIN snapshot = Requests
  /\ \A r \in Requests : HasFields(snapshot[r])

\* A machine is placed by the scheduler once and before its tear-down goes on.
Stage ==
  \A r \in Requests :
    /\ pc[r] # "idle" => /\ phase[r] \in {"wanted", "tearingDown"}
                         /\ node[r] = NoNode
                         /\ class[r].pinned = NoNode
    /\ pc[r] # "picked" => choice[r] = NoNode

\* An entry belongs to a machine of a set that is not released, and is for the
\* node that is chosen or recorded for it.
Ledger ==
  \A r \in DOMAIN reservations :
    /\ phase[r] \notin {"released", "gone"}
    /\ class[r].set # NoSet /\ class[r].pinned = NoNode
    /\ reservations[r].set = class[r].set
    /\ node[r] \in {NoNode, reservations[r].node}
    /\ choice[r] \in {NoNode, reservations[r].node}

LedgerInv == Shape /\ Snapshots /\ Stage /\ Ledger

----------------------------------------------------------------------------
(* Steps. *)

LEMMA InitHolds == Init => LedgerInv
  <1> SUFFICES ASSUME Init PROVE LedgerInv
    OBVIOUS
  <1>1. class \in [Requests -> Classes]
    BY AssignmentsAssumption DEF Init
  <1>2. DOMAIN reservations = {} /\ online = Nodes
    BY DEF Init
  <1>3. DOMAIN snapshot = Requests /\ \A r \in Requests : snapshot[r] = NoSnapshot
    BY DEF Init
  <1>4. HasFields(NoSnapshot)
    BY DEF HasFields, NoSnapshot
  <1>5. Shape /\ Stage /\ Ledger
    BY <1>1, <1>2 DEF Init, Shape, Stage, Ledger, Phases
  <1> QED BY <1>3, <1>4, <1>5 DEF LedgerInv, Snapshots

LEMMA NoSnapshotFields == HasFields(NoSnapshot)
  BY DEF HasFields, NoSnapshot

\* One request's snapshot is replaced.
LEMMA Replaced ==
  ASSUME Snapshots, NEW r \in Requests, NEW s, HasFields(s),
         snapshot' = [snapshot EXCEPT ![r] = s]
  PROVE  Snapshots'
  BY DEF Snapshots

\* Two counts of one node's status are set, and VMs are seen.
Counted(s, n, total, same, vms) ==
  [s EXCEPT !.status[n].total = total, !.status[n].same = same,
            !.seen = @ \cup vms]

LEMMA TwoCounts ==
  ASSUME NEW s, HasFields(s), NEW n, NEW a, NEW b, NEW c,
         NEW t, t = Counted(s, n, a, b, c)
  PROVE  /\ HasFields(t) /\ DOMAIN t.status = DOMAIN s.status
         /\ \A k \in DOMAIN s.status :
              t.status[k].same = IF k = n THEN b ELSE s.status[k].same
         /\ t.seen = s.seen \cup c
  <1> DEFINE u == [s.status EXCEPT ![n].total = a]
             v == [u EXCEPT ![n].same = b]
  <1>1. /\ DOMAIN u = DOMAIN s.status
        /\ \A k \in DOMAIN u : /\ DOMAIN u[k] = {"same", "total", "free"}
                               /\ u[k].same = s.status[k].same
    BY DEF HasFields
  <1>2. /\ DOMAIN v = DOMAIN s.status
        /\ \A k \in DOMAIN v : /\ DOMAIN v[k] = {"same", "total", "free"}
                               /\ v[k].same = IF k = n THEN b ELSE s.status[k].same
    BY <1>1
  <1>3. DOMAIN t = {"status", "seen"} /\ t.status = v /\ t.seen = s.seen \cup c
    BY DEF HasFields, Counted
  <1> QED BY <1>2, <1>3 DEF HasFields

\* The VMs of one node are listed.
LEMMA Listed ==
  ASSUME Snapshots, NEW r \in Requests, ListVMs(r)
  PROVE  /\ Snapshots'
         /\ \A x \in Requests : x # r => snapshot'[x] = snapshot[x]
         /\ \E n \in online :
              LET tagged == TaggedOn(n, class[r].set)
                  old == snapshot[r].status
                  new == snapshot'[r].status
              IN /\ DOMAIN new = DOMAIN old
                 /\ \A k \in DOMAIN old :
                      new[k].same = IF k = n THEN Cardinality(tagged)
                                             ELSE old[k].same
                 /\ snapshot'[r].seen = snapshot[r].seen \cup tagged
  <1>1. PICK n \in online :
          LET tagged == TaggedOn(n, class[r].set) IN
          snapshot' =
            [snapshot EXCEPT
               ![r].status[n].total = Cardinality(VMsOn(n)),
               ![r].status[n].same = Cardinality(tagged),
               ![r].seen = @ \cup tagged]
    BY DEF ListVMs
  <1> DEFINE tagged == TaggedOn(n, class[r].set)
             new == Counted(snapshot[r], n, Cardinality(VMsOn(n)),
                            Cardinality(tagged), tagged)
  <1>2. /\ snapshot'[r] = new /\ DOMAIN snapshot' = Requests
        /\ \A x \in Requests : x # r => snapshot'[x] = snapshot[x]
    BY <1>1 DEF Snapshots, Counted
  <1>3. /\ HasFields(new) /\ DOMAIN new.status = DOMAIN snapshot[r].status
        /\ \A k \in DOMAIN snapshot[r].status :
             new.status[k].same = IF k = n THEN Cardinality(tagged)
                                           ELSE snapshot[r].status[k].same
        /\ new.seen = snapshot[r].seen \cup tagged
    <2>1. HasFields(snapshot[r])
      BY DEF Snapshots
    <2> QED BY <2>1, TwoCounts
  <1> HIDE DEF new
  <1>4. Snapshots'
    BY <1>2, <1>3 DEF Snapshots
  <1> QED BY <1>2, <1>3, <1>4

LEMMA SnapshotsNext == LedgerInv /\ [Next]_vars => Snapshots'
  <1> SUFFICES ASSUME LedgerInv, [Next]_vars PROVE Snapshots'
    OBVIOUS
  <1>0. Snapshots /\ online \subseteq Nodes
    BY DEF LedgerInv, Shape
  <1>1. ASSUME NEW r \in Requests, ListNodes(r) PROVE Snapshots'
    <2> DEFINE st == [n \in online |->
                        [same |-> 0, total |-> 0, free |-> FreeMem(n)]]
               s == [snapshot[r] EXCEPT !.status = st]
    <2>1. snapshot' = [snapshot EXCEPT ![r] = s]
      BY <1>0, <1>1 DEF ListNodes, Snapshots
    <2>2. /\ DOMAIN st = online
          /\ \A n \in online : DOMAIN st[n] = {"same", "total", "free"}
      OBVIOUS
    <2> HIDE DEF st
    <2>3. HasFields(s)
      BY <1>0, <2>2 DEF Snapshots, HasFields
    <2> HIDE DEF s
    <2> QED BY <1>0, <2>1, <2>3, Replaced
  <1>2. ASSUME NEW r \in Requests, ListVMs(r) PROVE Snapshots'
    BY <1>0, <1>2, Listed
  <1>3. ASSUME NEW r \in Requests,
               Pick(r) \/ PickAlone(r) \/ Commit(r) \/ StepFails(r)
        PROVE  Snapshots'
    BY <1>0, <1>3, NoSnapshotFields, Replaced
       DEF Pick, PickAlone, Commit, StepFails, EndStep
  <1>4. CASE Restart
    BY <1>4, NoSnapshotFields DEF Restart, Snapshots
  <1>5. ASSUME UNCHANGED snapshot PROVE Snapshots'
    BY <1>0, <1>5 DEF Snapshots
  <1>6. ASSUME NEW r \in Requests,
               \/ UsePinned(r) \/ Release(r) \/ DeleteVM(r)
               \/ CreateVM(r) \/ RequestTeardown(r)
        PROVE  UNCHANGED snapshot
    BY <1>6 DEF UsePinned, Release, DeleteVM, CreateVM, RequestTeardown, stepVars
  <1>7. CASE (\E n \in Unstable : NodeChanges(n)) \/ Tick \/ UNCHANGED vars
    BY <1>5, <1>7 DEF NodeChanges, Tick, vars, stepVars
  <1> QED BY <1>1, <1>2, <1>3, <1>4, <1>5, <1>6, <1>7 DEF Next

\* The scheduler answers a node it was shown.
LEMMA Shown ==
  ASSUME Snapshots, NEW r \in Requests, NEW ledger, NEW n \in Placements(r, ledger)
  PROVE  n \in DOMAIN snapshot[r].status /\ n \in Nodes
  BY DEF Placements, SelectNode, Adjusted, Snapshots, HasFields

LEMMA ShownAlone ==
  ASSUME Snapshots, NEW r \in Requests,
         NEW n \in SelectNode("spread", snapshot[r].status, class[r].memory)
  PROVE  n \in Nodes
  BY DEF SelectNode, Snapshots, HasFields

\* What pick does to one request and to the ledger.
Places(r, n) ==
  /\ n \in Placements(r, Purged(snapshot[r].seen)) /\ n \in Nodes
  /\ choice' = [choice EXCEPT ![r] = n]
  /\ DOMAIN reservations' = DOMAIN Purged(snapshot[r].seen) \cup {r}
  /\ reservations'[r].node = n /\ reservations'[r].set = class[r].set
  /\ \A q \in DOMAIN reservations' \ {r} :
       q \in DOMAIN reservations /\ reservations'[q] = reservations[q]

LEMMA PickEffect ==
  ASSUME Snapshots, NEW r \in Requests, Pick(r)
  PROVE  \E n \in Nodes : Places(r, n)
  <1> DEFINE ledger == Purged(snapshot[r].seen)
  <1>1. PICK n \in Placements(r, ledger) :
          /\ choice' = [choice EXCEPT ![r] = n]
          /\ reservations' = [q \in DOMAIN ledger \cup {r} |->
               IF q = r THEN NewReservation(r, n) ELSE ledger[q]]
    BY DEF Pick
  <1>2. n \in Nodes
    BY Shown
  <1>3. \A q \in DOMAIN ledger :
          q \in DOMAIN reservations /\ ledger[q] = reservations[q]
    BY DEF Purged
  <1>4. /\ NewReservation(r, n).node = n
        /\ NewReservation(r, n).set = class[r].set
    BY DEF NewReservation
  <1> HIDE DEF ledger
  <1>5. /\ DOMAIN reservations' = DOMAIN ledger \cup {r}
        /\ reservations'[r].node = n /\ reservations'[r].set = class[r].set
        /\ \A q \in DOMAIN reservations' \ {r} : reservations'[q] = ledger[q]
    BY <1>1, <1>4
  <1> QED BY <1>1, <1>2, <1>3, <1>5 DEF ledger, Places

LEMMA LedgerNext == LedgerInv /\ [Next]_vars => LedgerInv'
  <1> SUFFICES ASSUME LedgerInv, [Next]_vars PROVE Shape' /\ Stage' /\ Ledger'
    BY SnapshotsNext DEF LedgerInv
  <1>0. Shape /\ Snapshots /\ Stage /\ Ledger
    BY DEF LedgerInv
  <1> USE <1>0 DEF Shape, Stage, Ledger, Phases
  <1>1. ASSUME NEW r \in Requests, UsePinned(r) PROVE Shape' /\ Stage' /\ Ledger'
    BY <1>1, NoNodeAssumption DEF UsePinned, ToPlace, stepVars, worldVars
  <1>2. ASSUME NEW r \in Requests, ListNodes(r) \/ ListVMs(r)
        PROVE  Shape' /\ Stage' /\ Ledger'
    <2>1. /\ UNCHANGED <<class, phase, node, choice, reservations, online>>
          /\ \/ UNCHANGED pc
             \/ /\ phase[r] = "wanted" /\ node[r] = NoNode /\ class[r].pinned = NoNode
                /\ pc' = [pc EXCEPT ![r] = "listing"] /\ pc[r] = "idle"
      BY <1>2 DEF ListNodes, ListVMs, ToPlace, requestVars, worldVars
    <2> QED BY <2>1
  <1>3. ASSUME NEW r \in Requests, Pick(r) PROVE Shape' /\ Stage' /\ Ledger'
    <2>1. PICK n \in Nodes : Places(r, n)
      BY <1>3, PickEffect
    <2>2. /\ pc[r] = "listing" /\ class[r].set # NoSet
          /\ pc' = [pc EXCEPT ![r] = "picked"]
          /\ UNCHANGED <<class, phase, node, online>>
      BY <1>3 DEF Pick, requestVars, worldVars
    <2> QED BY <2>1, <2>2 DEF Places
  <1>4. ASSUME NEW r \in Requests, PickAlone(r) PROVE Shape' /\ Stage' /\ Ledger'
    <2>1. PICK n \in Nodes : choice' = [choice EXCEPT ![r] = n]
      BY <1>4, ShownAlone DEF PickAlone
    <2>2. /\ pc[r] = "listing" /\ class[r].set = NoSet
          /\ pc' = [pc EXCEPT ![r] = "picked"]
          /\ UNCHANGED <<class, phase, node, online, reservations>>
      BY <1>4 DEF PickAlone, requestVars, worldVars
    <2> QED BY <2>1, <2>2
  <1>5. ASSUME NEW r \in Requests, Commit(r) \/ StepFails(r)
        PROVE  Shape' /\ Stage' /\ Ledger'
    BY <1>5 DEF Commit, StepFails, EndStep, requestVars, worldVars
  <1>6. ASSUME NEW r \in Requests, Release(r) PROVE Shape' /\ Stage' /\ Ledger'
    BY <1>6 DEF Release, stepVars, worldVars
  <1>7. ASSUME NEW r \in Requests, DeleteVM(r) \/ CreateVM(r) \/ RequestTeardown(r)
        PROVE  Shape' /\ Stage' /\ Ledger'
    BY <1>7 DEF DeleteVM, CreateVM, RequestTeardown, requestVars, stepVars,
       worldVars
  <1>8. ASSUME NEW n \in Unstable, NodeChanges(n) PROVE Shape' /\ Stage' /\ Ledger'
    BY <1>8, UnstableAssumption DEF NodeChanges, requestVars, stepVars
  <1>9. CASE Tick \/ UNCHANGED vars
    BY <1>9 DEF Tick, vars, requestVars, stepVars, worldVars
  <1>10. CASE Restart
    BY <1>10 DEF Restart, requestVars, worldVars
  <1> QED BY <1>1, <1>2, <1>3, <1>4, <1>5, <1>6, <1>7, <1>8, <1>9, <1>10 DEF Next

\* A request whose tear-down has released it holds no reservation: a step that
\* still runs for it cannot take one.
THEOREM NoStrandedReservationHolds == Spec => []NoStrandedReservation
  <1>1. LedgerInv => NoStrandedReservation
    BY DEF LedgerInv, Ledger, NoStrandedReservation
  <1> QED BY InitHolds, LedgerNext, <1>1, PTL DEF Spec

\* A reservation of a machine that is placed is for the node it is placed on,
\* through lost records, restarts and entries that expire.
THEOREM LedgerMatchesRecordHolds == Spec => []LedgerMatchesRecord
  <1>1. LedgerInv => LedgerMatchesRecord
    BY DEF LedgerInv, Ledger, LedgerMatchesRecord
  <1> QED BY InitHolds, LedgerNext, <1>1, PTL DEF Spec

----------------------------------------------------------------------------
(* The sums of memory. *)

\* A least element replaces induction, whose theorem takes a predicate.
LEMMA LeastNatural ==
  ASSUME NEW T \in SUBSET Nat, T # {}
  PROVE  \E n \in T : \A k \in T : n <= k
  <1>1. \E n \in T : \A k \in T : ~(<<k, n>> \in OpToRel(<, Nat))
    BY NatLessThanWellFounded, WFMin
  <1>2. PICK n \in T : \A k \in T : ~(<<k, n>> \in OpToRel(<, Nat))
    BY <1>1
  <1>3. \A k \in T : ~(k < n)
    BY <1>2 DEF OpToRel
  <1> QED BY <1>3

\* The element a fold takes from a set next, and the set that is left.
Chosen(s) == CHOOSE x \in s : TRUE

Rest(s) == s \ {Chosen(s)}

LEMMA RestSmaller ==
  ASSUME NEW S, IsFiniteSet(S), NEW s \in SUBSET S, s # {}
  PROVE  /\ Chosen(s) \in s /\ Rest(s) \in SUBSET S
         /\ Cardinality(s) \in Nat /\ Cardinality(Rest(s)) \in Nat
         /\ Cardinality(s) = Cardinality(Rest(s)) + 1
  <1>1. Chosen(s) \in s
    BY DEF Chosen
  <1>2. IsFiniteSet(s)
    BY FS_Subset
  <1>3. /\ IsFiniteSet(s \ {Chosen(s)})
        /\ Cardinality(s \ {Chosen(s)}) = Cardinality(s) - 1
    BY <1>1, <1>2, FS_RemoveElement
  <1>4. Cardinality(s) \in Nat /\ Cardinality(s \ {Chosen(s)}) \in Nat
    BY <1>2, <1>3, FS_CardinalityType
  <1> QED BY <1>1, <1>3, <1>4 DEF Rest

\* g has the sum of the weights w[s] of the chosen elements on every subset.
Sums(S, w, g) ==
  [s \in SUBSET S |-> IF s = {} THEN 0 ELSE w[s] + g[Rest(s)]]

SumsUpTo(S, w, g, n) ==
  \A s \in SUBSET S : Cardinality(s) <= n => g[s] = Sums(S, w, g)[s]

SummedUpTo(S, w, n) ==
  \E g : g = [s \in SUBSET S |-> g[s]] /\ SumsUpTo(S, w, g, n)

\* A sum is defined on every subset of a finite set: up to no cardinality can
\* one be lacking first.
LEMMA SumExists ==
  ASSUME NEW S, IsFiniteSet(S), NEW w
  PROVE  \E g : g = Sums(S, w, g)
  <1> DEFINE Bad == {n \in Nat : ~SummedUpTo(S, w, n)}
  <1>1. Bad = {}
    <2> SUFFICES ASSUME Bad # {} PROVE FALSE
      OBVIOUS
    <2>1. PICK n \in Bad : \A k \in Bad : n <= k
      BY LeastNatural
    <2>2. n # 0
      <3> DEFINE g == [s \in SUBSET S |-> 0]
      <3>1. ASSUME NEW s \in SUBSET S, Cardinality(s) <= 0 PROVE s = {}
        BY <3>1, FS_Subset, FS_EmptySet, FS_CardinalityType
      <3>2. SumsUpTo(S, w, g, 0)
        BY <3>1 DEF SumsUpTo, Sums
      <3>3. g = [s \in SUBSET S |-> g[s]]
        OBVIOUS
      <3> HIDE DEF g
      <3>4. SummedUpTo(S, w, 0)
        BY <3>2, <3>3 DEF SummedUpTo
      <3> QED BY <2>1, <3>4
    <2>3. n \in Nat /\ n - 1 \in Nat /\ n - 1 \notin Bad
      BY <2>1, <2>2
    <2>4. PICK g : SumsUpTo(S, w, g, n - 1)
      BY <2>3 DEF SummedUpTo
    <2> DEFINE h == Sums(S, w, g)
    <2>5. h = [s \in SUBSET S |-> h[s]]
      BY DEF Sums
    <2>6. ASSUME NEW s \in SUBSET S, Cardinality(s) <= n
          PROVE  h[s] = Sums(S, w, h)[s]
      <3>1. CASE s = {}
        BY <3>1 DEF Sums
      <3>2. CASE s # {}
        <4>1. Rest(s) \in SUBSET S /\ Cardinality(Rest(s)) <= n - 1
          BY <2>3, <2>6, <3>2, RestSmaller
        <4>2. g[Rest(s)] = h[Rest(s)]
          BY <2>4, <4>1 DEF SumsUpTo
        <4>3. h[s] = w[s] + g[Rest(s)]
          BY <3>2 DEF Sums
        <4> HIDE DEF h
        <4> QED BY <3>2, <4>2, <4>3 DEF Sums
      <3> QED BY <3>1, <3>2
    <2> HIDE DEF h
    <2>7. SumsUpTo(S, w, h, n)
      BY <2>6 DEF SumsUpTo
    <2> QED BY <2>1, <2>5, <2>7 DEF SummedUpTo
  <1>2. Cardinality(S) \in Nat
    BY FS_CardinalityType
  <1>3. PICK g : g = [s \in SUBSET S |-> g[s]] /\ SumsUpTo(S, w, g, Cardinality(S))
    BY <1>1, <1>2 DEF SummedUpTo
  <1>4. \A s \in SUBSET S : g[s] = Sums(S, w, g)[s]
    BY <1>3, FS_Subset DEF SumsUpTo
  <1>5. g = Sums(S, w, g)
    BY <1>3, <1>4 DEF Sums
  <1> QED BY <1>5

\* A sum of naturals is a natural: no set of least cardinality can be an
\* exception.
LEMMA SumNatural ==
  ASSUME NEW S, IsFiniteSet(S), NEW w,
         \A s \in SUBSET S : s # {} => w[s] \in Nat, NEW g, g = Sums(S, w, g)
  PROVE  g[S] \in Nat
  <1> DEFINE Bad == {n \in Nat :
                       \E s \in SUBSET S : Cardinality(s) = n /\ g[s] \notin Nat}
  <1>1. Bad = {}
    <2> SUFFICES ASSUME Bad # {} PROVE FALSE
      OBVIOUS
    <2>1. PICK n \in Bad : \A k \in Bad : n <= k
      BY LeastNatural
    <2>2. PICK s \in SUBSET S : Cardinality(s) = n /\ g[s] \notin Nat
      BY <2>1
    <2>3. g[s] = IF s = {} THEN 0 ELSE w[s] + g[Rest(s)]
      BY DEF Sums
    <2>4. s # {}
      BY <2>2, <2>3
    <2>5. /\ Rest(s) \in SUBSET S /\ Cardinality(Rest(s)) \in Nat
          /\ Cardinality(Rest(s)) < n
      BY <2>2, <2>4, RestSmaller
    <2>6. g[Rest(s)] \in Nat
      BY <2>1, <2>5
    <2> QED BY <2>2, <2>3, <2>4, <2>6
  <1> QED BY <1>1, FS_CardinalityType

\* The sums that MemoryOf takes, as a fold defines them.
MemorySums(S, g) ==
  [s \in SUBSET S |-> IF s = {} THEN 0
                      ELSE class[Chosen(s)].memory + g[Rest(s)]]

IsMemorySum(S, g) == g = MemorySums(S, g)

LEMMA MemoryNatural ==
  ASSUME NEW S, IsFiniteSet(S), \A r \in S : class[r].memory \in Nat
  PROVE  MemoryOf(S) \in Nat
  <1> DEFINE w == [s \in SUBSET S |-> class[Chosen(s)].memory]
             sum == CHOOSE g : IsMemorySum(S, g)
  <1>1. \A g : MemorySums(S, g) = Sums(S, w, g)
    BY DEF Sums, MemorySums
  <1>2. \E g : g = MemorySums(S, g)
    <2>1. PICK g : g = Sums(S, w, g)
      BY SumExists
    <2> HIDE DEF w
    <2> QED BY <1>1, <2>1
  <1>3. IsMemorySum(S, sum)
    <2>1. \E g : IsMemorySum(S, g)
      BY <1>2 DEF IsMemorySum
    <2> QED BY <2>1
  <1>4. MemoryOf(S) = sum[S]
    BY DEF MemoryOf, MapThenSumSet, MapThenFoldSet, Chosen, Rest, MemorySums,
       IsMemorySum
  <1>5. \A s \in SUBSET S : s # {} => w[s] \in Nat
    BY DEF Chosen
  <1> HIDE DEF sum, w
  <1> QED BY <1>1, <1>3, <1>4, <1>5, SumNatural DEF IsMemorySum

----------------------------------------------------------------------------
(* Types. *)

LEMMA FreeMemNatural ==
  ASSUME IsFiniteSet(Requests), class \in Assignments, NEW n \in Nodes
  PROVE  FreeMem(n) \in Nat
  <1>1. IsFiniteSet(VMsOn(n))
    BY FS_Subset DEF VMsOn
  <1>2. \A r \in VMsOn(n) : class[r].memory \in Nat
    BY AssignmentsAssumption, ClassesAssumption DEF VMsOn
  <1>3. MemoryOf(VMsOn(n)) \in Nat
    BY <1>1, <1>2, MemoryNatural
  <1>4. MaxMem[n] \in Nat
    BY MaxMemAssumption
  <1> QED BY <1>3, <1>4 DEF FreeMem, Monus

LEMMA CountNatural ==
  ASSUME IsFiniteSet(Requests), NEW n, NEW s
  PROVE  /\ Cardinality(VMsOn(n)) \in Nat /\ Cardinality(TaggedOn(n, s)) \in Nat
         /\ TaggedOn(n, s) \subseteq Requests
  <1>1. VMsOn(n) \subseteq Requests /\ TaggedOn(n, s) \subseteq Requests
    BY DEF VMsOn, TaggedOn
  <1> QED BY <1>1, FS_Subset, FS_CardinalityType

LEMMA CountedTyped ==
  ASSUME NEW s, HasFields(s), IsSnapshot(s), NEW n, NEW a \in Nat, NEW b \in Nat,
         NEW c \in SUBSET Requests, NEW t, t = Counted(s, n, a, b, c)
  PROVE  IsSnapshot(t)
  <1> DEFINE u == [s.status EXCEPT ![n].total = a]
             v == [u EXCEPT ![n].same = b]
  <1>1. DOMAIN u = DOMAIN s.status /\ \A k \in DOMAIN u : u[k] \in NodeStatus
    BY DEF IsSnapshot, NodeStatus
  <1>2. DOMAIN v = DOMAIN s.status /\ \A k \in DOMAIN v : v[k] \in NodeStatus
    BY <1>1 DEF NodeStatus
  <1>3. t.status = v /\ t.seen = s.seen \cup c
    BY DEF HasFields, Counted
  <1> QED BY <1>2, <1>3 DEF IsSnapshot

IsSnapshots == \A r \in Requests : IsSnapshot(snapshot[r])

LEMMA NoSnapshotTyped == IsSnapshot(NoSnapshot)
  BY DEF IsSnapshot, NoSnapshot

LEMMA SnapshotsTyped ==
  ASSUME IsFiniteSet(Requests), LedgerInv, TypeOK, [Next]_vars
  PROVE  IsSnapshots'
  <1>0. /\ DOMAIN snapshot = Requests /\ \A r \in Requests : HasFields(snapshot[r])
        /\ \A r \in Requests : IsSnapshot(snapshot[r])
        /\ class \in Assignments /\ online \subseteq Nodes
    BY DEF LedgerInv, Snapshots, TypeOK
  <1>1. ASSUME NEW r \in Requests, NEW s, IsSnapshot(s),
               snapshot' = [snapshot EXCEPT ![r] = s]
        PROVE  IsSnapshots'
    BY <1>0, <1>1 DEF IsSnapshots, IsSnapshot
  <1>2. ASSUME NEW r \in Requests, ListNodes(r) PROVE IsSnapshots'
    <2> DEFINE st == [n \in online |->
                        [same |-> 0, total |-> 0, free |-> FreeMem(n)]]
               s == [snapshot[r] EXCEPT !.status = st]
    <2>1. snapshot' = [snapshot EXCEPT ![r] = s]
      BY <1>0, <1>2 DEF ListNodes
    <2>2. DOMAIN st = online /\ \A n \in online : st[n] \in NodeStatus
      BY <1>0, FreeMemNatural DEF NodeStatus
    <2> HIDE DEF st
    <2>3. s.status = st /\ s.seen = snapshot[r].seen
      BY <1>0 DEF HasFields
    <2> HIDE DEF s
    <2>4. IsSnapshot(s)
      BY <1>0, <2>2, <2>3 DEF IsSnapshot
    <2> QED BY <1>1, <2>1, <2>4
  <1>3. ASSUME NEW r \in Requests, ListVMs(r) PROVE IsSnapshots'
    <2>1. PICK n \in online :
            LET tagged == TaggedOn(n, class[r].set) IN
            snapshot' =
              [snapshot EXCEPT
                 ![r].status[n].total = Cardinality(VMsOn(n)),
                 ![r].status[n].same = Cardinality(tagged),
                 ![r].seen = @ \cup tagged]
      BY <1>3 DEF ListVMs
    <2> DEFINE tagged == TaggedOn(n, class[r].set)
               s == Counted(snapshot[r], n, Cardinality(VMsOn(n)),
                            Cardinality(tagged), tagged)
    <2>2. /\ snapshot'[r] = s
          /\ \A x \in Requests : x # r => snapshot'[x] = snapshot[x]
      BY <1>0, <2>1 DEF Counted
    <2>3. IsSnapshot(s)
      BY <1>0, CountNatural, CountedTyped
    <2> HIDE DEF s
    <2> QED BY <1>0, <2>2, <2>3 DEF IsSnapshots, IsSnapshot
  <1>4. ASSUME NEW r \in Requests,
               Pick(r) \/ PickAlone(r) \/ Commit(r) \/ StepFails(r)
        PROVE  IsSnapshots'
    BY <1>1, <1>4, NoSnapshotTyped DEF Pick, PickAlone, Commit, StepFails, EndStep
  <1>5. CASE Restart
    BY <1>5, NoSnapshotTyped DEF Restart, IsSnapshots, IsSnapshot
  <1>6. ASSUME UNCHANGED snapshot PROVE IsSnapshots'
    BY <1>0, <1>6 DEF IsSnapshots, IsSnapshot
  <1>7. ASSUME NEW r \in Requests,
               \/ UsePinned(r) \/ Release(r) \/ DeleteVM(r)
               \/ CreateVM(r) \/ RequestTeardown(r)
        PROVE  UNCHANGED snapshot
    BY <1>7 DEF UsePinned, Release, DeleteVM, CreateVM, RequestTeardown, stepVars
  <1>8. CASE (\E n \in Unstable : NodeChanges(n)) \/ Tick \/ UNCHANGED vars
    BY <1>6, <1>8 DEF NodeChanges, Tick, vars, stepVars
  <1> QED BY <1>2, <1>3, <1>4, <1>5, <1>6, <1>7, <1>8 DEF Next

Entries == \A r \in DOMAIN reservations : reservations[r] \in Reservation

LEMMA EntriesTyped ==
  ASSUME LedgerInv, TypeOK, [Next]_vars
  PROVE  Entries'
  <1>0. /\ Entries /\ class \in [Requests -> Classes] /\ now \in Nat
        /\ Snapshots
    BY TimeAssumption DEF TypeOK, Entries, LedgerInv, Shape
  <1>1. ASSUME DOMAIN reservations' \subseteq DOMAIN reservations,
               \A q \in DOMAIN reservations' : reservations'[q] = reservations[q]
        PROVE  Entries'
    BY <1>0, <1>1 DEF Entries, Reservation
  <1>2. ASSUME NEW r \in Requests, Pick(r) PROVE Entries'
    <2> DEFINE ledger == Purged(snapshot[r].seen)
    <2>1. PICK n \in Placements(r, ledger) :
            reservations' = [q \in DOMAIN ledger \cup {r} |->
              IF q = r THEN NewReservation(r, n) ELSE ledger[q]]
      BY <1>2 DEF Pick
    <2>2. \A q \in DOMAIN ledger : ledger[q] \in Reservation
      BY <1>0 DEF Purged, Entries
    <2>3. NewReservation(r, n) \in Reservation
      <3>1. n \in Nodes
        BY <1>0, Shown
      <3> QED BY <1>0, <3>1, ClassesAssumption DEF NewReservation, Reservation
    <2> HIDE DEF ledger
    <2>4. \A q \in DOMAIN reservations' : reservations'[q] \in Reservation
      BY <2>1, <2>2, <2>3
    <2> QED BY <2>4 DEF Entries, Reservation
  <1>3. ASSUME NEW r \in Requests, Release(r) PROVE Entries'
    BY <1>1, <1>3 DEF Release
  <1>4. CASE Restart
    BY <1>1, <1>4 DEF Restart
  <1>5. ASSUME NEW r \in Requests,
               \/ UsePinned(r) \/ ListNodes(r) \/ ListVMs(r) \/ PickAlone(r)
               \/ Commit(r) \/ StepFails(r) \/ DeleteVM(r) \/ CreateVM(r)
               \/ RequestTeardown(r)
        PROVE  Entries'
    BY <1>1, <1>5 DEF UsePinned, ListNodes, ListVMs, PickAlone, Commit,
       StepFails, DeleteVM, CreateVM, RequestTeardown
  <1>6. CASE (\E n \in Unstable : NodeChanges(n)) \/ Tick \/ UNCHANGED vars
    BY <1>1, <1>6 DEF NodeChanges, Tick, vars
  <1> QED BY <1>2, <1>3, <1>4, <1>5, <1>6 DEF Next

\* What is neither a snapshot nor the ledger.
World ==
  /\ class \in Assignments
  /\ todo \in [Requests -> SUBSET Nodes]
  /\ vmOn \in [Requests -> Nodes \cup {NoNode}]
  /\ now \in 0 .. MaxTime
  /\ forgotten \in BOOLEAN

\* What Shape says too.
Frame ==
  /\ phase \in [Requests -> Phases]
  /\ node \in [Requests -> Nodes \cup {NoNode}]
  /\ pc \in [Requests -> {"idle", "listing", "picked"}]
  /\ choice \in [Requests -> Nodes \cup {NoNode}]
  /\ DOMAIN reservations \in SUBSET Requests
  /\ online \in SUBSET Nodes

LEMMA TypeParts ==
  /\ TypeOK <=> Frame /\ World /\ IsSnapshots /\ Entries
  /\ TypeOK' <=> Frame' /\ World' /\ IsSnapshots' /\ Entries'
  BY DEF TypeOK, Frame, World, IsSnapshots, Entries

LEMMA ShapeFrame == (Shape => Frame) /\ (Shape' => Frame')
  BY DEF Shape, Frame

LEMMA WorldTyped ==
  ASSUME LedgerInv, World, [Next]_vars
  PROVE  World'
  <1>0. online \subseteq Nodes /\ MaxTime \in Nat
    BY TimeAssumption DEF LedgerInv, Shape
  <1> USE <1>0 DEF World
  <1>1. ASSUME NEW r \in Requests, UsePinned(r) \/ PickAlone(r) \/ Pick(r)
        PROVE  World'
    BY <1>1 DEF UsePinned, PickAlone, Pick, stepVars, requestVars, worldVars
  <1>2. ASSUME NEW r \in Requests,
               ListNodes(r) \/ ListVMs(r) \/ Commit(r) \/ StepFails(r)
        PROVE  World'
    BY <1>2 DEF ListNodes, ListVMs, Commit, StepFails, EndStep, requestVars,
       worldVars
  <1>3. ASSUME NEW r \in Requests,
               Release(r) \/ DeleteVM(r) \/ CreateVM(r) \/ RequestTeardown(r)
        PROVE  World'
    BY <1>3 DEF Release, DeleteVM, CreateVM, RequestTeardown, requestVars,
       stepVars, worldVars
  <1>4. ASSUME NEW n \in Unstable, NodeChanges(n) PROVE World'
    BY <1>4 DEF NodeChanges, requestVars, stepVars
  <1>5. CASE Tick
    BY <1>5 DEF Tick, requestVars, stepVars
  <1>6. CASE Restart
    BY <1>6 DEF Restart, requestVars, worldVars
  <1>7. CASE UNCHANGED vars
    BY <1>7 DEF vars, requestVars, stepVars, worldVars
  <1> QED BY <1>1, <1>2, <1>3, <1>4, <1>5, <1>6, <1>7 DEF Next

\* The state keeps its types: what a snapshot counts and how much memory it
\* shows free are natural numbers, whatever the machines on a node add up to,
\* and every entry of the ledger is one that pick made.
THEOREM TypeCorrect ==
  ASSUME IsFiniteSet(Requests)
  PROVE  Spec => []TypeOK
  <1>1. Init => LedgerInv /\ TypeOK
    <2> SUFFICES ASSUME Init PROVE TypeOK
      BY InitHolds
    <2>1. Shape
      BY InitHolds DEF LedgerInv
    <2>2. IsSnapshots
      BY NoSnapshotTyped DEF Init, IsSnapshots
    <2>3. Entries
      BY DEF Init, Entries
    <2>4. World
      <3>1. 0 \in 0 .. MaxTime
        BY TimeAssumption
      <3>2. /\ class \in Assignments /\ todo = [r \in Requests |-> {}]
            /\ vmOn = [r \in Requests |-> NoNode] /\ now = 0 /\ forgotten = FALSE
        BY DEF Init
      <3> QED BY <3>1, <3>2 DEF World
    <2> QED BY <2>1, <2>2, <2>3, <2>4, TypeParts, ShapeFrame
  <1>2. LedgerInv /\ TypeOK /\ [Next]_vars => (LedgerInv /\ TypeOK)'
    <2> SUFFICES ASSUME LedgerInv, TypeOK, [Next]_vars PROVE LedgerInv' /\ TypeOK'
      OBVIOUS
    <2>1. LedgerInv' /\ Shape'
      BY LedgerNext DEF LedgerInv
    <2>2. IsSnapshots' /\ Entries' /\ World'
      BY SnapshotsTyped, EntriesTyped, WorldTyped, TypeParts
    <2> QED BY <2>1, <2>2, TypeParts, ShapeFrame
  <1> QED BY <1>1, <1>2, PTL DEF Spec

----------------------------------------------------------------------------
(* The ledger keeps concurrent placements apart. *)

\* No VM of a set is ever seen: the list endpoint shows no tags.
Uncounted ==
  \A r \in Requests :
    /\ snapshot[r].seen = {}
    /\ \A n \in DOMAIN snapshot[r].status : snapshot[r].status[n].same = 0

\* The machines whose placement the ledger has to know of.
Scheduled ==
  {q \in Requests : /\ class[q].set # NoSet /\ class[q].pinned = NoNode
                    /\ phase[q] \in {"wanted", "tearingDown"}}

\* Unless an entry was lost, the ledger says of each of them what is chosen or
\* recorded for it.
Complete ==
  ~forgotten => \A q \in Scheduled, n \in Nodes :
    n \in {node[q], choice[q]}
      <=> q \in DOMAIN reservations /\ reservations[q].node = n

SpreadInv == LedgerInv /\ Uncounted /\ Complete

LEMMA NoTags ==
  ASSUME ListHasTag = FALSE, NEW n, NEW s
  PROVE  TaggedOn(n, s) = {} /\ Cardinality(TaggedOn(n, s)) = 0
  BY FS_EmptySet DEF TaggedOn

LEMMA UncountedNext ==
  ASSUME ListHasTag = FALSE, LedgerInv, Uncounted, [Next]_vars
  PROVE  Uncounted'
  <1>0. Snapshots
    BY DEF LedgerInv
  <1>n. /\ NoSnapshot.seen = {}
        /\ \A n \in DOMAIN NoSnapshot.status : NoSnapshot.status[n].same = 0
    BY DEF NoSnapshot
  <1>1. ASSUME NEW r \in Requests, ListNodes(r) PROVE Uncounted'
    <2> DEFINE st == [n \in online |->
                        [same |-> 0, total |-> 0, free |-> FreeMem(n)]]
               s == [snapshot[r] EXCEPT !.status = st]
    <2>1. /\ snapshot'[r] = s
          /\ \A x \in Requests : x # r => snapshot'[x] = snapshot[x]
      BY <1>0, <1>1 DEF ListNodes, Snapshots
    <2>2. DOMAIN st = online /\ \A n \in online : st[n].same = 0
      OBVIOUS
    <2> HIDE DEF st
    <2>3. s.status = st /\ s.seen = snapshot[r].seen
      BY <1>0 DEF Snapshots, HasFields
    <2> HIDE DEF s
    <2> QED BY <2>1, <2>2, <2>3 DEF Uncounted
  <1>2. ASSUME NEW r \in Requests, ListVMs(r) PROVE Uncounted'
    <2>1. PICK n \in online :
            LET tagged == TaggedOn(n, class[r].set)
                old == snapshot[r].status
                new == snapshot'[r].status
            IN /\ DOMAIN new = DOMAIN old
               /\ \A k \in DOMAIN old :
                    new[k].same = IF k = n THEN Cardinality(tagged)
                                           ELSE old[k].same
               /\ snapshot'[r].seen = snapshot[r].seen \cup tagged
      BY <1>0, <1>2, Listed
    <2>2. \A x \in Requests : x # r => snapshot'[x] = snapshot[x]
      BY <1>0, <1>2, Listed
    <2>3. /\ TaggedOn(n, class[r].set) = {}
          /\ Cardinality(TaggedOn(n, class[r].set)) = 0
      BY NoTags
    <2> QED BY <2>1, <2>2, <2>3 DEF Uncounted
  <1>3. ASSUME NEW r \in Requests,
               Pick(r) \/ PickAlone(r) \/ Commit(r) \/ StepFails(r)
        PROVE  Uncounted'
    <2>1. snapshot' = [snapshot EXCEPT ![r] = NoSnapshot]
      BY <1>3 DEF Pick, PickAlone, Commit, StepFails, EndStep
    <2> QED BY <1>0, <1>n, <2>1 DEF Uncounted, Snapshots
  <1>4. CASE Restart
    BY <1>4, <1>n DEF Restart, Uncounted
  <1>5. ASSUME UNCHANGED snapshot PROVE Uncounted'
    BY <1>5 DEF Uncounted
  <1>6. ASSUME NEW r \in Requests,
               \/ UsePinned(r) \/ Release(r) \/ DeleteVM(r)
               \/ CreateVM(r) \/ RequestTeardown(r)
        PROVE  UNCHANGED snapshot
    BY <1>6 DEF UsePinned, Release, DeleteVM, CreateVM, RequestTeardown, stepVars
  <1>7. CASE (\E n \in Unstable : NodeChanges(n)) \/ Tick \/ UNCHANGED vars
    BY <1>5, <1>7 DEF NodeChanges, Tick, vars, stepVars
  <1> QED BY <1>1, <1>2, <1>3, <1>4, <1>5, <1>6, <1>7 DEF Next

\* An entry of another machine is dropped only when it has expired.
LEMMA KeptEntries ==
  ASSUME LedgerInv, Uncounted, NEW r \in Requests, Pick(r), ~forgotten'
  PROVE  DOMAIN Purged(snapshot[r].seen) \cup {r} = DOMAIN reservations \cup {r}
  <1>1. /\ snapshot[r].seen = {}
        /\ \A q \in DOMAIN reservations \ {r} : ~Expired(q)
    BY DEF Uncounted, Pick
  <1> QED BY <1>1 DEF Purged

LEMMA CompleteNext ==
  ASSUME LedgerInv, Uncounted, Complete, [Next]_vars
  PROVE  Complete'
  <1>0. Shape /\ Snapshots /\ Stage /\ Ledger
    BY DEF LedgerInv
  <1> USE <1>0 DEF Shape, Stage, Complete, Scheduled, Phases
  <1>1. ASSUME NEW r \in Requests, UsePinned(r) PROVE Complete'
    <2>1. class[r].pinned # NoNode
      BY <1>1, NoNodeAssumption DEF UsePinned
    <2>2. /\ UNCHANGED <<class, phase, choice, reservations, forgotten>>
          /\ \A q \in Requests : q # r => node'[q] = node[q]
      BY <1>1 DEF UsePinned, stepVars
    <2>3. Scheduled' = Scheduled /\ r \notin Scheduled
      BY <2>1, <2>2
    <2>4. Scheduled \subseteq Requests
      BY DEF Scheduled
    <2>5. \A q \in Scheduled : node'[q] = node[q]
      BY <2>2, <2>3, <2>4
    <2> HIDE DEF Shape, Stage, Phases, Scheduled
    <2> QED BY <2>2, <2>3, <2>5
  <1>2. ASSUME NEW r \in Requests, ListNodes(r) \/ ListVMs(r) PROVE Complete'
    <2>1. UNCHANGED <<class, phase, node, choice, reservations, forgotten>>
      BY <1>2 DEF ListNodes, ListVMs, requestVars
    <2> QED BY <2>1
  <1>3. ASSUME NEW r \in Requests, Pick(r) PROVE Complete'
    <2> SUFFICES ASSUME ~forgotten' PROVE Complete'
      OBVIOUS
    <2>1. PICK n \in Nodes : Places(r, n)
      BY <1>3, PickEffect
    <2>2. /\ ~forgotten /\ pc[r] = "listing"
          /\ UNCHANGED <<class, phase, node>>
      BY <1>3 DEF Pick, requestVars
    <2>3. DOMAIN reservations' = DOMAIN reservations \cup {r}
      BY <1>3, <2>1, KeptEntries DEF Places
    <2>4. node'[r] = NoNode /\ choice'[r] = n /\ reservations'[r].node = n
      BY <2>1, <2>2 DEF Places
    <2>5. \A q \in Requests : q # r => choice'[q] = choice[q]
      BY <2>1 DEF Places
    <2>6. \A q \in DOMAIN reservations' \ {r} : reservations'[q] = reservations[q]
      BY <2>1 DEF Places
    <2> HIDE DEF Shape, Stage, Phases
    <2> QED BY <2>2, <2>3, <2>4, <2>5, <2>6, NoNodeAssumption
  <1>4. ASSUME NEW r \in Requests, PickAlone(r) PROVE Complete'
    <2>1. /\ class[r].set = NoSet
          /\ UNCHANGED <<class, phase, node, reservations, forgotten>>
          /\ \A q \in Requests : q # r => choice'[q] = choice[q]
      BY <1>4 DEF PickAlone, requestVars
    <2> QED BY <2>1
  <1>5. ASSUME NEW r \in Requests, Commit(r) PROVE Complete'
    <2>1. /\ pc[r] = "picked" /\ node[r] = NoNode
          /\ UNCHANGED <<class, phase, reservations, forgotten>>
          /\ node'[r] = choice[r] /\ choice'[r] = NoNode
          /\ \A q \in Requests : q # r => /\ choice'[q] = choice[q]
                                         /\ node'[q] = node[q]
      BY <1>5 DEF Commit, EndStep
    <2> QED BY <2>1
  <1>10. ASSUME NEW r \in Requests, StepFails(r) PROVE Complete'
    <2> SUFFICES ASSUME ~forgotten' PROVE Complete'
      OBVIOUS
    <2>1. /\ pc[r] # "picked" /\ ~forgotten /\ UNCHANGED <<requestVars, reservations>>
          /\ choice'[r] = NoNode
          /\ \A q \in Requests : q # r => choice'[q] = choice[q]
      BY <1>10 DEF StepFails, EndStep
    <2>2. \A q \in Requests : choice'[q] = choice[q]
      BY <2>1
    <2> QED BY <2>1, <2>2 DEF requestVars
  <1>6. ASSUME NEW r \in Requests, Release(r) PROVE Complete'
    BY <1>6 DEF Release, stepVars
  <1>7. ASSUME NEW r \in Requests, DeleteVM(r) \/ CreateVM(r) \/ RequestTeardown(r)
        PROVE  Complete'
    BY <1>7 DEF DeleteVM, CreateVM, RequestTeardown, requestVars, stepVars
  <1>8. CASE (\E n \in Unstable : NodeChanges(n)) \/ Tick \/ UNCHANGED vars
    BY <1>8 DEF NodeChanges, Tick, vars, requestVars, stepVars, worldVars
  <1>9. CASE Restart
    BY <1>9 DEF Restart
  <1> QED BY <1>1, <1>2, <1>3, <1>4, <1>5, <1>6, <1>7, <1>8, <1>9, <1>10
         DEF Next

\* What r counts on a node are the machines of its set placed there.
LEMMA CountsPlaced ==
  ASSUME IsFiniteSet(Requests), SpreadInv, NEW r \in Requests, Pick(r),
         ~forgotten', Balances(r),
         NEW n \in DOMAIN snapshot[r].status
  PROVE  Adjusted(r, Purged(snapshot[r].seen))[n].same
           = Cardinality(PlacedBeside(r, n))
  <1> DEFINE ledger == Purged(snapshot[r].seen)
             rs == {q \in DOMAIN ledger \ {r} :
                      ledger[q].set = class[r].set /\ ledger[q].node = n}
             st == snapshot[r].status[n]
  <1>0. /\ Shape /\ Snapshots /\ Ledger /\ Uncounted /\ Complete /\ ~forgotten
        /\ LedgerInv /\ n \in Nodes /\ class[r].set # NoSet
    BY DEF SpreadInv, LedgerInv, Snapshots, HasFields, Pick
  <1>1. /\ \A q \in DOMAIN ledger : ledger[q] = reservations[q]
        /\ \A q \in Requests \ {r} : q \in DOMAIN ledger <=> q \in DOMAIN reservations
        /\ DOMAIN ledger \subseteq Requests
    <2>1. DOMAIN ledger \cup {r} = DOMAIN reservations \cup {r}
      BY <1>0, KeptEntries
    <2>2. \A q \in DOMAIN ledger : ledger[q] = reservations[q]
      BY DEF Purged
    <2> HIDE DEF ledger
    <2> QED BY <1>0, <2>1, <2>2 DEF Shape
  <1> HIDE DEF ledger
  <1>2. rs = PlacedBeside(r, n)
    <2>1. ASSUME NEW q \in rs PROVE q \in PlacedBeside(r, n)
      <3>1. /\ q \in Requests \ {r} /\ q \in DOMAIN reservations
            /\ reservations[q].set = class[r].set /\ reservations[q].node = n
        BY <1>1, <2>1
      <3>2. q \in Scheduled /\ class[q].set = class[r].set
        BY <1>0, <3>1 DEF Ledger, Scheduled, Shape, Phases
      <3> QED BY <1>0, <3>1, <3>2 DEF PlacedBeside, Complete, Scheduled
    <2>2. ASSUME NEW q \in PlacedBeside(r, n) PROVE q \in rs
      <3>1. q \in Scheduled /\ q # r /\ class[q].set = class[r].set
        BY <1>0, <2>2 DEF PlacedBeside, Scheduled
      <3>2. q \in DOMAIN reservations /\ reservations[q].node = n
        BY <1>0, <2>2, <3>1 DEF PlacedBeside, Complete
      <3> QED BY <1>0, <1>1, <3>1, <3>2 DEF Ledger, Scheduled
    <2> QED BY <2>1, <2>2
  <1>3. Adjusted(r, ledger)[n] = Applied(class[r].strategy, st, rs)
    BY DEF Adjusted
  <1>4. Applied(class[r].strategy, st, rs)
          = [st EXCEPT !.same = @ + Cardinality(rs)]
    BY DEF Applied, Balances
  <1>5. /\ DOMAIN st = {"same", "total", "free"} /\ st.same = 0
    BY <1>0 DEF Snapshots, HasFields, Uncounted
  <1>6. Cardinality(rs) \in Nat
    <2>1. IsFiniteSet(PlacedBeside(r, n))
      BY FS_Subset DEF PlacedBeside
    <2> QED BY <1>2, <2>1, FS_CardinalityType
  <1> HIDE DEF rs, st
  <1>7. [st EXCEPT !.same = @ + Cardinality(rs)].same = Cardinality(rs)
    BY <1>5, <1>6
  <1> QED BY <1>2, <1>3, <1>4, <1>7 DEF ledger

\* Only pick moves a machine of a set from listing to picked.
LEMMA PicksPick ==
  ASSUME LedgerInv, [Next]_vars, NEW r \in Requests, Picks(r)
  PROVE  Pick(r)
  <1>0. /\ pc[r] = "listing" /\ pc'[r] = "picked" /\ class[r].set # NoSet
        /\ pc \in [Requests -> {"idle", "listing", "picked"}]
    BY DEF Picks, LedgerInv, Shape
  <1>1. ~UNCHANGED pc
    BY <1>0
  <1>2. ASSUME NEW x \in Requests, Pick(x) \/ PickAlone(x) PROVE x = r
    BY <1>0, <1>2 DEF Pick, PickAlone
  <1>3. ASSUME NEW x \in Requests, ListNodes(x) \/ Commit(x) \/ StepFails(x)
        PROVE  FALSE
    BY <1>0, <1>3 DEF ListNodes, Commit, StepFails, EndStep
  <1>4. ASSUME NEW x \in Requests,
               \/ UsePinned(x) \/ ListVMs(x) \/ Release(x) \/ DeleteVM(x)
               \/ CreateVM(x) \/ RequestTeardown(x)
        PROVE  UNCHANGED pc
    BY <1>4 DEF UsePinned, ListVMs, Release, DeleteVM, CreateVM, RequestTeardown,
       stepVars
  <1>5. CASE (\E n \in Unstable : NodeChanges(n)) \/ Tick \/ UNCHANGED vars
    BY <1>1, <1>5 DEF NodeChanges, Tick, vars, stepVars
  <1>6. ~Restart
    BY <1>0 DEF Restart
  <1>7. ~PickAlone(r)
    BY <1>0 DEF PickAlone
  <1> QED BY <1>1, <1>2, <1>3, <1>4, <1>5, <1>6, <1>7 DEF Next

\* Another machine that is placed has fewer or as many machines beside it.
LEMMA FewestFirst ==
  ASSUME IsFiniteSet(Requests), SpreadInv, NEW r \in Requests, Pick(r),
         ~forgotten', Balances(r), NEW n \in DOMAIN snapshot[r].status
  PROVE  Cardinality(PlacedBeside(r, choice'[r]))
           <= Cardinality(PlacedBeside(r, n))
  <1> DEFINE ledger == Purged(snapshot[r].seen)
             st == Adjusted(r, ledger)
  <1>0. Snapshots /\ Shape
    BY DEF SpreadInv, LedgerInv
  <1>1. PICK a \in Nodes : Places(r, a)
    BY <1>0, PickEffect
  <1>2. a \in DOMAIN snapshot[r].status /\ choice'[r] = a
    BY <1>0, <1>1, Shown DEF Shape, Places
  <1>3. ~Before(class[r].strategy, st, class[r].memory, n, a)
    BY <1>1 DEF Places, Placements, SelectNode, Adjusted
  <1>4. ~(st[n].same < st[a].same)
    BY <1>3 DEF Before, SpreadBefore, RoundRobinBefore, Balances
  <1>5. /\ st[n].same = Cardinality(PlacedBeside(r, n))
        /\ st[a].same = Cardinality(PlacedBeside(r, a))
    BY <1>2, CountsPlaced
  <1>6. \A k : Cardinality(PlacedBeside(r, k)) \in Nat
    BY FS_Subset, FS_CardinalityType DEF PlacedBeside
  <1> HIDE DEF st
  <1> QED BY <1>2, <1>4, <1>5, <1>6

\* If no tag is ever seen on a listed VM, the ledger alone keeps machines of a
\* set apart: a machine is placed where the fewest others are, however old its
\* snapshot is, until an entry is lost.
THEOREM InFlightSpreadHolds ==
  ASSUME ListHasTag = FALSE, IsFiniteSet(Requests)
  PROVE  Spec => InFlightSpread
  <1>1. Init => SpreadInv
    <2> SUFFICES ASSUME Init PROVE SpreadInv
      OBVIOUS
    <2>1. Uncounted
      BY DEF Init, Uncounted, NoSnapshot
    <2>2. Complete
      BY NoNodeAssumption DEF Init, Complete, Scheduled
    <2> QED BY <2>1, <2>2, InitHolds DEF SpreadInv
  <1>2. SpreadInv /\ [Next]_vars => SpreadInv'
    BY LedgerNext, UncountedNext, CompleteNext DEF SpreadInv
  <1>3. SpreadInv /\ [Next]_vars =>
          [\A r \in Requests : Picks(r) /\ Balances(r) /\ ~forgotten' =>
             \A n \in DOMAIN snapshot[r].status :
               Cardinality(PlacedBeside(r, choice'[r]))
                 <= Cardinality(PlacedBeside(r, n))]_vars
    <2> SUFFICES ASSUME SpreadInv, [Next]_vars, NEW r \in Requests, Picks(r),
                        Balances(r), ~forgotten',
                        NEW n \in DOMAIN snapshot[r].status
                 PROVE  Cardinality(PlacedBeside(r, choice'[r]))
                          <= Cardinality(PlacedBeside(r, n))
      OBVIOUS
    <2>1. Pick(r)
      BY PicksPick DEF SpreadInv
    <2> QED BY <2>1, FewestFirst
  <1> QED BY <1>1, <1>2, <1>3, PTL DEF Spec, InFlightSpread

=============================================================================
