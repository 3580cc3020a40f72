------------------------- MODULE IsoDownload_proofs -------------------------
(* Proofs about IsoDownload. *)
EXTENDS IsoDownload, SequenceTheorems, FiniteSetTheorems, TLAPS

\* A node and a name determine the volume.
LEMMA UploadIDInjective ==
  \A v, w \in Volumes : UploadID(v) = UploadID(w) => v = w
  BY DEF Volumes, UploadID

\* What happens to the log when a download starts, ...
LEMMA AppendTask ==
  ASSUME TypeOK, NEW t \in Task, tasks' = Append(tasks, t)
  PROVE  /\ tasks' \in Seq(Task)
         /\ Len(tasks') = Len(tasks) + 1
         /\ tasks'[Len(tasks) + 1] = t
         /\ \A i \in DOMAIN tasks : tasks'[i] = tasks[i]
  BY AppendProperties DEF TypeOK

\* ... and when its status changes.
LEMMA MarkTask ==
  ASSUME TypeOK, NEW i \in DOMAIN tasks,
         NEW s \in {"running", "ok", "failed", "forgotten"},
         tasks' = [tasks EXCEPT ![i].status = s]
  PROVE  /\ tasks' \in Seq(Task)
         /\ Len(tasks') = Len(tasks)
         /\ \A j \in DOMAIN tasks :
              /\ tasks'[j].volume = tasks[j].volume
              /\ tasks'[j].status = IF j = i THEN s ELSE tasks[j].status
  <1> DEFINE t == [tasks[i] EXCEPT !.status = s]
  <1>1. tasks \in Seq(Task) /\ i \in 1 .. Len(tasks)
    BY DEF TypeOK
  <1>2. tasks' = [tasks EXCEPT ![i] = t]
    OBVIOUS
  <1>3. t \in Task /\ t.volume = tasks[i].volume /\ t.status = s
    <2>1. tasks[i] \in Task
      BY <1>1
    <2> QED BY <2>1 DEF Task
  <1> HIDE DEF t
  <1>4. tasks' \in Seq(Task) /\ Len(tasks') = Len(tasks)
          /\ \A j \in 1 .. Len(tasks) :
               tasks'[j] = IF j = i THEN t ELSE tasks[j]
    BY <1>1, <1>2, <1>3, ExceptSeq
  <1> QED BY <1>1, <1>2, <1>4

LEMMA PlaceTyped ==
  ASSUME TypeOK, NEW m \in Machines
  PROVE  /\ place[m] \in Volumes
         /\ UploadID(place[m]) \in UploadIDs
         /\ Entry(m) \in 0 .. Len(tasks)
  BY DEF TypeOK, UploadIDs, Entry

\* What Misses and Spend do to the history.
LEMMA SpendTyped ==
  ASSUME TypeOK, NEW kind \in FaultKinds, Spend(kind)
  PROVE  faults' \in [FaultKinds -> Nat]
  BY DEF TypeOK, Spend

LEMMA MissTyped ==
  ASSUME TypeOK, NEW kind \in FaultKinds, Misses(kind)
  PROVE  calm' \in BOOLEAN /\ ~calm' /\ faults' \in [FaultKinds -> Nat]
  BY SpendTyped DEF Misses

\* What a change of an entry does to the map of pending downloads.
LEMMA EntryTyped ==
  ASSUME TypeOK, NEW m \in Machines, NEW i, SetEntry(m, i)
  PROVE  /\ \A n \in Nat : n >= Len(tasks) /\ i \in 0 .. n
                          => pending' \in [UploadIDs -> 0 .. n]
         /\ \A v \in Volumes :
              pending'[UploadID(v)] =
                IF v = place[m] THEN i ELSE pending[UploadID(v)]
  <1>1. Len(tasks) \in Nat
    BY LenProperties DEF TypeOK
  <1>2. pending \in [UploadIDs -> 0 .. Len(tasks)]
    BY DEF TypeOK
  <1>3. \A v \in Volumes : UploadID(v) \in UploadIDs
    BY DEF UploadIDs
  <1> QED BY <1>1, <1>2, <1>3, PlaceTyped, UploadIDInjective DEF SetEntry

----------------------------------------------------------------------------
(* Types, and the mutex. *)

Steps ==
  {"idle", "lock", "posted", "syncVM", "created", "gone"} \cup Critical

Control ==
  /\ pc \in [Machines -> Steps]
  /\ mu \in Machines \cup {NoMachine}
  /\ \A m \in Machines : pc[m] \in Critical <=> mu = m

Data ==
  /\ place \in [Machines -> Volumes]
  /\ upload \in [Machines -> 0 .. Len(tasks)]
  /\ posted \in [Machines -> 0 .. Len(tasks)]
  /\ pending \in [UploadIDs -> 0 .. Len(tasks)]
  /\ tasks \in Seq(Task)
  /\ stored \in [Volumes -> {"absent", "present", "removed"}]

History == calm \in BOOLEAN /\ faults \in [FaultKinds -> Nat]

LEMMA TypeParts ==
  /\ TypeOK => Control /\ Data /\ History
  /\ Control' /\ Data' /\ History' => TypeOK'
  BY DEF TypeOK, Control, Data, History, Steps

\* A machine moves on: outside the critical section or within, into it with
\* the mutex free, or out of it.
LEMMA Moves ==
  ASSUME Control, NEW m \in Machines, NEW step \in Steps, Goto(m, step),
         \/ mu' = mu /\ (step \in Critical <=> pc[m] \in Critical)
         \/ mu = NoMachine /\ mu' = m /\ step \in Critical
         \/ pc[m] \in Critical /\ mu' = NoMachine /\ step \notin Critical
  PROVE  /\ Control'
         /\ \A x \in Machines : pc'[x] = IF x = m THEN step ELSE pc[x]
  BY NoMachineAssumption DEF Control, Goto

LEMMA TypeInit == Init => TypeOK
  BY PlacesAssumption, BudgetAssumption, NoMachineAssumption
     DEF Init, TypeOK, Critical

LEMMA TypeNext == TypeOK /\ [Next]_vars => TypeOK'
  <1> SUFFICES ASSUME TypeOK, [Next]_vars PROVE TypeOK'
    OBVIOUS
  <1>0. Control /\ Data /\ History
    BY TypeParts
  <1>n. Len(tasks) \in Nat
    BY LenProperties DEF TypeOK
  <1> USE DEF vars, stepVars, processVars, proxmoxVars
  <1>1. CASE UNCHANGED vars
    BY <1>1 DEF TypeOK
  <1>2. ASSUME NEW m \in Machines, Reconcile(m) PROVE TypeOK'
    <2> USE DEF Critical, Steps
    <2>1. CASE CheckUpload(m)
      BY <1>0, <2>1, Moves, TypeParts DEF CheckUpload, Data, History
    <2>2. CASE ResolveMedia(m)
      BY <1>0, <2>2, Moves, TypeParts DEF ResolveMedia, Data, History
    <2>3. CASE Lock(m)
      BY <1>0, <2>3, Moves, TypeParts DEF Lock, Data, History
    <2>4. CASE FindISO(m)
      <3>1. Control'
        BY <1>0, <2>4, Moves DEF FindISO
      <3>2. pending' \in [UploadIDs -> 0 .. Len(tasks)]
        BY <1>n, <2>4, EntryTyped DEF FindISO
      <3> QED BY <1>0, <2>4, <3>1, <3>2, TypeParts DEF FindISO, Data, History
    <2>5. CASE MissISO(m)
      <3>1. Control'
        BY <1>0, <2>5, Moves DEF MissISO
      <3>2. History'
        BY <1>0, <2>5, MissTyped DEF MissISO, History, FaultKinds
      <3> QED BY <1>0, <2>5, <3>1, <3>2, TypeParts DEF MissISO, Data
    <2>6. CASE JoinDownload(m)
      <3>1. Control'
        BY <1>0, <2>6, Moves DEF JoinDownload
      <3> QED BY <1>0, <2>6, <3>1, PlaceTyped, TypeParts
              DEF JoinDownload, Data, History
    <2>7. CASE DropEntry(m)
      <3>1. Control'
        BY <1>0, <2>7, Moves DEF DropEntry
      <3>2. History'
        BY <1>0, <2>7, MissTyped DEF DropEntry, History, FaultKinds
      <3>3. pending' \in [UploadIDs -> 0 .. Len(tasks)]
        BY <1>n, <2>7, EntryTyped DEF DropEntry
      <3> QED BY <1>0, <2>7, <3>1, <3>2, <3>3, TypeParts DEF DropEntry, Data
    <2>8. CASE Download(m)
      <3>1. Control'
        BY <1>0, <2>8, Moves DEF Download
      <3>2. [volume |-> place[m], status |-> "running"] \in Task
        BY PlaceTyped DEF Task
      <3>3. tasks' \in Seq(Task) /\ Len(tasks') = Len(tasks) + 1
        BY <2>8, <3>2, AppendTask DEF Download
      <3>4. pending' \in [UploadIDs -> 0 .. Len(tasks')]
        <4>1. CASE SetEntry(m, Len(tasks) + 1)
          <5>1. /\ Len(tasks') \in Nat /\ Len(tasks') >= Len(tasks)
                /\ Len(tasks) + 1 \in 0 .. Len(tasks')
            BY <1>n, <3>3
          <5> QED BY <4>1, <5>1, EntryTyped
        <4>2. CASE UNCHANGED pending
          BY <1>0, <1>n, <3>3, <4>2 DEF Data
        <4> QED BY <2>8, <4>1, <4>2 DEF Download
      <3>5. posted' \in [Machines -> 0 .. Len(tasks')]
        BY <1>0, <1>n, <2>8, <3>3 DEF Download, Data
      <3>6. History'
        BY <1>0, <2>8, MissTyped DEF Download, History, FaultKinds
      <3>7. upload' \in [Machines -> 0 .. Len(tasks')]
        BY <1>0, <1>n, <2>8, <3>3 DEF Download, Data
      <3>8. Data'
        BY <1>0, <2>8, <3>3, <3>4, <3>5, <3>7 DEF Download, Data
      <3> QED BY <3>1, <3>6, <3>8, TypeParts
    <2>9. CASE Commit(m)
      <3>1. Control'
        BY <1>0, <2>9, Moves DEF Commit
      <3>2. History'
        BY <1>0, <2>9, SpendTyped DEF Commit, History, FaultKinds
      <3> QED BY <1>0, <1>n, <2>9, <3>1, <3>2, TypeParts DEF Commit, Data
    <2>10. CASE TakeISO(m)
      BY <1>0, <2>10, Moves, TypeParts DEF TakeISO, Data, History
    <2> QED BY <1>2, <2>1, <2>2, <2>3, <2>4, <2>5, <2>6, <2>7, <2>8, <2>9,
               <2>10 DEF Reconcile
  <1>3. ASSUME NEW m \in Machines, CallFails(m) PROVE TypeOK'
    <2>1. Control'
      BY <1>0, <1>3, Moves DEF CallFails, Control, Critical, Steps
    <2>2. faults' \in [FaultKinds -> Nat]
      BY <1>3, SpendTyped DEF CallFails, FaultKinds
    <2> QED BY <1>0, <1>3, <2>1, <2>2, TypeParts DEF CallFails, Data, History
  <1>4. ASSUME NEW m \in Machines, TearDown(m) PROVE TypeOK'
    BY <1>0, <1>4, Moves, TypeParts
       DEF TearDown, Data, History, Critical, Steps
  <1>5. CASE Crash
    <2>1. Control'
      BY <1>0, <1>5, NoMachineAssumption DEF Crash, Control, Critical, Steps
    <2>2. History'
      BY <1>0, <1>5, MissTyped DEF Crash, History, FaultKinds
    <2> QED BY <1>0, <1>n, <1>5, <2>1, <2>2, TypeParts DEF Crash, Data
  <1>6. ASSUME NEW i \in DOMAIN tasks, DownloadEnds(i) PROVE TypeOK'
    <2>1. tasks' \in Seq(Task) /\ Len(tasks') = Len(tasks)
      BY <1>6, MarkTask DEF DownloadEnds
    <2>2. faults' \in [FaultKinds -> Nat]
      BY <1>0, <1>6, SpendTyped DEF DownloadEnds, FaultKinds, History
    <2> QED BY <1>6, <2>1, <2>2 DEF DownloadEnds, TypeOK
  <1>7. ASSUME NEW i \in DOMAIN tasks, Forget(i) PROVE TypeOK'
    <2>1. tasks' \in Seq(Task) /\ Len(tasks') = Len(tasks)
      BY <1>7, MarkTask DEF Forget
    <2>2. History'
      BY <1>0, <1>7, MissTyped DEF Forget, FaultKinds, History
    <2> QED BY <1>7, <2>1, <2>2 DEF Forget, TypeOK, History
  <1>8. ASSUME NEW v \in Volumes, AdminRemoves(v) PROVE TypeOK'
    <2>1. faults' \in [FaultKinds -> Nat]
      BY <1>8, SpendTyped DEF AdminRemoves, FaultKinds
    <2> QED BY <1>8, <2>1 DEF AdminRemoves, TypeOK
  <1> QED BY <1>1, <1>2, <1>3, <1>4, <1>5, <1>6, <1>7, <1>8 DEF Next

\* The state keeps its types, and the mutex is held by the machine that is in
\* the critical section of uploadISO and by no other, whatever fails.
THEOREM TypeCorrect == Spec => []TypeOK
  BY TypeInit, TypeNext, PTL DEF Spec

----------------------------------------------------------------------------
(* A machine gets past uploadISO only when its ISO has landed. *)

\* A download that is recorded for a machine, or on its way to be, or pending
\* for a volume, is one of that volume.
Traced ==
  /\ \A v \in Volumes :
       LET i == pending[UploadID(v)] IN i # 0 => tasks[i].volume = v
  /\ \A m \in Machines :
       /\ upload[m] # 0 => tasks[upload[m]].volume = place[m]
       /\ posted[m] # 0 => tasks[posted[m]].volume = place[m]

\* A download that has succeeded has put the ISO into the storage.
Delivered ==
  \A i \in DOMAIN tasks :
    tasks[i].status = "ok" => stored[tasks[i].volume] # "absent"

LandedInv == TypeOK /\ Traced /\ Delivered /\ PassesOnlyLanded

LEMMA EntryKnown ==
  ASSUME TypeOK
  PROVE  /\ DOMAIN tasks = 1 .. Len(tasks) /\ Len(tasks) \in Nat
         /\ \A v \in Volumes : pending[UploadID(v)] \in 0 .. Len(tasks)
         /\ \A m \in Machines : /\ place[m] \in Volumes
                               /\ upload[m] \in 0 .. Len(tasks)
                               /\ posted[m] \in 0 .. Len(tasks)
  BY LenProperties DEF TypeOK, UploadIDs

LEMMA VolumeTyped ==
  ASSUME TypeOK, NEW i \in DOMAIN tasks
  PROVE  tasks[i] \in Task /\ tasks[i].volume \in Volumes
  <1>1. tasks[i] \in Task
    BY EntryKnown DEF TypeOK
  <1> QED BY <1>1 DEF Task

\* The log only grows, and nothing that has landed is as if it never had.
LEMMA LogKept ==
  ASSUME TypeOK, [Next]_vars
  PROVE  /\ place' = place
         /\ \A i \in DOMAIN tasks :
              i \in DOMAIN tasks' /\ tasks'[i].volume = tasks[i].volume
         /\ \A v \in Volumes : stored[v] # "absent" => stored'[v] # "absent"
         /\ Delivered => Delivered'
  <1> USE DEF vars, stepVars, processVars, proxmoxVars
  <1>0. stored \in [Volumes -> {"absent", "present", "removed"}]
    BY DEF TypeOK
  <1>1. CASE UNCHANGED <<place, tasks, stored>>
    BY <1>1 DEF Delivered
  <1>2. ASSUME NEW m \in Machines, Download(m)
        PROVE  /\ UNCHANGED <<place, stored>>
               /\ tasks' = Append(tasks, [volume |-> place[m],
                                         status |-> "running"])
    BY <1>2 DEF Download
  <1>3. ASSUME NEW i \in DOMAIN tasks, DownloadEnds(i) \/ Forget(i)
        PROVE  /\ place' = place
               /\ \/ /\ tasks' = [tasks EXCEPT ![i].status = "ok"]
                     /\ stored' = [stored EXCEPT ![tasks[i].volume] = "present"]
                  \/ /\ tasks' = [tasks EXCEPT ![i].status = "failed"]
                     /\ stored' = stored
                  \/ /\ tasks' = [tasks EXCEPT ![i].status = "forgotten"]
                     /\ stored' = stored
    BY <1>3 DEF DownloadEnds, Forget
  <1>4. ASSUME NEW v \in Volumes, AdminRemoves(v)
        PROVE  /\ UNCHANGED <<place, tasks>>
               /\ stored' = [stored EXCEPT ![v] = "removed"]
    BY <1>4 DEF AdminRemoves
  <1>5. ASSUME NEW m \in Machines, Download(m)
        PROVE  /\ place' = place
               /\ \A i \in DOMAIN tasks :
                    i \in DOMAIN tasks' /\ tasks'[i].volume = tasks[i].volume
               /\ stored' = stored
               /\ Delivered => Delivered'
    <2> DEFINE t == [volume |-> place[m], status |-> "running"]
    <2>1. t \in Task /\ t.status = "running"
      BY PlaceTyped DEF Task
    <2> HIDE DEF t
    <2>2. /\ Len(tasks') = Len(tasks) + 1 /\ tasks' \in Seq(Task)
          /\ tasks'[Len(tasks) + 1] = t
          /\ \A i \in DOMAIN tasks : tasks'[i] = tasks[i]
      BY <1>2, <1>5, <2>1, AppendTask DEF t
    <2>3. DOMAIN tasks = 1 .. Len(tasks) /\ Len(tasks) \in Nat
      BY EntryKnown
    <2>4. DOMAIN tasks' = 1 .. Len(tasks) + 1
      BY <2>2, LenProperties
    <2>5. \A i \in DOMAIN tasks :
            i \in DOMAIN tasks' /\ tasks'[i].volume = tasks[i].volume
      BY <2>2, <2>3, <2>4
    <2>6. ASSUME Delivered, NEW i \in DOMAIN tasks', tasks'[i].status = "ok"
          PROVE  stored'[tasks'[i].volume] # "absent"
      <3>1. i \in DOMAIN tasks
        BY <2>1, <2>2, <2>3, <2>4, <2>6
      <3> QED BY <1>2, <1>5, <2>2, <2>6, <3>1 DEF Delivered
    <2> QED BY <1>2, <1>5, <2>5, <2>6 DEF Delivered
  <1>6. ASSUME NEW i \in DOMAIN tasks, DownloadEnds(i) \/ Forget(i)
        PROVE  /\ place' = place
               /\ \A j \in DOMAIN tasks :
                    j \in DOMAIN tasks' /\ tasks'[j].volume = tasks[j].volume
               /\ \A v \in Volumes : stored[v] # "absent"
                                       => stored'[v] # "absent"
               /\ Delivered => Delivered'
    <2>1. PICK s \in {"running", "ok", "failed", "forgotten"} :
            /\ tasks' = [tasks EXCEPT ![i].status = s]
            /\ s = "ok"
                 => stored' = [stored EXCEPT ![tasks[i].volume] = "present"]
            /\ s # "ok" => stored' = stored
      BY <1>3, <1>6
    <2>2. /\ tasks' \in Seq(Task)
          /\ Len(tasks') = Len(tasks)
          /\ \A j \in DOMAIN tasks :
               /\ tasks'[j].volume = tasks[j].volume
               /\ tasks'[j].status = IF j = i THEN s ELSE tasks[j].status
      <3>1. tasks' = [tasks EXCEPT ![i].status = s]
        BY <2>1
      <3> QED BY <3>1, MarkTask, ZenonT(40)
    <2>3. DOMAIN tasks' = DOMAIN tasks
      BY <2>2, LenProperties DEF TypeOK
    <2>4. \A j \in DOMAIN tasks : tasks[j].volume \in Volumes
      BY VolumeTyped
    <2>5. \A v \in Volumes : stored[v] # "absent" => stored'[v] # "absent"
      BY <1>0, <2>1, <2>4
    <2>6. Delivered => Delivered'
      <3> SUFFICES ASSUME Delivered, NEW j \in DOMAIN tasks,
                          tasks'[j].status = "ok"
                   PROVE  stored'[tasks[j].volume] # "absent"
        BY <2>2, <2>3 DEF Delivered
      <3>1. CASE j = i
        BY <1>0, <2>1, <2>2, <2>4, <3>1
      <3>2. CASE j # i
        BY <2>2, <2>4, <2>5, <3>2 DEF Delivered
      <3> QED BY <3>1, <3>2
    <2> QED BY <1>3, <1>6, <2>2, <2>3, <2>5, <2>6
  <1>7. ASSUME NEW v \in Volumes, AdminRemoves(v)
        PROVE  \A w \in Volumes : stored[w] # "absent" => stored'[w] # "absent"
    BY <1>0, <1>4, <1>7
  <1>8. ASSUME NEW v \in Volumes, AdminRemoves(v)
        PROVE  Delivered => Delivered'
    <2>1. \A j \in DOMAIN tasks : tasks[j].volume \in Volumes
      BY VolumeTyped
    <2> QED BY <1>4, <1>7, <1>8, <2>1 DEF Delivered
  <1>9. ASSUME NEW m \in Machines, Reconcile(m) \/ CallFails(m) \/ TearDown(m),
               ~Download(m)
        PROVE  UNCHANGED <<place, tasks, stored>>
    BY <1>9 DEF Reconcile, CheckUpload, ResolveMedia, Lock, FindISO, MissISO,
       JoinDownload, DropEntry, Commit, TakeISO, CallFails, TearDown
  <1>10. Crash => UNCHANGED <<place, tasks, stored>>
    BY DEF Crash
  <1> QED BY <1>1, <1>4, <1>5, <1>6, <1>7, <1>8, <1>9, <1>10 DEF Next

\* What is recorded, posted and pending, is so from before, taken over from
\* one another, or the task that the step has started.
LEMMA TracedNext ==
  ASSUME TypeOK, [Next]_vars, Traced
  PROVE  Traced'
  <1> USE DEF vars, stepVars, processVars, proxmoxVars
  <1>0. /\ place' = place
        /\ \A i \in DOMAIN tasks :
             i \in DOMAIN tasks' /\ tasks'[i].volume = tasks[i].volume
    BY LogKept
  <1>k. /\ DOMAIN tasks = 1 .. Len(tasks) /\ Len(tasks) \in Nat
        /\ \A v \in Volumes : pending[UploadID(v)] \in 0 .. Len(tasks)
        /\ \A m \in Machines : /\ place[m] \in Volumes
                              /\ upload[m] \in 0 .. Len(tasks)
                              /\ posted[m] \in 0 .. Len(tasks)
    BY EntryKnown
  <1> DEFINE Of(v) == {0} \cup {i \in DOMAIN tasks' : tasks'[i].volume = v}
  <1>f. /\ upload \in [Machines -> 0 .. Len(tasks)]
        /\ posted \in [Machines -> 0 .. Len(tasks)]
    BY DEF TypeOK
  <1>p. /\ \A v \in Volumes : pending[UploadID(v)] \in Of(v)
        /\ \A m \in Machines : /\ upload[m] \in Of(place[m])
                              /\ posted[m] \in Of(place[m])
    BY <1>0, <1>k DEF Traced
  <1>s. SUFFICES
          /\ \A v \in Volumes : pending'[UploadID(v)] \in Of(v)
          /\ \A m \in Machines : /\ upload'[m] \in Of(place[m])
                               /\ posted'[m] \in Of(place[m])
    BY <1>0 DEF Traced
  <1>z. \A v \in Volumes : 0 \in Of(v)
    OBVIOUS
  <1> HIDE DEF Of
  <1>1. CASE UNCHANGED <<upload, posted, pending>>
    BY <1>p, <1>1
  <1>2. ASSUME NEW m \in Machines, FindISO(m) \/ DropEntry(m)
        PROVE  SetEntry(m, 0) /\ UNCHANGED <<upload, posted>>
    BY <1>2 DEF FindISO, DropEntry
  <1>3. ASSUME NEW m \in Machines, FindISO(m) \/ DropEntry(m)
        PROVE  \A v \in Volumes : pending'[UploadID(v)] \in Of(v)
    BY <1>2, <1>3, <1>p, <1>z, EntryTyped
  <1>4. ASSUME NEW m \in Machines, JoinDownload(m)
        PROVE  \A x \in Machines : upload'[x] \in Of(place[x])
    <2>1. upload' = [upload EXCEPT ![m] = pending[UploadID(place[m])]]
      BY <1>4 DEF JoinDownload, Entry
    <2> QED BY <1>f, <1>k, <1>p, <2>1
  <1>5. ASSUME NEW m \in Machines, JoinDownload(m)
        PROVE  UNCHANGED <<posted, pending>>
    BY <1>5 DEF JoinDownload
  <1>6. ASSUME NEW m \in Machines, Commit(m)
        PROVE  /\ UNCHANGED pending
               /\ \A x \in Machines :
                    /\ upload'[x] \in Of(place[x])
                    /\ posted'[x] \in Of(place[x])
    <2>1. upload' = [upload EXCEPT ![m] = posted[m]] \/ upload' = upload
      BY <1>6 DEF Commit
    <2>2. posted' = [posted EXCEPT ![m] = 0] /\ UNCHANGED pending
      BY <1>6 DEF Commit
    <2> QED BY <1>f, <1>k, <1>p, <1>z, <2>1, <2>2
  <1>7. ASSUME NEW m \in Machines, Download(m)
        PROVE  /\ \A v \in Volumes : pending'[UploadID(v)] \in Of(v)
               /\ \A x \in Machines :
                    /\ upload'[x] \in Of(place[x])
                    /\ posted'[x] \in Of(place[x])
    <2> DEFINE n == Len(tasks) + 1
               t == [volume |-> place[m], status |-> "running"]
    <2>1. t \in Task /\ t.volume = place[m]
      BY PlaceTyped DEF Task
    <2>2. tasks' = Append(tasks, t) /\ upload' = upload
      BY <1>7 DEF Download
    <2> HIDE DEF t
    <2>3. n \in Of(place[m])
      <3>1. tasks' \in Seq(Task) /\ Len(tasks') = n /\ tasks'[n] = t
        BY <2>1, <2>2, AppendTask
      <3> QED BY <1>k, <2>1, <3>1, LenProperties DEF Of
    <2>4. CASE SetEntry(m, n) /\ posted' = [posted EXCEPT ![m] = n]
      BY <1>f, <1>p, <2>2, <2>3, <2>4, EntryTyped
    <2>5. CASE UNCHANGED <<pending, posted>>
      BY <1>p, <2>2, <2>5
    <2> QED BY <1>7, <2>4, <2>5 DEF Download
  <1>8. CASE Crash
    <2>1. upload' = upload /\ posted' = [m \in Machines |-> 0]
            /\ pending' = [id \in UploadIDs |-> 0]
      BY <1>8 DEF Crash
    <2>2. \A v \in Volumes : UploadID(v) \in UploadIDs
      BY DEF UploadIDs
    <2> QED BY <1>k, <1>p, <1>z, <2>1, <2>2
  <1>9. ASSUME NEW m \in Machines, Reconcile(m) \/ CallFails(m) \/ TearDown(m),
               ~(FindISO(m) \/ DropEntry(m)), ~JoinDownload(m), ~Commit(m),
               ~Download(m)
        PROVE  UNCHANGED <<upload, posted, pending>>
    BY <1>9 DEF Reconcile, CheckUpload, ResolveMedia, Lock, MissISO, TakeISO,
       CallFails, TearDown
  <1>10. ASSUME NEW i \in DOMAIN tasks, DownloadEnds(i) \/ Forget(i)
         PROVE  UNCHANGED <<upload, posted, pending>>
    BY <1>10 DEF DownloadEnds, Forget
  <1>11. ASSUME NEW v \in Volumes, AdminRemoves(v)
         PROVE  UNCHANGED <<upload, posted, pending>>
    BY <1>11 DEF AdminRemoves
  <1>12. ASSUME NEW m \in Machines, Reconcile(m) \/ CallFails(m) \/ TearDown(m)
         PROVE  /\ \A v \in Volumes : pending'[UploadID(v)] \in Of(v)
                /\ \A x \in Machines :
                     /\ upload'[x] \in Of(place[x])
                     /\ posted'[x] \in Of(place[x])
    BY <1>p, <1>1, <1>2, <1>3, <1>4, <1>5, <1>6, <1>7, <1>9, <1>12
  <1> QED BY <1>1, <1>8, <1>10, <1>11, <1>12 DEF Next

\* A machine moves on to syncVM when its ISO is there or its task has put it
\* there, and to "created" from syncVM only.
LEMMA PassNext ==
  ASSUME TypeOK, [Next]_vars, Traced, Delivered, PassesOnlyLanded
  PROVE  PassesOnlyLanded'
  <1> USE DEF vars, stepVars, processVars, proxmoxVars
  <1>0. /\ place' = place
        /\ \A v \in Volumes : stored[v] # "absent" => stored'[v] # "absent"
    BY LogKept
  <1>1. \A m \in Machines : place[m] \in Volumes
    BY PlaceTyped
  <1>2. pc \in [Machines -> Steps]
    BY TypeParts DEF Control
  <1>s. SUFFICES ASSUME NEW x \in Machines, pc'[x] \in {"syncVM", "created"},
                        pc[x] \notin {"syncVM", "created"}
                 PROVE  stored[place[x]] # "absent"
    BY <1>0, <1>1 DEF PassesOnlyLanded
  <1>3. CASE UNCHANGED pc
    BY <1>s, <1>3
  <1>4. CASE Crash
    BY <1>s, <1>4 DEF Crash
  <1>5. ASSUME NEW m \in Machines, Reconcile(m) \/ CallFails(m) \/ TearDown(m)
        PROVE  stored[place[x]] # "absent"
    <2>1. CASE CheckUpload(m)
      <3>1. pc' = [pc EXCEPT ![m] = "syncVM"] /\ upload[m] # 0
              /\ tasks[upload[m]].status = "ok"
        BY <2>1 DEF CheckUpload, Goto
      <3>2. x = m
        BY <1>2, <1>s, <3>1
      <3>3. upload[m] \in DOMAIN tasks
        BY <3>1, EntryKnown
      <3> QED BY <3>1, <3>2, <3>3 DEF Traced, Delivered
    <2>2. CASE FindISO(m)
      <3>1. pc' = [pc EXCEPT ![m] = "syncVM"] /\ stored[place[m]] = "present"
        BY <2>2 DEF FindISO, Goto
      <3> QED BY <1>2, <1>s, <3>1
    <2>3. CASE TakeISO(m)
      BY <1>2, <1>s, <2>3 DEF TakeISO, Goto
    <2>4. CASE ~CheckUpload(m) /\ ~FindISO(m) /\ ~TakeISO(m)
      <3>1. PICK s \in {"idle", "lock", "lookup", "ping", "download", "posted",
                        "gone"} : pc' = [pc EXCEPT ![m] = s]
        BY <1>5, <2>4 DEF Reconcile, ResolveMedia, Lock, MissISO, JoinDownload,
           DropEntry, Download, Commit, CallFails, TearDown, Goto
      <3> QED BY <1>2, <1>s, <3>1
    <2> QED BY <2>1, <2>2, <2>3, <2>4
  <1>6. ASSUME NEW i \in DOMAIN tasks, DownloadEnds(i) \/ Forget(i)
        PROVE  UNCHANGED pc
    BY <1>6 DEF DownloadEnds, Forget
  <1>7. ASSUME NEW v \in Volumes, AdminRemoves(v)
        PROVE  UNCHANGED pc
    BY <1>7 DEF AdminRemoves
  <1> QED BY <1>3, <1>4, <1>5, <1>6, <1>7 DEF Next

LEMMA LandedInit == Init => LandedInv
  <1> SUFFICES ASSUME Init PROVE LandedInv
    OBVIOUS
  <1>1. TypeOK
    BY TypeInit
  <1>2. Traced
    BY DEF Init, Traced, UploadIDs
  <1>3. Delivered
    BY DEF Init, Delivered
  <1>4. PassesOnlyLanded
    BY DEF Init, PassesOnlyLanded
  <1> QED BY <1>1, <1>2, <1>3, <1>4 DEF LandedInv

\* Whatever fails, is lost, restarted or forgotten, and although a machine
\* may trust a task that another one started: past uploadISO, its ISO has
\* landed on its node.
THEOREM PassesOnlyLandedHolds == Spec => []PassesOnlyLanded
  <1>1. LandedInv /\ [Next]_vars => LandedInv'
    BY TypeNext, TracedNext, LogKept, PassNext DEF LandedInv
  <1>2. LandedInv => PassesOnlyLanded
    BY DEF LandedInv
  <1> QED BY LandedInit, <1>1, <1>2, PTL DEF Spec

----------------------------------------------------------------------------
(* That machines share one download, for any number of machines, nodes and *)
(* ISOs, as long as the provider misses nothing.                           *)

\* A download that runs is pending, and its ISO is not there.
Tracked ==
  \A i \in DOMAIN tasks : tasks[i].status = "running" =>
    /\ pending[UploadID(tasks[i].volume)] = i
    /\ stored[tasks[i].volume] # "present"

\* In the critical section: an ISO that lands after it was missed was brought
\* by the pending download, and a download is requested only if none is
\* pending and the ISO is not there.
Looked ==
  \A m \in Machines :
    /\ pc[m] = "ping" =>
         /\ Entry(m) # 0
         /\ stored[place[m]] = "present" => tasks[Entry(m)].status = "ok"
    /\ pc[m] = "download" => Entry(m) = 0 /\ stored[place[m]] # "present"

OneInv == calm => Tracked /\ Looked

SingleInv == TypeOK /\ Traced /\ OneInv
----------------------------------------------------------------------------
(* Facts about any state of the invariant. *)

\* The mutex: one machine at most is in the critical section.
LEMMA OneInside ==
  ASSUME TypeOK, NEW m \in Machines, NEW x \in Machines,
         pc[m] \in Critical, pc[x] \in Critical
  PROVE  x = m
  BY DEF TypeOK

LEMMA GotoPointwise ==
  ASSUME TypeOK, NEW m \in Machines, NEW step, Goto(m, step)
  PROVE  \A x \in Machines : pc'[x] = IF x = m THEN step ELSE pc[x]
  BY DEF TypeOK, Goto

\* What is pending for a volume that is being downloaded is that download.
LEMMA OneRuns ==
  ASSUME Tracked, NEW i \in DOMAIN tasks, NEW j \in DOMAIN tasks,
         tasks[i].status = "running", tasks[j].status = "running",
         tasks[i].volume = tasks[j].volume
  PROVE  i = j
  BY DEF Tracked

\* An action that calm survives was taken in calm.
LEMMA CalmKept ==
  ASSUME [Next]_vars, calm', TypeOK
  PROVE  calm
  <1>1. \A kind \in FaultKinds : ~Misses(kind)
    BY DEF Misses
  <1>2. FaultKinds =
          {"error", "lost", "crash", "fails", "forgotten", "removed"}
    BY DEF FaultKinds
  <1>3. ASSUME NEW m \in Machines, Reconcile(m) PROVE calm' = calm
    BY <1>1, <1>2, <1>3 DEF Reconcile, CheckUpload, ResolveMedia, Lock, FindISO,
       MissISO, JoinDownload, DropEntry, Download, Commit, TakeISO
  <1>4. ASSUME NEW m \in Machines, CallFails(m) \/ TearDown(m)
        PROVE  calm' = calm
    BY <1>4 DEF CallFails, TearDown
  <1>5. ~Crash /\ \A i \in DOMAIN tasks : ~Forget(i)
    BY <1>1, <1>2 DEF Crash, Forget
  <1>6. ASSUME NEW i \in DOMAIN tasks, DownloadEnds(i) PROVE calm' = calm
    BY <1>6 DEF DownloadEnds
  <1>7. ASSUME NEW v \in Volumes, AdminRemoves(v) PROVE calm' = calm
    BY <1>7 DEF AdminRemoves
  <1>8. UNCHANGED vars => calm' = calm
    BY DEF vars
  <1> QED BY <1>3, <1>4, <1>5, <1>6, <1>7, <1>8 DEF Next

----------------------------------------------------------------------------
(* The actions preserve the invariant. *)

\* Actions that touch neither the downloads nor the map, and after which no
\* machine is newly at the ping or the request.
LEMMA QuietKeeps ==
  ASSUME Tracked, Looked, UNCHANGED <<place, pending, proxmoxVars>>,
         \A x \in Machines : pc'[x] \in {"ping", "download"} => pc'[x] = pc[x]
  PROVE  Tracked' /\ Looked'
  BY DEF Tracked, Looked, Entry, proxmoxVars

LEMMA FindKeeps ==
  ASSUME TypeOK, Tracked, Looked, NEW m \in Machines, FindISO(m)
  PROVE  Tracked' /\ Looked'
  <1>1. /\ pc[m] = "lookup" /\ stored[place[m]] = "present"
        /\ SetEntry(m, 0) /\ Goto(m, "syncVM")
        /\ UNCHANGED <<place, tasks, stored>>
    BY DEF FindISO, proxmoxVars
  <1>2. \A v \in Volumes : pending'[UploadID(v)] =
                             IF v = place[m] THEN 0 ELSE pending[UploadID(v)]
    BY <1>1, EntryTyped
  <1>3. Tracked'
    BY <1>1, <1>2, VolumeTyped DEF Tracked
  <1>4. \A x \in Machines : pc'[x] \notin {"ping", "download"}
    BY <1>1, GotoPointwise, OneInside DEF Critical
  <1> QED BY <1>3, <1>4 DEF Looked

LEMMA MissKeeps ==
  ASSUME TypeOK, Tracked, Looked, NEW m \in Machines, MissISO(m), calm'
  PROVE  Tracked' /\ Looked'
  <1>1. /\ pc[m] = "lookup" /\ stored[place[m]] # "present"
        /\ Goto(m, IF Entry(m) # 0 THEN "ping" ELSE "download")
        /\ UNCHANGED <<place, pending, tasks, stored>>
    BY DEF MissISO, Misses, processVars, proxmoxVars
  <1>2. Tracked'
    BY <1>1 DEF Tracked
  <1>3. \A x \in Machines \ {m} : pc'[x] \notin {"ping", "download"}
    BY <1>1, GotoPointwise, OneInside DEF Critical
  <1>4. pc'[m] = IF Entry(m) # 0 THEN "ping" ELSE "download"
    BY <1>1, GotoPointwise
  <1> QED BY <1>1, <1>2, <1>3, <1>4 DEF Looked, Entry

LEMMA DropKeeps ==
  ASSUME TypeOK, Traced, Tracked, Looked, NEW m \in Machines, DropEntry(m), calm'
  PROVE  Tracked' /\ Looked'
  <1>1. /\ pc[m] = "ping" /\ ~Live(Entry(m))
        /\ SetEntry(m, 0) /\ Goto(m, "download")
        /\ UNCHANGED <<place, tasks, stored>>
    BY DEF DropEntry, Misses, proxmoxVars
  <1>2. \A v \in Volumes : pending'[UploadID(v)] =
                             IF v = place[m] THEN 0 ELSE pending[UploadID(v)]
    BY <1>1, EntryTyped
  <1>3. stored[place[m]] # "present"
    BY <1>1 DEF Looked, Live
  <1>4. ASSUME NEW i \in DOMAIN tasks, tasks[i].status = "running"
        PROVE  tasks[i].volume # place[m]
    BY <1>1, <1>4 DEF Tracked, Live, Entry
  <1>5. Tracked'
    BY <1>1, <1>2, <1>4, VolumeTyped DEF Tracked
  <1>6. \A x \in Machines \ {m} : pc'[x] \notin {"ping", "download"}
    BY <1>1, GotoPointwise, OneInside DEF Critical
  <1>7. pc'[m] = "download" /\ place[m] \in Volumes
    BY <1>1, GotoPointwise, PlaceTyped
  <1> QED BY <1>1, <1>2, <1>3, <1>5, <1>6, <1>7 DEF Looked, Entry

LEMMA DownloadKeeps ==
  ASSUME TypeOK, Tracked, Looked, NEW m \in Machines, Download(m), calm'
  PROVE  Tracked' /\ Looked'
  <1> DEFINE n == Len(tasks) + 1
             t == [volume |-> place[m], status |-> "running"]
  <1>1. /\ pc[m] = "download" /\ SetEntry(m, n) /\ Goto(m, "posted")
        /\ tasks' = Append(tasks, t) /\ UNCHANGED <<place, stored>>
    BY DEF Download, Misses
  <1>2. t \in Task /\ t.volume = place[m]
    BY PlaceTyped DEF Task
  <1> HIDE DEF t
  <1>3. /\ tasks' \in Seq(Task) /\ Len(tasks') = n /\ tasks'[n] = t
        /\ \A i \in DOMAIN tasks : tasks'[i] = tasks[i]
    BY <1>1, <1>2, AppendTask
  <1>4. /\ DOMAIN tasks = 1 .. Len(tasks) /\ Len(tasks) \in Nat
        /\ DOMAIN tasks' = 1 .. n
    BY <1>3, EntryKnown, LenProperties
  <1>5. \A v \in Volumes : pending'[UploadID(v)] =
                             IF v = place[m] THEN n ELSE pending[UploadID(v)]
    BY <1>1, EntryTyped
  <1>6. Entry(m) = 0 /\ stored[place[m]] # "present"
    BY <1>1 DEF Looked
  <1>7. ASSUME NEW i \in DOMAIN tasks', tasks'[i].status = "running"
        PROVE  /\ pending'[UploadID(tasks'[i].volume)] = i
               /\ stored'[tasks'[i].volume] # "present"
    <2>1. CASE i = n
      BY <1>1, <1>2, <1>3, <1>5, <1>6, <2>1, PlaceTyped
    <2>2. CASE i # n
      <3>1. i \in DOMAIN tasks /\ tasks'[i] = tasks[i] /\ i # 0
        BY <1>3, <1>4, <2>2
      <3>2. tasks[i].volume # place[m]
        BY <1>6, <1>7, <3>1 DEF Tracked, Entry
      <3> QED BY <1>1, <1>5, <1>7, <3>1, <3>2, VolumeTyped DEF Tracked
    <2> QED BY <2>1, <2>2
  <1>8. \A x \in Machines : pc'[x] \notin {"ping", "download"}
    BY <1>1, GotoPointwise, OneInside DEF Critical
  <1> QED BY <1>7, <1>8 DEF Tracked, Looked

LEMMA EndKeeps ==
  ASSUME TypeOK, Traced, Tracked, Looked, NEW i \in DOMAIN tasks, DownloadEnds(i)
  PROVE  Tracked' /\ Looked'
  <1> DEFINE v == tasks[i].volume
  <1>1. /\ tasks[i].status = "running" /\ UNCHANGED <<place, pc, pending>>
        /\ \/ /\ tasks' = [tasks EXCEPT ![i].status = "ok"]
              /\ stored' = [stored EXCEPT ![v] = "present"]
           \/ tasks' = [tasks EXCEPT ![i].status = "failed"] /\ stored' = stored
    BY DEF DownloadEnds, stepVars, processVars
  <1>2. /\ v \in Volumes /\ pending[UploadID(v)] = i /\ i # 0
        /\ stored \in [Volumes -> {"absent", "present", "removed"}]
    BY <1>1, VolumeTyped, EntryKnown DEF Tracked, TypeOK
  <1>3. /\ tasks' \in Seq(Task) /\ Len(tasks') = Len(tasks)
        /\ \A j \in DOMAIN tasks :
             /\ tasks'[j].volume = tasks[j].volume
             /\ j # i => tasks'[j].status = tasks[j].status
        /\ tasks'[i].status \in {"ok", "failed"}
        /\ \A w \in Volumes : stored'[w] = IF w = v /\ tasks'[i].status = "ok"
                                           THEN "present" ELSE stored[w]
    <2>1. CASE /\ tasks' = [tasks EXCEPT ![i].status = "ok"]
               /\ stored' = [stored EXCEPT ![v] = "present"]
      <3>1. /\ tasks' \in Seq(Task) /\ Len(tasks') = Len(tasks)
            /\ \A j \in DOMAIN tasks :
                 /\ tasks'[j].volume = tasks[j].volume
                 /\ tasks'[j].status = IF j = i THEN "ok" ELSE tasks[j].status
        BY <2>1, MarkTask
      <3>2. \A w \in Volumes :
              stored'[w] = IF w = v THEN "present" ELSE stored[w]
        BY <1>2, <2>1
      <3>3. tasks'[i].status = "ok"
        BY <3>1
      <3> QED BY <3>1, <3>2, <3>3
    <2>2. CASE tasks' = [tasks EXCEPT ![i].status = "failed"] /\ stored' = stored
      <3>1. /\ tasks' \in Seq(Task) /\ Len(tasks') = Len(tasks)
            /\ \A j \in DOMAIN tasks :
                 /\ tasks'[j].volume = tasks[j].volume
                 /\ tasks'[j].status =
                      IF j = i THEN "failed" ELSE tasks[j].status
        BY <2>2, MarkTask, Zenon
      <3>2. tasks'[i].status = "failed"
        BY <3>1
      <3> QED BY <2>2, <3>1, <3>2
    <2> QED BY <1>1, <2>1, <2>2
  <1>4. DOMAIN tasks' = DOMAIN tasks
    BY <1>3, LenProperties DEF TypeOK
  <1> HIDE DEF v
  <1>5. ASSUME NEW j \in DOMAIN tasks', tasks'[j].status = "running"
        PROVE  /\ pending'[UploadID(tasks'[j].volume)] = j
               /\ stored'[tasks'[j].volume] # "present"
    <2>1. j \in DOMAIN tasks /\ j # i /\ tasks[j].status = "running"
      BY <1>3, <1>4, <1>5
    <2>2. /\ pending[UploadID(tasks[j].volume)] = j
          /\ stored[tasks[j].volume] # "present"
      BY <2>1 DEF Tracked
    <2>3. tasks[j].volume # v /\ tasks[j].volume \in Volumes
      BY <1>2, <2>1, <2>2, VolumeTyped
    <2> QED BY <1>1, <1>3, <2>1, <2>2, <2>3
  <1>6. ASSUME NEW m \in Machines, pc[m] = "ping", stored'[place[m]] = "present"
        PROVE  tasks'[Entry(m)].status = "ok"
    <2>1. /\ Entry(m) \in DOMAIN tasks /\ place[m] \in Volumes
          /\ tasks[Entry(m)].volume = place[m]
      BY <1>6, EntryKnown DEF Looked, Traced, Entry
    <2>2. CASE place[m] = v
      <3>1. Entry(m) = i
        BY <1>2, <2>2 DEF Entry
      <3>2. tasks'[i].status # "ok" => stored'[v] = stored[v]
        BY <1>2, <1>3
      <3>3. stored[v] # "present"
        BY <1>1 DEF Tracked, v
      <3> QED BY <1>6, <2>2, <3>1, <3>2, <3>3
    <2>3. CASE place[m] # v
      BY <1>2, <1>3, <1>6, <2>1, <2>3 DEF Looked, v
    <2> QED BY <2>2, <2>3
  <1>7. ASSUME NEW m \in Machines, pc[m] = "download"
        PROVE  stored'[place[m]] # "present"
    BY <1>2, <1>3, <1>7, PlaceTyped DEF Looked, Entry
  <1> QED BY <1>1, <1>5, <1>6, <1>7 DEF Tracked, Looked, Entry

LEMMA RemoveKeeps ==
  ASSUME TypeOK, Tracked, Looked, NEW v \in Volumes, AdminRemoves(v)
  PROVE  Tracked' /\ Looked'
  <1>1. /\ UNCHANGED <<place, pc, pending, tasks>>
        /\ stored' = [stored EXCEPT ![v] = "removed"]
    BY DEF AdminRemoves, stepVars, processVars
  <1>2. \A w \in Volumes : stored'[w] = "present" => stored[w] = "present"
    BY <1>1 DEF TypeOK
  <1> QED BY <1>1, <1>2, VolumeTyped, PlaceTyped DEF Tracked, Looked, Entry

LEMMA OneNext ==
  ASSUME SingleInv, [Next]_vars
  PROVE  OneInv'
  <1> SUFFICES ASSUME calm' PROVE Tracked' /\ Looked'
    BY DEF OneInv
  <1>0. TypeOK /\ Traced /\ Tracked /\ Looked
    BY CalmKept DEF SingleInv, OneInv
  <1>1. CASE UNCHANGED vars
    BY <1>0, <1>1, QuietKeeps DEF vars, stepVars, processVars
  <1>2. ASSUME NEW m \in Machines, Reconcile(m) \/ CallFails(m) \/ TearDown(m)
        PROVE  Tracked' /\ Looked'
    <2>1. CASE FindISO(m) \/ MissISO(m) \/ DropEntry(m) \/ Download(m)
      BY <1>0, <2>1, FindKeeps, MissKeeps, DropKeeps, DownloadKeeps
    <2>2. CASE ~(FindISO(m) \/ MissISO(m) \/ DropEntry(m) \/ Download(m))
      <3>1. PICK s \in Steps \ {"ping", "download"} :
              Goto(m, s) /\ UNCHANGED <<place, pending, proxmoxVars>>
        BY <1>2, <2>2 DEF Reconcile, CheckUpload, ResolveMedia, Lock,
           JoinDownload, Commit, TakeISO, CallFails, TearDown, Steps, Critical,
           processVars
      <3>2. \A x \in Machines : pc'[x] = IF x = m THEN s ELSE pc[x]
        BY <1>0, <3>1, GotoPointwise
      <3> QED BY <1>0, <3>1, <3>2, QuietKeeps
    <2> QED BY <2>1, <2>2
  <1>3. ~Crash /\ \A i \in DOMAIN tasks : ~Forget(i)
    BY DEF Crash, Forget, Misses
  <1>4. ASSUME NEW i \in DOMAIN tasks, DownloadEnds(i) PROVE Tracked' /\ Looked'
    BY <1>0, <1>4, EndKeeps
  <1>5. ASSUME NEW v \in Volumes, AdminRemoves(v) PROVE Tracked' /\ Looked'
    BY <1>0, <1>5, RemoveKeeps
  <1> QED BY <1>1, <1>2, <1>3, <1>4, <1>5 DEF Next

LEMMA SingleInit == Init => SingleInv
  <1> SUFFICES ASSUME Init PROVE SingleInv
    OBVIOUS
  <1>1. TypeOK /\ Traced
    BY LandedInit DEF LandedInv
  <1>2. Tracked /\ Looked
    BY DEF Init, Tracked, Looked
  <1> QED BY <1>1, <1>2 DEF SingleInv, OneInv

\* At most one download of a volume runs if each of them is the pending one.
LEMMA SingleImpliesOne == SingleInv => OneDownload
  <1> SUFFICES ASSUME TypeOK, Tracked, NEW v \in Volumes
               PROVE  /\ Cardinality(Downloading(v)) <= 1
                      /\ stored[v] = "present" => Downloading(v) = {}
    BY DEF SingleInv, OneInv, OneDownload
  <1>1. CASE Downloading(v) = {}
    BY <1>1, FS_EmptySet
  <1>2. ASSUME NEW i \in Downloading(v)
        PROVE  Downloading(v) = {i} /\ stored[v] # "present"
    BY <1>2 DEF Downloading, Tracked
  <1>3. ASSUME NEW i \in Downloading(v)
        PROVE  Cardinality(Downloading(v)) = 1
    BY <1>2, <1>3, FS_Singleton
  <1> QED BY <1>1, <1>2, <1>3

\* Machines that need an ISO on a node share one download, and none is started
\* for an ISO that is there, until the provider is restarted or an answer of
\* Proxmox misleads it.
THEOREM OneDownloadHolds == Spec => []OneDownload
  <1>1. SingleInv /\ [Next]_vars => SingleInv'
    <2> SUFFICES ASSUME SingleInv, [Next]_vars PROVE SingleInv'
      OBVIOUS
    <2>1. TypeOK' /\ Traced'
      BY TypeNext, TracedNext DEF SingleInv
    <2> QED BY <2>1, OneNext DEF SingleInv
  <1> QED BY SingleInit, <1>1, SingleImpliesOne, PTL DEF Spec

=============================================================================
