--------------------------- MODULE MCProvisioner ---------------------------
(* Instances of Provisioner for TLC: budgets of faults. *)
EXTENDS Provisioner

Budget(kinds) == [k \in FaultKinds |-> IF k \in kinds THEN 1 ELSE 0]

\* Proxmox misbehaves within its contract, the provider is never interrupted.
Undisturbed == Budget({"startFails", "migrated"})

\* Calls and create tasks fail, and every failure is reported.
Failing == Budget({"error", "createFails", "migrated"})

\* Everything that interrupts or outdates what the provider knows.
Interrupted ==
  Budget({"error", "lost", "crash", "createFails", "removed", "offline", "edited"})

\* Single faults that contradict what the code or its documentation says.
Removal      == Budget({"removed"})
LostThenEdit == Budget({"lost", "edited"})

AtMost(n) == [k \in TaskKinds |-> n]

\* Two requests of each kind: the first one and a repetition.
Twice == AtMost(2)

\* More requests than these budgets of faults can lead to.
Unlimited == AtMost(9)

\* After a crash between start and commit every new start task fails: the
\* repetitions, which change nothing, are cut off.
StartsTwice == [Unlimited EXCEPT !["start"] = 2]
=============================================================================
