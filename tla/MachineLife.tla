---------------------------- MODULE MachineLife ----------------------------
(***************************************************************************)
(* What the provider promises of a machine and its VM, as if every request *)
(* took effect in one step: the VM is made once, started once, protected   *)
(* by HA only while it runs, and never stopped or removed before Omni asks *)
(* for the tear-down and the protection is gone.  Provisioner, where the   *)
(* same takes reconciles, tasks and retries, implements it.                *)
(***************************************************************************)
CONSTANTS
  Machines,   \* machine requests
  HAMachines  \* the machines that ask for the protection of HA

VARIABLES
  phase,      \* what Omni wants and knows of each machine
  guest,      \* how far the VM of each machine is in its life
  protected   \* the machines whose VM is under HA management

vars == <<phase, guest, protected>>

Init ==
  /\ phase = [m \in Machines |-> "provisioning"]
  /\ guest = [m \in Machines |-> "none"]
  /\ protected = {}

\* A reconcile that began before the request for the tear-down goes on.
MayProvision(m) == phase[m] \in {"provisioning", "tearingDown"}

MayTearDown(m) == phase[m] = "tearingDown" /\ m \notin protected

Grow(m, from, to) ==
  /\ guest[m] = from
  /\ guest' = [guest EXCEPT ![m] = to]
  /\ UNCHANGED <<phase, protected>>

Make(m)  == MayProvision(m) /\ Grow(m, "none", "made")
Start(m) == MayProvision(m) /\ Grow(m, "made", "running")

Protect(m) ==
  /\ MayProvision(m)
  /\ m \in HAMachines
  /\ guest[m] = "running"
  /\ protected' = protected \cup {m}
  /\ UNCHANGED <<phase, guest>>

Finish(m) ==
  /\ phase[m] = "provisioning"
  /\ guest[m] = "running"
  /\ m \in HAMachines => m \in protected
  /\ phase' = [phase EXCEPT ![m] = "provisioned"]
  /\ UNCHANGED <<guest, protected>>

RequestTeardown(m) ==
  /\ phase[m] \in {"provisioning", "provisioned"}
  /\ phase' = [phase EXCEPT ![m] = "tearingDown"]
  /\ UNCHANGED <<guest, protected>>

Unprotect(m) ==
  /\ phase[m] = "tearingDown"
  /\ protected' = protected \ {m}
  /\ UNCHANGED <<phase, guest>>

\* A VM that was never started is stopped as well.
Stop(m) ==
  /\ MayTearDown(m)
  /\ Grow(m, "made", "stopped") \/ Grow(m, "running", "stopped")

Remove(m) == MayTearDown(m) /\ Grow(m, "stopped", "removed")

Leave(m) ==
  /\ MayTearDown(m)
  /\ guest[m] \in {"none", "removed"}
  /\ phase' = [phase EXCEPT ![m] = "gone"]
  /\ UNCHANGED <<guest, protected>>

Move(m) ==
  \/ Make(m) \/ Start(m) \/ Protect(m) \/ Finish(m)
  \/ RequestTeardown(m) \/ Unprotect(m) \/ Stop(m) \/ Remove(m) \/ Leave(m)

Next == \E m \in Machines : Move(m)

Spec == Init /\ [][Next]_vars

=============================================================================
