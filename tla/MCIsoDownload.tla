--------------------------- MODULE MCIsoDownload ---------------------------
(* Instances of IsoDownload for TLC. *)
EXTENDS IsoDownload, TLC

CONSTANTS m1, m2, n1, n2, talos

On(n) == [node |-> n, iso |-> talos]

\* Two machines need the same ISO, on the same node or on different ones.
Shared == {m1 :> On(n1) @@ m2 :> On(n) : n \in {n1, n2}}

Budget(kinds) == [k \in FaultKinds |-> IF k \in kinds THEN 1 ELSE 0]

\* Any two kinds of faults, once each.
Pairs == {Budget({j, k}) : j, k \in FaultKinds}

Forgetful == {Budget({"forgotten"})}
=============================================================================
