----------------------------- MODULE MCPlanRegistry -----------------------------
(* Small instances of PlanRegistry for TLC.  Two of the plans hold native   *)
(* snapshots and there is one native slot; the bytes of p1 and h do not fit *)
(* together, those of p2 and h do.                                           *)
EXTENDS PlanRegistry

CONSTANTS p1, p2, h

MCHandles == {h}
MCOwners == Plans \cup MCHandles
MCNative == {p1, p2}
MCBytes == [o \in MCOwners |-> IF o \in {p1} THEN 2 ELSE 1]
MCChecked == {p2}
MCAllChecked == Plans
=============================================================================
