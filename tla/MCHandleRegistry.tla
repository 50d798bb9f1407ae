---------------------------- MODULE MCHandleRegistry ----------------------------
(* Two brand sources and an auxiliary one that do not fit into the ledger   *)
(* together, a lease of one source, a lease of both with a plan made of it, *)
(* and the two disposals.  The plan outlives its request and both           *)
(* disposals, and the two leases share a carrier.                           *)
EXTENDS HandleRegistry

CONSTANTS s1, s2, x, one, both, plan

MCOwners == {s1, s2, x}
MCBytes == [o \in MCOwners |-> IF o = x THEN 1 ELSE 2]
MCHandlesOf == [l \in {one, both} |-> IF l = one THEN {s1} ELSE {s1, s2}]
MCLeaseOf == [p \in {plan} |-> both]
=============================================================================
