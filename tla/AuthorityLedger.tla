---------------------------- MODULE AuthorityLedger ----------------------------
(***************************************************************************)
(* The session's ledger of retained authority, after AuthorityLedger and   *)
(* AuthorityLease (src/service-protocol/authority-ledger.ts): opened       *)
(* handles and retained plans reserve bytes, directory plans reserve one   *)
(* of the native snapshot slots, and a lease is given back once.           *)
(* This module holds the state and the operations; the registries that     *)
(* extend it take and return the leases.                                   *)
(***************************************************************************)
EXTENDS Integers, FiniteSets, FiniteSetsExt

CONSTANTS
    Owners,             \* what may hold a lease: handles and plans
    NativeOwners,       \* the owners that also hold a native snapshot
    Bytes,              \* the charge of each owner
    MaxRetainedBytes,   \* maxRetainedBytes: 192 MiB in the code
    MaxNativePlans      \* maxRetainedNativeSnapshotPlans: 1 in the code

ASSUME LedgerAssumption ==
    /\ IsFiniteSet(Owners)
    /\ NativeOwners \subseteq Owners
    /\ Bytes \in [Owners -> Nat]
    /\ MaxRetainedBytes \in Nat
    /\ MaxNativePlans \in Nat

VARIABLES
    leases,             \* #leases: the owners whose reservation is live
    retainedBytes,      \* #retainedBytes
    retainedNative      \* #retainedNativeSnapshotPlans

ledger == <<leases, retainedBytes, retainedNative>>

BytesOf(S) == MapThenSumSet(LAMBDA o : Bytes[o], S)

LedgerInit == leases = {} /\ retainedBytes = 0 /\ retainedNative = 0

(* Mutant: the admission test of a ledger that is off by one.               *)
Admits_OffByOne(o, out) ==
    /\ retainedBytes - BytesOf(out) <= MaxRetainedBytes - Bytes[o] + 1
    /\ o \in NativeOwners => retainedNative - Cardinality(out \cap NativeOwners) < MaxNativePlans

(* Whether `o` is admitted once the leases `out` are back.                  *)
Admits(o, out) ==
    /\ retainedBytes - BytesOf(out) <= MaxRetainedBytes - Bytes[o]
    /\ o \in NativeOwners => retainedNative - Cardinality(out \cap NativeOwners) < MaxNativePlans

(* Mutant: a release that forgets the native slot.                          *)
Relet_KeepsNative(out, in) ==
    /\ leases' = (leases \ out) \cup in
    /\ retainedBytes' = retainedBytes - BytesOf(out \cap leases) + BytesOf(in)
    /\ retainedNative' = retainedNative + Cardinality(in \cap NativeOwners)

(* The leases `out` are released and `in` are admitted.  A second release   *)
(* of a lease does nothing.                                                 *)
Relet(out, in) ==
    /\ leases' = (leases \ out) \cup in
    /\ retainedBytes' = retainedBytes - BytesOf(out \cap leases) + BytesOf(in)
    /\ retainedNative' = retainedNative - Cardinality(out \cap leases \cap NativeOwners)
                                        + Cardinality(in \cap NativeOwners)

Release(out) == Relet(out, {})

-----------------------------------------------------------------------------
LedgerTypeOK == /\ leases \subseteq Owners
                /\ retainedNative \in Int

(* The counters always equal what the live leases add up to, and never      *)
(* exceed the limits: nothing is charged twice or given back twice.         *)
LedgerBalanced ==
    /\ retainedBytes = BytesOf(leases)
    /\ retainedNative = Cardinality(leases \cap NativeOwners)
    /\ retainedBytes <= MaxRetainedBytes
    /\ retainedNative <= MaxNativePlans
=============================================================================
