----------------------------- MODULE DurableTree -----------------------------
(***************************************************************************)
(* What a canonical transaction promises, without stages, backups or locks:*)
(* a project has one tree, a transaction replaces it as a whole and only   *)
(* while it still is the tree the transaction was planned from, and a      *)
(* power cut can only bring back a tree that was not made durable since.   *)
(***************************************************************************)
CONSTANTS
    Txns,           \* transactions, each named for the tree it writes
    Edits,          \* human edits, each named for the tree it leaves
    Initials,       \* the trees there may be at the start, no tree among them or not
    None            \* no tree

VARIABLES
    tree,           \* the project's tree
    recoverable,    \* the trees a power cut could bring back
    base,           \* the tree each transaction was planned from
    committed       \* the transactions that have taken effect

vars == <<tree, recoverable, base, committed>>

Init ==
    /\ tree \in Initials
    /\ recoverable = {tree}
    /\ base = [t \in Txns |-> None]
    /\ committed = {}

(* A plan remembers a tree; while a replacement is under way it may have    *)
(* seen none.                                                               *)
Plan(t) ==
    /\ t \notin committed
    /\ \E seen \in {tree, None} : base' = [base EXCEPT ![t] = seen]
    /\ UNCHANGED <<tree, recoverable, committed>>

Commit(t) ==
    /\ t \notin committed
    /\ tree = base[t]
    /\ tree' = t
    /\ recoverable' = recoverable \cup {t}
    /\ committed' = committed \cup {t}
    /\ UNCHANGED base

HumanEdit(e) ==
    /\ tree' = e
    /\ recoverable' = recoverable \cup {e}
    /\ UNCHANGED <<base, committed>>

(* Some trees can no longer come back.                                      *)
Persist ==
    /\ tree \in recoverable'
    /\ recoverable' \in SUBSET recoverable
    /\ UNCHANGED <<tree, base, committed>>

PowerCut ==
    /\ tree' \in recoverable
    /\ recoverable' = {tree'}
    /\ UNCHANGED <<base, committed>>

Next ==
    \/ \E t \in Txns : Plan(t) \/ Commit(t)
    \/ \E e \in Edits : HumanEdit(e)
    \/ Persist
    \/ PowerCut

Spec == Init /\ [][Next]_vars
=============================================================================
