----------------------------- MODULE HandleRegistry -----------------------------
(* The handles of a Studio session and the carriers they retain.  An opened *)
(* brand source holds file handles on its carrier, shared by reference      *)
(* count: the handle is one authority over it, every request that leases it *)
(* a second, and a consumer plan made by the request a third that outlives  *)
(* both.  Requests, the disposal of plans and up to two disposals of the    *)
(* whole registry, the shutdown's and the session's clear(), interleave at  *)
(* their awaits.  An auxiliary source retains its bytes only.               *)
EXTENDS AuthorityLedger

CONSTANTS
    Sources,        \* calls of openSource with a brand purpose, one carrier each
    Auxiliaries,    \* calls of openSource with an auxiliary purpose
    Leases,         \* calls of leaseBrandSources
    PlanLeases,     \* consumer plans
    HandlesOf,      \* the handles a lease asks for
    LeaseOf,        \* the request's lease a plan is made from
    DisposeCalls,   \* calls of dispose()
    None

Opens == Sources \cup Auxiliaries
Holders == Sources \cup Leases \cup PlanLeases

ASSUME HandlesAssumption ==
    /\ Owners = Opens /\ NativeOwners = {}
    /\ IsFiniteSet(Holders) /\ IsFiniteSet(DisposeCalls)
    /\ Sources \cap Auxiliaries = {} /\ Sources \cap (Leases \cup PlanLeases) = {}
    /\ Leases \cap PlanLeases = {}
    /\ HandlesOf \in [Leases -> SUBSET Sources]
    /\ LeaseOf \in [PlanLeases -> Leases]
    /\ None \notin Sources

VARIABLES
    opening,        \* how far each openSource is
    records,        \* #records
    carrier,        \* the files of each carrier
    references,     \* references of each SharedSourceAuthority
    held,           \* the shared authorities each authority has not released
    released,       \* the authorities whose `released` is set
    awaiting,       \* the carrier whose closing a disposal waits for
    step,           \* how far each lease and plan is
    called,         \* the dispose calls made
    left,           \* the records each dispose call has still to go through
    current         \* the record a dispose call is at

authority == <<carrier, references, held, released, awaiting>>
disposal == <<called, left, current>>
vars == <<ledger, opening, records, authority, step, disposal>>

HoldersOf(s) == {h \in Holders : s \in held[h]}
Settled(h) == h \in released /\ held[h] = {} /\ awaiting[h] = None

Init ==
    /\ LedgerInit
    /\ opening = [s \in Opens |-> "new"]
    /\ records = {}
    /\ carrier = [s \in Sources |-> "none"]
    /\ references = [s \in Sources |-> 0]
    /\ held = [h \in Holders |-> {}]
    /\ released = {}
    /\ awaiting = [h \in Holders |-> None]
    /\ step = [h \in Leases \cup PlanLeases |-> "new"]
    /\ called = {}
    /\ left = [d \in DisposeCalls |-> {}]
    /\ current = [d \in DisposeCalls |-> None]

-----------------------------------------------------------------------------
(* The authorities over carriers.                                           *)

\* A new authority retains every carrier it is made from.
Retain(h, S) ==
    /\ held' = [held EXCEPT ![h] = S]
    /\ references' = [s \in Sources |-> references[s] + (IF s \in S THEN 1 ELSE 0)]

\* One turn of disposeConsumerSources: it marks the authority and releases a
\* carrier; the last release closes its files, which is awaited.
ReleaseShared_Always(h, s) ==
    /\ awaiting[h] = None /\ s \in held[h]
    /\ released' = released \cup {h}
    /\ held' = [held EXCEPT ![h] = @ \ {s}]
    /\ references' = [references EXCEPT ![s] = @ - 1]
    /\ carrier' = [carrier EXCEPT ![s] = "closing"]
    /\ awaiting' = [awaiting EXCEPT ![h] = s]

ReleaseShared(h, s) ==
    /\ awaiting[h] = None /\ s \in held[h]
    /\ released' = released \cup {h}
    /\ held' = [held EXCEPT ![h] = @ \ {s}]
    /\ references' = [references EXCEPT ![s] = @ - 1]
    /\ IF references[s] = 1
       THEN /\ carrier' = [carrier EXCEPT ![s] = "closing"]
            /\ awaiting' = [awaiting EXCEPT ![h] = s]
       ELSE UNCHANGED <<carrier, awaiting>>

CarrierCloses(h) ==
    /\ awaiting[h] # None
    /\ carrier' = [carrier EXCEPT ![awaiting[h]] = "closed"]
    /\ awaiting' = [awaiting EXCEPT ![h] = None]
    /\ UNCHANGED <<ledger, opening, records, references, held, released, step, disposal>>

-----------------------------------------------------------------------------
(* openSource.                                                              *)

OpenStarts(s) ==
    /\ opening[s] = "new"
    /\ opening' = [opening EXCEPT ![s] = "verifying"]
    /\ carrier' = [c \in Sources |-> IF c = s THEN "open" ELSE carrier[c]]
    /\ UNCHANGED <<ledger, records, references, held, released, awaiting, step, disposal>>

\* The carrier or the file does not verify.  The verifier closes what it
\* opened, but not the archive of a package that createPackage refuses.
OpenFails(s) ==
    /\ opening[s] = "verifying"
    /\ opening' = [opening EXCEPT ![s] = "refused"]
    /\ \E how \in {"closed", "leaked"} :
          carrier' = [c \in Sources |-> IF c = s THEN how ELSE carrier[c]]
    /\ UNCHANGED <<ledger, records, references, held, released, awaiting, step, disposal>>

\* From here to the record nothing is awaited.
OpenSucceeds(s) ==
    /\ opening[s] = "verifying"
    /\ Admits(s, {})
    /\ Relet({}, {s})
    /\ opening' = [opening EXCEPT ![s] = "opened"]
    /\ records' = records \cup {s}
    /\ IF s \in Sources THEN Retain(s, {s}) ELSE UNCHANGED <<held, references>>
    /\ UNCHANGED <<carrier, released, awaiting, step, disposal>>

OpenRefused_Charged(s) ==
    /\ opening[s] = "verifying"
    /\ Admits(s, {})
    /\ Relet({}, {s})
    /\ opening' = [opening EXCEPT ![s] = "refused"]
    /\ carrier' = [c \in Sources |-> IF c = s THEN "closed" ELSE carrier[c]]
    /\ UNCHANGED <<records, references, held, released, awaiting, step, disposal>>

OpenRefused_Undisposed(s) ==
    /\ opening[s] = "verifying"
    /\ opening' = [opening EXCEPT ![s] = "refused"]
    /\ UNCHANGED <<ledger, records, authority, step, disposal>>

\* The request was cancelled, or the ledger is full: the sources just
\* verified are disposed.
OpenRefused(s) ==
    /\ opening[s] = "verifying"
    /\ opening' = [opening EXCEPT ![s] = "refused"]
    /\ IF s \in Sources
       THEN /\ carrier' = [carrier EXCEPT ![s] = "closing"]
            /\ released' = released \cup {s}
            /\ awaiting' = [awaiting EXCEPT ![s] = s]
       ELSE UNCHANGED <<carrier, released, awaiting>>
    /\ UNCHANGED <<ledger, records, references, held, step, disposal>>

-----------------------------------------------------------------------------
(* leaseBrandSources, and the plan a request may make of its lease.         *)

Goto(h, to) == /\ step' = [step EXCEPT ![h] = to]
               /\ UNCHANGED <<ledger, opening, records, disposal>>

\* Every handle must have its record; then all are revalidated, concurrently.
LeaseStarts(l) ==
    /\ step[l] = "new" /\ HandlesOf[l] \subseteq records
    /\ Goto(l, "checking")
    /\ UNCHANGED authority

LeaseUnknown(l) ==
    /\ step[l] = "new" /\ ~(HandlesOf[l] \subseteq records)
    /\ Goto(l, "failed")
    /\ UNCHANGED authority

\* A carrier has changed, one of the sources was disposed meanwhile, or two
\* are of one package.
LeaseFails(l) ==
    /\ step[l] = "checking"
    /\ Goto(l, "failed")
    /\ UNCHANGED authority

\* Otherwise the sources are combined; each must still be live.
LeaseCombined(l) ==
    /\ step[l] = "checking"
    /\ HandlesOf[l] \cap released = {}
    /\ Retain(l, HandlesOf[l])
    /\ Goto(l, "using")
    /\ UNCHANGED <<carrier, released, awaiting>>

\* The planner takes a lease of its own while the request's is live.
PlanLeased(p) ==
    /\ step[p] = "new"
    /\ step[LeaseOf[p]] = "using" /\ LeaseOf[p] \notin released
    /\ Retain(p, held[LeaseOf[p]])
    /\ Goto(p, "using")
    /\ UNCHANGED <<carrier, released, awaiting>>

\* The request's finally, or the plan's disposal whenever that comes.
LeaseDisposed(h) ==
    /\ step[h] = "using"
    /\ \E s \in Sources : ReleaseShared(h, s)
    /\ UNCHANGED <<ledger, opening, records, step, disposal>>

-----------------------------------------------------------------------------
(* dispose(), which clear() calls without waiting for it.                   *)

DisposeCalled(d) ==
    /\ d \notin called
    /\ called' = called \cup {d}
    /\ left' = [left EXCEPT ![d] = records]
    /\ records' = {}
    /\ UNCHANGED <<ledger, opening, authority, step, current>>

\* The loop waits for one record's sources before it takes the next.
AtRest(d) == current[d] = None \/ (current[d] # None /\ Settled(current[d]))

DisposeSource(d, s) ==
    /\ AtRest(d) /\ s \in left[d] \cap Sources
    /\ left' = [left EXCEPT ![d] = @ \ {s}]
    /\ current' = [current EXCEPT ![d] = s]
    /\ Release({s})
    /\ ReleaseShared(s, s)
    /\ UNCHANGED <<opening, records, step, called>>

DisposeAuxiliary(d, s) ==
    /\ AtRest(d) /\ s \in left[d] \cap Auxiliaries
    /\ left' = [left EXCEPT ![d] = @ \ {s}]
    /\ Release({s})
    /\ UNCHANGED <<opening, records, authority, step, called, current>>

Next ==
    \/ \E s \in Opens : OpenStarts(s) \/ OpenFails(s) \/ OpenSucceeds(s) \/ OpenRefused(s)
    \/ \E l \in Leases : LeaseStarts(l) \/ LeaseUnknown(l) \/ LeaseFails(l) \/ LeaseCombined(l)
    \/ \E p \in PlanLeases : PlanLeased(p)
    \/ \E h \in Leases \cup PlanLeases : LeaseDisposed(h)
    \/ \E h \in Holders : CarrierCloses(h)
    \/ \E d \in DisposeCalls : DisposeCalled(d)
    \/ \E d \in DisposeCalls, s \in Opens : DisposeSource(d, s) \/ DisposeAuxiliary(d, s)

Spec == Init /\ [][Next]_vars

-----------------------------------------------------------------------------
\* The shape of the state; no count is ever taken below zero.
TypeOK ==
    /\ LedgerTypeOK
    /\ opening \in [Opens -> {"new", "verifying", "opened", "refused"}]
    /\ records \subseteq Opens
    /\ carrier \in [Sources -> {"none", "open", "closing", "closed", "leaked"}]
    /\ references \in [Sources -> Nat]
    /\ held \in [Holders -> SUBSET Sources]
    /\ released \subseteq Holders
    /\ awaiting \in [Holders -> Sources \cup {None}]
    /\ step \in [Leases \cup PlanLeases -> {"new", "checking", "using", "failed"}]
    /\ called \subseteq DisposeCalls
    /\ left \in [DisposeCalls -> SUBSET Opens]
    /\ current \in [DisposeCalls -> Sources \cup {None}]

\* The reference count of a carrier is the number of authorities that hold
\* it, and its files stay open as long as one does: a request or a plan never
\* works on a carrier that a handle's disposal has closed under it.
CarriersCounted ==
    \A s \in Sources :
        /\ references[s] = Cardinality(HoldersOf(s))
        /\ HoldersOf(s) # {} => carrier[s] = "open"

\* The ledger is charged for a source exactly while it has a record or is
\* waiting for its turn in a disposal.
ChargeFollowsHandle ==
    /\ leases = records \cup UNION {left[d] : d \in DisposeCalls}
    /\ \A d, e \in DisposeCalls : left[d] \cap left[e] # {} => d = e

\* Together: what is counted and charged by hand is what is held.
HoldingsCounted == CarriersCounted /\ ChargeFollowsHandle

\* When nothing is under way and the registry is empty, nothing is left: the
\* ledger is back at zero and no carrier that passed verification is open.
Quiet ==
    /\ records = {}
    /\ \A s \in Opens : opening[s] # "verifying"
    /\ \A h \in Leases \cup PlanLeases : step[h] \in {"new", "failed"} \/ Settled(h)
    /\ \A h \in Holders : awaiting[h] = None
    /\ \A d \in DisposeCalls : left[d] = {}
NothingLeft ==
    Quiet => /\ leases = {} /\ retainedBytes = 0
             /\ \A s \in Sources : carrier[s] \in {"none", "closed", "leaked"}
=============================================================================
