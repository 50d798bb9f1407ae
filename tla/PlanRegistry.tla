------------------------------ MODULE PlanRegistry ------------------------------
(***************************************************************************)
(* The life of a plan in a Studio session: a *.plan method makes a domain  *)
(* plan and registers it, plan.apply authenticates and executes it,        *)
(* plan.discard, expiry or shutdown drop it (plan-registry.ts, with the    *)
(* callers of mutation-methods.ts and session.ts).  Node runs one handler  *)
(* at a time, so an action is what a handler does between two awaits;      *)
(* planners, the apply in progress, asynchronous disposals, client         *)
(* cancellations, the clock and the session's shutdown interleave.         *)
(*                                                                         *)
(* A token is the plan it was issued for: tokens are 32 random bytes.      *)
(* Session and binding checks reject like an unknown token.                *)
(***************************************************************************)
EXTENDS AuthorityLedger

CONSTANTS
    Plans,          \* the plan requests, and the plan each of them makes
    Handles,        \* the handles of the session, which share the ledger
    Applies,        \* the plan.apply requests
    Checked,        \* plans whose method looks at its signal after the planner returned
    MaxActive,      \* maxActivePlans: 4 in the code
    TTL,            \* planTtlMs
    MaxTime,        \* bound on the clock
    None

ASSUME RegistryAssumption ==
    /\ Owners = Plans \cup Handles
    /\ Plans \cap Handles = {} /\ Plans \cap Applies = {}
    /\ NativeOwners \subseteq Plans
    /\ Checked \subseteq Plans
    /\ None \notin Plans \cup Applies
    /\ MaxActive \in Nat \ {0} /\ TTL \in Nat \ {0} /\ MaxTime \in Nat

VARIABLES
    records,        \* #records
    createdAt,      \* the time each record was made
    retainedCount,  \* #retainedPlanCount
    planBytes,      \* #retainedPlanBytes
    pending,        \* #pendingDisposals
    closed,         \* #closed
    lane,           \* #applyBusy and #activeApply: the apply in progress
    request,        \* the state of each *.plan request
    aborted,        \* the requests whose AbortSignal has fired
    answer,         \* the answer to each apply request
    stage,          \* how far the session's shutdown has come
    now,            \* the monotonic clock
    disposals,      \* how often each plan's disposer was called
    uses,           \* how often each plan was handed to its executor
    ended,          \* the plans whose token was spent, discarded, expired or closed
    promoted        \* the apply requests that reached their first rename

registry == <<records, createdAt, retainedCount, planBytes, pending, closed>>
requests == <<lane, request, aborted, answer>>
history == <<disposals, uses, ended, promoted>>
vars == <<ledger, registry, requests, stage, now, history>>

-----------------------------------------------------------------------------
Phases == {"idle", "revalidate", "execute", "promote", "settle"}
Outcomes == {"none", "ok", "busy", "token", "digest", "stale", "failed", "cancelled"}

Idle == [phase |-> "idle", call |-> None, plan |-> None, outcome |-> "none"]

(* The plan that was authenticated and is not disposed yet.                 *)
Using == IF lane.plan = None THEN {} ELSE {lane.plan}

(* sweepExpired: age equal to the limit is expired.                         *)
Expired == {p \in records : now - createdAt[p] >= TTL}

(* disposeOnce for the plans in S: the lease, the counters and the slot     *)
(* come back at once, the disposer may still be running.                    *)
Dispose(S) ==
    /\ Release(S)
    /\ retainedCount' = retainedCount - Cardinality(S)
    /\ planBytes' = planBytes - BytesOf(S)
    /\ pending' = pending \cup S
    /\ disposals' = [p \in Plans |-> disposals[p] + (IF p \in S THEN 1 ELSE 0)]

(* Records dropped, their tokens good no more.                              *)
Drop(S) == /\ records' = records \ S
           /\ ended' = ended \cup S
           /\ Dispose(S)

Init ==
    /\ LedgerInit
    /\ records = {} /\ createdAt = [p \in Plans |-> 0]
    /\ retainedCount = 0 /\ planBytes = 0 /\ pending = {} /\ closed = FALSE
    /\ lane = Idle
    /\ request = [p \in Plans |-> "none"]
    /\ aborted = {}
    /\ answer = [a \in Applies |-> "none"]
    /\ stage = "open" /\ now = 0
    /\ disposals = [p \in Plans |-> 0] /\ uses = [p \in Plans |-> 0]
    /\ ended = {} /\ promoted = {}

-----------------------------------------------------------------------------
(* The *.plan methods.                                                      *)

(* A planner starts; the server takes no request once it shuts down.        *)
PlanRequested(p) ==
    /\ request[p] = "none" /\ stage = "open"
    /\ request' = [request EXCEPT ![p] = "planning"]
    /\ UNCHANGED <<ledger, registry, lane, aborted, answer, stage, now, history>>

(* The planner throws: a domain failure, or its own cancellation checkpoint *)
(* saw the signal.  It releases what it had opened.                         *)
PlanningFails(p) ==
    /\ request[p] = "planning"
    /\ request' = [request EXCEPT ![p] = "failed"]
    /\ UNCHANGED <<ledger, registry, lane, aborted, answer, stage, now, history>>

(* The planner returned, but the method's own check of the signal throws:   *)
(* nobody disposes the plan.                                                *)
PlanDropped(p) ==
    /\ request[p] = "planning" /\ p \in Checked \cap aborted
    /\ request' = [request EXCEPT ![p] = "dropped"]
    /\ UNCHANGED <<ledger, registry, lane, aborted, answer, stage, now, history>>

Returned(p) == request[p] = "planning" /\ p \notin Checked \cap aborted

(* register on a closed registry throws before it takes the plan over.      *)
RegisterClosed(p) ==
    /\ Returned(p) /\ closed
    /\ request' = [request EXCEPT ![p] = "dropped"]
    /\ UNCHANGED <<ledger, registry, lane, aborted, answer, stage, now, history>>

(* The limits register checks after its sweep.                              *)
Fits(p) == /\ retainedCount - Cardinality(Expired) < MaxActive
           /\ Admits(p, Expired)

(* Mutant: register leaves a plan it has no room for to its caller.         *)
RegisterRefused_Undisposed(p) ==
    /\ Returned(p) /\ ~closed /\ ~Fits(p)
    /\ Drop(Expired)
    /\ request' = [request EXCEPT ![p] = "refused"]
    /\ UNCHANGED <<createdAt, closed, lane, aborted, answer, stage, now, uses, promoted>>

(* Mutant: a refused plan is given back like a retained one.                *)
RegisterRefused_Counted(p) ==
    /\ Returned(p) /\ ~closed /\ ~Fits(p)
    /\ Drop(Expired \cup {p})
    /\ request' = [request EXCEPT ![p] = "refused"]
    /\ UNCHANGED <<createdAt, closed, lane, aborted, answer, stage, now, uses, promoted>>

(* No room: the plan is disposed and the request answered REQUEST_BUSY.     *)
(* The disposal of a plan that never got a lease is not tracked.            *)
RegisterRefused(p) ==
    /\ Returned(p) /\ ~closed /\ ~Fits(p)
    /\ records' = records \ Expired
    /\ ended' = ended \cup Expired
    /\ Release(Expired)
    /\ retainedCount' = retainedCount - Cardinality(Expired)
    /\ planBytes' = planBytes - BytesOf(Expired)
    /\ pending' = pending \cup Expired
    /\ disposals' = [q \in Plans |-> disposals[q] + (IF q \in Expired \cup {p} THEN 1 ELSE 0)]
    /\ request' = [request EXCEPT ![p] = "refused"]
    /\ UNCHANGED <<createdAt, closed, lane, aborted, answer, stage, now, uses, promoted>>

Register(p) ==
    /\ Returned(p) /\ ~closed /\ Fits(p)
    /\ records' = (records \ Expired) \cup {p}
    /\ ended' = ended \cup Expired
    /\ Relet(Expired, {p})
    /\ createdAt' = [createdAt EXCEPT ![p] = now]
    /\ retainedCount' = retainedCount - Cardinality(Expired) + 1
    /\ planBytes' = planBytes - BytesOf(Expired) + Bytes[p]
    /\ pending' = pending \cup Expired
    /\ disposals' = [q \in Plans |-> disposals[q] + (IF q \in Expired THEN 1 ELSE 0)]
    /\ request' = [request EXCEPT ![p] = "retained"]
    /\ UNCHANGED <<closed, lane, aborted, answer, stage, now, uses, promoted>>

-----------------------------------------------------------------------------
(* plan.discard.                                                            *)

Issued(p) == request[p] = "retained"

Discard(p) ==
    /\ Issued(p) /\ ~closed
    /\ Drop(Expired \cup (records \cap {p}))
    /\ UNCHANGED <<createdAt, closed, requests, stage, now, uses, promoted>>

-----------------------------------------------------------------------------
(* plan.apply.  runMutation makes the signal and starts the task in the     *)
(* same turn, so it cannot be aborted when apply and performApply test it;  *)
(* the server's shuttingDown test comes before the registry's own.          *)

(* The lane is single and unqueued, and asked before the token is.          *)
ApplyBusy(a, p) ==
    /\ answer[a] = "none" /\ lane.call # a /\ Issued(p) /\ ~closed
    /\ lane.phase # "idle"
    /\ answer' = [answer EXCEPT ![a] = "busy"]
    /\ UNCHANGED <<ledger, registry, lane, request, aborted, stage, now, history>>

MayApply(a, p) == /\ answer[a] = "none" /\ Issued(p) /\ ~closed
                  /\ lane.phase = "idle"

Fail(a, outcome) == lane' = [phase |-> "settle", call |-> a, plan |-> None, outcome |-> outcome]

ApplyInvalid(a, p) ==
    /\ MayApply(a, p) /\ p \notin records \ Expired
    /\ Drop(Expired)
    /\ Fail(a, "token")
    /\ UNCHANGED <<createdAt, closed, request, aborted, answer, stage, now, uses, promoted>>

(* Mutant: a wrong digest spends the token.                                 *)
ApplyMismatch_Spends(a, p) ==
    /\ MayApply(a, p) /\ p \in records \ Expired
    /\ records' = (records \ Expired) \ {p}
    /\ ended' = ended \cup Expired
    /\ Dispose(Expired)
    /\ Fail(a, "digest")
    /\ UNCHANGED <<createdAt, closed, request, aborted, answer, stage, now, uses, promoted>>

(* The client shows a digest that is not the plan's: the record stays.      *)
ApplyMismatch(a, p) ==
    /\ MayApply(a, p) /\ p \in records \ Expired
    /\ Drop(Expired)
    /\ Fail(a, "digest")
    /\ UNCHANGED <<createdAt, closed, request, aborted, answer, stage, now, uses, promoted>>

(* Mutant: the record is not removed when its plan is handed out.           *)
Authenticate_Keeps(a, p) ==
    /\ MayApply(a, p) /\ p \in records \ Expired
    /\ records' = records \ Expired
    /\ ended' = ended \cup Expired \cup {p}
    /\ Dispose(Expired)
    /\ uses' = [uses EXCEPT ![p] = @ + 1]
    /\ lane' = [phase |-> "revalidate", call |-> a, plan |-> p, outcome |-> "none"]
    /\ UNCHANGED <<createdAt, closed, request, aborted, answer, stage, now, promoted>>

(* authenticateInternal succeeds: the record goes, the plan is consumed and *)
(* its executor starts revalidating.                                        *)
Authenticate(a, p) ==
    /\ MayApply(a, p) /\ p \in records \ Expired
    /\ records' = (records \ Expired) \ {p}
    /\ ended' = ended \cup Expired \cup {p}
    /\ Dispose(Expired)
    /\ uses' = [uses EXCEPT ![p] = @ + 1]
    /\ lane' = [phase |-> "revalidate", call |-> a, plan |-> p, outcome |-> "none"]
    /\ UNCHANGED <<createdAt, closed, request, aborted, answer, stage, now, promoted>>

Advance(from, to) == /\ lane.phase = from
                     /\ lane' = [lane EXCEPT !.phase = to]
Settle(from, outcome) == /\ lane.phase \in from
                         /\ lane' = [lane EXCEPT !.phase = "settle", !.outcome = outcome]

UnchangedByExecutor == UNCHANGED <<ledger, registry, request, aborted, answer, stage, now,
                                   disposals, uses, ended>>

Revalidated ==
    /\ lane.call \notin aborted
    /\ Advance("revalidate", "execute")
    /\ UNCHANGED promoted /\ UnchangedByExecutor

(* The handles no longer match what the plan was made from, or the executor *)
(* found its target changed: before its first rename, or after it (a target *)
(* that appears while the old one is a backup), when it has undone the      *)
(* rename before it throws.  mapApplyFailure answers PLAN_STALE for both.   *)
Stale == /\ Settle({"revalidate", "execute", "promote"}, "stale")
         /\ UNCHANGED promoted /\ UnchangedByExecutor

(* markPromotion: the last look at the signal.                              *)
Promote ==
    /\ lane.call \notin aborted
    /\ Advance("execute", "promote")
    /\ promoted' = promoted \cup {lane.call}
    /\ UnchangedByExecutor

(* Mutant: a cancellation is believed even after the first rename.          *)
ApplyCancelled_Late ==
    /\ lane.call \in aborted
    /\ Settle({"revalidate", "execute", "promote"}, "cancelled")
    /\ UNCHANGED promoted /\ UnchangedByExecutor

(* A checkpoint before promotion saw the signal, or the transaction failed  *)
(* while the signal was set (mapApplyFailure).                              *)
ApplyCancelled ==
    /\ lane.call \in aborted
    /\ Settle({"revalidate", "execute"}, "cancelled")
    /\ UNCHANGED promoted /\ UnchangedByExecutor

ApplyFails == /\ Settle({"revalidate", "execute", "promote"}, "failed")
              /\ UNCHANGED promoted /\ UnchangedByExecutor

(* A plan that changes nothing never reaches a hook.                        *)
NothingToDo == /\ Settle({"execute"}, "ok")
               /\ UNCHANGED promoted /\ UnchangedByExecutor

Applied == /\ Settle({"promote"}, "ok")
           /\ UNCHANGED promoted /\ UnchangedByExecutor

(* Mutant: a failed apply leaves the lane taken.                            *)
ApplySettles_Stuck ==
    /\ lane.phase = "settle" /\ lane.plan # None
    /\ Dispose(Using)
    /\ answer' = [answer EXCEPT ![lane.call] = lane.outcome]
    /\ lane' = Idle
    /\ UNCHANGED <<records, createdAt, closed, request, aborted, stage, now, uses, ended, promoted>>

(* The finally of performApply disposes the plan, the finally of apply      *)
(* frees the lane; no handler runs in between.                              *)
ApplySettles ==
    /\ lane.phase = "settle"
    /\ Dispose(Using)
    /\ answer' = [answer EXCEPT ![lane.call] = lane.outcome]
    /\ lane' = Idle
    /\ UNCHANGED <<records, createdAt, closed, request, aborted, stage, now, uses, ended, promoted>>

-----------------------------------------------------------------------------
(* Disposals, handles, the client and the clock.                            *)

(* A disposer's promise settles; its errors are swallowed.                  *)
DisposalSettles(p) ==
    /\ p \in pending
    /\ pending' = pending \ {p}
    /\ UNCHANGED <<ledger, records, createdAt, retainedCount, planBytes, closed, requests,
                   stage, now, history>>

(* An opened source keeps its bytes until the session disposes its handles. *)
HandleOpened(h) ==
    /\ stage = "open" /\ h \notin leases
    /\ Admits(h, {})
    /\ Relet({}, {h})
    /\ UNCHANGED <<registry, requests, stage, now, history>>

(* $/cancelRequest for a request in progress.                               *)
Cancel(c) ==
    /\ stage = "open" /\ c \notin aborted
    /\ \/ c \in Plans /\ request[c] = "planning"
       \/ c = lane.call
    /\ aborted' = aborted \cup {c}
    /\ UNCHANGED <<ledger, registry, lane, request, answer, stage, now, history>>

Tick == /\ now < MaxTime
        /\ now' = now + 1
        /\ UNCHANGED <<ledger, registry, requests, stage, history>>

-----------------------------------------------------------------------------
(* The session's shutdown.                                                  *)

InProgress == {p \in Plans : request[p] = "planning"} \cup ({lane.call} \ {None})

(* cancelAll, then plans.shutdown up to its first await.                    *)
Shutdown ==
    /\ stage = "open"
    /\ stage' = "plans"
    /\ closed' = TRUE
    /\ aborted' = aborted \cup InProgress
    /\ Drop(records)
    /\ UNCHANGED <<createdAt, lane, request, answer, now, uses, promoted>>

(* Mutant: shutdown does not wait for the apply in progress.                *)
PlansClosed_Early ==
    /\ stage = "plans" /\ pending = {}
    /\ stage' = "idle"
    /\ UNCHANGED <<ledger, registry, requests, now, history>>

(* plans.shutdown resolves: the apply has settled and no disposer runs.     *)
PlansClosed ==
    /\ stage = "plans" /\ lane.phase = "idle" /\ pending = {}
    /\ stage' = "idle"
    /\ UNCHANGED <<ledger, registry, requests, now, history>>

(* The requests have drained; handles.dispose gives their leases back.      *)
SessionIdle ==
    /\ stage = "idle" /\ InProgress = {}
    /\ stage' = "complete"
    /\ Release(Handles)
    /\ UNCHANGED <<registry, requests, now, history>>

-----------------------------------------------------------------------------
PlanStep(p) == \/ PlanningFails(p) \/ PlanDropped(p)
               \/ RegisterClosed(p) \/ RegisterRefused(p) \/ Register(p)

ApplyStep == \/ Revalidated \/ Stale \/ Promote \/ ApplyCancelled \/ ApplyFails
             \/ NothingToDo \/ Applied \/ ApplySettles

Next ==
    \/ \E p \in Plans : PlanRequested(p) \/ PlanStep(p) \/ Discard(p) \/ DisposalSettles(p)
    \/ \E a \in Applies, p \in Plans :
         ApplyBusy(a, p) \/ ApplyInvalid(a, p) \/ ApplyMismatch(a, p) \/ Authenticate(a, p)
    \/ ApplyStep
    \/ \E h \in Handles : HandleOpened(h)
    \/ \E c \in Plans \cup Applies : Cancel(c)
    \/ Tick
    \/ Shutdown \/ PlansClosed \/ SessionIdle

Spec == Init /\ [][Next]_vars

(* Planners, executors and disposers are promises that settle; Node runs    *)
(* every continuation that is ready.  A shutdown need not be requested.     *)
FairSpec == /\ Spec
            /\ \A p \in Plans : WF_vars(PlanStep(p)) /\ WF_vars(DisposalSettles(p))
            /\ WF_vars(ApplyStep)
            /\ WF_vars(PlansClosed) /\ WF_vars(SessionIdle)

-----------------------------------------------------------------------------
(* The shape of the state.                                                  *)
TypeOK ==
    /\ LedgerTypeOK
    /\ records \subseteq Plans /\ pending \subseteq Plans /\ ended \subseteq Plans
    /\ createdAt \in [Plans -> Nat] /\ now \in Nat
    /\ retainedCount \in Nat
    /\ closed \in BOOLEAN
    /\ lane \in [phase : Phases, call : Applies \cup {None}, plan : Plans \cup {None},
                 outcome : Outcomes]
    /\ request \in [Plans -> {"none", "planning", "failed", "dropped", "refused", "retained"}]
    /\ aborted \subseteq Plans \cup Applies
    /\ promoted \subseteq Applies
    /\ answer \in [Applies -> Outcomes]
    /\ stage \in {"open", "plans", "idle", "complete"}
    /\ disposals \in [Plans -> Int] /\ uses \in [Plans -> Int]

(* A plan holds its lease and its slot in the count exactly while it is     *)
(* retained or in use: a rejected, expired, discarded or settled plan       *)
(* leaves no trace in the limits, and the count stays within the limit.     *)
Accounted ==
    /\ leases \cap Plans = records \cup Using
    /\ retainedCount = Cardinality(records \cup Using)
    /\ retainedCount <= MaxActive

(* The ledger and the registry agree with the live leases to the byte; once *)
(* plans.shutdown has resolved no plan is applied, retained or being        *)
(* disposed, and when the session's shutdown completes every lease is back. *)
BooksBalanced ==
    /\ LedgerBalanced
    /\ planBytes = BytesOf(records \cup Using)
    /\ stage \in {"idle", "complete"} =>
          records = {} /\ pending = {} /\ lane = Idle /\ leases \cap Plans = {}
    /\ stage = "complete" => leases = {} /\ retainedBytes = 0 /\ InProgress = {}

(* Disposal is exactly once: a plan the open registry took over has had its *)
(* disposer called once when it was refused or its token is gone and it is  *)
(* not in use, and never before.                                            *)
DisposedOnce ==
    \A p \in Plans :
        disposals[p] = IF request[p] = "refused" \/ p \in ended \ Using THEN 1 ELSE 0

(* A token is good for one execution, however many requests show it, and    *)
(* stays good until it is used, discarded, expired or the session shuts     *)
(* down: requests that fail do not spend it.                                *)
TokenGoodOnce ==
    \A p \in Plans : /\ uses[p] <= 1
                     /\ uses[p] = 1 => p \notin records
                     /\ request[p] = "retained" => p \in records \cup ended

(* REQUEST_CANCELLED is only answered to a request whose signal has fired   *)
(* and whose executor never reached its first rename; one that did is       *)
(* answered by what the executor then did, whenever the signal fires.       *)
CancelledUntouched ==
    \A a \in Applies :
        /\ answer[a] = "cancelled" => a \in aborted
        /\ a \in promoted => answer[a] \in {"none", "ok", "stale", "failed"}

(* A shutdown completes, whatever was in progress, and every apply that     *)
(* took the lane is answered and leaves it.                                 *)
EverythingEnds ==
    /\ stage = "plans" ~> stage = "complete"
    /\ \A a \in Applies : lane.call = a ~> (answer[a] # "none" /\ lane.call # a)

(* What the registry's comment asks of disposal, for every plan that a      *)
(* planner made: it has been disposed once when the session has shut down.  *)
EveryPlanDisposed ==
    stage = "complete" =>
        \A p \in Plans : request[p] \in {"dropped", "refused", "retained"} => disposals[p] = 1
=============================================================================
