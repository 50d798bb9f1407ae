----------------------------- MODULE ReadScheduler -----------------------------
(* The scheduler of a Studio session's requests: a map of the active ones   *)
(* by request id, at most one running per lane, at most MaxConcurrentReads  *)
(* running in all, at most MaxQueuedReads waiting behind a busy lane.       *)
(*                                                                          *)
(* A request is one submission; two may carry the same id.  The queue is    *)
(* the set of queued requests in the order of their tickets: push takes the *)
(* next ticket, and splice keeps the order of the others.                   *)
EXTENDS Naturals, FiniteSets

CONSTANTS
    Requests,            \* submissions a client may make
    IdOf,                \* the JSON-RPC id of each
    LaneOf,              \* the lane of each
    MaxConcurrentReads,
    MaxQueuedReads

ASSUME SchedulerAssumption ==
    /\ IsFiniteSet(Requests)
    /\ MaxConcurrentReads \in Nat \ {0}
    /\ MaxQueuedReads \in Nat

VARIABLES
    phase,          \* request -> "new", "queued", "running" or "answered"
    answer,         \* request -> how its promise settled
    ticket,         \* request -> its place in the order of acceptance
    accepted,       \* how many requests were accepted
    aborted,        \* the requests whose AbortController has aborted
    running,        \* the counter #running
    runningLanes,   \* the set #runningLanes
    ran             \* history: the requests whose task was called

vars == <<phase, answer, ticket, accepted, aborted, running, runningLanes, ran>>

Answers == {"none", "settled", "duplicate", "busy", "cancelled"}

Queued == {r \in Requests : phase[r] = "queued"}
Running == {r \in Requests : phase[r] = "running"}
Active == Queued \cup Running

LaneBusy(l) == l \in runningLanes \/ \E q \in Queued : LaneOf[q] = l

Init ==
    /\ phase = [r \in Requests |-> "new"]
    /\ answer = [r \in Requests |-> "none"]
    /\ ticket = [r \in Requests |-> 0]
    /\ accepted = 0
    /\ aborted = {}
    /\ running = 0
    /\ runningLanes = {}
    /\ ran = {}

-----------------------------------------------------------------------------
(* #drain, with n running, the lanes busy and the requests q queued: it     *)
(* walks the queue and starts every request whose lane is free when it gets *)
(* there, until MaxConcurrentReads are running.  A request is passed over   *)
(* when an earlier one of its lane was started.                             *)
LaneHeads_Newest(busy, q) ==
    {r \in q : /\ LaneOf[r] \notin busy
               /\ \A p \in q : LaneOf[p] = LaneOf[r] => ticket[r] >= ticket[p]}

LaneHeads_All(busy, q) == {r \in q : LaneOf[r] \notin busy}

LaneHeads(busy, q) ==
    {r \in q : /\ LaneOf[r] \notin busy
               /\ \A p \in q : LaneOf[p] = LaneOf[r] => ticket[r] <= ticket[p]}

Drained_Never(n, busy, q) == {}

Drained(n, busy, q) ==
    {r \in LaneHeads(busy, q) :
        n + Cardinality({p \in LaneHeads(busy, q) : ticket[p] < ticket[r]})
            < MaxConcurrentReads}

\* #start for each of them, after a request left n running on the lanes busy.
Start(n, busy, started) ==
    /\ running' = n + Cardinality(started)
    /\ runningLanes' = busy \cup {LaneOf[r] : r \in started}
    /\ ran' = ran \cup started

Refuse(r, why) ==
    /\ phase' = [phase EXCEPT ![r] = "answered"]
    /\ answer' = [answer EXCEPT ![r] = why]
    /\ UNCHANGED <<ticket, accepted, aborted, running, runningLanes, ran>>

IdInUse(r) == \E q \in Active : IdOf[q] = IdOf[r]

NoRoom(l) ==
    \/ ~LaneBusy(l) /\ running >= MaxConcurrentReads
    \/ LaneBusy(l) /\ Cardinality(Queued) >= MaxQueuedReads

SubmitDuplicate(r) ==
    /\ phase[r] = "new"
    /\ IdInUse(r)
    /\ Refuse(r, "duplicate")

SubmitBusy(r) ==
    /\ phase[r] = "new"
    /\ ~IdInUse(r)
    /\ NoRoom(LaneOf[r])
    /\ Refuse(r, "busy")

Accept(r, as) ==
    /\ phase[r] = "new"
    /\ ~IdInUse(r)
    /\ ~NoRoom(LaneOf[r])
    /\ phase' = [phase EXCEPT ![r] = as]
    /\ ticket' = [ticket EXCEPT ![r] = accepted + 1]
    /\ accepted' = accepted + 1
    /\ UNCHANGED <<answer, aborted>>

SubmitStarted(r) ==
    /\ ~LaneBusy(LaneOf[r])
    /\ Accept(r, "running")
    /\ Start(running, runningLanes, {r})

SubmitQueued(r) ==
    /\ LaneBusy(LaneOf[r])
    /\ Accept(r, "queued")
    /\ UNCHANGED <<running, runningLanes, ran>>

Submit(r) ==
    SubmitDuplicate(r) \/ SubmitBusy(r) \/ SubmitStarted(r) \/ SubmitQueued(r)

\* r leaves with an answer and the queue is drained.
Leave(r, why, n, busy) ==
    LET started == Drained(n, busy, Queued \ {r})
    IN  /\ phase' = [q \in Requests |->
                        IF q = r THEN "answered"
                        ELSE IF q \in started THEN "running" ELSE phase[q]]
        /\ answer' = [answer EXCEPT ![r] = why]
        /\ Start(n, busy, started)
        /\ UNCHANGED <<ticket, accepted>>

CancelQueued_Stays(r) ==
    /\ r \in Queued
    /\ answer' = [answer EXCEPT ![r] = "cancelled"]
    /\ aborted' = aborted \cup {r}
    /\ UNCHANGED <<phase, ticket, accepted, running, runningLanes, ran>>

\* cancel(id) of a queued request takes it out of the queue ...
CancelQueued(r) ==
    /\ r \in Queued
    /\ Leave(r, "cancelled", running, runningLanes)
    /\ aborted' = aborted \cup {r}

\* ... of a running one only aborts its signal; the task answers.
CancelRunning(r) ==
    /\ r \in Running
    /\ aborted' = aborted \cup {r}
    /\ UNCHANGED <<phase, answer, ticket, accepted, running, runningLanes, ran>>

\* cancelAll() aborts the signals and leaves the queue alone.
CancelAll ==
    /\ aborted' = aborted \cup Active
    /\ UNCHANGED <<phase, answer, ticket, accepted, running, runningLanes, ran>>

\* The task settles, whatever its result, and the finally handler runs.
Settle(r) ==
    /\ r \in Running
    /\ Leave(r, "settled", running - 1, runningLanes \ {LaneOf[r]})
    /\ UNCHANGED aborted

RequestStep(r) == Submit(r) \/ CancelQueued(r) \/ CancelRunning(r) \/ Settle(r)

Next == CancelAll \/ \E r \in Requests : RequestStep(r)

Spec == Init /\ [][Next]_vars

-----------------------------------------------------------------------------
TypeOK ==
    /\ phase \in [Requests -> {"new", "queued", "running", "answered"}]
    /\ answer \in [Requests -> Answers]
    /\ ticket \in [Requests -> Nat]
    /\ accepted \in Nat
    /\ aborted \subseteq Requests
    /\ running \in Nat
    /\ runningLanes \subseteq {LaneOf[r] : r \in Requests}
    /\ ran \subseteq Requests

\* The counter and the lane set of #start and its finally handler agree with
\* the requests that run: one per lane, never above the limits.
LanesSerial ==
    /\ \A r, q \in Running : LaneOf[r] = LaneOf[q] => r = q
    /\ runningLanes = {LaneOf[r] : r \in Running}
    /\ running = Cardinality(Running)
    /\ running <= MaxConcurrentReads
    /\ Cardinality(Queued) <= MaxQueuedReads

\* No request waits in the queue with nobody left to start it: #drain runs only
\* when a request leaves, so a queued request needs a running one on its lane.
NoneStranded == \A q \in Queued : LaneOf[q] \in runningLanes

\* Requests of a lane run in the order they were accepted, whatever was
\* cancelled between them.
LaneFifo ==
    \A q \in Queued, r \in ran : LaneOf[r] = LaneOf[q] => ticket[r] < ticket[q]

\* Together: a lane serves its requests one at a time in the order they came,
\* within the limits, by counters and sets kept by hand.
LanesInOrder == LanesSerial /\ LaneFifo

\* A request cancelled while queued never runs, and no promise settles twice:
\* the active map holds exactly the accepted requests without an answer.
CancelledNeverRan ==
    \A r \in Requests :
        /\ answer[r] = "cancelled" => phase[r] = "answered" /\ r \notin ran
        /\ phase[r] = "answered" <=> answer[r] # "none"

\* Two active requests never share an id, so a cancel or an answer by id means
\* one request.
IdsUnique == \A r, q \in Active : IdOf[r] = IdOf[q] => r = q
=============================================================================
