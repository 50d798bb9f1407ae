------------------------------ MODULE StudioServer ------------------------------
(* The life of a Studio service process: the client's messages, the session *)
(* they open, and the four ways it ends: shutdown and exit, exit alone, the *)
(* end of the input with its five-second timer, and a failure of the input  *)
(* or of three nonces in a row.                                             *)
(*                                                                          *)
(* A message is handled without interruption up to its first await, so a    *)
(* handler's prefix is one action.  Messages that arrive in one chunk are   *)
(* all handled, also after one of them has closed the session.  Requests    *)
(* run in a ReadScheduler, except plan.apply, which the session keeps in    *)
(* its map of mutations.  The registries' own work is one step each, bound  *)
(* to what it waits for; PlanRegistry and HandleRegistry model it.          *)
EXTENDS Naturals, FiniteSets

CONSTANTS
    Requests,            \* submissions to the scheduler
    Applies,             \* plan.apply submissions
    IdOf, LaneOf,        \* their ids, and the scheduler's lanes
    MaxConcurrentReads,
    MaxQueuedReads,
    MaxBadNonces         \* bound: messages with a wrong nonce

ASSUME ServerAssumption ==
    /\ IsFiniteSet(Requests) /\ IsFiniteSet(Applies)
    /\ Requests \cap Applies = {}
    /\ MaxBadNonces \in Nat

VARIABLES
    phase, answer, ticket, accepted, aborted, running, runningLanes, ran,
    mutations,           \* the map #mutations: apply -> how far it is
    initializeSeen,      \* #initializeSeen
    negotiated,          \* whether negotiatedVersion is set and was answered
    initialized,         \* session.initialized
    shuttingDown,        \* session.shuttingDown
    shutdownComplete,    \* session.shutdownComplete
    shutdowns,           \* calls of session.shutdown: by the request, by #eof
    shutdownReplied,     \* whether the shutdown request was answered
    nonceFailures,       \* session.nonceFailures
    exiting,             \* an exit waits for #shutdownTask
    ended,               \* the input has ended
    closed,              \* #closed
    exitCode,            \* #exitCode
    moreInChunk,         \* the chunk that closed the session has more messages
    badNonces,           \* bound counter: wrong nonces sent so far
    written              \* request -> responses written for it

scheduler == <<phase, answer, ticket, accepted, aborted, running, runningLanes, ran>>
handshake == <<initializeSeen, negotiated, initialized, nonceFailures, badNonces>>
ending == <<shutdowns, shutdownReplied, exiting, ended, closed, exitCode, moreInChunk>>
vars == <<scheduler, mutations, handshake, ending, shuttingDown, shutdownComplete, written>>

Reads == INSTANCE ReadScheduler

Callers == {"request", "eof"}
Steps == {"off", "plans", "idle", "mutations", "handles", "done"}

InFlight == {a \in Applies : mutations[a] \in {"executing", "returning"}}
Executing == {a \in Applies : mutations[a] = "executing"}

Init ==
    /\ Reads!Init
    /\ mutations = [a \in Applies |-> "new"]
    /\ initializeSeen = FALSE /\ negotiated = FALSE /\ initialized = FALSE
    /\ nonceFailures = 0 /\ badNonces = 0
    /\ shuttingDown = FALSE /\ shutdownComplete = FALSE
    /\ shutdowns = [c \in Callers |-> "off"]
    /\ shutdownReplied = FALSE /\ exiting = FALSE /\ ended = FALSE
    /\ closed = FALSE /\ exitCode = 0 /\ moreInChunk = FALSE
    /\ written = [r \in Requests \cup Applies |-> 0]

-----------------------------------------------------------------------------
\* Data is ignored once closed, except for the rest of the current chunk.
Receiving == ~ended /\ (~closed \/ moreInChunk)

\* #write drops what comes after the close.
Write(r) == written' = [written EXCEPT ![r] = IF closed THEN @ ELSE @ + 1]

\* cancelAll aborts every active request; an abort of an apply is for
\* PlanRegistry to act on.
CancelAll == Reads!CancelAll

\* #close with the session's destroy: the first close decides.
Close(code) ==
    /\ closed' = TRUE
    /\ exitCode' = IF closed THEN exitCode ELSE code
    /\ IF closed THEN UNCHANGED <<scheduler, initialized>>
                 ELSE CancelAll /\ initialized' = FALSE

\* A handler closes the session while its chunk may hold more messages.
CloseInHandler(code) == Close(code) /\ moreInChunk' \in BOOLEAN

-----------------------------------------------------------------------------
(* The handshake.                                                           *)

\* The first initialize counts, with a version the server has or without; its
\* answer carries the nonce, so nothing can use it before.  Any other is
\* refused and changes nothing.
Initialize(supported) ==
    /\ Receiving /\ ~initializeSeen
    /\ initializeSeen' = TRUE
    /\ negotiated' = (supported /\ ~closed)
    /\ UNCHANGED <<scheduler, mutations, initialized, nonceFailures, badNonces, ending,
                   shuttingDown, shutdownComplete, written>>

\* The notification initialized, with the nonce of the answer.
Initialized ==
    /\ Receiving /\ ~shuttingDown /\ negotiated
    /\ initialized' = TRUE
    /\ nonceFailures' = 0
    /\ UNCHANGED <<scheduler, mutations, initializeSeen, negotiated, badNonces, ending,
                   shuttingDown, shutdownComplete, written>>

\* A message with a wrong nonce: initialized, or once that has come any other;
\* a method the service does not offer is looked at even while shutting down.
\* The third wrong nonce in a row closes.
BadNonce ==
    /\ Receiving /\ initializeSeen
    /\ ~shuttingDown \/ initialized
    /\ badNonces < MaxBadNonces /\ badNonces' = badNonces + 1
    /\ nonceFailures' = nonceFailures + 1
    /\ IF nonceFailures' >= 3
       THEN CloseInHandler(1)
       ELSE UNCHANGED <<scheduler, initialized, closed, exitCode, moreInChunk>>
    /\ UNCHANGED <<mutations, initializeSeen, negotiated, shutdowns, shutdownReplied,
                   exiting, ended, shuttingDown, shutdownComplete, written>>

\* A request with the right nonce gets through.
Admitted == Receiving /\ initialized /\ ~shuttingDown

-----------------------------------------------------------------------------
(* Requests.                                                                *)

Served == /\ nonceFailures' = 0
          /\ UNCHANGED <<initializeSeen, negotiated, initialized, badNonces, ending,
                         shuttingDown, shutdownComplete>>

IdTaken_SchedulerOnly(r) == \E q \in Reads!Active : IdOf[q] = IdOf[r]

IdTaken(r) == \/ \E q \in Reads!Active : IdOf[q] = IdOf[r]
              \/ \E a \in InFlight : IdOf[a] = IdOf[r]

Untouched(r) == IF r \in Requests THEN phase[r] = "new" ELSE mutations[r] = "new"

\* hasRequest looks at both maps before either takes the request.
RequestRefused(r) ==
    /\ Admitted /\ Untouched(r) /\ IdTaken(r)
    /\ IF r \in Requests
       THEN Reads!Refuse(r, "duplicate") /\ UNCHANGED mutations
       ELSE mutations' = [mutations EXCEPT ![r] = "refused"] /\ UNCHANGED scheduler
    /\ Write(r)
    /\ Served

Request_WhileShuttingDown(r) ==
    /\ Receiving /\ initialized /\ ~IdTaken(r)
    /\ Reads!Submit(r)
    /\ IF answer'[r] = "none" THEN UNCHANGED written ELSE Write(r)
    /\ Served
    /\ UNCHANGED mutations

Request(r) ==
    /\ Admitted /\ ~IdTaken(r)
    /\ Reads!Submit(r)
    /\ IF answer'[r] = "none" THEN UNCHANGED written ELSE Write(r)
    /\ Served
    /\ UNCHANGED mutations

Apply(a) ==
    /\ Admitted /\ ~IdTaken(a) /\ mutations[a] = "new"
    /\ mutations' = [mutations EXCEPT ![a] = "executing"]
    /\ Served
    /\ UNCHANGED <<scheduler, written>>

\* A message the session only answers: a method outside the negotiated version
\* or one the service does not offer, a cancel of an apply or of nothing.
Declined ==
    /\ Receiving /\ initialized
    /\ Served
    /\ UNCHANGED <<scheduler, mutations, written>>

CancelRequest_Silent(r) ==
    /\ Admitted
    /\ Reads!CancelQueued(r) \/ Reads!CancelRunning(r)
    /\ Served
    /\ UNCHANGED <<mutations, written>>

\* $/cancelRequest: a queued request is taken out and answered.
CancelRequest(r) ==
    /\ Admitted
    /\ \/ Reads!CancelQueued(r) /\ Write(r)
       \/ Reads!CancelRunning(r) /\ UNCHANGED written
    /\ Served
    /\ UNCHANGED mutations

\* The scheduler's task ends and its response is written.
RequestSettles(r) ==
    /\ Reads!Settle(r)
    /\ Write(r)
    /\ UNCHANGED <<mutations, handshake, ending, shuttingDown, shutdownComplete>>

\* The registry's apply is over; a little later its request is answered and
\* leaves the map.
ApplyEnds(a) ==
    /\ mutations[a] = "executing"
    /\ mutations' = [mutations EXCEPT ![a] = "returning"]
    /\ UNCHANGED <<scheduler, handshake, ending, shuttingDown, shutdownComplete, written>>

ApplySettles(a) ==
    /\ mutations[a] = "returning"
    /\ mutations' = [mutations EXCEPT ![a] = "answered"]
    /\ Write(a)
    /\ UNCHANGED <<scheduler, handshake, ending, shuttingDown, shutdownComplete>>

-----------------------------------------------------------------------------
(* The session's shutdown, which the request and the end of the input may   *)
(* both run: refuse new work, cancel, wait for the plans, for the requests  *)
(* of the scheduler, for the mutations, then give the handles back.         *)

Begin(c) ==
    /\ shuttingDown' = TRUE
    /\ CancelAll
    /\ shutdowns' = [shutdowns EXCEPT ![c] = "plans"]

Shutdown ==
    /\ Admitted
    /\ Begin("request")
    /\ nonceFailures' = 0
    /\ UNCHANGED <<mutations, initializeSeen, negotiated, initialized, badNonces,
                   shutdownReplied, exiting, ended, closed, exitCode, moreInChunk,
                   shutdownComplete, written>>

Advance(c, from, to) ==
    /\ shutdowns[c] = from
    /\ shutdowns' = [shutdowns EXCEPT ![c] = to]
    /\ UNCHANGED <<scheduler, mutations, initializeSeen, negotiated, nonceFailures, badNonces,
                   shutdownReplied, exiting, ended, closed, exitCode, moreInChunk,
                   shuttingDown, written>>

Waiting == UNCHANGED <<shutdownComplete, initialized>>

\* plans.shutdown waits for the apply that was active.
PlansDown(c) == Executing = {} /\ Advance(c, "plans", "idle") /\ Waiting

\* idle() waits for the scheduler, then for the mutations ...
SchedulerIdle(c) == Reads!Active = {} /\ Advance(c, "idle", "mutations") /\ Waiting

MutationsIdle(c) == InFlight = {} /\ Advance(c, "mutations", "handles") /\ Waiting

\* ... and handles.dispose and cursors.destroy end it.
HandlesDisposed(c) ==
    /\ Advance(c, "handles", "done")
    /\ shutdownComplete' = TRUE
    /\ initialized' = FALSE

ShutdownReplies_Initialized ==
    /\ shutdowns["request"] = "done" /\ ~shutdownReplied /\ ~closed /\ initialized
    /\ shutdownReplied' = TRUE
    /\ UNCHANGED <<scheduler, mutations, handshake, shutdowns, exiting, ended, closed,
                   exitCode, moreInChunk, shuttingDown, shutdownComplete, written>>

ShutdownReplies ==
    /\ shutdowns["request"] = "done" /\ ~shutdownReplied /\ ~closed
    /\ shutdownReplied' = TRUE
    /\ UNCHANGED <<scheduler, mutations, handshake, shutdowns, exiting, ended, closed,
                   exitCode, moreInChunk, shuttingDown, shutdownComplete, written>>

-----------------------------------------------------------------------------
(* The ends.                                                                *)

ExitNow_Zero ==
    /\ Receiving /\ shutdowns["request"] = "off"
    /\ CloseInHandler(0)
    /\ UNCHANGED <<mutations, initializeSeen, negotiated, nonceFailures, badNonces,
                   shutdowns, shutdownReplied, exiting, ended, shuttingDown,
                   shutdownComplete, written>>

\* exit closes at once when no shutdown was requested ...
ExitNow ==
    /\ Receiving /\ shutdowns["request"] = "off"
    /\ CloseInHandler(IF shutdownComplete THEN 0 ELSE 1)
    /\ UNCHANGED <<mutations, initializeSeen, negotiated, nonceFailures, badNonces,
                   shutdowns, shutdownReplied, exiting, ended, shuttingDown,
                   shutdownComplete, written>>

\* ... and otherwise waits for it.
ExitWaits ==
    /\ Receiving /\ shutdowns["request"] # "off" /\ ~exiting
    /\ exiting' = TRUE
    /\ UNCHANGED <<scheduler, mutations, handshake, shutdowns, shutdownReplied, ended, closed,
                   exitCode, moreInChunk, shuttingDown, shutdownComplete, written>>

\* The handler of the shutdown request waited first, so it replies first.
ExitResumes_First ==
    /\ exiting /\ shutdowns["request"] = "done" /\ ~closed
    /\ Close(IF shutdownComplete THEN 0 ELSE 1)
    /\ UNCHANGED <<mutations, initializeSeen, negotiated, nonceFailures, badNonces,
                   shutdowns, shutdownReplied, exiting, ended, moreInChunk, shuttingDown,
                   shutdownComplete, written>>

ExitResumes ==
    /\ exiting /\ shutdowns["request"] = "done" /\ shutdownReplied /\ ~closed
    /\ Close(IF shutdownComplete THEN 0 ELSE 1)
    /\ UNCHANGED <<mutations, initializeSeen, negotiated, nonceFailures, badNonces,
                   shutdowns, shutdownReplied, exiting, ended, moreInChunk, shuttingDown,
                   shutdownComplete, written>>

\* A frame that does not parse, or an error of the stream.
InputFails ==
    /\ ~ended /\ ~closed
    /\ Close(1)
    /\ ended' \in BOOLEAN
    /\ UNCHANGED <<mutations, initializeSeen, negotiated, nonceFailures, badNonces,
                   shutdowns, shutdownReplied, exiting, moreInChunk, shuttingDown,
                   shutdownComplete, written>>

\* The input ends: a shutdown of its own, raced by a timer.
Eof ==
    /\ ~ended /\ ~closed
    /\ ended' = TRUE
    /\ Begin("eof")
    /\ UNCHANGED <<mutations, handshake, shutdownReplied, exiting, closed, exitCode,
                   moreInChunk, shutdownComplete, written>>

EofCloses(code) ==
    /\ Close(code)
    /\ UNCHANGED <<mutations, initializeSeen, negotiated, nonceFailures, badNonces,
                   shutdowns, shutdownReplied, exiting, ended, moreInChunk, shuttingDown,
                   shutdownComplete, written>>

EofDone == shutdowns["eof"] = "done" /\ ~closed /\ EofCloses(0)

EofTimeout_AfterIdle ==
    /\ shutdowns["eof"] \in {"mutations", "handles"} /\ ~closed
    /\ EofCloses(1)

EofTimeout ==
    /\ shutdowns["eof"] \notin {"off", "done"} /\ ~closed
    /\ EofCloses(1)

\* The rest of the chunk has been handled.
ChunkDone ==
    /\ moreInChunk
    /\ moreInChunk' = FALSE
    /\ UNCHANGED <<scheduler, mutations, handshake, shutdowns, shutdownReplied, exiting,
                   ended, closed, exitCode, shuttingDown, shutdownComplete, written>>

ShutdownStep(c) == PlansDown(c) \/ SchedulerIdle(c) \/ MutationsIdle(c) \/ HandlesDisposed(c)

Next ==
    \/ \E supported \in BOOLEAN : Initialize(supported)
    \/ Initialized \/ BadNonce \/ Declined
    \/ \E r \in Requests \cup Applies : RequestRefused(r)
    \/ \E r \in Requests : Request(r) \/ CancelRequest(r) \/ RequestSettles(r)
    \/ \E a \in Applies : Apply(a) \/ ApplyEnds(a) \/ ApplySettles(a)
    \/ Shutdown \/ ShutdownReplies
    \/ \E c \in Callers : ShutdownStep(c)
    \/ ExitNow \/ ExitWaits \/ ExitResumes
    \/ InputFails \/ Eof \/ EofDone \/ EofTimeout \/ ChunkDone

Spec == Init /\ [][Next]_vars

\* Promises that have settled run their handlers, and the timer fires,
\* whatever the requests do.
FairSpec ==
    /\ Spec
    /\ \A a \in Applies : WF_vars(ApplySettles(a))
    /\ \A c \in Callers : WF_vars(ShutdownStep(c))
    /\ WF_vars(ShutdownReplies) /\ WF_vars(ExitResumes)
    /\ WF_vars(EofTimeout) /\ WF_vars(EofDone)

\* The tasks of requests and the registry's applies end.
TasksEnd ==
    /\ \A r \in Requests : WF_vars(RequestSettles(r))
    /\ \A a \in Applies : WF_vars(ApplyEnds(a))

-----------------------------------------------------------------------------
TypeOK ==
    /\ Reads!TypeOK
    /\ mutations \in [Applies -> {"new", "executing", "returning", "answered", "refused"}]
    /\ {initializeSeen, negotiated, initialized, shuttingDown, shutdownComplete,
        shutdownReplied, exiting, ended, closed, moreInChunk} \subseteq BOOLEAN
    /\ shutdowns \in [Callers -> Steps]
    /\ nonceFailures \in 0..MaxBadNonces /\ badNonces \in 0..MaxBadNonces
    /\ exitCode \in {0, 1}
    /\ written \in [Requests \cup Applies -> 0..1]

\* The handles are given back only when nothing can use them: once a shutdown
\* is past its waits, no request and no apply is active, and none can start; and
\* exit code 0 means that a whole shutdown ran.
QuietAtEnd ==
    /\ \A c \in Callers : shutdowns[c] \in {"handles", "done"} =>
           Reads!Active = {} /\ InFlight = {}
    /\ closed /\ exitCode = 0 =>
           shutdownComplete /\ Reads!Active = {} /\ InFlight = {}

\* A request is answered once, and its answer is written unless the session
\* closed before; after shutdown and exit, the shutdown was answered before the
\* process was allowed to end with 0.
AnsweredAndWritten ==
    /\ \A r \in Requests : answer[r] = "none" => written[r] = 0
    /\ ~closed =>
        /\ \A r \in Requests : answer[r] # "none" => written[r] = 1
        /\ \A a \in Applies :
            written[a] = IF mutations[a] \in {"answered", "refused"} THEN 1 ELSE 0
    /\ closed /\ exitCode = 0 /\ ~ended => shutdownReplied

\* An id means one request, in the scheduler and among the applies.
OneRequestPerId ==
    /\ Reads!IdsUnique
    /\ \A a, b \in InFlight : IdOf[a] = IdOf[b] => a = b
    /\ \A r \in Reads!Active, a \in InFlight : IdOf[r] # IdOf[a]

\* The process ends after its input has, even if a request never does.
EofEnds == ended ~> closed

\* When requests end, every one is answered, a shutdown is answered unless
\* something closes the session first, and an exit ends the process.
EverythingAnswered == TasksEnd =>
    /\ \A r \in Requests : r \in Reads!Active ~> answer[r] # "none"
    /\ \A a \in Applies : a \in InFlight ~> a \notin InFlight
    /\ shutdowns["request"] # "off" ~> shutdownReplied \/ closed
    /\ exiting ~> closed
=============================================================================
