--------------------------- MODULE StudioServerProofs ---------------------------
(* What the ends of a Studio session promise, for any requests and applies. *)
(*                                                                          *)
(* A shutdown that has waited for the scheduler can rely on it: once        *)
(* shuttingDown is set no request gets in, so what a wait found empty stays *)
(* empty although another shutdown, the answers of running requests and the *)
(* rest of a chunk interleave with the next wait.                           *)
EXTENDS StudioServer, TLAPS

Phases == {"new", "queued", "running", "answered"}

\* No request is admitted any more once a shutdown has begun, and each wait
\* of a shutdown keeps what it waited for.
WaitsHold ==
    \A c \in Callers :
        /\ shutdowns[c] # "off" => shuttingDown
        /\ shutdowns[c] \in {"mutations", "handles", "done"} => Reads!Active = {}
        /\ shutdowns[c] \in {"handles", "done"} => InFlight = {}

\* A session is complete only when a shutdown ran to its end, and has exit
\* code 0 only when it is complete.
Completed ==
    /\ shutdownComplete => \E c \in Callers : shutdowns[c] = "done"
    /\ \A c \in Callers : shutdowns[c] = "done" => shutdownComplete
    /\ closed /\ exitCode = 0 => shutdownComplete

\* The end of the input is seen once, so its shutdown begins once.
EofOnce == shutdowns["eof"] # "off" => ended

IndInv ==
    /\ phase \in [Requests -> Phases]
    /\ mutations \in [Applies -> {"new", "executing", "returning", "answered", "refused"}]
    /\ shutdowns \in [Callers -> Steps]
    /\ WaitsHold
    /\ Completed
    /\ EofOnce

lifecycle == <<shutdowns, shuttingDown, shutdownComplete, closed, exitCode>>

-----------------------------------------------------------------------------
\* The scheduler's steps keep the type of its phases; only a submission adds
\* an active request.
LEMMA SchedulerSteps ==
    ASSUME phase \in [Requests -> Phases]
    PROVE  /\ \A r \in Requests : Reads!Submit(r) => phase' \in [Requests -> Phases]
           /\ \A r \in Requests, why \in {"settled", "duplicate", "busy", "cancelled"} :
                Reads!Refuse(r, why) =>
                    phase' \in [Requests -> Phases] /\ Reads!Active' \subseteq Reads!Active
           /\ \A r \in Requests : Reads!CancelQueued(r) \/ Reads!Settle(r) =>
                    phase' \in [Requests -> Phases] /\ Reads!Active' \subseteq Reads!Active
           /\ \A r \in Requests : Reads!CancelRunning(r) => phase' = phase
           /\ CancelAll => phase' = phase
<1> USE DEF Phases
<1>1. \A r \in Requests : Reads!Submit(r) => phase' \in [Requests -> Phases]
      BY DEF Reads!Submit, Reads!SubmitDuplicate, Reads!SubmitBusy, Reads!SubmitStarted,
             Reads!SubmitQueued, Reads!Accept, Reads!Refuse
<1>2. ASSUME NEW r \in Requests, NEW why \in {"settled", "duplicate", "busy", "cancelled"},
             Reads!Refuse(r, why)
      PROVE  phase' \in [Requests -> Phases] /\ Reads!Active' \subseteq Reads!Active
      BY <1>2 DEF Reads!Refuse, Reads!Active, Reads!Queued, Reads!Running
<1>3. ASSUME NEW r \in Requests, Reads!CancelQueued(r) \/ Reads!Settle(r)
      PROVE  phase' \in [Requests -> Phases] /\ Reads!Active' \subseteq Reads!Active
  <2>1. PICK D \in SUBSET (Reads!Queued \ {r}) :
            phase' = [q \in Requests |-> IF q = r THEN "answered"
                                         ELSE IF q \in D THEN "running" ELSE phase[q]]
    <3>1. \A n, busy, q : Reads!Drained(n, busy, q) \subseteq q
          BY DEF Reads!Drained, Reads!LaneHeads
    <3> QED BY <1>3, <3>1 DEF Reads!CancelQueued, Reads!Settle, Reads!Leave
  <2> QED BY <2>1 DEF Reads!Active, Reads!Queued, Reads!Running
<1>4. \A r \in Requests : Reads!CancelRunning(r) => phase' = phase
      BY DEF Reads!CancelRunning
<1>5. CancelAll => phase' = phase BY DEF CancelAll, Reads!CancelAll
<1> QED BY <1>1, <1>2, <1>3, <1>4, <1>5

\* A step that neither admits a request nor moves the session's end keeps the
\* invariant.
LEMMA NothingNew ==
    ASSUME IndInv, UNCHANGED lifecycle, ended => ended',
           phase' \in [Requests -> Phases], Reads!Active' \subseteq Reads!Active,
           mutations' \in [Applies -> {"new", "executing", "returning", "answered", "refused"}],
           InFlight' \subseteq InFlight
    PROVE  IndInv'
<1>1. WaitsHold' BY DEF IndInv, WaitsHold, lifecycle
<1>2. Completed' BY DEF IndInv, Completed, lifecycle
<1>3. EofOnce' BY DEF IndInv, EofOnce, lifecycle
<1> QED BY <1>1, <1>2, <1>3 DEF IndInv, lifecycle

\* A step that admits a request: no shutdown has begun.
LEMMA Admission ==
    ASSUME IndInv, ~shuttingDown, UNCHANGED lifecycle, ended => ended',
           phase' \in [Requests -> Phases],
           mutations' \in [Applies -> {"new", "executing", "returning", "answered", "refused"}]
    PROVE  IndInv'
<1>1. \A c \in Callers : shutdowns[c] = "off" BY DEF IndInv, WaitsHold
<1>2. WaitsHold' BY <1>1 DEF WaitsHold, lifecycle
<1>3. Completed' BY DEF IndInv, Completed, lifecycle
<1>4. EofOnce' BY DEF IndInv, EofOnce, lifecycle
<1> QED BY <1>2, <1>3, <1>4 DEF IndInv, lifecycle

LEMMA SamePhases ==
    ASSUME phase' = phase
    PROVE  Reads!Active' = Reads!Active
BY DEF Reads!Active, Reads!Queued, Reads!Running

LEMMA SameMutations ==
    ASSUME mutations' = mutations
    PROVE  InFlight' = InFlight /\ Executing' = Executing
BY DEF InFlight, Executing

\* A close keeps the invariant when code 0 is honest.
LEMMA CloseInv ==
    ASSUME IndInv, NEW code, Close(code), code = 0 => shutdownComplete, ended => ended',
           UNCHANGED <<mutations, shutdowns, shuttingDown, shutdownComplete>>
    PROVE  IndInv'
<1>1. phase' = phase
  <2>1. CASE closed BY <2>1 DEF Close, scheduler
  <2>2. CASE ~closed BY <2>2, SchedulerSteps DEF Close, IndInv
  <2> QED BY <2>1, <2>2
<1>2. Reads!Active' = Reads!Active /\ InFlight' = InFlight
      BY <1>1, SamePhases, SameMutations
<1>3. WaitsHold' BY <1>2 DEF IndInv, WaitsHold
<1>4. Completed' BY DEF IndInv, Completed, Close
<1>5. EofOnce' BY DEF IndInv, EofOnce
<1> QED BY <1>1, <1>3, <1>4, <1>5 DEF IndInv

LEMMA BeginInv ==
    ASSUME IndInv, NEW c \in Callers, shutdowns[c] = "off", Begin(c),
           ended => ended', c = "eof" => ended',
           UNCHANGED <<mutations, shutdownComplete, closed, exitCode>>
    PROVE  IndInv'
<1>1. phase' = phase BY SchedulerSteps DEF Begin, IndInv
<1>2. Reads!Active' = Reads!Active /\ InFlight' = InFlight
      BY <1>1, SamePhases, SameMutations
<1>3. \A d \in Callers : shutdowns'[d] = IF d = c THEN "plans" ELSE shutdowns[d]
      BY DEF Begin, IndInv
<1>4. shutdowns' \in [Callers -> Steps] BY DEF Begin, IndInv, Steps
<1>5. WaitsHold' BY <1>2, <1>3 DEF IndInv, WaitsHold, Begin
<1>6. Completed' BY <1>3 DEF IndInv, Completed
<1>7. EofOnce' BY <1>3 DEF IndInv, EofOnce, Callers
<1> QED BY <1>1, <1>4, <1>5, <1>6, <1>7 DEF IndInv

LEMMA ShutdownStepInv ==
    ASSUME IndInv, NEW c \in Callers, ShutdownStep(c)
    PROVE  IndInv'
<1>1. /\ phase' = phase /\ mutations' = mutations
      /\ UNCHANGED <<shuttingDown, closed, exitCode, ended>>
      BY DEF ShutdownStep, PlansDown, SchedulerIdle, MutationsIdle, HandlesDisposed, Advance,
             scheduler
<1>2. Reads!Active' = Reads!Active /\ InFlight' = InFlight
      BY <1>1, SamePhases, SameMutations
<1>3. shuttingDown BY DEF IndInv, WaitsHold, ShutdownStep, PlansDown, SchedulerIdle,
                          MutationsIdle, HandlesDisposed, Advance
<1>4. PICK to \in Steps :
        /\ shutdowns' = [shutdowns EXCEPT ![c] = to]
        /\ to \in {"mutations", "handles", "done"} => Reads!Active = {}
        /\ to \in {"handles", "done"} => InFlight = {}
        /\ to = "done" => shutdownComplete'
        /\ shutdownComplete => shutdownComplete'
        /\ shutdownComplete' => shutdownComplete \/ to = "done"
        /\ shutdowns[c] \notin {"off", "done"}
  <2>1. CASE PlansDown(c)
        BY <2>1 DEF PlansDown, Advance, Waiting, Steps
  <2>2. CASE SchedulerIdle(c)
        BY <2>2 DEF SchedulerIdle, Advance, Waiting, Steps
  <2>3. CASE MutationsIdle(c)
        BY <2>3 DEF MutationsIdle, Advance, Waiting, Steps, IndInv, WaitsHold
  <2>4. CASE HandlesDisposed(c)
        BY <2>4 DEF HandlesDisposed, Advance, Steps, IndInv, WaitsHold
  <2> QED BY <2>1, <2>2, <2>3, <2>4 DEF ShutdownStep
<1>5. \A d \in Callers : shutdowns'[d] = IF d = c THEN to ELSE shutdowns[d]
      BY <1>4 DEF IndInv
<1>6. shutdowns' \in [Callers -> Steps] BY <1>4 DEF IndInv
<1>7. WaitsHold' BY <1>1, <1>2, <1>3, <1>4, <1>5 DEF IndInv, WaitsHold
<1>8. Completed' BY <1>1, <1>4, <1>5 DEF IndInv, Completed
<1>9. EofOnce' BY <1>1, <1>4, <1>5 DEF IndInv, EofOnce, Callers
<1> QED BY <1>1, <1>6, <1>7, <1>8, <1>9 DEF IndInv

-----------------------------------------------------------------------------
LEMMA InitInv == Init => IndInv
<1> SUFFICES ASSUME Init PROVE IndInv OBVIOUS
<1>1. phase \in [Requests -> Phases] BY DEF Init, Reads!Init, Phases
<1>2. shutdowns \in [Callers -> Steps] BY DEF Init, Steps
<1>3. \A c \in Callers : shutdowns[c] = "off" BY DEF Init
<1>4. WaitsHold BY <1>3 DEF WaitsHold
<1>5. Completed BY <1>3 DEF Init, Completed
<1>6. EofOnce BY <1>3 DEF EofOnce, Callers
<1> QED BY <1>1, <1>2, <1>4, <1>5, <1>6 DEF Init, IndInv

LEMMA HandshakeInv ==
    ASSUME IndInv,
           \/ \E supported \in BOOLEAN : Initialize(supported)
           \/ Initialized \/ BadNonce \/ Declined
    PROVE  IndInv'
<1>1. CASE \/ \E supported \in BOOLEAN : Initialize(supported)
           \/ Initialized \/ Declined
  <2>1. phase' = phase /\ mutations' = mutations /\ UNCHANGED <<lifecycle, ended>>
        BY <1>1 DEF Initialize, Initialized, Declined, Served, scheduler, ending, lifecycle
  <2> QED BY <2>1, SamePhases, SameMutations, NothingNew DEF IndInv
<1>2. CASE BadNonce
  <2>1. UNCHANGED <<mutations, shutdowns, shuttingDown, shutdownComplete>>
        BY <1>2 DEF BadNonce
  <2>2. CASE nonceFailures' >= 3
        BY <1>2, <2>1, <2>2, CloseInv DEF BadNonce, CloseInHandler
  <2>3. CASE ~(nonceFailures' >= 3)
    <3>1. phase' = phase /\ mutations' = mutations /\ UNCHANGED <<lifecycle, ended>>
          BY <1>2, <2>3 DEF BadNonce, scheduler, lifecycle
    <3> QED BY <3>1, SamePhases, SameMutations, NothingNew DEF IndInv
  <2> QED BY <2>2, <2>3
<1> QED BY <1>1, <1>2

LEMMA RequestInv ==
    ASSUME IndInv,
           \/ \E r \in Requests \cup Applies : RequestRefused(r)
           \/ \E r \in Requests : Request(r) \/ CancelRequest(r) \/ RequestSettles(r)
           \/ \E a \in Applies : Apply(a) \/ ApplyEnds(a) \/ ApplySettles(a)
    PROVE  IndInv'
<1> USE DEF Served, ending, handshake, lifecycle
<1>1. CASE \E r \in Requests : CancelRequest(r) \/ RequestSettles(r)
  <2> PICK r \in Requests : CancelRequest(r) \/ RequestSettles(r) BY <1>1
  <2>1. UNCHANGED <<lifecycle, ended>> /\ mutations' = mutations
        BY DEF CancelRequest, RequestSettles
  <2>2. phase' \in [Requests -> Phases] /\ Reads!Active' \subseteq Reads!Active
    <3>1. CASE Reads!CancelQueued(r) \/ Reads!Settle(r) BY <3>1, SchedulerSteps DEF IndInv
    <3>2. CASE Reads!CancelRunning(r) BY <3>2, SchedulerSteps, SamePhases DEF IndInv
    <3> QED BY <3>1, <3>2 DEF CancelRequest, RequestSettles
  <2> QED BY <2>1, <2>2, SameMutations, NothingNew DEF IndInv
<1>2. CASE \E r \in Requests : Request(r)
  <2> PICK r \in Requests : Request(r) BY <1>2
  <2>1. UNCHANGED <<lifecycle, ended>> /\ mutations' = mutations /\ ~shuttingDown
        BY DEF Request, Admitted
  <2>2. phase' \in [Requests -> Phases] BY SchedulerSteps DEF Request, IndInv
  <2> QED BY <2>1, <2>2, Admission DEF IndInv
<1>3. CASE \E r \in Requests \cup Applies : RequestRefused(r)
  <2> PICK r \in Requests \cup Applies : RequestRefused(r) BY <1>3
  <2>1. UNCHANGED <<lifecycle, ended>> /\ ~shuttingDown BY DEF RequestRefused, Admitted
  <2>2. CASE r \in Requests
    <3>1. phase' \in [Requests -> Phases] /\ mutations' = mutations
          BY <2>2, SchedulerSteps DEF RequestRefused, IndInv
    <3> QED BY <2>1, <3>1, Admission DEF IndInv
  <2>3. CASE r \notin Requests
    <3>1. phase' = phase BY <2>3 DEF RequestRefused, scheduler
    <3>2. mutations' = [mutations EXCEPT ![r] = "refused"] BY <2>3 DEF RequestRefused
    <3> QED BY <2>1, <2>3, <3>1, <3>2, Admission DEF IndInv
  <2> QED BY <2>2, <2>3
<1>4. CASE \E a \in Applies : Apply(a)
  <2> PICK a \in Applies : Apply(a) BY <1>4
  <2>1. UNCHANGED <<lifecycle, ended>> /\ ~shuttingDown /\ phase' = phase
        BY DEF Apply, Admitted, scheduler
  <2>2. mutations' = [mutations EXCEPT ![a] = "executing"] BY DEF Apply
  <2> QED BY <2>1, <2>2, Admission DEF IndInv
<1>5. CASE \E a \in Applies : ApplyEnds(a) \/ ApplySettles(a)
  <2> PICK a \in Applies : ApplyEnds(a) \/ ApplySettles(a) BY <1>5
  <2>1. UNCHANGED <<lifecycle, ended>> /\ phase' = phase BY DEF ApplyEnds, ApplySettles, scheduler
  <2>2. a \in InFlight BY DEF ApplyEnds, ApplySettles, InFlight
  <2>3. \/ mutations' = [mutations EXCEPT ![a] = "returning"]
        \/ mutations' = [mutations EXCEPT ![a] = "answered"]
        BY DEF ApplyEnds, ApplySettles
  <2>4. InFlight' \subseteq InFlight BY <2>2, <2>3 DEF InFlight, IndInv
  <2> QED BY <2>1, <2>3, <2>4, SamePhases, NothingNew DEF IndInv
<1> QED BY <1>1, <1>2, <1>3, <1>4, <1>5

LEMMA EndInv ==
    ASSUME IndInv,
           \/ Shutdown \/ ShutdownReplies
           \/ ExitNow \/ ExitWaits \/ ExitResumes
           \/ InputFails \/ Eof \/ EofDone \/ EofTimeout \/ ChunkDone
    PROVE  IndInv'
<1>1. CASE Shutdown
  <2>1. shutdowns["request"] = "off" BY <1>1 DEF Shutdown, Admitted, IndInv, WaitsHold, Callers
  <2> QED BY <1>1, <2>1, BeginInv DEF Shutdown, Callers
<1>2. CASE Eof
  <2>1. shutdowns["eof"] = "off" BY <1>2 DEF Eof, IndInv, EofOnce
  <2> QED BY <1>2, <2>1, BeginInv DEF Eof, Callers
<1>3. CASE ShutdownReplies \/ ExitWaits \/ ChunkDone
  <2>1. phase' = phase /\ mutations' = mutations /\ UNCHANGED <<lifecycle, ended>>
        BY <1>3 DEF ShutdownReplies, ExitWaits, ChunkDone, scheduler, lifecycle
  <2> QED BY <2>1, SamePhases, SameMutations, NothingNew DEF IndInv
<1>4. CASE ExitNow \/ ExitResumes
  <2>1. PICK code \in {0, 1} : Close(code) /\ (code = 0 => shutdownComplete)
        BY <1>4 DEF ExitNow, ExitResumes, CloseInHandler
  <2> QED BY <1>4, <2>1, CloseInv DEF ExitNow, ExitResumes
<1>5. CASE InputFails BY <1>5, CloseInv DEF InputFails
<1>6. CASE EofDone
  <2>1. shutdownComplete BY <1>6 DEF EofDone, IndInv, Completed, Callers
  <2> QED BY <1>6, <2>1, CloseInv DEF EofDone, EofCloses
<1>7. CASE EofTimeout BY <1>7, CloseInv DEF EofTimeout, EofCloses
<1> QED BY <1>1, <1>2, <1>3, <1>4, <1>5, <1>6, <1>7

LEMMA StepInv == IndInv /\ [Next]_vars => IndInv'
<1> SUFFICES ASSUME IndInv, [Next]_vars PROVE IndInv' OBVIOUS
<1>1. CASE UNCHANGED vars
  <2>1. phase' = phase /\ mutations' = mutations /\ UNCHANGED <<lifecycle, ended>>
        BY <1>1 DEF vars, scheduler, ending, lifecycle
  <2> QED BY <2>1, SamePhases, SameMutations, NothingNew DEF IndInv
<1>2. CASE \E c \in Callers : ShutdownStep(c) BY <1>2, ShutdownStepInv
<1> QED BY <1>1, <1>2, HandshakeInv, RequestInv, EndInv DEF Next

-----------------------------------------------------------------------------
\* The inductive invariant holds in every reachable state.
THEOREM LifecycleInvariance == Spec => []IndInv
    BY InitInv, StepInv, PTL DEF Spec

\* The handles are given back only when no request and no apply is active, and
\* exit code 0 means that a shutdown ran to its end.
THEOREM QuietWhenEnded == Spec => []QuietAtEnd
<1>1. IndInv => QuietAtEnd BY DEF IndInv, WaitsHold, Completed, QuietAtEnd
<1> QED BY <1>1, LifecycleInvariance, PTL

-----------------------------------------------------------------------------
(* Requests and their answers.                                              *)

\* A request is answered in the scheduler exactly when its promise settled.
Settlings ==
    /\ answer \in [Requests -> Reads!Answers]
    /\ written \in [Requests \cup Applies -> Nat]
    /\ \A r \in Requests : phase[r] = "answered" <=> answer[r] # "none"

\* The inductive invariant of the answers.
Answering == IndInv /\ Settlings /\ OneRequestPerId /\ AnsweredAndWritten

\* What a step of the scheduler does to the requests' phases and answers.
LEMMA SubmitAnswers ==
    ASSUME phase \in [Requests -> Phases], answer \in [Requests -> Reads!Answers],
           NEW r \in Requests,
           Reads!Submit(r) \/ (phase[r] = "new" /\ Reads!Refuse(r, "duplicate")),
           phase[r] = "answered" <=> answer[r] # "none"
    PROVE  /\ Reads!Active' \subseteq Reads!Active \cup {r}
           /\ answer' \in [Requests -> Reads!Answers]
           /\ \A q \in Requests \ {r} : phase'[q] = phase[q] /\ answer'[q] = answer[q]
           /\ answer[r] = "none" /\ (phase'[r] = "answered" <=> answer'[r] # "none")
           /\ r \in Reads!Active' => answer'[r] = "none"
<1> USE DEF Reads!Active, Reads!Queued, Reads!Running, Reads!Answers, Phases
<1>1. CASE Reads!SubmitDuplicate(r) \/ Reads!SubmitBusy(r)
           \/ (phase[r] = "new" /\ Reads!Refuse(r, "duplicate"))
      BY <1>1 DEF Reads!SubmitDuplicate, Reads!SubmitBusy, Reads!Refuse
<1>2. CASE Reads!SubmitStarted(r) \/ Reads!SubmitQueued(r)
      BY <1>2 DEF Reads!SubmitStarted, Reads!SubmitQueued, Reads!Accept
<1> QED BY <1>1, <1>2 DEF Reads!Submit

\* A request that leaves the scheduler is the only one answered by it.
LEMMA LeaveAnswers ==
    ASSUME phase \in [Requests -> Phases], answer \in [Requests -> Reads!Answers],
           NEW r \in Requests, Reads!CancelQueued(r) \/ Reads!Settle(r)
    PROVE  /\ r \in Reads!Active
           /\ answer' \in [Requests -> Reads!Answers] /\ answer'[r] # "none"
           /\ \A q \in Requests \ {r} : answer'[q] = answer[q]
           /\ \A q \in Requests : phase'[q] = "answered" <=> q = r \/ phase[q] = "answered"
<1> USE DEF Reads!Active, Reads!Queued, Reads!Running, Reads!Answers, Phases
<1>1. PICK D \in SUBSET (Reads!Queued \ {r}) :
          phase' = [q \in Requests |-> IF q = r THEN "answered"
                                       ELSE IF q \in D THEN "running" ELSE phase[q]]
  <2>1. \A n, busy, q : Reads!Drained(n, busy, q) \subseteq q
        BY DEF Reads!Drained, Reads!LaneHeads
  <2> QED BY <2>1 DEF Reads!CancelQueued, Reads!Settle, Reads!Leave
<1>2. answer' = [answer EXCEPT ![r] = "cancelled"] \/ answer' = [answer EXCEPT ![r] = "settled"]
      BY DEF Reads!CancelQueued, Reads!Settle, Reads!Leave
<1>3. r \in Reads!Active BY DEF Reads!CancelQueued, Reads!Settle
<1> QED BY <1>1, <1>2, <1>3

\* The clause about the end of AnsweredAndWritten.
EndAnswered == closed /\ exitCode = 0 /\ ~ended => shutdownReplied

\* The session closes with 0 only after the input ended or the shutdown was
\* answered.
LEMMA CloseAnswered ==
    ASSUME IndInv, EndAnswered, NEW code, Close(code),
           code = 0 => ended \/ shutdownReplied, UNCHANGED shutdownReplied, ended => ended',
           ~closed /\ code = 0 => ended' = ended
    PROVE  EndAnswered' /\ UNCHANGED <<phase, answer>> /\ (closed => closed')
<1>1. CASE closed BY <1>1 DEF Close, EndAnswered, scheduler
<1>2. CASE ~closed BY <1>2 DEF Close, EndAnswered, CancelAll, Reads!CancelAll
<1> QED BY <1>1, <1>2

\* What is not about a request writes nothing, and ends honestly.
LEMMA RestAnswered ==
    ASSUME IndInv, EndAnswered,
           \/ \E supported \in BOOLEAN : Initialize(supported)
           \/ Initialized \/ BadNonce \/ Declined
           \/ Shutdown \/ ShutdownReplies \/ \E c \in Callers : ShutdownStep(c)
           \/ ExitNow \/ ExitWaits \/ ExitResumes
           \/ InputFails \/ Eof \/ EofDone \/ EofTimeout \/ ChunkDone
    PROVE  /\ EndAnswered'
           /\ UNCHANGED <<phase, answer, mutations, written>> /\ (closed => closed')
<1>1. CASE \/ \E supported \in BOOLEAN : Initialize(supported)
           \/ Initialized \/ Declined \/ ExitWaits \/ ChunkDone
      BY <1>1 DEF Initialize, Initialized, Declined, ExitWaits, ChunkDone, Served,
                   scheduler, ending, EndAnswered
<1>2. CASE ShutdownReplies BY <1>2 DEF ShutdownReplies, scheduler, EndAnswered
<1>3. CASE \E c \in Callers : ShutdownStep(c)
      BY <1>3 DEF ShutdownStep, PlansDown, SchedulerIdle, MutationsIdle, HandlesDisposed, Advance,
             scheduler, EndAnswered
<1>4. CASE Shutdown BY <1>4 DEF Shutdown, Begin, CancelAll, Reads!CancelAll, EndAnswered
<1>5. CASE Eof BY <1>5 DEF Eof, Begin, CancelAll, Reads!CancelAll, EndAnswered
<1>6. CASE BadNonce
  <2>1. CASE nonceFailures' >= 3
        
    <3>1. Close(1) /\ UNCHANGED <<shutdownReplied, ended, mutations, written>>
          BY <1>6, <2>1 DEF BadNonce, CloseInHandler
    <3> QED BY <3>1, CloseAnswered
  <2>2. CASE ~(nonceFailures' >= 3) BY <1>6, <2>2 DEF BadNonce, scheduler, EndAnswered
  <2> QED BY <2>1, <2>2
<1>7. CASE ExitNow
  <2>1. shutdownComplete => ended BY <1>7 DEF ExitNow, IndInv, Completed, EofOnce, Callers
  <2>2. UNCHANGED <<shutdownReplied, ended, mutations, written>> BY <1>7 DEF ExitNow
  <2>3. CASE shutdownComplete
        BY <1>7, <2>1, <2>2, <2>3, CloseAnswered DEF ExitNow, CloseInHandler
  <2>4. CASE ~shutdownComplete
        BY <1>7, <2>2, <2>4, CloseAnswered DEF ExitNow, CloseInHandler
  <2> QED BY <2>3, <2>4
<1>8. CASE ExitResumes BY <1>8, CloseAnswered DEF ExitResumes, Close
<1>9. CASE InputFails 
  <2>1. Close(1) /\ ~ended /\ UNCHANGED <<shutdownReplied, mutations, written>> BY <1>9 DEF InputFails
  <2> QED BY <2>1, CloseAnswered
<1>10. CASE EofDone
  <2>1. ended BY <1>10 DEF EofDone, IndInv, EofOnce
  <2> QED BY <1>10, <2>1, CloseAnswered DEF EofDone, EofCloses, Close
<1>11. CASE EofTimeout 
  <2>1. Close(1) /\ UNCHANGED <<shutdownReplied, ended, mutations, written>>
        BY <1>11 DEF EofTimeout, EofCloses
  <2> QED BY <2>1, CloseAnswered
<1> QED BY <1>1, <1>2, <1>3, <1>4, <1>5, <1>6, <1>7, <1>8, <1>9, <1>10, <1>11

\* What a request cannot touch.
lastWords == <<closed, exitCode, ended, shutdownReplied>>

\* A step of a request: its response is written when its promise settles.
LEMMA RequestAnswered ==
    ASSUME Answering, NEW r \in Requests,
           RequestRefused(r) \/ Request(r) \/ CancelRequest(r) \/ RequestSettles(r)
    PROVE  Settlings' /\ OneRequestPerId' /\ AnsweredAndWritten'
<1>1. /\ phase \in [Requests -> Phases] /\ answer \in [Requests -> Reads!Answers]
      /\ written \in [Requests \cup Applies -> Nat] /\ r \notin Applies
      /\ \A q \in Requests : phase[q] = "answered" <=> answer[q] # "none"
      BY ServerAssumption DEF Answering, IndInv, Settlings
<1>2. UNCHANGED <<lastWords, mutations>> /\ InFlight' = InFlight
      BY ServerAssumption DEF RequestRefused, Request, CancelRequest, RequestSettles, Served,
                              ending, lastWords, InFlight
<1>3. CASE Request(r) \/ RequestRefused(r)
  <2>1. /\ Reads!Active' \subseteq Reads!Active \cup {r}
        /\ answer' \in [Requests -> Reads!Answers]
        /\ \A q \in Requests \ {r} : phase'[q] = phase[q] /\ answer'[q] = answer[q]
        /\ answer[r] = "none" /\ (phase'[r] = "answered" <=> answer'[r] # "none")
        /\ r \in Reads!Active' => answer'[r] = "none"
        BY <1>1, <1>3, SubmitAnswers DEF Request, RequestRefused, Untouched
  <2>2. r \in Reads!Active' => ~IdTaken(r)
    <3>1. CASE Request(r) BY <3>1 DEF Request
    <3>2. CASE RequestRefused(r)
          BY <1>1, <3>2 DEF RequestRefused, Reads!Refuse, Reads!Active, Reads!Queued, Reads!Running
    <3> QED BY <1>3, <3>1, <3>2
  <2>3. written' = IF answer'[r] = "none" THEN written
                   ELSE [written EXCEPT ![r] = IF closed THEN @ ELSE @ + 1]
    <3>1. CASE Request(r) BY <3>1 DEF Request, Write
    <3>2. CASE RequestRefused(r)
          BY <1>1, <3>2 DEF RequestRefused, Reads!Refuse, Write
    <3> QED BY <1>3, <3>1, <3>2
  <2>4. OneRequestPerId'
        BY <1>2, <2>1, <2>2 DEF Answering, OneRequestPerId, Reads!IdsUnique, IdTaken
  <2>5. Settlings' BY <1>1, <2>1, <2>3 DEF Settlings
  <2>6. AnsweredAndWritten' BY <1>1, <1>2, <2>1, <2>3 DEF Answering, AnsweredAndWritten, lastWords
  <2> QED BY <2>4, <2>5, <2>6
<1>4. CASE CancelRequest(r) \/ RequestSettles(r)
  <2>1. CASE Reads!CancelRunning(r) /\ UNCHANGED written
    <3>1. UNCHANGED <<phase, answer, written>> BY <2>1 DEF Reads!CancelRunning
    <3>2. Reads!Active' = Reads!Active BY <3>1, SamePhases
    <3> QED BY <1>1, <1>2, <3>1, <3>2 DEF Answering, Settlings, OneRequestPerId, Reads!IdsUnique,
                                          AnsweredAndWritten, lastWords
  <2>2. CASE (Reads!CancelQueued(r) \/ Reads!Settle(r)) /\ Write(r)
    <3>1. /\ r \in Reads!Active
          /\ answer' \in [Requests -> Reads!Answers] /\ answer'[r] # "none"
          /\ \A q \in Requests \ {r} : answer'[q] = answer[q]
          /\ \A q \in Requests : phase'[q] = "answered" <=> q = r \/ phase[q] = "answered"
          BY <1>1, <2>2, LeaveAnswers
    <3>2. written' = [written EXCEPT ![r] = IF closed THEN @ ELSE @ + 1] BY <2>2 DEF Write
    <3>3. answer[r] = "none"
          BY <1>1, <3>1 DEF Reads!Active, Reads!Queued, Reads!Running
    <3>4. Settlings' BY <1>1, <3>1, <3>2 DEF Settlings
    <3>5. AnsweredAndWritten'
          BY <1>1, <1>2, <3>1, <3>2, <3>3 DEF Answering, AnsweredAndWritten, lastWords
    <3>6. Reads!Active' \subseteq Reads!Active BY <1>1, <2>2, SchedulerSteps
    <3>7. OneRequestPerId'
          BY <1>2, <3>6 DEF Answering, OneRequestPerId, Reads!IdsUnique
    <3> QED BY <3>4, <3>5, <3>7
  <2> QED BY <1>4, <2>1, <2>2 DEF CancelRequest, RequestSettles
<1> QED BY <1>3, <1>4

\* A step of an apply: its response is written when it leaves the map.
LEMMA ApplyAnswered ==
    ASSUME Answering, NEW a \in Applies,
           RequestRefused(a) \/ Apply(a) \/ ApplyEnds(a) \/ ApplySettles(a)
    PROVE  Settlings' /\ OneRequestPerId' /\ AnsweredAndWritten'
<1>1. /\ a \notin Requests
      /\ mutations \in [Applies -> {"new", "executing", "returning", "answered", "refused"}]
      /\ written \in [Requests \cup Applies -> Nat]
      BY ServerAssumption DEF Answering, IndInv, Settlings
<1>2. UNCHANGED <<lastWords, phase, answer>>
      BY <1>1 DEF RequestRefused, Apply, ApplyEnds, ApplySettles, Served, ending, lastWords,
                   scheduler
<1>3. Reads!Active' = Reads!Active BY <1>2, SamePhases
<1>4. CASE RequestRefused(a)
  <2>1. /\ mutations[a] = "new" /\ mutations' = [mutations EXCEPT ![a] = "refused"]
        /\ written' = [written EXCEPT ![a] = IF closed THEN @ ELSE @ + 1]
        BY <1>1, <1>4 DEF RequestRefused, Untouched, Write
  <2>2. InFlight' = InFlight BY <1>1, <2>1 DEF InFlight
  <2>3. OneRequestPerId' BY <1>3, <2>2 DEF Answering, OneRequestPerId, Reads!IdsUnique
  <2>4. Settlings' BY <1>1, <1>2, <2>1 DEF Answering, Settlings
  <2>5. AnsweredAndWritten' BY <1>1, <1>2, <2>1 DEF Answering, AnsweredAndWritten, lastWords
  <2> QED BY <2>3, <2>4, <2>5
<1>5. CASE Apply(a)
  <2>1. /\ mutations[a] = "new" /\ mutations' = [mutations EXCEPT ![a] = "executing"]
        /\ written' = written /\ ~IdTaken(a)
        BY <1>5 DEF Apply
  <2>2. InFlight' = InFlight \cup {a} BY <1>1, <2>1 DEF InFlight
  <2>3. OneRequestPerId'
        BY <1>3, <2>1, <2>2 DEF Answering, OneRequestPerId, Reads!IdsUnique, IdTaken
  <2>4. Settlings' BY <1>1, <1>2, <2>1 DEF Answering, Settlings
  <2>5. AnsweredAndWritten' BY <1>1, <1>2, <2>1 DEF Answering, AnsweredAndWritten, lastWords
  <2> QED BY <2>3, <2>4, <2>5
<1>6. CASE ApplyEnds(a) \/ ApplySettles(a)
  <2>1. \/ /\ mutations[a] = "executing" /\ mutations' = [mutations EXCEPT ![a] = "returning"]
           /\ written' = written
        \/ /\ mutations[a] = "returning" /\ mutations' = [mutations EXCEPT ![a] = "answered"]
           /\ written' = [written EXCEPT ![a] = IF closed THEN @ ELSE @ + 1]
        BY <1>6 DEF ApplyEnds, ApplySettles, Write
  <2>2. InFlight' \subseteq InFlight BY <1>1, <2>1 DEF InFlight
  <2>3. OneRequestPerId' BY <1>3, <2>2 DEF Answering, OneRequestPerId, Reads!IdsUnique
  <2>4. Settlings' BY <1>1, <1>2, <2>1 DEF Answering, Settlings
  <2>5. AnsweredAndWritten' BY <1>1, <1>2, <2>1 DEF Answering, AnsweredAndWritten, lastWords
  <2> QED BY <2>3, <2>4, <2>5
<1> QED BY <1>4, <1>5, <1>6

\* Every step keeps the answers right.
LEMMA AnsweringStep == Answering /\ [Next]_vars => Answering'
<1> SUFFICES ASSUME Answering, [Next]_vars PROVE Answering' OBVIOUS
<1>1. IndInv' BY StepInv DEF Answering
<1>2. ASSUME UNCHANGED <<phase, answer, mutations, written>>, closed => closed', EndAnswered'
      PROVE  Answering'
  <2>1. Reads!Active' = Reads!Active /\ InFlight' = InFlight
        BY <1>2, SamePhases, SameMutations
  <2>2. OneRequestPerId' BY <2>1 DEF Answering, OneRequestPerId, Reads!IdsUnique
  <2>3. Settlings' BY <1>2 DEF Answering, Settlings
  <2>4. AnsweredAndWritten' BY <1>2 DEF Answering, AnsweredAndWritten, EndAnswered
  <2> QED BY <1>1, <2>2, <2>3, <2>4 DEF Answering
<1>3. EndAnswered BY DEF Answering, AnsweredAndWritten, EndAnswered
<1>4. CASE UNCHANGED vars
      BY <1>2, <1>3, <1>4 DEF vars, scheduler, ending, EndAnswered
<1>5. CASE \/ \E supported \in BOOLEAN : Initialize(supported)
           \/ Initialized \/ BadNonce \/ Declined
           \/ Shutdown \/ ShutdownReplies \/ \E c \in Callers : ShutdownStep(c)
           \/ ExitNow \/ ExitWaits \/ ExitResumes
           \/ InputFails \/ Eof \/ EofDone \/ EofTimeout \/ ChunkDone
  <2>1. IndInv BY DEF Answering
  <2> QED BY <1>2, <1>3, <1>5, <2>1, RestAnswered
<1>6. ASSUME NEW r \in Requests,
             RequestRefused(r) \/ Request(r) \/ CancelRequest(r) \/ RequestSettles(r)
      PROVE  Answering'
      BY <1>1, <1>6, RequestAnswered DEF Answering
<1>7. ASSUME NEW a \in Applies,
             RequestRefused(a) \/ Apply(a) \/ ApplyEnds(a) \/ ApplySettles(a)
      PROVE  Answering'
      BY <1>1, <1>7, ApplyAnswered DEF Answering
<1> QED BY <1>4, <1>5, <1>6, <1>7 DEF Next

\* They are right throughout.
LEMMA AnsweringInvariance == Spec => []Answering
<1>1. Init => Answering
  <2> SUFFICES ASSUME Init PROVE Answering OBVIOUS
  <2>1. IndInv BY InitInv
  <2>2. Reads!Active = {} /\ InFlight = {}
        BY DEF Init, Reads!Init, Reads!Active, Reads!Queued, Reads!Running, InFlight
  <2>3. Settlings BY DEF Init, Reads!Init, Settlings, Reads!Answers
  <2>4. OneRequestPerId BY <2>2 DEF OneRequestPerId, Reads!IdsUnique
  <2>5. AnsweredAndWritten BY DEF Init, Reads!Init, AnsweredAndWritten
  <2> QED BY <2>1, <2>3, <2>4, <2>5 DEF Answering
<1> QED BY <1>1, AnsweringStep, PTL DEF Spec

\* An id never means two active requests, whether the scheduler or the map of
\* mutations holds them: hasRequest looks at both before either takes one.
THEOREM IdsMeanOneRequest == Spec => []OneRequestPerId
<1>1. Answering => OneRequestPerId BY DEF Answering
<1> QED BY <1>1, AnsweringInvariance, PTL

\* While the session is open, exactly the settled requests and applies have had
\* their one response written, and the process ends with 0 before the end of the
\* input only after the shutdown was answered.
THEOREM EveryAnswerWritten == Spec => []AnsweredAndWritten
<1>1. Answering => AnsweredAndWritten BY DEF Answering
<1> QED BY <1>1, AnsweringInvariance, PTL
=============================================================================
