-------------------------- MODULE ZenzLiveCorrector --------------------------
(***************************************************************************)
(* session/zenz_live_corrector.{h,cc} and the transports it drives: the     *)
(* thread of the Session that owns the corrector (caller) and the worker    *)
(* thread, sharing latest_request_, latest_result_, stop_ and started_      *)
(* under mu_, a condition variable, and the sticky stop/interrupt pair of   *)
(* ZenzClient that lets Stop() break a blocking Convert().                  *)
(*                                                                         *)
(* One action is one critical section or one step between two of them.      *)
(* A request is its generation: the key and prompt travel with it.          *)
(***************************************************************************)
EXTENDS Naturals

CONSTANT MaxGeneration     \* bound on the generations the session hands out

ASSUME MaxGenerationAssumption == MaxGeneration \in Nat \ {0}

VARIABLES
  \* ZenzLiveCorrector, guarded by mu_
  started,         \* started_
  stop,            \* stop_
  latestRequest,   \* latest_request_, 0 when empty
  latestResult,    \* latest_result_, NoResult when empty
  \* ZenzClient, guarded by stop_mutex_
  stopRequested,   \* stop_requested_
  interrupt,       \* interrupt_ is set
  cancelled,       \* the current Convert() has been woken (pipe byte, event)
  \* the worker thread
  worker,          \* where it is
  request,         \* the request it took from the queue
  response,        \* the response it built
  \* the session thread
  caller,          \* where it is inside Submit() or Stop()
  generation,      \* Session::zenz_live_correction_generation_
  asked,           \* generation of Session::pending_zenz_live_, 0 if none
  delivered        \* the last response Session got from TakeResult()

sharedVars == <<started, stop, latestRequest, latestResult>>
clientVars == <<stopRequested, interrupt, cancelled>>
workerVars == <<worker, request, response>>
callerVars == <<caller, generation, asked, delivered>>
vars == <<sharedVars, clientVars, workerVars, callerVars>>

Generations == 1..MaxGeneration

Result == [generation : Generations, ok : BOOLEAN]

NoResult == [generation |-> 0, ok |-> FALSE]

\* The phases of Convert() in which the worker blocks on the transport.
Blocking == {"connect", "startup", "exchange"}

\* The phases between the two ends of ScopedInterrupt's lifetime.
InConvert == Blocking \cup {"launch", "leave"}

WorkerPhases ==
  {"none", "lock", "asleep", "took", "store", "exited"} \cup InConvert

CallerPhases ==
  {"idle", "enqueue", "notify_one", "notify_all", "join", "joined"}

Init ==
  /\ started = FALSE /\ stop = FALSE
  /\ latestRequest = 0 /\ latestResult = NoResult
  /\ stopRequested = FALSE /\ interrupt = FALSE /\ cancelled = FALSE
  /\ worker = "none" /\ request = 0 /\ response = NoResult
  /\ caller = "idle" /\ generation = 0 /\ asked = 0
  /\ delivered = NoResult

-----------------------------------------------------------------------------
(* The session thread.                                                      *)

\* Start(), the first critical section of Submit(): a no-op when started_.
Start ==
  IF started
  THEN UNCHANGED <<started, stop, clientVars, worker>>
  ELSE /\ started' = TRUE
       /\ stop' = FALSE
       /\ stopRequested' = FALSE
       /\ worker' = "lock"
       /\ UNCHANGED <<interrupt, cancelled>>

\* Session hands out a fresh generation and calls Submit().
SubmitStart ==
  /\ caller = "idle" /\ generation < MaxGeneration
  /\ generation' = generation + 1
  /\ asked' = generation + 1
  /\ caller' = "enqueue"
  /\ Start
  /\ UNCHANGED <<latestRequest, latestResult, request, response, delivered>>

\* Mutant: Submit() does not queue a request while the worker is busy.
SubmitEnqueue_DropsWhenBusy ==
  /\ caller = "enqueue"
  /\ latestRequest' = IF request = 0 THEN asked ELSE latestRequest
  /\ latestResult' = NoResult
  /\ caller' = "notify_one"
  /\ UNCHANGED <<started, stop, clientVars, workerVars, generation, asked,
                 delivered>>

\* Latest only: a queued request is overwritten, an unread result dropped.
SubmitEnqueue ==
  /\ caller = "enqueue"
  /\ latestRequest' = asked
  /\ latestResult' = NoResult
  /\ caller' = "notify_one"
  /\ UNCHANGED <<started, stop, clientVars, workerVars, generation, asked,
                 delivered>>

\* Mutant: the notification is forgotten.
Wake_Forgotten == UNCHANGED worker

Wake == worker' = IF worker = "asleep" THEN "lock" ELSE worker

SubmitNotify ==
  /\ caller = "notify_one"
  /\ caller' = "idle"
  /\ Wake
  /\ UNCHANGED <<sharedVars, clientVars, request, response, generation, asked,
                 delivered>>

\* Session::CancelPendingZenzLiveCorrection() burns a generation and drops
\* what is queued or unread; a running Convert() goes on.
CancelPending ==
  /\ caller = "idle" /\ generation < MaxGeneration
  /\ generation' = generation + 1
  /\ asked' = 0
  /\ latestRequest' = 0
  /\ latestResult' = NoResult
  /\ UNCHANGED <<started, stop, clientVars, workerVars, caller, delivered>>

\* Mutant: the generation of the result is not compared.
TakeResult_AnyGeneration ==
  /\ caller = "idle" /\ asked # 0
  /\ latestResult # NoResult
  /\ latestResult' = NoResult
  /\ asked' = 0
  /\ delivered' = latestResult
  /\ UNCHANGED <<started, stop, latestRequest, clientVars, workerVars,
                 caller, generation>>

\* A poll: a result of another generation is dropped, not delivered.
TakeResult ==
  /\ caller = "idle" /\ asked # 0
  /\ latestResult # NoResult
  /\ latestResult' = NoResult
  /\ IF latestResult.generation = asked
     THEN asked' = 0 /\ delivered' = latestResult
     ELSE UNCHANGED <<asked, delivered>>
  /\ UNCHANGED <<started, stop, latestRequest, clientVars, workerVars,
                 caller, generation>>

\* Mutant: the flag is set, the registered wakeup is not called.
RequestStop_FlagOnly ==
  /\ stopRequested' = TRUE
  /\ UNCHANGED <<interrupt, cancelled>>

\* ZenzClient::RequestStop(): sticky, and wakes a registered Convert().
RequestStop ==
  /\ stopRequested' = TRUE
  /\ cancelled' = (cancelled \/ interrupt)
  /\ UNCHANGED interrupt

StopBegin ==
  /\ caller = "idle" /\ started
  /\ stop' = TRUE
  /\ RequestStop
  /\ latestRequest' = 0
  /\ latestResult' = NoResult
  /\ asked' = 0
  /\ caller' = "notify_all"
  /\ UNCHANGED <<started, workerVars, generation, delivered>>

StopNotify ==
  /\ caller = "notify_all"
  /\ caller' = "join"
  /\ Wake
  /\ UNCHANGED <<sharedVars, clientVars, request, response, generation, asked,
                 delivered>>

StopJoin ==
  /\ caller = "join" /\ worker = "exited"
  /\ worker' = "none"
  /\ caller' = "joined"
  /\ UNCHANGED <<sharedVars, clientVars, request, response, generation, asked,
                 delivered>>

StopEnd ==
  /\ caller = "joined"
  /\ started' = FALSE
  /\ caller' = "idle"
  /\ UNCHANGED <<stop, latestRequest, latestResult, clientVars, workerVars,
                 generation, asked, delivered>>

Caller ==
  \/ SubmitStart \/ SubmitEnqueue \/ SubmitNotify
  \/ CancelPending \/ TakeResult
  \/ StopBegin \/ StopNotify \/ StopJoin \/ StopEnd

-----------------------------------------------------------------------------
(* The worker thread: WorkerLoop().                                         *)

\* The predicate of cv_.wait is evaluated with mu_ held.
WorkerSleep ==
  /\ worker = "lock" /\ ~stop /\ latestRequest = 0
  /\ worker' = "asleep"
  /\ UNCHANGED <<sharedVars, clientVars, request, response, callerVars>>

WorkerSpuriousWakeup ==
  /\ worker = "asleep"
  /\ worker' = "lock"
  /\ UNCHANGED <<sharedVars, clientVars, request, response, callerVars>>

WorkerExit ==
  /\ worker = "lock" /\ stop
  /\ worker' = "exited"
  /\ UNCHANGED <<sharedVars, clientVars, request, response, callerVars>>

WorkerTake ==
  /\ worker = "lock" /\ ~stop /\ latestRequest # 0
  /\ request' = latestRequest
  /\ latestRequest' = 0
  /\ worker' = "took"
  /\ UNCHANGED <<started, stop, latestResult, clientVars, response, callerVars>>

Respond(ok) == response' = [generation |-> request, ok |-> ok]

\* No client, a client that is not available, or a Convert() that returns
\* before it registers its interrupt (invalid path, no cancellation pipe).
WorkerUnavailable ==
  /\ worker = "took"
  /\ Respond(FALSE)
  /\ worker' = "store"
  /\ UNCHANGED <<sharedVars, clientVars, request, callerVars>>

\* Mutant: the constructor does not look at the sticky flag.
WorkerRegister_IgnoresStop ==
  /\ worker = "took"
  /\ interrupt' = TRUE
  /\ cancelled' = FALSE
  /\ worker' = "connect"
  /\ UNCHANGED <<sharedVars, stopRequested, request, response, callerVars>>

\* ScopedInterrupt's constructor: a stop that came first fires at once.
WorkerRegister ==
  /\ worker = "took"
  /\ interrupt' = TRUE
  /\ cancelled' = stopRequested
  /\ worker' = "connect"
  /\ UNCHANGED <<sharedVars, stopRequested, request, response, callerVars>>

\* Convert() returns early: error, deadline, or the launcher failed.
ConvertFails(from) ==
  /\ worker = from
  /\ Respond(FALSE)
  /\ worker' = "leave"
  /\ UNCHANGED <<sharedVars, clientVars, request, callerVars>>

ConvertMoves(from, to) ==
  /\ worker = from
  /\ worker' = to
  /\ UNCHANGED <<sharedVars, clientVars, request, response, callerVars>>

\* Every blocking wait watches the cancellation descriptor.
WorkerCancelled ==
  /\ cancelled
  /\ \E from \in Blocking : ConvertFails(from)

WorkerDeadline == \E from \in Blocking : ConvertFails(from)

\* A cold start: the scorer process is not there yet and is launched; the
\* launcher itself cannot be interrupted.
WorkerColdStart == ~cancelled /\ ConvertMoves("connect", "launch")

WorkerLaunched == ConvertMoves("launch", "startup") \/ ConvertFails("launch")

WorkerConnected ==
  \/ ConvertMoves("connect", "exchange")
  \/ ConvertMoves("startup", "exchange")

WorkerReply ==
  /\ worker = "exchange"
  /\ \E b \in BOOLEAN : Respond(b)
  /\ worker' = "leave"
  /\ UNCHANGED <<sharedVars, clientVars, request, callerVars>>

\* Mutant: the wakeup outlives the descriptor it writes to.
WorkerUnregister_Leaks ==
  /\ worker = "leave"
  /\ cancelled' = FALSE
  /\ worker' = "store"
  /\ UNCHANGED <<sharedVars, stopRequested, interrupt, request, response,
                 callerVars>>

\* ScopedInterrupt's destructor runs before the descriptor it wakes is closed.
WorkerUnregister ==
  /\ worker = "leave"
  /\ interrupt' = FALSE
  /\ cancelled' = FALSE
  /\ worker' = "store"
  /\ UNCHANGED <<sharedVars, stopRequested, request, response, callerVars>>

\* Stored even if a newer request is queued; dropped once stop_ is set.
WorkerStore ==
  /\ worker = "store"
  /\ latestResult' = IF stop THEN latestResult ELSE response
  /\ request' = 0
  /\ response' = NoResult
  /\ worker' = "lock"
  /\ UNCHANGED <<started, stop, latestRequest, clientVars, callerVars>>

Worker ==
  \/ WorkerSleep \/ WorkerSpuriousWakeup \/ WorkerExit \/ WorkerTake
  \/ WorkerUnavailable \/ WorkerRegister \/ WorkerCancelled \/ WorkerDeadline
  \/ WorkerColdStart \/ WorkerLaunched \/ WorkerConnected \/ WorkerReply
  \/ WorkerUnregister \/ WorkerStore

Next == Caller \/ Worker

\* The scheduler runs both threads, and a fork/exec returns.  Nothing is
\* assumed of the scorer: it may never connect, and never answer.
Fairness ==
  /\ WF_vars(SubmitEnqueue \/ SubmitNotify)
  /\ WF_vars(StopNotify \/ StopJoin \/ StopEnd)
  /\ WF_vars(WorkerExit \/ WorkerTake \/ WorkerUnavailable \/ WorkerRegister)
  /\ WF_vars(WorkerCancelled)
  /\ WF_vars(WorkerLaunched)
  /\ WF_vars(WorkerUnregister \/ WorkerStore)

Spec == Init /\ [][Next]_vars /\ Fairness

-----------------------------------------------------------------------------
(* Properties.                                                              *)

TypeOK ==
  /\ started \in BOOLEAN /\ stop \in BOOLEAN
  /\ latestRequest \in 0..MaxGeneration
  /\ latestResult \in Result \cup {NoResult}
  /\ stopRequested \in BOOLEAN /\ interrupt \in BOOLEAN
  /\ cancelled \in BOOLEAN
  /\ worker \in WorkerPhases
  /\ request \in 0..MaxGeneration
  /\ response \in Result \cup {NoResult}
  /\ caller \in CallerPhases
  /\ generation \in 0..MaxGeneration
  /\ asked \in 0..MaxGeneration
  /\ delivered \in Result \cup {NoResult}

\* RequestStop() and ScopedInterrupt race; whichever comes first, a worker
\* that blocks inside Convert() while Stop() waits has been woken.
NoLostInterrupt == stop /\ worker \in InConvert => cancelled

\* The wakeup callback captures the descriptors of the running Convert(): it
\* is never reachable from RequestStop() outside that call.
InterruptOnlyInConvert == interrupt => worker \in InConvert

\* A request is queued while the worker sleeps only until the notification
\* that is on its way: the condition variable loses no wakeup.
NoLostWakeup ==
  worker = "asleep" /\ (latestRequest # 0 \/ stop)
    => caller \in {"notify_one", "notify_all"}

-----------------------------------------------------------------------------
(* The inductive invariant behind the safety properties.                    *)

\* The thread exists exactly between Start() and the join inside Stop(), and
\* stop_ and stop_requested_ are raised for exactly that Stop().
ThreadLifecycle ==
  /\ worker = "none" <=> (~started \/ caller = "joined")
  /\ caller \in {"enqueue", "notify_one", "notify_all", "join", "joined"}
       => started
  /\ started => (stop <=> caller \in {"notify_all", "join", "joined"})
  /\ stop = stopRequested
  /\ worker = "exited" => stop

InterruptIsRegistered == interrupt <=> worker \in InConvert

\* Which generations may be where: nothing is newer than the last one handed
\* out, and the open question is queued, being worked on, or answered: only
\* one of the three.
GenerationsInFlight ==
  /\ latestRequest <= generation /\ request <= generation
  /\ asked <= generation /\ latestResult.generation <= generation
  /\ worker \in InConvert \cup {"took", "store"} <=> request # 0
  /\ worker \in {"leave", "store"} => response.generation = request
  /\ caller = "enqueue" =>
       /\ asked = generation /\ asked # 0
       /\ latestRequest # asked /\ request # asked
       /\ latestResult.generation # asked
  /\ latestRequest # 0 /\ caller # "enqueue" =>
       /\ latestRequest = asked /\ request # asked
       /\ latestResult.generation # asked
  /\ request # 0 => request # latestRequest
  /\ request # 0 /\ asked # 0 => latestResult.generation # asked

IndInv ==
  /\ TypeOK
  /\ ThreadLifecycle
  /\ InterruptIsRegistered
  /\ NoLostInterrupt
  /\ NoLostWakeup
  /\ GenerationsInFlight

-----------------------------------------------------------------------------
(* Liveness and refinement.                                                 *)

\* The destructor's Stop() always comes back, although nothing is assumed of
\* the scorer at the other end of the socket.
StopTerminates ==
  (caller = "notify_all") ~> (caller = "idle")

\* If every Convert() also keeps its deadline (request and startup timeouts), a
\* question that is not withdrawn gets a result that TakeResult() accepts.
QuestionIsAnswered ==
  WF_vars(WorkerDeadline) =>
    \A g \in Generations :
      (asked = g) ~> (asked # g \/ latestResult.generation = g)

\* The corrector as Session sees it: a result of another generation is
\* invisible, because TakeResult() drops it.
answerSeen == IF latestResult.generation = asked THEN latestResult ELSE NoResult

Mailbox == INSTANCE ZenzMailbox WITH answer <- answerSeen

\* The corrector implements the mailbox.
ImplementsMailbox == Mailbox!MailboxSpec

=============================================================================
