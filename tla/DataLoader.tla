----------------------------- MODULE DataLoader -----------------------------
(***************************************************************************)
(* The data loader of the engine (engine/data_loader.cc) and the Engine     *)
(* that swaps in what it loads (engine/engine.cc).                          *)
(*                                                                         *)
(* The main thread registers requests and, when no session uses the engine, *)
(* takes what is loaded.  The loader's thread loads the best request until  *)
(* the best one is what it loaded last, and ends.  They share the requests, *)
(* under mutex_, a notification, and loader_response_, which no lock        *)
(* guards.  One action is one critical section, or one step between two.    *)
(***************************************************************************)
EXTENDS Integers, FiniteSets

CONSTANTS
  Requests,      \* EngineReloadRequests, by their fingerprints
  NoRequest,     \* 0: no data has been loaded yet
  Priority,      \* request.priority(), the smaller the better
  HighPriority,  \* kHighPriority
  MaxSequence    \* bound on sequence_id_

ASSUME RequestsAssumption ==
  /\ IsFiniteSet(Requests) /\ NoRequest \notin Requests
  /\ Priority \in [Requests -> Int] /\ HighPriority \in Int

ASSUME SequenceAssumption == MaxSequence \in Nat

VARIABLES
  sequence,      \* requests_: the sequence id of each request, 0 if not there
  sequenceId,    \* sequence_id_
  unregistered,  \* unregistered_
  current,       \* current_request_id_
  notified,      \* high_priority_data_registered_
  response,      \* loader_response_, by its request
  engine,        \* the data of converter_, by its request
  converter,     \* converter_ is not null
  main,          \* where the main thread is in a call
  loader,        \* where the loader's thread is, and request_data
  missed         \* ghost: a request came after the thread's last look

registered == <<sequence, sequenceId, unregistered>>
engineVars == <<engine, converter>>
vars == <<registered, current, notified, response, engineVars, main, loader,
          missed>>

Idle == [at |-> "idle", request |-> NoRequest]

Ended == [at |-> "ended", request |-> NoRequest]

Init ==
  /\ sequence = [r \in Requests |-> 0]
  /\ sequenceId = 0
  /\ unregistered = {}
  /\ current = NoRequest
  /\ notified = FALSE
  /\ response = NoRequest
  /\ engine = NoRequest
  /\ converter \in BOOLEAN
  /\ main = Idle
  /\ loader = Ended
  /\ missed = FALSE

(***************************************************************************)
(* The order of requests_.                                                  *)
(***************************************************************************)
Registered(seq) == {r \in Requests : seq[r] > 0}

Precedes(seq, a, b) ==
  \/ Priority[a] < Priority[b]
  \/ Priority[a] = Priority[b] /\ seq[a] > seq[b]

\* requests_.front(), unless there is none or it is current_request_id_.
Pending(seq) ==
  {r \in Registered(seq) \ {current} :
     \A q \in Registered(seq) \ {r} : Precedes(seq, r, q)}

IsRunning == loader.at # "ended"

(***************************************************************************)
(* The main thread: StartNewDataBuildTask.                                  *)
(***************************************************************************)
\* Mutant: the sequence id is not counted.
Register_SameSequence(r) ==
  /\ sequence' = [sequence EXCEPT ![r] = sequenceId + 1]
  /\ UNCHANGED <<sequenceId, unregistered>>

Register(r) ==
  /\ sequenceId' = sequenceId + 1
  /\ sequence' = [sequence EXCEPT ![r] = sequenceId']
  /\ UNCHANGED unregistered

\* RegisterRequest() returns FALSE: it is loaded already, has failed before,
\* or is not the best.
RequestIsRefused ==
  /\ main = Idle
  /\ \E r \in Requests :
       \/ r \in unregistered \cup {current} /\ UNCHANGED registered
       \/ /\ r \notin unregistered \cup {current}
          /\ sequenceId < MaxSequence
          /\ Register(r)
          /\ Pending(sequence') = {}
  /\ UNCHANGED <<current, notified, response, engineVars, main, loader, missed>>

RequestIsAccepted ==
  /\ main = Idle
  /\ sequenceId < MaxSequence
  /\ \E r \in Requests \ (unregistered \cup {current}) :
       /\ Register(r)
       /\ Pending(sequence') # {}
       /\ main' = [at |-> "accepted", request |-> r]
  /\ UNCHANGED <<current, notified, response, engineVars, loader, missed>>

NotifyHighPriority ==
  /\ main.at = "accepted"
  /\ notified' = (notified \/ Priority[main.request] <= HighPriority)
  /\ main' = [main EXCEPT !.at = "notified"]
  /\ UNCHANGED <<registered, current, response, engineVars, loader, missed>>

\* Only this thread schedules: a thread that has ended stays so meanwhile.
\* Mutant: the thread is not restarted after it has run once.
StartThread_Once ==
  /\ main.at = "notified"
  /\ main' = Idle
  /\ IF IsRunning \/ current # NoRequest
       THEN /\ missed' = (missed \/ loader.at = "leaving")
            /\ UNCHANGED loader
       ELSE /\ loader' = [Ended EXCEPT !.at = "look"]
            /\ missed' = FALSE
  /\ UNCHANGED <<registered, current, notified, response, engineVars>>

StartThread ==
  /\ main.at = "notified"
  /\ main' = Idle
  /\ IF IsRunning
       THEN /\ missed' = (missed \/ loader.at = "leaving")
            /\ UNCHANGED loader
       ELSE /\ loader' = [Ended EXCEPT !.at = "look"]
            /\ missed' = FALSE
  /\ UNCHANGED <<registered, current, notified, response, engineVars>>

(***************************************************************************)
(* The main thread: MaybeReloadEngine.                                      *)
(***************************************************************************)
MaybeReloadEngine ==
  /\ main = Idle
  /\ main' = [Idle EXCEPT !.at = "check"]
  /\ UNCHANGED <<registered, current, notified, response, engineVars, loader,
                 missed>>

\* Mutant: the response is taken while the thread may still run.
CheckLoader_IgnoresThread ==
  /\ main.at = "check"
  /\ main' = IF response = NoRequest THEN Idle
             ELSE [main EXCEPT !.at = "reload"]
  /\ UNCHANGED <<registered, current, notified, response, engineVars, loader,
                 missed>>

\* Without a converter it waits for the thread first.
CheckLoader ==
  /\ main.at = "check"
  /\ converter \/ ~IsRunning
  /\ main' = IF IsRunning \/ response = NoRequest THEN Idle
             ELSE [main EXCEPT !.at = "reload"]
  /\ UNCHANGED <<registered, current, notified, response, engineVars, loader,
                 missed>>

\* Mutant: the modules are dropped.
ReloadModules_Drops ==
  /\ main.at = "reload"
  /\ response' = NoRequest
  /\ main' = Idle
  /\ UNCHANGED <<registered, current, notified, engineVars, loader, missed>>

ReloadModules ==
  /\ main.at = "reload"
  /\ engine' = response
  /\ converter' = TRUE
  /\ response' = NoRequest
  /\ main' = Idle
  /\ UNCHANGED <<registered, current, notified, loader, missed>>

(***************************************************************************)
(* The loader's thread: StartReloadLoop.                                    *)
(***************************************************************************)
GoTo(at) == loader' = [loader EXCEPT !.at = at]

\* Mutant: requests_ is not sorted.
GetPendingRequestData_Any ==
  /\ loader.at = "look"
  /\ \/ \E r \in Registered(sequence) \ {current} :
          loader' = [at |-> "top", request |-> r]
     \/ Pending(sequence) = {} /\ GoTo("leaving")
  /\ UNCHANGED <<registered, current, notified, response, engineVars, main,
                 missed>>

GetPendingRequestData ==
  /\ loader.at = "look"
  /\ \/ \E r \in Pending(sequence) : loader' = [at |-> "top", request |-> r]
     \/ Pending(sequence) = {} /\ GoTo("leaving")
  /\ UNCHANGED <<registered, current, notified, response, engineVars, main,
                 missed>>

\* HasBeenNotified(), or else the wait begins.
LookForHighPriority ==
  /\ loader.at = "top"
  /\ GoTo(IF notified THEN "build" ELSE "wait")
  /\ UNCHANGED <<registered, current, notified, response, engineVars, main,
                 missed>>

HighPriorityArrives ==
  /\ loader.at = "wait"
  /\ notified
  /\ GoTo("look")
  /\ UNCHANGED <<registered, current, notified, response, engineVars, main,
                 missed>>

WaitTimesOut ==
  /\ loader.at = "wait"
  /\ ~notified
  /\ GoTo("build")
  /\ UNCHANGED <<registered, current, notified, response, engineVars, main,
                 missed>>

\* The file may be missing, broken, or of another version.
BuildResponse ==
  /\ loader.at = "build"
  /\ \E outcome \in {"callback", "failure"} : GoTo(outcome)
  /\ UNCHANGED <<registered, current, notified, response, engineVars, main,
                 missed>>

\* The callback of Engine::SendEngineReloadRequest().
StoreResponse ==
  /\ loader.at = "callback"
  /\ response' = loader.request
  /\ GoTo("success")
  /\ UNCHANGED <<registered, current, notified, engineVars, main, missed>>

ReportLoadSuccess ==
  /\ loader.at = "success"
  /\ current' = loader.request
  /\ GoTo("look")
  /\ UNCHANGED <<registered, notified, response, engineVars, main, missed>>

\* Mutant: the request that failed stays the best one.
ReportLoadFailure_Keeps ==
  /\ loader.at = "failure"
  /\ unregistered' = unregistered \cup {loader.request}
  /\ GoTo("look")
  /\ UNCHANGED <<sequence, sequenceId, current, notified, response, engineVars,
                 main, missed>>

ReportLoadFailure ==
  /\ loader.at = "failure"
  /\ sequence' = [sequence EXCEPT ![loader.request] = 0]
  /\ unregistered' = unregistered \cup {loader.request}
  /\ GoTo("look")
  /\ UNCHANGED <<sequenceId, current, notified, response, engineVars, main,
                 missed>>

\* The task returns after its last look; only then is it Ready().
ThreadEnds ==
  /\ loader.at = "leaving"
  /\ loader' = Ended
  /\ UNCHANGED <<registered, current, notified, response, engineVars, main,
                 missed>>

MainCalls == RequestIsRefused \/ RequestIsAccepted \/ MaybeReloadEngine

MainReturns ==
  NotifyHighPriority \/ StartThread \/ CheckLoader \/ ReloadModules

LoaderThread ==
  \/ GetPendingRequestData \/ LookForHighPriority \/ HighPriorityArrives
  \/ WaitTimesOut \/ BuildResponse \/ StoreResponse \/ ReportLoadSuccess
  \/ ReportLoadFailure \/ ThreadEnds

Next == MainCalls \/ MainReturns \/ LoaderThread

Spec == Init /\ [][Next]_vars

\* Both threads are scheduled; the main one need not call again.
FairSpec == Spec /\ WF_vars(LoaderThread) /\ WF_vars(MainReturns)

(***************************************************************************)
(* Properties.  The type invariant first.                                   *)
(***************************************************************************)
\* The members of DataLoader and Engine range over their types, and no two
\* requests in requests_ have the same sequence id.
TypeOK ==
  /\ sequenceId \in Nat /\ sequence \in [Requests -> 0..sequenceId]
  /\ \A q, r \in Registered(sequence) : sequence[q] = sequence[r] => q = r
  /\ unregistered \subseteq Requests
  /\ {current, response, engine} \subseteq Requests \cup {NoRequest}
  /\ {notified, converter, missed} \subseteq BOOLEAN
  /\ \/ main.at \in {"idle", "check", "reload"} /\ main.request = NoRequest
     \/ main.at \in {"accepted", "notified"} /\ main.request \in Requests
  /\ \/ loader = Ended
     \/ loader.at \in {"look", "leaving"}
        /\ loader.request \in Requests \cup {NoRequest}
     \/ loader.at \in {"top", "wait", "build", "callback", "success",
                       "failure"} /\ loader.request \in Requests

\* loader_response_ has no lock: while the main thread takes it no thread of
\* the loader exists that could store another.
ResponseIsNotShared == main.at = "reload" => ~IsRunning

\* What the loader takes for loaded, and therefore refuses to load again, is
\* what the engine has or is about to take.
CurrentIsServed ==
  current # NoRequest /\ loader.at # "success" =>
    current = IF response # NoRequest THEN response ELSE engine

\* "The decoder keeps all the requests, and uses the most prioritized one":
\* however requests arrive while others are loaded, fail or time out, data are
\* replaced by better ones only.
NeverGetsWorse ==
  [][current' # current =>
       current = NoRequest \/ Precedes(sequence, current', current)]_vars

\* The thread ends when the best request is loaded, and is started again for a
\* better one; only a request registered between its last look at requests_
\* and its end, which IsRunning() hides, is left to the next request.
NothingIsLeftBehind ==
  ~IsRunning /\ main.at \notin {"accepted", "notified"}
    => Pending(sequence) = {} \/ missed

\* Once the clients send no more requests the thread ends, whatever fails.
LoaderComesToRest ==
  <>[][~MainCalls]_vars => <>[](~IsRunning)
=============================================================================
