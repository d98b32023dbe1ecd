------------------------- MODULE DataLoader_proofs -------------------------
(***************************************************************************)
(* The safety properties of DataLoader, for any requests and priorities.    *)
(*                                                                         *)
(* They are parts of one inductive invariant.  Its heart is what holds      *)
(* while the thread works on a request without the lock: the request is     *)
(* still registered, and still better than the data loaded last, whatever   *)
(* the main thread has registered since.                                    *)
(***************************************************************************)
EXTENDS DataLoader, TLAPS

Working ==
  loader.at \in {"top", "wait", "build", "callback", "success", "failure"}

\* The data loaded last keep their place in requests_.
CurrentIsRegistered == current # NoRequest => sequence[current] > 0

\* The request that the thread has taken is better than the data loaded last.
WorksOnABetter ==
  Working =>
    /\ loader.request # current
    /\ sequence[loader.request] > 0
    /\ current # NoRequest => Precedes(sequence, loader.request, current)

\* The main thread takes a response only when there is one, and no thread.
TakesAResponse == main.at = "reload" => response # NoRequest /\ ~IsRunning

StoredIsServed == loader.at = "success" => response = loader.request

\* A thread that has looked for the last time has left nothing but what the
\* main thread is still to start it for.
LeavesNothing ==
  loader.at \in {"leaving", "ended"} /\ main.at \notin {"accepted", "notified"}
    => Pending(sequence) = {} \/ missed

Inv ==
  /\ TypeOK
  /\ CurrentIsRegistered
  /\ WorksOnABetter
  /\ TakesAResponse
  /\ StoredIsServed
  /\ CurrentIsServed
  /\ LeavesNothing

-----------------------------------------------------------------------------
\* RegisterRequest(): sequence ids stay distinct, and the request can only
\* move towards the front, so nothing that came before current_request_id_
\* falls behind it.
LEMMA Registering ==
  ASSUME TypeOK, NEW r \in Requests \ {current}, Register(r)
  PROVE  /\ sequenceId' \in Nat
         /\ sequence' \in [Requests -> 0..sequenceId']
         /\ \A p, q \in Registered(sequence') :
              sequence'[p] = sequence'[q] => p = q
         /\ \A q \in Requests : sequence'[q] >= sequence[q]
         /\ \A q \in Requests \ {r} : sequence'[q] = sequence[q]
         /\ \A q \in Requests :
              current \in Requests /\ Precedes(sequence, q, current)
                => Precedes(sequence', q, current)
PROOF
<1>1. /\ sequenceId' = sequenceId + 1
      /\ sequence' = [sequence EXCEPT ![r] = sequenceId']
      /\ sequenceId \in Nat
      /\ sequence \in [Requests -> 0..sequenceId]
  BY DEF Register, TypeOK
<1>2. /\ sequence' \in [Requests -> 0..sequenceId']
      /\ sequence'[r] = sequenceId + 1
      /\ \A q \in Requests : sequence[q] \in Nat /\ sequence[q] <= sequenceId
      /\ \A q \in Requests \ {r} : sequence'[q] = sequence[q]
  BY <1>1
<1>3. \A q \in Requests : sequence'[q] >= sequence[q]
  BY <1>1, <1>2
<1>4. \A p, q \in Registered(sequence') : sequence'[p] = sequence'[q] => p = q
  <2> SUFFICES ASSUME NEW p \in Registered(sequence'),
                      NEW q \in Registered(sequence'),
                      sequence'[p] = sequence'[q], p # q
               PROVE  FALSE
    OBVIOUS
  <2>1. p \in Requests /\ q \in Requests
    BY DEF Registered
  <2>2. p # r /\ q # r
    BY <1>1, <1>2, <2>1
  <2>3. p \in Registered(sequence) /\ q \in Registered(sequence)
        /\ sequence[p] = sequence[q]
    BY <1>2, <2>1, <2>2 DEF Registered
  <2> QED BY <2>3 DEF TypeOK
<1>5. \A q \in Requests : current \in Requests
        /\ Precedes(sequence, q, current) => Precedes(sequence', q, current)
  <2> SUFFICES ASSUME NEW q \in Requests, current \in Requests,
                      Precedes(sequence, q, current)
               PROVE  Precedes(sequence', q, current)
    OBVIOUS
  <2>1. sequence'[current] = sequence[current]
    BY <1>2
  <2>2. sequence'[q] \in Int /\ sequence[q] \in Int
        /\ sequence[current] \in Int /\ sequence'[q] >= sequence[q]
    BY <1>1, <1>2, <1>3
  <2> QED BY <2>1, <2>2 DEF Precedes
<1>6. sequenceId' \in Nat
  BY <1>1
<1> QED BY <1>2, <1>3, <1>4, <1>5, <1>6, Zenon

-----------------------------------------------------------------------------
LEMMA InitInv == Init => Inv
PROOF
<1> SUFFICES ASSUME Init PROVE Inv
  OBVIOUS
<1>1. TypeOK
  <2>1. sequenceId \in Nat /\ sequence \in [Requests -> 0..sequenceId]
    BY DEF Init
  <2>2. Registered(sequence) = {}
    BY DEF Init, Registered
  <2>3. {notified, converter, missed} \subseteq BOOLEAN
    BY Zenon DEF Init
  <2>4. main.at = "idle" /\ main.request = NoRequest /\ loader = Ended
    BY DEF Init, Idle
  <2>5. unregistered \subseteq Requests
        /\ {current, response, engine} \subseteq Requests \cup {NoRequest}
    BY DEF Init
  <2> QED BY <2>1, <2>2, <2>3, <2>4, <2>5 DEF TypeOK
<1>2. CurrentIsRegistered /\ CurrentIsServed
  BY DEF Init, CurrentIsRegistered, CurrentIsServed
<1>3. WorksOnABetter /\ TakesAResponse /\ StoredIsServed
  BY DEF Init, WorksOnABetter, Working, TakesAResponse, StoredIsServed,
     Idle, Ended
<1>4. LeavesNothing
  BY DEF Init, LeavesNothing, Pending, Registered
<1> QED BY <1>1, <1>2, <1>3, <1>4 DEF Inv

-----------------------------------------------------------------------------
\* RegisterRequest() while the thread may be at work.
LEMMA RegisteringKeeps ==
  ASSUME Inv, NEW r \in Requests \ (unregistered \cup {current}), Register(r),
         UNCHANGED <<current, notified, response, engineVars, loader, missed>>,
         \/ main' = [at |-> "accepted", request |-> r]
         \/ main' = main /\ main = Idle /\ Pending(sequence)' = {}
  PROVE  Inv'
PROOF
<1> USE DEF engineVars
<1>0. /\ TypeOK /\ CurrentIsRegistered /\ WorksOnABetter
      /\ StoredIsServed /\ CurrentIsServed
      /\ r \in Requests \ {current}
      /\ unregistered' = unregistered
  BY DEF Inv, Register
<1>1. /\ sequenceId' \in Nat
      /\ sequence' \in [Requests -> 0..sequenceId']
      /\ \A p, q \in Registered(sequence') :
           sequence'[p] = sequence'[q] => p = q
      /\ \A q \in Requests : sequence'[q] >= sequence[q]
      /\ \A q \in Requests : current \in Requests
           /\ Precedes(sequence, q, current) => Precedes(sequence', q, current)
  BY <1>0, Registering
<1>2. TypeOK'
  BY <1>0, <1>1 DEF TypeOK, Ended, Registered, Idle
<1>3. \A q \in Requests : sequence[q] \in Nat /\ sequence'[q] \in Nat
  BY <1>0, <1>1 DEF TypeOK
<1>4. CurrentIsRegistered'
  <2>1. current # NoRequest => current \in Requests
    BY <1>0 DEF TypeOK
  <2> QED BY <1>0, <1>1, <1>3, <2>1 DEF CurrentIsRegistered
<1>5. WorksOnABetter'
  <2> SUFFICES ASSUME Working
               PROVE  /\ loader.request # current
                      /\ sequence'[loader.request] > 0
                      /\ current # NoRequest
                           => Precedes(sequence', loader.request, current)
    BY DEF WorksOnABetter, Working, Precedes
  <2>1. loader.request \in Requests
        /\ (current # NoRequest => current \in Requests)
    BY <1>0 DEF TypeOK, Working, Ended
  <2> QED BY <1>0, <1>1, <1>3, <2>1 DEF WorksOnABetter
<1>6. TakesAResponse' /\ StoredIsServed' /\ CurrentIsServed'
  BY <1>0 DEF TakesAResponse, StoredIsServed, CurrentIsServed, Idle
<1>7. LeavesNothing'
  BY DEF LeavesNothing, Idle
<1> QED BY <1>2, <1>4, <1>5, <1>6, <1>7 DEF Inv

-----------------------------------------------------------------------------
\* Where the main thread is makes no difference but to what it takes and to
\* what it has still to start the thread for.
LEMMA MainMoves ==
  ASSUME Inv,
         UNCHANGED <<registered, current, response, engine, loader, missed>>,
         converter' = converter, notified' \in BOOLEAN,
         \/ main'.at \in {"idle", "check"} /\ main'.request = NoRequest
            /\ main.at \notin {"accepted", "notified"}
         \/ main'.at = "reload" /\ main'.request = NoRequest
            /\ main.at \notin {"accepted", "notified"}
            /\ response # NoRequest /\ ~IsRunning
         \/ main'.at \in {"accepted", "notified"} /\ main'.request \in Requests
  PROVE  Inv'
PROOF
<1> USE DEF registered
<1>1. TypeOK'
  <2>1. /\ (sequenceId \in Nat /\ sequence \in [Requests -> 0..sequenceId])'
        /\ (\A q, r \in Registered(sequence) :
              sequence[q] = sequence[r] => q = r)'
        /\ (unregistered \subseteq Requests)'
        /\ ({current, response, engine} \subseteq Requests \cup {NoRequest})'
    BY DEF Inv, TypeOK, Registered
  <2>2. ({notified, converter, missed} \subseteq BOOLEAN)'
    BY Zenon DEF Inv, TypeOK
  <2>3. \/ main'.at \in {"idle", "check", "reload"}
           /\ main'.request = NoRequest
        \/ main'.at \in {"accepted", "notified"} /\ main'.request \in Requests
    OBVIOUS
  <2>4. (\/ loader = Ended
         \/ loader.at \in {"look", "leaving"}
            /\ loader.request \in Requests \cup {NoRequest}
         \/ loader.at \in {"top", "wait", "build", "callback", "success",
                           "failure"} /\ loader.request \in Requests)'
    BY DEF Inv, TypeOK, Ended
  <2> QED BY <2>1, <2>2, <2>3, <2>4 DEF TypeOK
<1>2. /\ CurrentIsRegistered' /\ WorksOnABetter' /\ StoredIsServed'
      /\ CurrentIsServed'
  BY DEF Inv, CurrentIsRegistered, WorksOnABetter, Working, StoredIsServed,
     CurrentIsServed, Precedes
<1>3. TakesAResponse'
  BY DEF Inv, TakesAResponse, IsRunning
<1>4. LeavesNothing'
  BY DEF Inv, LeavesNothing, Pending, Registered, Precedes
<1> QED BY <1>1, <1>2, <1>3, <1>4 DEF Inv

\* A step of the thread that only moves it on.
LEMMA LoaderMoves ==
  ASSUME Inv,
         UNCHANGED <<registered, current, notified, response, engineVars,
                     main, missed>>,
         \/ loader' = Ended /\ loader.at = "leaving"
         \/ /\ loader'.at \in {"look", "leaving"}
            /\ loader'.request \in Requests \cup {NoRequest}
            /\ loader'.at = "leaving" => Pending(sequence) = {}
            /\ IsRunning /\ loader.at # "success"
         \/ /\ loader'.at \in {"top", "wait", "build", "callback", "failure"}
            /\ loader'.request \in Requests
            /\ IsRunning /\ loader.at # "success"
            /\ loader'.request # current
            /\ sequence[loader'.request] > 0
            /\ current # NoRequest
                 => Precedes(sequence, loader'.request, current)
  PROVE  Inv'
PROOF
<1> USE DEF registered, engineVars
<1>1. TypeOK'
  <2>1. /\ (sequenceId \in Nat /\ sequence \in [Requests -> 0..sequenceId])'
        /\ (\A q, r \in Registered(sequence) :
              sequence[q] = sequence[r] => q = r)'
        /\ (unregistered \subseteq Requests)'
        /\ ({current, response, engine} \subseteq Requests \cup {NoRequest})'
    BY DEF Inv, TypeOK, Registered
  <2>2. ({notified, converter, missed} \subseteq BOOLEAN)'
    BY Zenon DEF Inv, TypeOK
  <2>3. (\/ main.at \in {"idle", "check", "reload"}
            /\ main.request = NoRequest
         \/ main.at \in {"accepted", "notified"}
            /\ main.request \in Requests)'
    BY DEF Inv, TypeOK
  <2>4. (\/ loader = Ended
         \/ loader.at \in {"look", "leaving"}
            /\ loader.request \in Requests \cup {NoRequest}
         \/ loader.at \in {"top", "wait", "build", "callback", "success",
                           "failure"} /\ loader.request \in Requests)'
    BY DEF Ended
  <2> QED BY <2>1, <2>2, <2>3, <2>4 DEF TypeOK
<1>2. CurrentIsRegistered' /\ CurrentIsServed' /\ StoredIsServed'
  BY DEF Inv, CurrentIsRegistered, CurrentIsServed, StoredIsServed, Ended
<1>3. WorksOnABetter'
  BY DEF WorksOnABetter, Working, Precedes, Ended
<1>4. TakesAResponse'
  BY DEF Inv, TakesAResponse, IsRunning, Ended
<1>5. LeavesNothing'
  BY DEF Inv, LeavesNothing, Pending, Registered, Precedes, Ended
<1> QED BY <1>1, <1>2, <1>3, <1>4, <1>5 DEF Inv

-----------------------------------------------------------------------------
LEMMA NextInv == Inv /\ [Next]_vars => Inv'
PROOF
<1> SUFFICES ASSUME Inv, [Next]_vars PROVE Inv'
  OBVIOUS
<1> USE DEF registered, engineVars
<1>0. TypeOK
  BY DEF Inv
<1>1. CASE RequestIsRefused
  <2>1. /\ main = Idle
        /\ UNCHANGED <<current, notified, response, engineVars, main, loader,
                       missed>>
    BY <1>1 DEF RequestIsRefused
  <2>2. PICK r \in Requests :
          \/ r \in unregistered \cup {current} /\ UNCHANGED registered
          \/ /\ r \notin unregistered \cup {current}
             /\ Register(r)
             /\ Pending(sequence') = {}
    BY <1>1 DEF RequestIsRefused
  <2>3. CASE UNCHANGED registered
    <3>1. UNCHANGED vars
      BY <2>1, <2>3 DEF vars
    <3>2. main.at = "idle" /\ main.request = NoRequest
      BY <2>1 DEF Idle
    <3>3. notified' \in BOOLEAN
      BY <1>0, <2>1, Zenon DEF TypeOK
    <3> QED BY <3>1, <3>2, <3>3, MainMoves DEF vars
  <2>4. CASE r \notin unregistered \cup {current} /\ Register(r)
             /\ Pending(sequence') = {}
    <3>1. Pending(sequence)' = {}
      BY <2>1, <2>4 DEF Pending, Precedes, Registered
    <3> QED BY <2>1, <2>4, <3>1, RegisteringKeeps
  <2> QED BY <2>2, <2>3, <2>4
<1>2. CASE RequestIsAccepted
  <2>1. PICK r \in Requests \ (unregistered \cup {current}) :
          /\ Register(r)
          /\ main' = [at |-> "accepted", request |-> r]
    BY <1>2 DEF RequestIsAccepted
  <2>2. UNCHANGED <<current, notified, response, engineVars, loader, missed>>
    BY <1>2 DEF RequestIsAccepted
  <2> QED BY <2>1, <2>2, RegisteringKeeps
<1>3. CASE NotifyHighPriority
  <2>1. notified' \in BOOLEAN
    BY <1>0, <1>3, Zenon DEF TypeOK, NotifyHighPriority
  <2>2. main'.at = "notified" /\ main'.request \in Requests
    <3>1. main.request \in Requests
      BY <1>0, <1>3 DEF TypeOK, NotifyHighPriority
    <3>2. main'.at = "notified" /\ main'.request = main.request
      BY <1>3 DEF NotifyHighPriority
    <3> QED BY <3>1, <3>2
  <2> QED BY <1>3, <2>1, <2>2, MainMoves DEF NotifyHighPriority
<1>4. CASE StartThread
  <2>1. main' = Idle /\ main.at = "notified"
        /\ UNCHANGED <<registered, current, notified, response, engineVars>>
    BY <1>4 DEF StartThread
  <2>2. \/ IsRunning /\ loader' = loader
           /\ missed' = (missed \/ loader.at = "leaving")
        \/ ~IsRunning /\ loader' = [Ended EXCEPT !.at = "look"]
           /\ missed' = FALSE
    BY <1>4 DEF StartThread
  <2>3. \/ loader' = loader
        \/ loader'.at = "look" /\ loader'.request = NoRequest
    BY <2>2 DEF Ended
  <2>4. missed' \in BOOLEAN
    BY <1>0, <2>2, Zenon DEF TypeOK
  <2>5. TypeOK'
    <3>1. /\ (sequenceId \in Nat /\ sequence \in [Requests -> 0..sequenceId])'
          /\ (\A q, r \in Registered(sequence) :
                sequence[q] = sequence[r] => q = r)'
          /\ (unregistered \subseteq Requests)'
          /\ ({current, response, engine}
                \subseteq Requests \cup {NoRequest})'
      BY <1>0, <2>1 DEF TypeOK, Registered
    <3>2. ({notified, converter, missed} \subseteq BOOLEAN)'
      BY <1>0, <2>1, <2>4, Zenon DEF TypeOK
    <3>3. main'.at = "idle" /\ main'.request = NoRequest
      BY <2>1 DEF Idle
    <3>4. (\/ loader = Ended
           \/ loader.at \in {"look", "leaving"}
              /\ loader.request \in Requests \cup {NoRequest}
           \/ loader.at \in {"top", "wait", "build", "callback", "success",
                             "failure"} /\ loader.request \in Requests)'
      BY <1>0, <2>3 DEF TypeOK, Ended
    <3> QED BY <3>1, <3>2, <3>3, <3>4 DEF TypeOK
  <2>6. CurrentIsRegistered' /\ WorksOnABetter' /\ StoredIsServed'
    BY <2>1, <2>3 DEF Inv, CurrentIsRegistered, WorksOnABetter, Working,
       StoredIsServed, Precedes
  <2>7. CurrentIsServed'
    <3>1. loader.at = "success" => loader' = loader
      BY <2>2 DEF IsRunning
    <3> QED BY <2>1, <3>1 DEF Inv, CurrentIsServed
  <2>8. TakesAResponse'
    BY <2>1 DEF TakesAResponse, Idle
  <2>9. LeavesNothing'
    <3>1. CASE ~IsRunning
      BY <2>2, <3>1 DEF LeavesNothing, Ended
    <3>2. CASE IsRunning
      BY <2>2, <3>2 DEF LeavesNothing, IsRunning
    <3> QED BY <3>1, <3>2
  <2> QED BY <2>5, <2>6, <2>7, <2>8, <2>9 DEF Inv
<1>5. CASE MaybeReloadEngine \/ CheckLoader
  <2>1. notified' \in BOOLEAN
    BY <1>0, <1>5, Zenon DEF TypeOK, MaybeReloadEngine, CheckLoader
  <2>2. main.at \in {"idle", "check"} /\ main.request = NoRequest
    BY <1>0, <1>5 DEF TypeOK, MaybeReloadEngine, CheckLoader, Idle
  <2>3. /\ main'.at \in {"idle", "check", "reload"}
        /\ main'.request = NoRequest
        /\ main'.at = "reload" => response # NoRequest /\ ~IsRunning
    <3>1. CASE MaybeReloadEngine
      BY <3>1 DEF MaybeReloadEngine, Idle
    <3>2. CASE CheckLoader /\ (IsRunning \/ response = NoRequest)
      BY <3>2 DEF CheckLoader, Idle
    <3>3. CASE CheckLoader /\ ~(IsRunning \/ response = NoRequest)
      <4>1. main' = [main EXCEPT !.at = "reload"]
        BY <3>3 DEF CheckLoader
      <4>2. main'.at = "reload" /\ main'.request = NoRequest
        BY <2>2, <3>3, <4>1 DEF CheckLoader
      <4> QED BY <3>3, <4>2
    <3> QED BY <1>5, <3>1, <3>2, <3>3
  <2>4. UNCHANGED <<registered, current, notified, response, engineVars,
                    loader, missed>>
    BY <1>5 DEF MaybeReloadEngine, CheckLoader
  <2> QED BY <2>1, <2>2, <2>3, <2>4, MainMoves
<1>6. CASE ReloadModules
  <2>1. /\ main.at = "reload" /\ main' = Idle
        /\ engine' = response /\ converter' = TRUE /\ response' = NoRequest
        /\ UNCHANGED <<registered, current, notified, loader, missed>>
    BY <1>6 DEF ReloadModules
  <2>2. response # NoRequest /\ loader.at = "ended" /\ ~IsRunning
    BY <2>1 DEF Inv, TakesAResponse, IsRunning
  <2>3. TypeOK'
    <3>1. /\ (sequenceId \in Nat /\ sequence \in [Requests -> 0..sequenceId])'
          /\ (\A q, r \in Registered(sequence) :
                sequence[q] = sequence[r] => q = r)'
          /\ (unregistered \subseteq Requests)'
      BY <1>0, <2>1 DEF TypeOK, Registered
    <3>2. ({current, response, engine} \subseteq Requests \cup {NoRequest})'
      BY <1>0, <2>1 DEF TypeOK
    <3>3. ({notified, converter, missed} \subseteq BOOLEAN)'
      BY <1>0, <2>1, Zenon DEF TypeOK
    <3>4. main'.at = "idle" /\ main'.request = NoRequest
      BY <2>1 DEF Idle
    <3>5. (\/ loader = Ended
           \/ loader.at \in {"look", "leaving"}
              /\ loader.request \in Requests \cup {NoRequest}
           \/ loader.at \in {"top", "wait", "build", "callback", "success",
                             "failure"} /\ loader.request \in Requests)'
      BY <1>0, <2>1 DEF TypeOK, Ended
    <3> QED BY <3>1, <3>2, <3>3, <3>4, <3>5 DEF TypeOK
  <2>4. CurrentIsRegistered' /\ WorksOnABetter' /\ StoredIsServed'
    BY <2>1, <2>2 DEF Inv, CurrentIsRegistered, WorksOnABetter, Working,
       StoredIsServed
  <2>5. CurrentIsServed'
    BY <2>1, <2>2 DEF Inv, CurrentIsServed
  <2>6. TakesAResponse'
    BY <2>1 DEF TakesAResponse, Idle
  <2>7. LeavesNothing'
    BY <2>1 DEF Inv, LeavesNothing, Pending, Registered, Precedes
  <2> QED BY <2>3, <2>4, <2>5, <2>6, <2>7 DEF Inv
<1>7. CASE GetPendingRequestData
  <2>1. /\ loader.at = "look" /\ IsRunning
        /\ UNCHANGED <<registered, current, notified, response, engineVars,
                       main, missed>>
    BY <1>7 DEF GetPendingRequestData, IsRunning
  <2>2. CASE Pending(sequence) = {} /\ GoTo("leaving")
    <3>1. loader.request \in Requests \cup {NoRequest}
      BY <1>0, <2>1 DEF TypeOK, Ended
    <3>2. loader'.at = "leaving"
          /\ loader'.request \in Requests \cup {NoRequest}
      <4>1. CASE loader = Ended
        BY <2>1, <4>1 DEF Ended
      <4>2. CASE loader # Ended
        BY <2>2, <3>1 DEF GoTo
      <4> QED BY <4>1, <4>2
    <3> QED BY <2>1, <2>2, <3>2, LoaderMoves
  <2>3. ASSUME NEW r \in Pending(sequence),
               loader' = [at |-> "top", request |-> r]
        PROVE  Inv'
    <3>1. /\ r \in Requests /\ r # current /\ sequence[r] > 0
          /\ \A q \in Registered(sequence) \ {r} : Precedes(sequence, r, q)
      BY DEF Pending, Registered
    <3>2. current # NoRequest => current \in Registered(sequence)
      BY <1>0 DEF Inv, CurrentIsRegistered, Registered, TypeOK
    <3>3. loader'.at = "top" /\ loader'.request = r
      BY <2>3
    <3> QED BY <2>1, <3>1, <3>2, <3>3, LoaderMoves
  <2> QED BY <1>7, <2>2, <2>3 DEF GetPendingRequestData
<1>8. CASE LookForHighPriority \/ HighPriorityArrives \/ WaitTimesOut
           \/ BuildResponse
  <2>1. /\ loader.at \in {"top", "wait", "build"}
        /\ UNCHANGED <<registered, current, notified, response, engineVars,
                       main, missed>>
        /\ \E at \in {"look", "wait", "build", "callback", "failure"} :
             GoTo(at)
    BY <1>8 DEF LookForHighPriority, HighPriorityArrives, WaitTimesOut,
       BuildResponse
  <2>2. PICK at \in {"look", "wait", "build", "callback", "failure"} : GoTo(at)
    BY <2>1
  <2>3. loader.request \in Requests /\ Working /\ IsRunning
    BY <1>0, <2>1 DEF TypeOK, Ended, Working, IsRunning
  <2>4. loader'.request = loader.request /\ loader'.at = at
    <3>1. loader' = [loader EXCEPT !.at = at]
      BY <2>2 DEF GoTo
    <3>2. loader.at # "ended"
      BY <2>1
    <3> QED BY <3>1
  <2>5. /\ loader.request # current
        /\ sequence[loader.request] > 0
        /\ current # NoRequest => Precedes(sequence, loader.request, current)
    BY <2>3 DEF Inv, WorksOnABetter
  <2>6. CASE at = "look"
    BY <2>1, <2>3, <2>4, <2>6, LoaderMoves
  <2>7. CASE at # "look"
    BY <2>1, <2>3, <2>4, <2>5, <2>7, LoaderMoves
  <2> QED BY <2>6, <2>7
<1>9. CASE StoreResponse
  <2>1. /\ loader.at = "callback" /\ response' = loader.request
        /\ loader' = [loader EXCEPT !.at = "success"]
        /\ UNCHANGED <<registered, current, notified, engineVars, main,
                       missed>>
    BY <1>9 DEF StoreResponse, GoTo
  <2>2. loader.request \in Requests /\ loader'.at = "success"
        /\ loader'.request = loader.request
    BY <1>0, <2>1 DEF TypeOK, Ended
  <2>3. TypeOK'
    <3>1. /\ (sequenceId \in Nat /\ sequence \in [Requests -> 0..sequenceId])'
          /\ (\A q, r \in Registered(sequence) :
                sequence[q] = sequence[r] => q = r)'
          /\ (unregistered \subseteq Requests)'
      BY <1>0, <2>1 DEF TypeOK, Registered
    <3>2. ({current, response, engine} \subseteq Requests \cup {NoRequest})'
      BY <1>0, <2>1, <2>2 DEF TypeOK
    <3>3. ({notified, converter, missed} \subseteq BOOLEAN)'
      BY <1>0, <2>1, Zenon DEF TypeOK
    <3>4. (\/ main.at \in {"idle", "check", "reload"}
              /\ main.request = NoRequest
           \/ main.at \in {"accepted", "notified"}
              /\ main.request \in Requests)'
      BY <1>0, <2>1 DEF TypeOK
    <3> QED BY <2>2, <3>1, <3>2, <3>3, <3>4 DEF TypeOK
  <2>4. CurrentIsRegistered' /\ WorksOnABetter' /\ StoredIsServed'
    BY <2>1, <2>2 DEF Inv, CurrentIsRegistered, WorksOnABetter, Working,
       StoredIsServed, Precedes
  <2>5. CurrentIsServed' /\ LeavesNothing'
    BY <2>2 DEF CurrentIsServed, LeavesNothing
  <2>6. TakesAResponse'
    BY <2>1 DEF Inv, TakesAResponse, IsRunning
  <2> QED BY <2>3, <2>4, <2>5, <2>6 DEF Inv
<1>10. CASE ReportLoadSuccess
  <2>1. /\ loader.at = "success" /\ current' = loader.request
        /\ loader' = [loader EXCEPT !.at = "look"]
        /\ UNCHANGED <<registered, notified, response, engineVars, main,
                       missed>>
    BY <1>10 DEF ReportLoadSuccess, GoTo
  <2>2. loader.request \in Requests /\ loader'.at = "look"
        /\ loader'.request = loader.request
    BY <1>0, <2>1 DEF TypeOK, Ended
  <2>3. TypeOK'
    <3>1. /\ (sequenceId \in Nat /\ sequence \in [Requests -> 0..sequenceId])'
          /\ (\A q, r \in Registered(sequence) :
                sequence[q] = sequence[r] => q = r)'
          /\ (unregistered \subseteq Requests)'
      BY <1>0, <2>1 DEF TypeOK, Registered
    <3>2. ({current, response, engine} \subseteq Requests \cup {NoRequest})'
      BY <1>0, <2>1, <2>2 DEF TypeOK
    <3>3. ({notified, converter, missed} \subseteq BOOLEAN)'
      BY <1>0, <2>1, Zenon DEF TypeOK
    <3>4. (\/ main.at \in {"idle", "check", "reload"}
              /\ main.request = NoRequest
           \/ main.at \in {"accepted", "notified"}
              /\ main.request \in Requests)'
      BY <1>0, <2>1 DEF TypeOK
    <3> QED BY <2>2, <3>1, <3>2, <3>3, <3>4 DEF TypeOK
  <2>4. CurrentIsRegistered'
    BY <2>1 DEF Inv, WorksOnABetter, Working, CurrentIsRegistered
  <2>5. CurrentIsServed'
    <3>1. response = loader.request /\ response \in Requests
      BY <2>1, <2>2 DEF Inv, StoredIsServed
    <3> QED BY <2>1, <3>1, RequestsAssumption DEF CurrentIsServed
  <2>6. WorksOnABetter' /\ StoredIsServed' /\ LeavesNothing'
    BY <2>2 DEF WorksOnABetter, Working, StoredIsServed, LeavesNothing
  <2>7. TakesAResponse'
    BY <2>1 DEF Inv, TakesAResponse, IsRunning
  <2> QED BY <2>3, <2>4, <2>5, <2>6, <2>7 DEF Inv
<1>11. CASE ReportLoadFailure
  <2>1. /\ loader.at = "failure"
        /\ sequence' = [sequence EXCEPT ![loader.request] = 0]
        /\ unregistered' = unregistered \cup {loader.request}
        /\ loader' = [loader EXCEPT !.at = "look"]
        /\ UNCHANGED <<sequenceId, current, notified, response, engineVars,
                       main, missed>>
    BY <1>11 DEF ReportLoadFailure, GoTo
  <2>2. loader.request \in Requests /\ loader'.at = "look"
        /\ loader'.request = loader.request
    BY <1>0, <2>1 DEF TypeOK, Ended
  <2>3. loader.request # current
    BY <2>1 DEF Inv, WorksOnABetter, Working
  <2>4. TypeOK'
    <3>1. (sequenceId \in Nat /\ sequence \in [Requests -> 0..sequenceId])'
      BY <1>0, <2>1, <2>2 DEF TypeOK
    <3>2. \A q \in Registered(sequence') :
            q \in Registered(sequence) /\ sequence'[q] = sequence[q]
      BY <1>0, <2>1, <2>2 DEF Registered, TypeOK
    <3>3. (\A q, r \in Registered(sequence) :
             sequence[q] = sequence[r] => q = r)'
      BY <1>0, <3>2 DEF TypeOK, Registered
    <3>4. /\ (unregistered \subseteq Requests)'
          /\ ({current, response, engine} \subseteq Requests \cup {NoRequest})'
      BY <1>0, <2>1, <2>2 DEF TypeOK
    <3>5. ({notified, converter, missed} \subseteq BOOLEAN)'
      BY <1>0, <2>1, Zenon DEF TypeOK
    <3>6. (\/ main.at \in {"idle", "check", "reload"}
              /\ main.request = NoRequest
           \/ main.at \in {"accepted", "notified"}
              /\ main.request \in Requests)'
      BY <1>0, <2>1 DEF TypeOK
    <3> QED BY <2>2, <3>1, <3>3, <3>4, <3>5, <3>6 DEF TypeOK
  <2>5. CurrentIsRegistered'
    <3> SUFFICES ASSUME current # NoRequest PROVE sequence'[current] > 0
      BY <2>1 DEF CurrentIsRegistered
    <3>1. current \in Requests /\ sequence[current] > 0
      BY <1>0 DEF Inv, TypeOK, CurrentIsRegistered
    <3> QED BY <1>0, <2>1, <2>3, <3>1 DEF TypeOK
  <2>6. CurrentIsServed'
    BY <2>1 DEF Inv, CurrentIsServed
  <2>7. WorksOnABetter' /\ StoredIsServed' /\ LeavesNothing'
    BY <2>2 DEF WorksOnABetter, Working, StoredIsServed, LeavesNothing
  <2>8. TakesAResponse'
    BY <2>1 DEF Inv, TakesAResponse, IsRunning
  <2> QED BY <2>4, <2>5, <2>6, <2>7, <2>8 DEF Inv
<1>12. CASE ThreadEnds
  BY <1>12, LoaderMoves, <1>0, Zenon DEF ThreadEnds, TypeOK
<1>13. CASE UNCHANGED vars
  BY <1>13 DEF vars, Inv, TypeOK, CurrentIsRegistered, WorksOnABetter, Working,
     TakesAResponse, StoredIsServed, CurrentIsServed, LeavesNothing, IsRunning,
     Pending, Registered, Precedes
<1> QED BY <1>1, <1>2, <1>3, <1>4, <1>5, <1>6, <1>7, <1>8, <1>9, <1>10,
           <1>11, <1>12, <1>13 DEF Next, MainCalls, MainReturns, LoaderThread

-----------------------------------------------------------------------------
LEMMA Invariance == Spec => []Inv
PROOF
<1> QED BY InitInv, NextInv, PTL DEF Spec

\* The members of DataLoader and Engine range over their types, and no two
\* requests in requests_ have the same sequence id (data_loader.cc:107).
THEOREM TypeCorrect == Spec => []TypeOK
PROOF
<1>1. Inv => TypeOK
  BY DEF Inv
<1> QED BY <1>1, Invariance, PTL

\* Without a lock of its own, loader_response_ is taken only while no thread
\* exists that could store another (engine.cc:167).
THEOREM ResponseIsSafe == Spec => []ResponseIsNotShared
PROOF
<1>1. Inv => ResponseIsNotShared
  BY DEF Inv, TakesAResponse, ResponseIsNotShared
<1> QED BY <1>1, Invariance, PTL

\* What RegisterRequest() refuses as loaded is what the engine has, or what
\* MaybeReloadEngine() is about to take (data_loader.cc:98).
THEOREM LoadedIsServed == Spec => []CurrentIsServed
PROOF
<1>1. Inv => CurrentIsServed
  BY DEF Inv
<1> QED BY <1>1, Invariance, PTL

\* No accepted request is left behind by the thread's end, but one that comes
\* between its last look and its end (data_loader.cc:239).
THEOREM NothingLeft == Spec => []NothingIsLeftBehind
PROOF
<1>1. Inv => NothingIsLeftBehind
  BY DEF Inv, LeavesNothing, NothingIsLeftBehind, IsRunning, TypeOK, Ended
<1> QED BY <1>1, Invariance, PTL

\* Data are replaced by better ones only (data_loader.cc:120, 148).
THEOREM OnlyBetter == Spec => NeverGetsWorse
PROOF
<1>1. Inv /\ [Next]_vars =>
        [current' # current =>
           current = NoRequest \/ Precedes(sequence, current', current)]_vars
  <2> SUFFICES ASSUME Inv, [Next]_vars, current' # current
               PROVE  current = NoRequest
                      \/ Precedes(sequence, current', current)
    OBVIOUS
  <2>1. ReportLoadSuccess
    BY DEF Next, MainCalls, MainReturns, LoaderThread, vars, RequestIsRefused,
       RequestIsAccepted, MaybeReloadEngine, NotifyHighPriority, StartThread,
       CheckLoader, ReloadModules, GetPendingRequestData, LookForHighPriority,
       HighPriorityArrives, WaitTimesOut, BuildResponse, StoreResponse,
       ReportLoadFailure, ThreadEnds
  <2> QED BY <2>1 DEF ReportLoadSuccess, Inv, WorksOnABetter, Working
<1> QED BY <1>1, Invariance, PTL DEF Spec, NeverGetsWorse
=============================================================================
