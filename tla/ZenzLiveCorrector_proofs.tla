----------------------- MODULE ZenzLiveCorrector_proofs -----------------------
(***************************************************************************)
(* Proofs about ZenzLiveCorrector for every value of MaxGeneration: the     *)
(* inductive invariant and the safety properties that follow from it.       *)
(***************************************************************************)
EXTENDS ZenzLiveCorrector, TLAPS

USE MaxGenerationAssumption

\* The initial state of a corrector satisfies the inductive invariant.
LEMMA InitIndInv == Init => IndInv
  <1> SUFFICES ASSUME Init PROVE IndInv
    OBVIOUS
  <1>1. /\ started \in BOOLEAN /\ stop \in BOOLEAN
        /\ stopRequested \in BOOLEAN /\ interrupt \in BOOLEAN
        /\ cancelled \in BOOLEAN
    BY Zenon DEF Init
  <1>2. /\ latestRequest \in 0..MaxGeneration
        /\ request \in 0..MaxGeneration
        /\ generation \in 0..MaxGeneration
        /\ asked \in 0..MaxGeneration
        /\ latestResult \in Result \cup {NoResult}
        /\ response \in Result \cup {NoResult}
        /\ delivered \in Result \cup {NoResult}
        /\ worker \in WorkerPhases
        /\ caller \in CallerPhases
    BY DEF Init, WorkerPhases, CallerPhases
  <1>3. TypeOK
    BY <1>1, <1>2, Zenon DEF TypeOK
  <1>4. ThreadLifecycle /\ NoLostInterrupt /\ NoLostWakeup
    BY DEF Init, ThreadLifecycle, NoLostInterrupt, NoLostWakeup
  <1>5. InterruptIsRegistered
    BY DEF Init, InterruptIsRegistered, InConvert, Blocking
  <1>6. GenerationsInFlight
    BY DEF Init, GenerationsInFlight, InConvert, Blocking, NoResult
  <1> QED
    BY <1>3, <1>4, <1>5, <1>6 DEF IndInv

\* Every step of either thread preserves the inductive invariant.
LEMMA NextIndInv == IndInv /\ [Next]_vars => IndInv'
  <1> SUFFICES ASSUME IndInv, [Next]_vars PROVE IndInv'
    OBVIOUS
  <1> USE DEF IndInv, TypeOK, ThreadLifecycle, InterruptIsRegistered,
              NoLostInterrupt, NoLostWakeup, GenerationsInFlight, Result,
              NoResult, Generations, WorkerPhases, CallerPhases, InConvert,
              Blocking, sharedVars, clientVars, workerVars, callerVars
  <1>1. CASE SubmitStart
    <2>1. CASE started
      BY <1>1, <2>1 DEF SubmitStart, Start
    <2>2. CASE ~started
      <3>1. /\ started' = TRUE /\ stop' = FALSE /\ stopRequested' = FALSE
            /\ interrupt' = interrupt /\ cancelled' = cancelled
            /\ worker' = "lock" /\ caller' = "enqueue"
        BY <1>1, <2>2 DEF SubmitStart, Start
      <3>2. /\ started' \in BOOLEAN /\ stop' \in BOOLEAN
            /\ stopRequested' \in BOOLEAN /\ interrupt' \in BOOLEAN
            /\ cancelled' \in BOOLEAN
        BY <3>1, Zenon
      <3>3. /\ latestRequest' \in 0..MaxGeneration
            /\ request' \in 0..MaxGeneration
            /\ generation' \in 0..MaxGeneration
            /\ asked' \in 0..MaxGeneration
            /\ latestResult' \in Result \cup {NoResult}
            /\ response' \in Result \cup {NoResult}
            /\ delivered' \in Result \cup {NoResult}
            /\ worker' \in WorkerPhases
            /\ caller' \in CallerPhases
        BY <1>1, <3>1 DEF SubmitStart
      <3>4. TypeOK'
        BY <3>2, <3>3, Zenon DEF TypeOK
      <3>5. (ThreadLifecycle /\ NoLostInterrupt /\ NoLostWakeup)'
        BY <3>1
      <3>6. InterruptIsRegistered'
        BY <2>2, <3>1
      <3>7. GenerationsInFlight'
        BY <1>1, <2>2, <3>1 DEF SubmitStart
      <3> HIDE DEF TypeOK, ThreadLifecycle, InterruptIsRegistered,
                   NoLostInterrupt, NoLostWakeup, GenerationsInFlight
      <3> QED
        BY <3>4, <3>5, <3>6, <3>7
    <2> QED
      BY <2>1, <2>2
  <1>2. CASE SubmitEnqueue
    BY <1>2 DEF SubmitEnqueue
  <1>3. CASE SubmitNotify
    BY <1>3 DEF SubmitNotify, Wake
  <1>4. CASE CancelPending
    BY <1>4 DEF CancelPending
  <1>5. CASE TakeResult
    BY <1>5 DEF TakeResult
  <1>6. CASE StopBegin
    BY <1>6 DEF StopBegin, RequestStop
  <1>7. CASE StopNotify
    BY <1>7 DEF StopNotify, Wake
  <1>8. CASE StopJoin
    BY <1>8 DEF StopJoin
  <1>9. CASE StopEnd
    BY <1>9 DEF StopEnd
  <1>10. CASE WorkerSleep
    BY <1>10 DEF WorkerSleep
  <1>11. CASE WorkerSpuriousWakeup
    BY <1>11 DEF WorkerSpuriousWakeup
  <1>12. CASE WorkerExit
    BY <1>12 DEF WorkerExit
  <1>13. CASE WorkerTake
    BY <1>13 DEF WorkerTake
  <1>14. CASE WorkerUnavailable
    BY <1>14 DEF WorkerUnavailable, Respond
  <1>15. CASE WorkerRegister
    BY <1>15 DEF WorkerRegister
  <1>16. CASE WorkerCancelled
    BY <1>16 DEF WorkerCancelled, ConvertFails, Respond
  <1>17. CASE WorkerDeadline
    BY <1>17 DEF WorkerDeadline, ConvertFails, Respond
  <1>18. CASE WorkerColdStart
    BY <1>18 DEF WorkerColdStart, ConvertMoves
  <1>19. CASE WorkerLaunched
    <2>1. CASE ConvertMoves("launch", "startup")
      BY <2>1 DEF ConvertMoves
    <2>2. CASE ConvertFails("launch")
      BY <2>2 DEF ConvertFails, Respond
    <2> QED
      BY <1>19, <2>1, <2>2 DEF WorkerLaunched
  <1>20. CASE WorkerConnected
    BY <1>20 DEF WorkerConnected, ConvertMoves
  <1>21. CASE WorkerReply
    BY <1>21 DEF WorkerReply, Respond
  <1>22. CASE WorkerUnregister
    BY <1>22 DEF WorkerUnregister
  <1>23. CASE WorkerStore
    BY <1>23 DEF WorkerStore
  <1>24. CASE UNCHANGED vars
    BY <1>24 DEF vars
  <1> HIDE DEF IndInv, sharedVars, clientVars, workerVars, callerVars
  <1> QED
    BY <1>1, <1>2, <1>3, <1>4, <1>5, <1>6, <1>7, <1>8, <1>9, <1>10, <1>11,
       <1>12, <1>13, <1>14, <1>15, <1>16, <1>17, <1>18, <1>19, <1>20, <1>21,
       <1>22, <1>23, <1>24 DEF Next, Caller, Worker

\* Every reachable state of a corrector satisfies the inductive invariant.
THEOREM InductiveInvariant == Spec => []IndInv
  BY InitIndInv, NextIndInv, PTL DEF Spec

\* Types of all the state the two threads share.
THEOREM TypeCorrect == Spec => []TypeOK
  <1>1. IndInv => TypeOK
    BY DEF IndInv
  <1> QED
    BY InductiveInvariant, <1>1, PTL

\* However RequestStop() and ScopedInterrupt interleave, a worker that blocks
\* in Convert() while Stop() waits for it has been woken.
THEOREM InterruptIsNeverLost == Spec => []NoLostInterrupt
  <1>1. IndInv => NoLostInterrupt
    BY DEF IndInv
  <1> QED
    BY InductiveInvariant, <1>1, PTL

\* The wakeup callback is never reachable outside the Convert() whose
\* descriptors it captures.
THEOREM InterruptStaysInConvert == Spec => []InterruptOnlyInConvert
  <1>1. IndInv => InterruptOnlyInConvert
    BY DEF IndInv, InterruptIsRegistered, InterruptOnlyInConvert
  <1> QED
    BY InductiveInvariant, <1>1, PTL

\* A worker sleeps on a queued request, or on a stop, only until the
\* notification that is already on its way.
THEOREM WakeupIsNeverLost == Spec => []NoLostWakeup
  <1>1. IndInv => NoLostWakeup
    BY DEF IndInv
  <1> QED
    BY InductiveInvariant, <1>1, PTL

-----------------------------------------------------------------------------
(* Refinement.                                                              *)

\* A step of the corrector is a step of the mailbox or leaves it alone.
LEMMA StepRefines ==
  IndInv /\ IndInv' /\ [Next]_vars
    => [Mailbox!MailboxNext]_(Mailbox!mailboxVars)
  <1> SUFFICES ASSUME IndInv, IndInv', [Next]_vars
               PROVE  [Mailbox!MailboxNext]_(Mailbox!mailboxVars)
    OBVIOUS
  <1> USE DEF Mailbox!mailboxVars, answerSeen, sharedVars, clientVars,
              workerVars, callerVars, NoResult, Mailbox!NoResult
  <1>1. CASE SubmitStart
    BY <1>1 DEF SubmitStart, Start, Mailbox!MailboxNext,
       Mailbox!Ask, IndInv, TypeOK, GenerationsInFlight, Result, Generations,
       InConvert, Blocking
  <1>2. CASE SubmitEnqueue
    BY <1>2 DEF SubmitEnqueue, IndInv, TypeOK, GenerationsInFlight, Result,
       Generations
  <1>3. CASE SubmitNotify
    BY <1>3 DEF SubmitNotify, Wake, IndInv, TypeOK, GenerationsInFlight,
       Result, Generations
  <1>4. CASE CancelPending
    BY <1>4 DEF CancelPending, Mailbox!MailboxNext,
       Mailbox!Withdraw, IndInv, TypeOK, GenerationsInFlight, Result,
       Generations, InConvert, Blocking
  <1>5. CASE TakeResult
    BY <1>5 DEF TakeResult, Mailbox!MailboxNext,
       Mailbox!Deliver, IndInv, TypeOK, GenerationsInFlight, Result,
       Generations, InConvert, Blocking
  <1>6. CASE StopBegin
    BY <1>6 DEF StopBegin, RequestStop, Mailbox!MailboxNext,
       Mailbox!Close, IndInv, TypeOK, GenerationsInFlight, Result, Generations,
       InConvert, Blocking
  <1>7. CASE StopNotify
    BY <1>7 DEF StopNotify, Wake, IndInv, TypeOK, GenerationsInFlight, Result,
       Generations
  <1>8. CASE StopJoin
    BY <1>8 DEF StopJoin, IndInv, TypeOK, GenerationsInFlight, Result,
       Generations
  <1>9. CASE StopEnd
    BY <1>9 DEF StopEnd, IndInv, TypeOK, GenerationsInFlight, Result,
       Generations
  <1>10. CASE WorkerSleep
    BY <1>10 DEF WorkerSleep, IndInv, TypeOK, GenerationsInFlight, Result,
       Generations
  <1>11. CASE WorkerSpuriousWakeup
    BY <1>11 DEF WorkerSpuriousWakeup, IndInv, TypeOK, GenerationsInFlight,
       Result, Generations
  <1>12. CASE WorkerExit
    BY <1>12 DEF WorkerExit, IndInv, TypeOK, GenerationsInFlight, Result,
       Generations
  <1>13. CASE WorkerTake
    BY <1>13 DEF WorkerTake, IndInv, TypeOK, GenerationsInFlight, Result,
       Generations
  <1>14. CASE WorkerUnavailable
    BY <1>14 DEF WorkerUnavailable, Respond, IndInv, TypeOK,
       GenerationsInFlight, Result, Generations
  <1>15. CASE WorkerRegister
    BY <1>15 DEF WorkerRegister, IndInv, TypeOK, GenerationsInFlight, Result,
       Generations
  <1>16. CASE WorkerCancelled
    BY <1>16 DEF WorkerCancelled, ConvertFails, Respond, IndInv, TypeOK,
       GenerationsInFlight, Result, Generations
  <1>17. CASE WorkerDeadline
    BY <1>17 DEF WorkerDeadline, ConvertFails, Respond, IndInv, TypeOK,
       GenerationsInFlight, Result, Generations
  <1>18. CASE WorkerColdStart
    BY <1>18 DEF WorkerColdStart, ConvertMoves, IndInv, TypeOK,
       GenerationsInFlight, Result, Generations
  <1>19. CASE WorkerLaunched
    BY <1>19 DEF WorkerLaunched, ConvertMoves, ConvertFails, Respond, IndInv,
       TypeOK, GenerationsInFlight, Result, Generations
  <1>20. CASE WorkerConnected
    BY <1>20 DEF WorkerConnected, ConvertMoves, IndInv, TypeOK,
       GenerationsInFlight, Result, Generations
  <1>21. CASE WorkerReply
    BY <1>21 DEF WorkerReply, Respond, IndInv, TypeOK, GenerationsInFlight,
       Result, Generations
  <1>22. CASE WorkerUnregister
    BY <1>22 DEF WorkerUnregister, IndInv, TypeOK, GenerationsInFlight,
       Result, Generations
  <1>23. CASE WorkerStore
    <2> USE DEF WorkerStore, IndInv, TypeOK, GenerationsInFlight, Result,
                Generations
    <2>1. CASE ~stop /\ response.generation = asked
      <3>1. answerSeen = NoResult /\ answerSeen' = response /\ asked # 0
        BY <1>23, <2>1
      <3>2. response = [generation |-> asked, ok |-> response.ok]
        BY <1>23, <2>1
      <3>3. response.ok \in BOOLEAN
        BY <1>23
      <3>4. Mailbox!Answer
        BY <1>23, <3>1, <3>2, <3>3 DEF Mailbox!Answer
      <3> QED
        BY <3>4 DEF Mailbox!MailboxNext
    <2>2. CASE stop \/ response.generation # asked
      <3>1. request # 0 /\ response.generation = request
        BY <1>23
      <3>2. UNCHANGED <<generation, asked, delivered>>
        BY <1>23
      <3>3. answerSeen' = answerSeen
        <4>1. CASE stop
          BY <1>23, <4>1
        <4>2. CASE ~stop /\ asked # 0
          BY <1>23, <2>2, <3>1, <4>2
        <4>3. CASE ~stop /\ asked = 0
          <5>1. latestResult.generation = 0 => latestResult = NoResult
            <6>1. latestResult \in Result => latestResult.generation # 0
              OBVIOUS
            <6> QED
              BY <6>1
          <5>2. answerSeen = NoResult
            BY <4>3, <5>1
          <5>3. answerSeen' = NoResult
            BY <1>23, <3>1, <3>2, <4>3
          <5> QED
            BY <5>2, <5>3
        <4> QED
          BY <4>1, <4>2, <4>3
      <3> QED
        BY <3>2, <3>3
    <2> QED
      BY <2>1, <2>2
  <1>24. CASE UNCHANGED vars
    BY <1>24 DEF vars
  <1> HIDE DEF IndInv, sharedVars, clientVars, workerVars, callerVars,
     Mailbox!mailboxVars
  <1> QED
    BY <1>1, <1>2, <1>3, <1>4, <1>5, <1>6, <1>7, <1>8, <1>9, <1>10, <1>11,
       <1>12, <1>13, <1>14, <1>15, <1>16, <1>17, <1>18, <1>19, <1>20, <1>21,
       <1>22, <1>23, <1>24 DEF Next, Caller, Worker

\* The two threads, the lock, the condition variable and the interruptible
\* transport together behave as the one-question mailbox Session relies on.
THEOREM CorrectorImplementsMailbox == Spec => ImplementsMailbox
  <1>1. Init => Mailbox!MailboxInit
    BY DEF Init, Mailbox!MailboxInit, answerSeen, NoResult, Mailbox!NoResult
  <1> QED
    BY <1>1, InductiveInvariant, StepRefines, PTL
    DEF Spec, ImplementsMailbox, Mailbox!MailboxSpec
=============================================================================
