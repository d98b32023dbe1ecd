---------------------------- MODULE Client_proofs ----------------------------
(***************************************************************************)
(* Proofs that the client's bookkeeping is well typed, that the input of   *)
(* a second trial continues the text that was typed and that an input that *)
(* kills the server is forgotten, for any keys, any size of the history    *)
(* and any number of faults.                                               *)
(***************************************************************************)
EXTENDS Client, SequenceTheorems, TLAPS

(***************************************************************************)
(* PlaybackHistory() has brought the session to the inputs it has sent.    *)
(***************************************************************************)
Restoring ==
  /\ trial = 2 /\ status = "OK"
  /\ played <= Len(history)
  /\ Len(history) >= MaxHistory => played = 0
  /\ session # None => session = SubSeq(history, 1, played)

Inv ==
  /\ TypeOK
  /\ trial = 1 \/ pc \in {"ensure", "create"} => played = 0
  /\ pc = "ensure" /\ trial = 2 => status # "OK"
  /\ pc = "playback" => Restoring
  /\ SecondTrialContinues
-----------------------------------------------------------------------------
(***************************************************************************)
(* Operators                                                               *)
(***************************************************************************)

\* A session that consumes an input is still a sequence of inputs.
LEMMA ConsumeType ==
  ASSUME NEW s \in Seq(Inputs), NEW x \in Inputs, NEW result \in BOOLEAN
  PROVE  Consume(s, x, result) \in Seq(Inputs)
BY DEF Consume

\* PushHistory() keeps the history within kMaxPlayBackSize.
LEMMA PushHistoryType ==
  ASSUME NEW h \in Seq(Inputs), Len(h) <= MaxHistory, NEW x \in Inputs,
         NEW result \in BOOLEAN
  PROVE  /\ PushHistory(h, x, result) \in Seq(Inputs)
         /\ Len(PushHistory(h, x, result)) <= MaxHistory
BY ClientAssumption DEF PushHistory

\* None is not the state of a session.
LEMMA NoneIsNoSession == None \notin Seq(Inputs) /\ None \notin Inputs
BY ClientAssumption

\* One more input of the history replayed.
LEMMA ReplayedOneMore ==
  ASSUME NEW h \in Seq(Inputs), NEW n \in Nat, n < Len(h)
  PROVE  /\ h[n + 1] \in Inputs
         /\ Consume(SubSeq(h, 1, n), h[n + 1], FALSE) = SubSeq(h, 1, n + 1)
<1>1. h[n + 1] \in Inputs
  BY ElementOfSeq
<1>2. Append(SubSeq(h, 1, n), h[n + 1]) = SubSeq(h, 1, n + 1)
  BY SubSeqRecursiveSecond
<1>. QED
  BY <1>1, <1>2 DEF Consume

\* What an attempt that fails leaves behind.
LEMMA FailsType ==
  ASSUME TypeOK, NEW x \in Inputs, Fails(x)
  PROVE  /\ status' \in {"SHUTDOWN", "TIMEOUT", "BROKEN_MESSAGE"}
         /\ up' \in BOOLEAN
         /\ session' \in Seq(Inputs) \cup {None}
         /\ ~up' => session' = None
         /\ faults' \in 0 .. MaxFaults
<1>1. CASE NotConnected
  BY <1>1 DEF NotConnected, TypeOK, server
<1>2. CASE CrashesServer(x)
  BY <1>2 DEF CrashesServer, Crash, TypeOK
<1>3. CASE BreaksOff(x)
  <2>1. status' \in {"SHUTDOWN", "TIMEOUT", "BROKEN_MESSAGE"}
        /\ up /\ up' = up
    BY <1>3 DEF BreaksOff
  <2>2. faults' \in 0 .. MaxFaults
    BY <1>3, ClientAssumption DEF BreaksOff, Fault, TypeOK
  <2>3. session' \in Seq(Inputs) \cup {None}
    <3>1. CASE Answers(x)
      BY <1>3, <3>1, ConsumeType DEF BreaksOff, Answers, TypeOK
    <3>2. CASE ~Answers(x)
      BY <1>3, <3>2 DEF BreaksOff, TypeOK
    <3>. QED
      BY <3>1, <3>2
  <2>. QED
    BY <2>1, <2>2, <2>3
<1>. QED
  BY <1>1, <1>2, <1>3 DEF Fails
-----------------------------------------------------------------------------
\* The initial state.
LEMMA InitInv == Init => Inv
<1>. SUFFICES ASSUME Init PROVE Inv
  OBVIOUS
<1>1. /\ history \in Seq(Inputs) /\ Len(history) <= MaxHistory
      /\ played \in 0 .. MaxHistory /\ faults \in 0 .. MaxFaults
  BY ClientAssumption DEF Init
<1>2. up \in BOOLEAN
  BY Zenon DEF Init
<1>3. TypeOK
  BY <1>1, <1>2 DEF Init, TypeOK, Statuses, States
<1>. QED
  BY <1>3 DEF Init, Inv, SecondTrialContinues

\* What each step of a call does to the types.
LEMMA TypeStep == Inv /\ [Next]_vars => TypeOK'
<1>. SUFFICES ASSUME Inv, [Next]_vars PROVE TypeOK'
  OBVIOUS
<1>. USE ClientAssumption DEF Inv, TypeOK, Statuses, States, Failed, local,
                              server, Return, Goto
<1>1. ASSUME NEW x \in Inputs, SendInput(x) PROVE TypeOK'
  BY <1>1 DEF SendInput
<1>2. CASE Connected
  BY <1>2 DEF Connected
<1>3. CASE GiveUp
  BY <1>3 DEF GiveUp
<1>4. CASE StartServer
  <2>1. up' \in BOOLEAN
    BY <1>4, Zenon DEF StartServer, Started, NotStarted
  <2>2. session' = session /\ (up' \/ up' = up)
    BY <1>4 DEF StartServer, Started, NotStarted
  <2>3. trial' \in {1, 2} /\ played' = 0 /\ UNCHANGED <<history, faults>>
    BY <1>4 DEF StartServer
  <2>4. /\ status' \in {"INVALID_SESSION", "FATAL"}
        /\ \/ pc' = "create" /\ pc = "ensure" /\ input' = input
           \/ pc' = "idle" /\ input' = None
    BY <1>4 DEF StartServer, Started, NotStarted
  <2>. QED
    BY <2>1, <2>2, <2>3, <2>4
<1>5. CASE CreateSession
  BY <1>5 DEF CreateSession
<1>6. CASE CreateSessionRefused
  BY <1>6 DEF CreateSessionRefused, Fault
<1>7. CASE CreateSessionFails
  <2>1. up' \in BOOLEAN
    BY <1>7, Zenon DEF CreateSessionFails
  <2>2. /\ session' = None /\ UNCHANGED history
        /\ pc' = "idle" /\ input' = None /\ trial' = 1 /\ played' = 0
        /\ status' \in {"INVALID_SESSION", "FATAL"}
        /\ faults' \in 0 .. MaxFaults
    BY <1>7 DEF CreateSessionFails, Fault
  <2>. QED
    BY <2>1, <2>2
<1>8. CASE PlaybackHistory
  <2>1. ASSUME Goto("call"), UNCHANGED <<status, server, faults>>,
               history' = history \/ history' = << >>
        PROVE  TypeOK'
    <3>1. up' \in BOOLEAN /\ (~up' => session' = None)
      BY <2>1, Zenon
    <3>2. history' \in Seq(Inputs) /\ Len(history') <= MaxHistory
      <4>1. CASE history' = history
        BY <4>1
      <4>2. CASE history' = << >>
        BY <4>2
      <4>. QED
        BY <2>1, <4>1, <4>2
    <3>3. pc = "playback" /\ pc' = "call" /\ input' = input
          /\ UNCHANGED <<trial, played, status, session, faults>>
      BY <1>8, <2>1 DEF PlaybackHistory
    <3>. QED
      BY <3>1, <3>2, <3>3
  <2>2. ASSUME played < Len(history), Replay(history[played + 1]),
               UNCHANGED history
        PROVE  TypeOK'
    <3>. DEFINE x == history[played + 1]
    <3>1. x \in Inputs
      BY <2>2, ReplayedOneMore
    <3>2. CASE Fails(x) /\ Goto("call")
      BY <1>8, <2>2, <3>1, <3>2, FailsType DEF PlaybackHistory
    <3>3. CASE ~ (Fails(x) /\ Goto("call"))
      <4>1. /\ up /\ up' = up
            /\ UNCHANGED <<pc, trial, input, status, faults>>
            /\ played' = played + 1
            /\ session' = IF session = None THEN None
                          ELSE Consume(session, x, FALSE)
        BY <2>2, <3>3 DEF Replay
      <4>2. session' \in Seq(Inputs) \cup {None}
        BY <3>1, <4>1 DEF Consume
      <4>3. up' \in BOOLEAN /\ (~up' => session' = None)
        BY <4>1, Zenon
      <4>4. played' \in 0 .. MaxHistory
        BY <2>2, <4>1
      <4>. QED
        BY <2>2, <4>1, <4>2, <4>3, <4>4
    <3>. QED
      BY <3>2, <3>3
  <2>. QED
    BY <1>8, <2>1, <2>2 DEF PlaybackHistory
<1>9. CASE Answered
  <2>1. input \in Inputs
    BY <1>9 DEF Answered
  <2>. QED
    BY <1>9, <2>1, ConsumeType, PushHistoryType DEF Answered, Answers
<1>10. CASE SessionIsVoid
  BY <1>10 DEF SessionIsVoid
<1>11. CASE FirstTrialFails
  BY <1>11, FailsType DEF FirstTrialFails
<1>12. CASE SecondTrialIsVoid
  BY <1>12 DEF SecondTrialIsVoid
<1>13. CASE SecondTrialFails
  BY <1>13, FailsType DEF SecondTrialFails, DumpQueryOfDeath
<1>14. CASE CallCommandFails
  BY <1>14 DEF CallCommandFails, Fault
<1>15. CASE ServerCrashes
  <2>1. up' \in BOOLEAN
    BY <1>15, Zenon DEF ServerCrashes, Crash
  <2>2. /\ session' = None /\ UNCHANGED <<status, history, local>>
        /\ faults' \in 0 .. MaxFaults
    BY <1>15 DEF ServerCrashes, Fault, Crash
  <2>. QED
    BY <2>1, <2>2
<1>16. CASE ServerRemovesSession
  BY <1>16 DEF ServerRemovesSession, Fault
<1>17. CASE AnotherClientStartsServer
  BY <1>17 DEF AnotherClientStartsServer
<1>18. CASE UNCHANGED vars
  BY <1>18 DEF vars
<1>. QED
  BY <1>1, <1>2, <1>3, <1>4, <1>5, <1>6, <1>7, <1>8, <1>9, <1>10, <1>11,
     <1>12, <1>13, <1>14, <1>15, <1>16, <1>17, <1>18
     DEF Next, EnsureCallCommand

\* What is left of the invariant when the call does not go on.
Rest ==
  /\ trial = 1 \/ pc \in {"ensure", "create"} => played = 0
  /\ pc = "ensure" /\ trial = 2 => status # "OK"
  /\ pc = "playback" => Restoring
  /\ SecondTrialContinues

\* The server or the session may go while the session is brought back.
LEMMA RestSession ==
  ASSUME Inv, UNCHANGED <<status, history, local>>,
         session' = session \/ session' = None
  PROVE  Rest'
BY DEF Inv, Rest, Restoring, SecondTrialContinues, local

\* PlaybackHistory() brings it back input by input.
LEMMA RestPlayback ==
  ASSUME Inv, PlaybackHistory
  PROVE  Rest'
<1>. USE DEF Inv, TypeOK, Rest, Goto, SecondTrialContinues
<1>1. pc = "playback" /\ trial = 2 /\ trial' = 2 /\ status = "OK"
  BY DEF PlaybackHistory, Restoring, Replay
<1>2. CASE Len(history) >= MaxHistory /\ history' = << >> /\ Goto("call")
           /\ UNCHANGED <<status, server, faults>>
  <2>1. session # None => session = << >>
    BY <1>1, <1>2, SubSeqEmpty DEF Restoring
  <2>. QED
    BY <1>1, <1>2, <2>1 DEF server
<1>3. CASE played = Len(history) /\ Goto("call")
           /\ UNCHANGED <<status, history, server, faults>>
  <2>1. session # None => session = history
    BY <1>1, <1>3, SubSeqFull DEF Restoring
  <2>. QED
    BY <1>1, <1>3, <2>1 DEF server
<1>4. ASSUME Len(history) < MaxHistory, played < Len(history),
             Replay(history[played + 1]), UNCHANGED history
      PROVE  Rest'
  <2>. DEFINE x == history[played + 1]
  <2>1. x \in Inputs /\ played \in Nat
    BY <1>4, ReplayedOneMore
  <2>2. CASE Fails(x) /\ Goto("call")
    BY <1>1, <2>1, <2>2, FailsType
  <2>3. CASE ~ (Fails(x) /\ Goto("call"))
    <3>1. /\ UNCHANGED <<pc, trial, status>> /\ played' = played + 1
          /\ session' = IF session = None THEN None
                        ELSE Consume(session, x, FALSE)
      BY <1>4, <2>3 DEF Replay
    <3>2. session' # None => session' = SubSeq(history', 1, played')
      BY <1>1, <1>4, <2>1, <3>1, ReplayedOneMore DEF Restoring
    <3>3. played' <= Len(history') /\ ~ (Len(history') >= MaxHistory)
      BY <1>4, <2>1, <3>1, ClientAssumption
    <3>4. trial' = 2 /\ status' = "OK"
      BY <1>1, <3>1
    <3>5. Restoring'
      BY <3>2, <3>3, <3>4 DEF Restoring
    <3>. QED
      BY <1>1, <3>1, <3>5
  <2>. QED
    BY <2>2, <2>3
<1>. QED
  BY <1>2, <1>3, <1>4 DEF PlaybackHistory

LEMMA RestStep == Inv /\ [Next]_vars => Rest'
<1>. SUFFICES ASSUME Inv, [Next]_vars PROVE Rest'
  OBVIOUS
<1>. USE DEF Inv, TypeOK, Rest, SecondTrialContinues, Return, Goto
<1>1. ASSUME NEW x \in Inputs, SendInput(x) PROVE Rest'
  BY <1>1 DEF SendInput
<1>2. CASE Connected
  BY <1>2 DEF Connected
<1>3. CASE GiveUp
  BY <1>3 DEF GiveUp
<1>4. CASE StartServer
  BY <1>4 DEF StartServer
<1>5. CASE CreateSession
  <2>1. played = 0 /\ SubSeq(history, 1, 0) = << >>
    BY <1>5, SubSeqEmpty DEF CreateSession
  <2>. QED
    BY <1>5, <2>1, EmptySeq DEF CreateSession, Restoring
<1>6. CASE CreateSessionRefused
  BY <1>6 DEF CreateSessionRefused
<1>7. CASE CreateSessionFails
  BY <1>7 DEF CreateSessionFails
<1>8. CASE PlaybackHistory
  BY <1>8, RestPlayback
<1>9. CASE Answered
  BY <1>9 DEF Answered
<1>10. CASE SessionIsVoid
  BY <1>10 DEF SessionIsVoid
<1>11. CASE FirstTrialFails
  BY <1>11, FailsType DEF FirstTrialFails
<1>12. CASE SecondTrialIsVoid
  BY <1>12 DEF SecondTrialIsVoid
<1>13. CASE SecondTrialFails
  BY <1>13 DEF SecondTrialFails
<1>14. CASE CallCommandFails
  BY <1>14 DEF CallCommandFails, local
<1>15. CASE ServerCrashes
  BY <1>15, RestSession DEF ServerCrashes, Crash
<1>16. CASE ServerRemovesSession
  BY <1>16, RestSession DEF ServerRemovesSession
<1>17. CASE AnotherClientStartsServer
  BY <1>17, RestSession DEF AnotherClientStartsServer
<1>18. CASE UNCHANGED vars
  BY <1>18, RestSession DEF vars, server
<1>. QED
  BY <1>1, <1>2, <1>3, <1>4, <1>5, <1>6, <1>7, <1>8, <1>9, <1>10, <1>11,
     <1>12, <1>13, <1>14, <1>15, <1>16, <1>17, <1>18
     DEF Next, EnsureCallCommand
-----------------------------------------------------------------------------
(***************************************************************************)
(* Theorems                                                                *)
(***************************************************************************)

\* Every call keeps the inductive invariant, whatever the server does.
THEOREM Invariance == Spec => []Inv
<1>1. Inv /\ [Next]_vars => Inv'
  BY TypeStep, RestStep DEF Inv, Rest
<1>. QED
  BY <1>1, InitInv, PTL DEF Spec

\* The client's status, history and trial are well typed, and the history
\* never outgrows kMaxPlayBackSize (PushHistory, PlaybackHistory).
THEOREM TypeCorrect == Spec => []TypeOK
<1>1. Inv => TypeOK
  BY DEF Inv
<1>. QED
  BY <1>1, Invariance, PTL

\* The input of a second trial reaches a session brought back to the history
\* (EnsureCallCommand, PlaybackHistory), however often the server crashed.
THEOREM Continues == Spec => []SecondTrialContinues
<1>1. Inv => SecondTrialContinues
  BY DEF Inv
<1>. QED
  BY <1>1, Invariance, PTL

\* An input that kills the server is never in the history (PushHistory,
\* DumpQueryOfDeath), so that no playback sends it again.
THEOREM Forgotten == Spec => []PoisonIsForgotten
<1>1. Init => PoisonIsForgotten
  BY DEF Init, PoisonIsForgotten
<1>2. TypeOK /\ PoisonIsForgotten /\ [Next]_vars => PoisonIsForgotten'
  <2>. SUFFICES ASSUME TypeOK, PoisonIsForgotten, [Next]_vars
                PROVE  PoisonIsForgotten'
    OBVIOUS
  <2>1. CASE Answered
    <3>1. input \in Inputs /\ input \notin Poison
      BY <2>1 DEF Answered, Answers, TypeOK
    <3>2. \/ history' = history \/ history' = << >>
          \/ history' = Append(history, input)
      BY <2>1 DEF Answered, PushHistory
    <3>. QED
      BY <3>1, <3>2 DEF TypeOK, PoisonIsForgotten
  <2>2. CASE history' = history \/ history' = << >>
    BY <2>2 DEF PoisonIsForgotten
  <2>3. Answered \/ history' = history \/ history' = << >>
    BY DEF Next, EnsureCallCommand, SendInput, Connected, GiveUp,
           StartServer, CreateSession, CreateSessionRefused,
           CreateSessionFails, PlaybackHistory, SessionIsVoid,
           FirstTrialFails, SecondTrialIsVoid, SecondTrialFails,
           DumpQueryOfDeath, CallCommandFails, ServerCrashes,
           ServerRemovesSession, AnotherClientStartsServer, vars
  <2>. QED
    BY <2>1, <2>2, <2>3
<1>. QED
  BY <1>1, <1>2, TypeCorrect, PTL DEF Spec
=============================================================================
