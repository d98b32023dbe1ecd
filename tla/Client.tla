------------------------------- MODULE Client -------------------------------
(***************************************************************************)
(* client/client.cc: an application's connection to the server, which      *)
(* starts the server, creates a session, sends inputs to it and, when the  *)
(* server or the session is gone, plays the inputs since the last commit   *)
(* back into a new session and tries again.                                *)
(*                                                                         *)
(* One call of EnsureCallCommand() is several messages; each message is a  *)
(* step, and the server may crash, be started by another application or    *)
(* remove the session between any two.  The state of a session is the      *)
(* inputs it has consumed since the last commit.                           *)
(***************************************************************************)
EXTENDS Naturals, Sequences, FiniteSets

CONSTANTS
  Keys,        \* inputs of SEND_KEY
  Commands,    \* inputs of SEND_COMMAND and TEST_SEND_KEY
  Poison,      \* the keys that crash the server, whatever its state
  None,
  MaxHistory,  \* kMaxPlayBackSize
  MaxFaults    \* bound of the faults between two answered inputs

Inputs == Keys \cup Commands

ASSUME ClientAssumption ==
  /\ Poison \subseteq Keys
  /\ None \notin Inputs \cup Seq(Inputs)
  /\ MaxHistory \in Nat \ {0}
  /\ MaxFaults \in Nat

VARIABLES
  status,   \* server_status_
  history,  \* history_inputs_
  pc,       \* where EnsureCallCommand() is
  trial,    \* the first trial or the second
  input,    \* its argument
  played,   \* how many inputs PlaybackHistory() has sent
  up,       \* whether a server answers
  session,  \* the state of the session with the client's id, if there is one
  faults    \* how many faults there were since an input was answered

local == <<pc, trial, input, played>>
server == <<up, session>>
vars == <<status, history, local, server, faults>>

\* Versions are taken to agree: there is no SERVER_VERSION_MISMATCH.
Failed == {"TIMEOUT", "BROKEN_MESSAGE", "FATAL"}  \* >= SERVER_TIMEOUT
Statuses == {"UNKNOWN", "SHUTDOWN", "INVALID_SESSION", "OK"} \cup Failed

States == {"idle", "ensure", "create", "playback", "call"}

Init ==
  /\ status = "UNKNOWN"
  /\ history = << >>
  /\ pc = "idle" /\ trial = 1 /\ input = None /\ played = 0
  /\ up = FALSE /\ session = None
  /\ faults = 0

Return == pc' = "idle" /\ trial' = 1 /\ input' = None /\ played' = 0

Goto(place) == pc' = place /\ UNCHANGED <<trial, input, played>>

Fault == faults < MaxFaults /\ faults' = faults + 1

Crash == up' = FALSE /\ session' = None
-----------------------------------------------------------------------------
(***************************************************************************)
(* A message to the server and what the caller gets.                       *)
(***************************************************************************)

\* The session consumes an input; a SEND_KEY with a result ends the text.
Consume(s, x, result) == IF x \in Keys /\ result THEN << >> ELSE Append(s, x)

\* A session that knows its id answers; it need not consume the input.
Answers(x) == up /\ session # None /\ x \notin Poison

(***************************************************************************)
(* Call() fails: nobody is connected, the server crashes over the input    *)
(* or in the middle of it, the connection breaks or times out with the     *)
(* input executed or not, or the reply cannot be parsed.                   *)
(***************************************************************************)
NotConnected ==
  /\ ~up
  /\ status' = "SHUTDOWN"
  /\ UNCHANGED <<server, faults>>

CrashesServer(x) ==
  /\ up /\ session # None /\ x \in Poison
  /\ Crash
  /\ status' = "SHUTDOWN"
  /\ UNCHANGED faults

BreaksOff(x) ==
  /\ up
  /\ Fault
  /\ status' \in {"SHUTDOWN", "TIMEOUT", "BROKEN_MESSAGE"}
  /\ up' = up
  /\ session' \in IF Answers(x) THEN {session, Consume(session, x, FALSE),
                                      Consume(session, x, TRUE)}
                  ELSE {session}

Fails(x) == NotConnected \/ CrashesServer(x) \/ BreaksOff(x)
-----------------------------------------------------------------------------
(***************************************************************************)
(* EnsureCallCommand()                                                     *)
(***************************************************************************)
SendInput(x) ==
  /\ pc = "idle"
  /\ session # None /\ status = "OK"
       => Len(session) <= MaxHistory  \* bound
  /\ pc' = "ensure" /\ trial' = 1 /\ input' = x /\ played' = 0
  /\ UNCHANGED <<status, history, server, faults>>

\* EnsureConnection() with a server that works, or one that cannot be had.
Connected ==
  /\ pc = "ensure"
  /\ \/ status = "OK" /\ Goto("call")
     \/ status = "INVALID_SESSION" /\ Goto("create")
  /\ UNCHANGED <<status, history, server, faults>>

GiveUp ==
  /\ pc = "ensure"
  /\ status \in Failed
  /\ status' = "FATAL"
  /\ Return
  /\ UNCHANGED <<history, server, faults>>

\* ServerLauncher::StartServer() pings the server and starts it if need be.
Started ==
  /\ up' = TRUE
  /\ session' = session
  /\ status' = "INVALID_SESSION"

NotStarted == status' = "FATAL" /\ UNCHANGED server

StartServer ==
  /\ pc = "ensure"
  /\ status \in {"SHUTDOWN", "UNKNOWN"}
  /\ \/ Started /\ Goto("create")
     \/ NotStarted /\ Return
  /\ UNCHANGED <<history, faults>>

(***************************************************************************)
(* CreateSession() and the SET_REQUEST after it, whose outcome is ignored. *)
(***************************************************************************)
CreateSession ==
  /\ pc = "create"
  /\ up
  /\ session' = << >>
  /\ status' = "OK"
  /\ Goto(IF trial = 1 THEN "call" ELSE "playback")
  /\ UNCHANGED <<history, up, faults>>

\* The server refuses, or creates a session nobody knows of.
CreateSessionRefused ==
  /\ pc = "create"
  /\ up
  /\ Fault
  /\ session' = None  \* id_ is 0
  /\ status' \in {"INVALID_SESSION", "FATAL"}  \* FATAL by a time-out
  /\ Return
  /\ UNCHANGED <<history, up>>

\* EnsureConnection() "to display error message" starts the server again.
CreateSessionFails ==
  /\ pc = "create"
  /\ \/ ~up /\ UNCHANGED faults
     \/ up /\ Fault
  /\ session' = None
  /\ \/ up' = TRUE /\ status' = "INVALID_SESSION"
     \/ up' = up /\ status' = "FATAL"
  /\ Return
  /\ UNCHANGED history

(***************************************************************************)
(* PlaybackHistory(): stops at the first input that is not answered.  A    *)
(* session that was removed meanwhile answers, and does nothing.           *)
(***************************************************************************)
PlaybackHistory_Skipped ==
  /\ pc = "playback"
  /\ Goto("call")
  /\ UNCHANGED <<status, history, server, faults>>

Replay(x) ==
  \/ /\ up
     /\ session = None \/ Answers(x)
     /\ session' = IF session = None THEN None
                   ELSE Consume(session, x, FALSE)
     /\ played' = played + 1
     /\ UNCHANGED <<pc, trial, input, status, up, faults>>
  \/ Fails(x) /\ Goto("call")

PlaybackHistory ==
  /\ pc = "playback"
  /\ \/ /\ Len(history) >= MaxHistory
        /\ history' = << >>
        /\ Goto("call")
        /\ UNCHANGED <<status, server, faults>>
     \/ /\ Len(history) < MaxHistory /\ played = Len(history)
        /\ Goto("call")
        /\ UNCHANGED <<status, history, server, faults>>
     \/ /\ Len(history) < MaxHistory /\ played < Len(history)
        /\ Replay(history[played + 1])
        /\ UNCHANGED history

PushHistory_Unbounded(h, x, result) == Consume(h, x, result)

\* PushHistory() of a consumed input.
PushHistory(h, x, result) ==
  IF x \in Keys /\ result THEN << >>
  ELSE IF Len(h) < MaxHistory THEN Append(h, x) ELSE h

\* Either trial, answered by the session.
Answered ==
  /\ pc = "call"
  /\ status \notin Failed
  /\ Answers(input)
  /\ \/ \E result \in BOOLEAN :
          /\ session' = Consume(session, input, result)
          /\ history' = PushHistory(history, input, result)
     \/ UNCHANGED <<session, history>>  \* it is not consumed
  /\ faults' = 0
  /\ Return
  /\ UNCHANGED <<status, up>>

\* The first trial is answered with another id.
SessionIsVoid ==
  /\ pc = "call" /\ trial = 1
  /\ up /\ session = None
  /\ status' = "INVALID_SESSION"
  /\ pc' = "ensure" /\ trial' = 2
  /\ UNCHANGED <<history, input, played, server, faults>>

FirstTrialFails_Retries ==
  /\ pc = "call" /\ trial = 1
  /\ Fails(input)
  /\ IF status' \in Failed THEN Return
     ELSE Goto("ensure")
  /\ UNCHANGED history

FirstTrialFails ==
  /\ pc = "call" /\ trial = 1
  /\ Fails(input)
  /\ IF status' \in Failed THEN Return
     ELSE pc' = "ensure" /\ trial' = 2 /\ UNCHANGED <<input, played>>
  /\ UNCHANGED history

\* Nobody looks at the id in the answer to the second.
SecondTrialIsVoid ==
  /\ pc = "call" /\ trial = 2
  /\ status \notin Failed
  /\ up /\ session = None
  /\ Return
  /\ UNCHANGED <<status, history, server, faults>>

DumpQueryOfDeath_KeepsHistory == history' = Append(history, input)

\* The input is recorded, the history dumped and reset.
DumpQueryOfDeath == history' = << >>

SecondTrialFails ==
  /\ pc = "call" /\ trial = 2
  /\ \/ status \in Failed /\ UNCHANGED <<status, server, faults>>
     \/ status \notin Failed /\ Fails(input)
  /\ DumpQueryOfDeath
  /\ Return

EnsureCallCommand ==
  \/ Connected
  \/ GiveUp
  \/ StartServer
  \/ CreateSession
  \/ CreateSessionRefused
  \/ CreateSessionFails
  \/ PlaybackHistory
  \/ Answered
  \/ SessionIsVoid
  \/ FirstTrialFails
  \/ SecondTrialIsVoid
  \/ SecondTrialFails
-----------------------------------------------------------------------------
(***************************************************************************)
(* CallCommand(), as for SyncData() or GetConfig(): no session is ensured. *)
(***************************************************************************)
CallCommandFails ==
  /\ pc = "idle"
  /\ status \notin Failed
  /\ \/ /\ ~up
        /\ status' = IF status = "UNKNOWN" THEN status ELSE "SHUTDOWN"
        /\ UNCHANGED faults
     \/ /\ up /\ Fault
        /\ status' \in {"SHUTDOWN", "TIMEOUT", "BROKEN_MESSAGE"}
  /\ UNCHANGED <<history, local, server>>

ServerCrashes ==
  /\ up
  /\ Fault
  /\ Crash
  /\ UNCHANGED <<status, history, local>>

\* The least recently used session makes room, or is cleaned up.
ServerRemovesSession ==
  /\ session # None
  /\ Fault
  /\ session' = None
  /\ UNCHANGED <<status, history, local, up>>

AnotherClientStartsServer ==
  /\ ~up
  /\ up' = TRUE
  /\ UNCHANGED <<status, history, local, session, faults>>

Next ==
  \/ \E x \in Inputs : SendInput(x)
  \/ EnsureCallCommand
  \/ CallCommandFails
  \/ ServerCrashes
  \/ ServerRemovesSession
  \/ AnotherClientStartsServer

(***************************************************************************)
(* Call() has a time-out and the launcher gives up, so a call goes on.     *)
(***************************************************************************)
Spec == Init /\ [][Next]_vars /\ WF_vars(EnsureCallCommand)
-----------------------------------------------------------------------------
(***************************************************************************)
(* Properties                                                              *)
(***************************************************************************)

TypeOK ==
  /\ status \in Statuses
  /\ history \in Seq(Inputs) /\ Len(history) <= MaxHistory
  /\ pc \in States /\ trial \in {1, 2} /\ played \in 0 .. MaxHistory
  /\ input \in Inputs \cup {None}
  /\ pc = "idle" <=> input = None
  /\ up \in BOOLEAN
  /\ session \in Seq(Inputs) \cup {None}
  /\ ~up => session = None
  /\ faults \in 0 .. MaxFaults

\* The history holds everything since the last commit.
Complete == Len(history) < MaxHistory

(***************************************************************************)
(* PushHistory() and PlaybackHistory() are "Making a journal inputs to     *)
(* restore the current state even when mozc_server crashes": while the     *)
(* client takes its session for a good one, and there is one, it is in the *)
(* state the inputs in the history lead to, so that the next input         *)
(* continues the text that was typed.                                      *)
(***************************************************************************)
SessionFollowsHistory ==
  pc = "idle" /\ status = "OK" /\ session # None /\ Complete
    => session = history

(***************************************************************************)
(* The input of the second trial reaches a session brought back to the     *)
(* history, although the server may have been restarted by anyone, and     *)
(* the session removed, meanwhile (EnsureCallCommand, PlaybackHistory).    *)
(***************************************************************************)
SecondTrialContinues ==
  pc = "call" /\ trial = 2 /\ status = "OK" /\ session # None
    => session = history

(***************************************************************************)
(* An input over which the server crashed twice is not played back to the  *)
(* next server ("The playback history looks like a query of death").       *)
(***************************************************************************)
PoisonIsForgotten ==
  \A i \in DOMAIN history : history[i] \notin Poison

(***************************************************************************)
(* A call of EnsureCallCommand() comes back to the application, whatever   *)
(* the input does to the server: it does not restart it for ever.          *)
(***************************************************************************)
CallReturns == pc # "idle" ~> pc = "idle"
=============================================================================
