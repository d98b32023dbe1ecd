----------------------------- MODULE ZenzMailbox -----------------------------
(***************************************************************************)
(* What ZenzLiveCorrector promises to the Session that owns it: a mailbox   *)
(* for at most one question.  Asking replaces the previous question and     *)
(* forgets its answer, an answer is always the answer to the question that  *)
(* is open now, it is never lost while the question stays open, and it is   *)
(* handed over once.  No thread, no lock and no transport appears here;     *)
(* ZenzLiveCorrector.tla is shown to implement this specification.          *)
(***************************************************************************)
EXTENDS Naturals

CONSTANT MaxGeneration     \* bound on the generations a session hands out

VARIABLES
  generation,   \* the newest generation handed out (uint32_t in the code)
  asked,        \* generation of the open question, 0 when there is none
  answer,       \* the answer waiting to be taken, NoResult when there is none
  delivered     \* the last answer handed to the owner

mailboxVars == <<generation, asked, answer, delivered>>

Generations == 1..MaxGeneration

Result == [generation : Generations, ok : BOOLEAN]

NoResult == [generation |-> 0, ok |-> FALSE]

MailboxInit ==
  /\ generation = 0
  /\ asked = 0
  /\ answer = NoResult
  /\ delivered = NoResult

\* A new question takes a generation nobody has used.
Ask ==
  /\ generation < MaxGeneration
  /\ generation' = generation + 1
  /\ asked' = generation + 1
  /\ answer' = NoResult
  /\ UNCHANGED delivered

\* Giving up a question also burns a generation, so that a late answer to it
\* can never be taken for the answer to a later one.
Withdraw ==
  /\ generation < MaxGeneration
  /\ generation' = generation + 1
  /\ asked' = 0
  /\ answer' = NoResult
  /\ UNCHANGED delivered

\* The owner goes away.
Close ==
  /\ asked' = 0
  /\ answer' = NoResult
  /\ UNCHANGED <<generation, delivered>>

Answer ==
  /\ asked # 0
  /\ answer = NoResult
  /\ \E b \in BOOLEAN : answer' = [generation |-> asked, ok |-> b]
  /\ UNCHANGED <<generation, asked, delivered>>

Deliver ==
  /\ answer # NoResult
  /\ delivered' = answer
  /\ answer' = NoResult
  /\ asked' = 0
  /\ UNCHANGED generation

MailboxNext == Ask \/ Withdraw \/ Close \/ Answer \/ Deliver

MailboxSpec == MailboxInit /\ [][MailboxNext]_mailboxVars

=============================================================================
