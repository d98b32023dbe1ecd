---------------------------- MODULE ZenzFeedback ----------------------------
(* What a Session (session/session.cc) learns from a Zenz correction the    *)
(* user accepts, rejects or takes back.  The text of an accepted correction *)
(* is in the application before anything is certain: the acceptance is      *)
(* appended to the feedback file and to the history of Mozc at once, and a  *)
(* rollback window stays open until the next ordinary action.  A correction *)
(* the user moved away from is compared with what is committed later.       *)
(*                                                                          *)
(* The conversion itself is in LiveConversion.  Here a composition is its   *)
(* reading, the text it would be committed as, whether the live conversion  *)
(* is on, and the correction on the screen, if any.                         *)
EXTENDS ZenzFeedbackStore, FiniteSets

CONSTANTS
  Readings,    \* readings that may be typed
  Values,      \* texts a reading may be converted to
  None,        \* no reading, no text
  Suffixed,    \* a committed text that ends with a punctuation mark
  Recording,   \* the values use_zenz_feedback_recording may have
  Learning,    \* the values use_zenz_mozc_history_learning may have
  Earlier,     \* the feedback files a session may find
  MaxCommits   \* bound on the commits of a behaviour

ASSUME FeedbackAssumption ==
  /\ None \notin Readings \cup Values
  /\ Suffixed \notin Readings \cup Values /\ Suffixed # None
  /\ Recording \subseteq BOOLEAN /\ Learning \subseteq BOOLEAN
  /\ MaxCommits \in Nat

VARIABLES
  state,      \* of the ImeContext
  reading,    \* of the composition, None when there is none
  shown,      \* what an ordinary commit commits: the reading, or Mozc's
  live,       \* live_conversion_active_
  visible,    \* zenz_live_value_: the correction on the screen
  recording, learning,   \* the two options, fixed by the configuration
  incognito,  \* no persistent personalization at the moment
  undos,      \* undo_contexts_: the commits that can be taken back
  learn,      \* what the session is about to learn, and where it learns it
  commits,    \* what was committed, in order
  log         \* every record the session wrote: <<record, commit>>

vars == <<state, reading, shown, live, visible, recording, learning, incognito,
          undos, learn, commits, log>>

States == {"DIRECT", "PRECOMPOSITION", "COMPOSITION", "CONVERSION"}

\* learn.feedback is pending_zenz_feedback_; learn.direct the commit of
\* pending_direct_commit_learning_; learn.slot the one reversible external
\* learning the converter of the context owns; learn.history what the history
\* of Mozc knows of each commit; learn.file the feedback file.  A handle is
\* the number of the commit it reverts, and 0 is none.
NoFeedback ==
  [action |-> "none", key |-> None, value |-> None, reason |-> "",
   finalKey |-> None, finalValue |-> None, needsKey |-> FALSE,
   written |-> FALSE, requested |-> FALSE, applied |-> FALSE,
   handle |-> 0, commit |-> 0]

CommitIds == 1..MaxCommits

Init ==
  /\ state = "PRECOMPOSITION" /\ reading = None
  /\ shown = None /\ live = FALSE /\ visible = None
  /\ recording \in Recording /\ learning \in Learning
  /\ incognito = FALSE /\ undos = <<>>
  /\ learn \in [feedback : {NoFeedback}, direct : {0}, slot : {0},
                history : {[n \in CommitIds |-> "unlearned"]},
                file : Earlier]
  /\ commits = <<>> /\ log = <<>>

\* Mutant: only the option is asked.
CanRecordZenzFeedback_Option == recording

CanRecordZenzFeedback == recording /\ ~incognito
CanLearnZenzToMozcHistory == learning /\ ~incognito

\* The class of the left context is that of an empty document.
Class == "empty"

(***************************************************************************)
(* The pending feedback.  An operator takes what is learned so far to what *)
(* is learned afterwards; ok says whether the write or the learning the    *)
(* operator attempts succeeds.                                             *)
(***************************************************************************)
NextCommit == Len(commits) + 1

SetAccepted(l, ok) ==
  LET written == CanRecordZenzFeedback /\ ok
  IN  IF ~CanRecordZenzFeedback /\ ~CanLearnZenzToMozcHistory THEN l
      ELSE [l EXCEPT
        !.feedback = [NoFeedback EXCEPT
           !.action = "accepted", !.key = reading, !.value = visible,
           !.written = written, !.requested = CanLearnZenzToMozcHistory,
           !.commit = NextCommit],
        !.file = AppendRecord(@,
           Record("accepted", reading, Class, visible, ""), written)]

\* The converter keeps one reversible learning, and may refuse one.
ApplyHistory(l, ok) ==
  LET f == l.feedback
      learns == CanLearnZenzToMozcHistory /\ l.slot = 0 /\ ok
  IN  IF f.action # "accepted" \/ ~f.requested \/ f.applied THEN l
      ELSE IF ~learns THEN [l EXCEPT !.feedback.applied = TRUE]
      ELSE [l EXCEPT !.feedback.applied = TRUE,
                     !.feedback.handle = f.commit,
                     !.slot = f.commit,
                     !.history[f.commit] = "learned"]

SetComparison(l, value, reason, needsKey) ==
  IF ~CanRecordZenzFeedback THEN l
  ELSE [l EXCEPT !.feedback = [NoFeedback EXCEPT
          !.action = "compare", !.key = reading, !.value = value,
          !.reason = reason, !.needsKey = needsKey]]

SetRejected(l, reason) ==
  IF visible = None THEN l ELSE SetComparison(l, visible, reason, FALSE)

Observe(l, key, value, n) ==
  IF l.feedback.action # "compare" \/ l.feedback.finalValue # None THEN l
  ELSE [l EXCEPT !.feedback.finalKey = key, !.feedback.finalValue = value,
                 !.feedback.commit = n]

\* Mutant: the reading is not compared.
Neutral_AnyKey(f) == f.finalValue = None

Neutral(f) ==
  f.finalValue = None \/ (f.needsKey /\ f.finalKey # f.key)

\* What a comparison comes to when it is confirmed.
ComparisonRecord(f) ==
  IF f.finalValue = f.value
  THEN Record("accepted", f.key, Class, f.value, "")
  ELSE Record("rejected", f.key, Class, f.value, f.reason)

WritesComparison(f) ==
  f.action = "compare" /\ CanRecordZenzFeedback /\ ~Neutral(f)

Released(l) ==
  [l EXCEPT !.feedback = NoFeedback,
            !.slot = IF @ = l.feedback.handle THEN 0 ELSE @]

\* Mutant: what was confirmed stays pending.
ConfirmFeedback_Again(l, ok) ==
  [l EXCEPT !.file = AppendRecord(@, ComparisonRecord(l.feedback),
                                  WritesComparison(l.feedback) /\ ok)]

ConfirmFeedback(l, ok) ==
  LET f == l.feedback
  IN  [Released(l) EXCEPT
        !.file = AppendRecord(@, ComparisonRecord(f),
                              WritesComparison(f) /\ ok)]

RevertsHandle(l) ==
  l.feedback.action = "accepted" /\ l.feedback.handle # 0
  /\ l.slot = l.feedback.handle

\* Mutant: an acceptance that was not written is taken back too.
WritesRollback_Always(f) == f.action = "accepted" /\ ~incognito

WritesRollback(f) == f.action = "accepted" /\ f.written /\ ~incognito

RollbackRecord(f) == Record("accepted_rollback", f.key, Class, f.value, "")

DiscardFeedback(l, ok) ==
  LET f == l.feedback
      kept == [l EXCEPT !.feedback = NoFeedback]
      settled == IF f.action = "accepted" THEN Released(l) ELSE kept
  IN  [settled EXCEPT
        !.file = AppendRecord(@, RollbackRecord(f), WritesRollback(f) /\ ok),
        !.history = IF RevertsHandle(l)
                    THEN [@ EXCEPT ![f.handle] = "reverted"] ELSE @]

(***************************************************************************)
(* The learning of a conversion that a punctuation mark committed.         *)
(***************************************************************************)
ConfirmDirect(l) == [l EXCEPT !.direct = 0]

RevertCommit(l, n) ==
  IF n = 0 \/ l.history[n] # "learned" THEN l
  ELSE [l EXCEPT !.history[n] = "reverted"]

DiscardDirect(l) == [RevertCommit(l, l.direct) EXCEPT !.direct = 0]

DiscardBoth(l, ok) == DiscardFeedback(DiscardDirect(l), ok)
ConfirmBoth(l, ok) == ConfirmFeedback(ConfirmDirect(l), ok)

\* An ordinary commit: the converter learns it unless it is private.
LearnCommit(l, n) ==
  IF incognito THEN l ELSE [l EXCEPT !.history[n] = "learned"]

(***************************************************************************)
(* The log of what the session wrote, told from the pending feedback.      *)
(***************************************************************************)
LogAccepted(ok) ==
  IF CanRecordZenzFeedback /\ ok
  THEN Append(log, <<Record("accepted", reading, Class, visible, ""),
                     NextCommit>>)
  ELSE log

LogConfirm(l, ok) ==
  IF WritesComparison(l.feedback) /\ ok
  THEN Append(log, <<ComparisonRecord(l.feedback), l.feedback.commit>>)
  ELSE log

LogDiscard(l, ok) ==
  IF WritesRollback(l.feedback) /\ ok
  THEN Append(log, <<RollbackRecord(l.feedback), l.feedback.commit>>)
  ELSE log

(***************************************************************************)
(* Commits and compositions.                                               *)
(***************************************************************************)
\* The bound: nothing is converted that could not be committed any more.
MayCommit == Len(commits) < MaxCommits

Committed(value, kind) ==
  commits' = Append(commits, [key |-> reading, value |-> value,
                              kind |-> kind])

\* PushUndoContext: what is composed now comes back when it is undone.
UndoEntry == [commit |-> NextCommit, state |-> state, key |-> reading,
              shown |-> shown]

PushUndo == undos' = Append(undos, UndoEntry)

Composing == state \in {"COMPOSITION", "CONVERSION"}

\* Mutant: the reading is left behind.
LeaveFor_KeepsReading(next) ==
  /\ state' = next /\ shown' = None /\ live' = FALSE /\ visible' = None
  /\ UNCHANGED reading

LeaveFor(next) ==
  /\ state' = next /\ reading' = None /\ shown' = None
  /\ live' = FALSE /\ visible' = None

LeaveComposition == LeaveFor("PRECOMPOSITION")

Compose(key) ==
  /\ state' = "COMPOSITION" /\ reading' = key /\ shown' = key
  /\ live' = FALSE /\ visible' = None

Converted(key, value, isLive) ==
  /\ state' = "CONVERSION" /\ reading' = key /\ shown' = value
  /\ live' = isLive /\ visible' = None

SameComposition == UNCHANGED <<state, reading, shown, live, visible>>

SameOptions == UNCHANGED <<recording, learning, incognito>>

\* CommitZenzLiveCorrectionResult: accepted, committed, learned.  The mark of
\* a punctuation key is committed with it, and is not part of what is learned.
AcceptVisible(l, suffix, ok) ==
  /\ MayCommit
  /\ LET accepted == SetAccepted(l, ok)
         emitted == IF suffix THEN <<Suffixed, Suffixed>>
                    ELSE <<reading, visible>>
     IN  learn' = ApplyHistory(
                    Observe(accepted, emitted[1], emitted[2], NextCommit), ok)
  /\ log' = LogAccepted(ok)
  /\ Committed(visible, IF suffix THEN "marked" ELSE "zenz")

\* CommitInternal, then Output() observes what was committed.
OrdinaryCommit(l) == Observe(LearnCommit(l, NextCommit), reading, shown,
                             NextCommit)

(***************************************************************************)
(* The conversion, as far as the feedback can tell.                        *)
(***************************************************************************)

\* The delayed live conversion fires, or Space converts.
Convert(value, isLive) ==
  /\ state = "COMPOSITION" /\ MayCommit
  /\ Converted(reading, value, isLive)
  /\ UNCHANGED <<undos, learn, commits, log>> /\ SameOptions

\* An answer of Zenz is shown, or only compared because it is blocked.
ZenzAnswers(value, blocked) ==
  /\ state = "CONVERSION" /\ live /\ visible = None /\ value # shown
  /\ blocked => ~incognito
  /\ visible' = IF blocked THEN None ELSE value
  /\ learn' = IF blocked
              THEN SetComparison(learn, value, "auto_block_shadow_compare",
                                 TRUE)
              ELSE learn
  /\ UNCHANGED <<state, reading, shown, live, undos, commits, log>>
  /\ SameOptions

\* FORCE_ZENZ: an ordinary conversion turns into a live one.  With bypass a
\* conversion is made again in a copy of the context.  A copy owns no
\* rollback handle, so the handles move to it.
ForceZenz(value, bypass) ==
  /\ \/ state = "COMPOSITION"
     \/ state = "CONVERSION" /\ (bypass \/ value = shown)
  /\ MayCommit
  /\ Converted(reading, value, TRUE)
  /\ UNCHANGED <<undos, learn, commits, log>> /\ SameOptions

\* An explicit command of the conversion promotes a live one.
ExplicitConversion(value) ==
  /\ state = "CONVERSION"
  /\ learn' = IF live
              THEN SetRejected(learn, "explicit_conversion_after_zenz")
              ELSE learn
  /\ Converted(reading, value, FALSE)
  /\ UNCHANGED <<undos, commits, log>> /\ SameOptions

\* Space peels the correction off and keeps the live conversion below it.
SpaceRevertsZenz ==
  /\ state = "CONVERSION" /\ visible # None
  /\ learn' = SetRejected(learn, "space_revert_zenz_to_mozc")
  /\ visible' = None
  /\ UNCHANGED <<state, reading, shown, live, undos, commits, log>>
  /\ SameOptions

\* A passive suggestion is picked: the context it was computed in, which
\* owns no rollback handle, replaces that of the session.
SelectSuggestion(value) ==
  /\ state = "CONVERSION" /\ live
  /\ learn' = [SetRejected(learn, "candidate_selection_after_zenz")
                 EXCEPT !.slot = 0]
  /\ Converted(reading, value, FALSE)
  /\ UNCHANGED <<undos, commits, log>> /\ SameOptions

\* Cancel.  A correction that was on the screen is compared with the final
\* commit, provided its reading is committed.
CancelConversion(ok) ==
  /\ state = "CONVERSION"
  /\ learn' = LET discarded == DiscardBoth(learn, ok)
              IN  IF visible = None THEN discarded
                  ELSE SetComparison(discarded, visible,
                         "cancel_visible_zenz_to_composition", TRUE)
  /\ log' = LogDiscard(learn, ok)
  /\ Compose(reading)
  /\ UNCHANGED <<undos, commits>> /\ SameOptions

\* Backspace and Delete in a composition or a live conversion: back to a
\* shorter reading, or to nothing.
EraseCharacter(key, ok) ==
  /\ state = "COMPOSITION" \/ live
  /\ learn' = DiscardBoth(learn, ok) /\ log' = LogDiscard(learn, ok)
  /\ IF key = None THEN LeaveComposition
     ELSE key # reading /\ Compose(key)
  /\ undos' = <<>>
  /\ UNCHANGED commits /\ SameOptions

\* EditCancel, and REVERT while composing.
CancelComposition(ok) ==
  /\ Composing
  /\ learn' = DiscardBoth(learn, ok) /\ log' = LogDiscard(learn, ok)
  /\ LeaveComposition
  /\ UNCHANGED <<undos, commits>> /\ SameOptions

(***************************************************************************)
(* Typing.                                                                 *)
(***************************************************************************)

\* InsertCharacter outside an ordinary conversion.  In a conversion the
\* pending feedback is not settled.
TypeCharacter(key, ok) ==
  /\ state \in {"PRECOMPOSITION", "COMPOSITION"} \/ live
  /\ key # reading
  /\ IF state = "CONVERSION"
     THEN learn' = ConfirmDirect(learn) /\ log' = log
     ELSE learn' = ConfirmBoth(learn, ok) /\ log' = LogConfirm(learn, ok)
  /\ Compose(key)
  /\ undos' = <<>>
  /\ UNCHANGED commits /\ SameOptions

\* InsertCharacter in an ordinary conversion, which it commits first.
TypeAfterConversion(key, ok) ==
  /\ state = "CONVERSION" /\ ~live /\ MayCommit
  /\ LET l == OrdinaryCommit(ConfirmDirect(learn))
     IN  learn' = ConfirmFeedback(l, ok) /\ log' = LogConfirm(l, ok)
  /\ Committed(shown, "normal")
  /\ Compose(key)
  /\ undos' = <<>>
  /\ SameOptions

\* Shift and a letter over a live conversion: the conversion is committed by
\* the key that starts the next composition.
TypeShiftAscii(key, ok) ==
  /\ state = "CONVERSION" /\ live
  /\ \/ visible # None /\ AcceptVisible(ConfirmDirect(learn), FALSE, ok)
     \/ /\ visible = None /\ MayCommit
        /\ learn' = Observe(ConfirmDirect(learn), reading, shown, NextCommit)
        /\ Committed(shown, "direct")
        /\ UNCHANGED log
  /\ Compose(key)
  /\ undos' = <<>>
  /\ SameOptions

(***************************************************************************)
(* A punctuation mark that commits what it ends.                           *)
(***************************************************************************)

\* The reading restored by Cancel is the final choice, without the mark.
DefersComparison(f) ==
  f.action = "compare" /\ f.needsKey /\ f.finalValue = None /\ f.key = reading

PunctuateComposition(ok) ==
  /\ state = "COMPOSITION" /\ MayCommit
  /\ LET l == ConfirmDirect(learn)
     IN  IF DefersComparison(l.feedback)
         THEN learn' = Observe(l, reading, shown, NextCommit) /\ log' = log
         ELSE learn' = ConfirmFeedback(l, ok) /\ log' = LogConfirm(l, ok)
  /\ Committed(shown, "direct")
  /\ LeaveComposition
  /\ undos' = <<>>
  /\ SameOptions

\* An ordinary conversion is committed, its learning may still be undone.
PunctuateConversion(ok) ==
  /\ state = "CONVERSION" /\ ~live /\ MayCommit
  /\ LET old == ConfirmDirect(learn)
         l == OrdinaryCommit(old)
         defers == old.feedback.action = "compare"
                   /\ old.feedback.finalValue = None
         settled == IF defers THEN l ELSE ConfirmFeedback(l, ok)
     IN  /\ learn' = [settled EXCEPT !.direct = NextCommit]
         /\ log' = IF defers THEN log ELSE LogConfirm(l, ok)
  /\ Committed(shown, "normal")
  /\ LeaveComposition
  /\ undos' = <<>>
  /\ SameOptions

\* A live conversion is committed together with the mark.
PunctuateLive(ok) ==
  /\ state = "CONVERSION" /\ live
  /\ \/ visible # None /\ AcceptVisible(ConfirmDirect(learn), TRUE, ok)
     \/ /\ visible = None /\ MayCommit
        /\ learn' = Observe(ConfirmDirect(learn), Suffixed, Suffixed,
                            NextCommit)
        /\ Committed(shown, "marked")
        /\ UNCHANGED log
  /\ LeaveComposition
  /\ undos' = <<>>
  /\ SameOptions

(***************************************************************************)
(* Enter, and what undoes it.                                              *)
(***************************************************************************)

\* Commit: the correction on the screen, or else CommitInternal.
Enter(ok) ==
  /\ Composing
  /\ \/ visible # None /\ AcceptVisible(learn, FALSE, ok) /\ UNCHANGED undos
     \/ /\ visible = None /\ MayCommit
        /\ learn' = OrdinaryCommit(learn)
        /\ Committed(shown, "normal") /\ PushUndo
        /\ UNCHANGED log
  /\ LeaveComposition
  /\ SameOptions

\* CommitSegment: the first segment goes, the rest stays converted.  Output()
\* observes nothing, as the session is still in a conversion.
CommitSegment(rest, value) ==
  /\ state = "CONVERSION" /\ ~live /\ MayCommit /\ rest # reading
  /\ learn' = LearnCommit(learn, NextCommit)
  /\ Committed(value, "segment") /\ PushUndo
  /\ Converted(rest, value, FALSE)
  /\ UNCHANGED log /\ SameOptions

\* A key nothing is bound to in an empty session passes to the application.
PassKey(ok) ==
  /\ state = "PRECOMPOSITION"
  /\ learn' = ConfirmFeedback(learn, ok) /\ log' = LogConfirm(learn, ok)
  /\ undos' = <<>>
  /\ SameComposition /\ UNCHANGED commits /\ SameOptions

\* Backspace and Escape pass too, but take back what is pending.
RollbackKey(ok) ==
  /\ state = "PRECOMPOSITION"
  /\ learn' = DiscardBoth(learn, ok) /\ log' = LogDiscard(learn, ok)
  /\ undos' = <<>>
  /\ SameComposition /\ UNCHANGED commits /\ SameOptions

\* The learning of the last commit of the converter is taken back.
UndoneLearning(l) ==
  IF undos = <<>> THEN l ELSE RevertCommit(l, Last(undos).commit)

\* Ctrl+Z in an empty session: Revert.
CancelKey(ok) ==
  /\ state = "PRECOMPOSITION"
  /\ learn' = UndoneLearning(DiscardBoth(learn, ok))
  /\ log' = LogDiscard(learn, ok)
  /\ undos' = <<>>
  /\ SameComposition /\ UNCHANGED commits /\ SameOptions

\* UNDO: the snapshot of the context, which owns no rollback handle, becomes
\* the context again.
Undo(ok) ==
  /\ state # "DIRECT"
  /\ log' = LogDiscard(learn, ok)
  /\ IF undos = <<>>
     THEN learn' = DiscardBoth(learn, ok) /\ SameComposition
          /\ UNCHANGED undos
     ELSE LET last == Last(undos)
          IN  /\ learn' = [UndoneLearning(DiscardBoth(learn, ok))
                             EXCEPT !.slot = 0]
              /\ state' = last.state /\ reading' = last.key
              /\ shown' = last.shown /\ live' = FALSE /\ visible' = None
              /\ undos' = Front(undos)
  /\ UNCHANGED commits /\ SameOptions

(***************************************************************************)
(* The rest of a session's life.                                           *)
(***************************************************************************)

\* ConvertReverse opens a conversion of a text of the application.  What is
\* pending is neither confirmed nor discarded.
Reconvert(key, value) ==
  /\ state \in {"PRECOMPOSITION", "DIRECT"} /\ MayCommit
  /\ Converted(key, value, FALSE)
  /\ undos' = <<>>
  /\ UNCHANGED <<learn, commits, log>> /\ SameOptions

\* IMEOff commits what is composed and confirms what is pending.
ImeOff(ok) ==
  /\ state # "DIRECT"
  /\ LET l == ConfirmDirect(learn)
     IN  CASE ~Composing ->
                /\ learn' = ConfirmFeedback(l, ok)
                /\ log' = LogConfirm(l, ok)
                /\ UNCHANGED commits
           [] Composing /\ visible = None ->
                /\ MayCommit
                /\ learn' = ConfirmFeedback(OrdinaryCommit(l), ok)
                /\ log' = LogConfirm(OrdinaryCommit(l), ok)
                /\ Committed(shown, "normal")
           [] Composing /\ visible # None ->
                /\ MayCommit
                /\ LET accepted == ApplyHistory(
                          Observe(SetAccepted(l, ok), reading, visible,
                                  NextCommit), ok)
                   IN  /\ learn' = ConfirmFeedback(accepted, ok)
                       /\ log' = LogAccepted(ok)
                /\ Committed(visible, "zenz")
  /\ LeaveFor("DIRECT")
  /\ undos' = IF Composing /\ visible = None THEN <<UndoEntry>> ELSE <<>>
  /\ SameOptions

ImeOn ==
  /\ state = "DIRECT"
  /\ LeaveComposition
  /\ undos' = <<>>
  /\ UNCHANGED <<learn, commits, log>> /\ SameOptions

\* RESET_CONTEXT: the focus moved, which is no evidence of a rejection.
ResetContext(ok) ==
  /\ learn' = ConfirmBoth(learn, ok) /\ log' = LogConfirm(learn, ok)
  /\ LeaveComposition
  /\ undos' = <<>>
  /\ UNCHANGED commits /\ SameOptions

\* The field the user types into forbids or allows personalization.
ToggleIncognito ==
  /\ incognito' = ~incognito
  /\ SameComposition
  /\ UNCHANGED <<recording, learning, undos, learn, commits, log>>

Typing ==
  \E ok \in BOOLEAN, key \in Readings :
    \/ TypeCharacter(key, ok) \/ TypeAfterConversion(key, ok)
    \/ TypeShiftAscii(key, ok) \/ EraseCharacter(key, ok)
    \/ EraseCharacter(None, ok)

Converting ==
  \E value \in Values, flag \in BOOLEAN :
    \/ Convert(value, flag) \/ ZenzAnswers(value, flag)
    \/ ForceZenz(value, flag) \/ ExplicitConversion(value)
    \/ SelectSuggestion(value)

Committing ==
  \/ \E ok \in BOOLEAN :
       \/ Enter(ok) \/ PunctuateComposition(ok) \/ PunctuateConversion(ok)
       \/ PunctuateLive(ok) \/ ImeOff(ok)
  \/ \E rest \in Readings, value \in Values : CommitSegment(rest, value)

Undoing ==
  \E ok \in BOOLEAN :
    \/ CancelConversion(ok) \/ CancelComposition(ok) \/ RollbackKey(ok)
    \/ CancelKey(ok) \/ Undo(ok) \/ PassKey(ok) \/ ResetContext(ok)

Others ==
  \/ SpaceRevertsZenz \/ ImeOn \/ ToggleIncognito
  \/ \E key \in Readings, value \in Values : Reconvert(key, value)

Next == Typing \/ Converting \/ Committing \/ Undoing \/ Others

Spec == Init /\ [][Next]_vars

(***************************************************************************)
(* Properties.                                                             *)
(***************************************************************************)
Commits == [key : Readings, value : Values \cup Readings,
            kind : {"normal", "direct", "marked", "zenz", "segment"}]

Records == [action : Actions, key : Readings, class : Classes,
            value : Values, reason : Reasons
              \cup {"candidate_selection_after_zenz"}]

\* A feedback file is a sequence of records.
ASSUME EarlierAssumption == Earlier \subseteq Seq(Records)

Feedbacks ==
  [action : {"none", "accepted", "compare"}, key : Readings \cup {None},
   value : Values \cup {None},
   reason : Reasons \cup {"candidate_selection_after_zenz"},
   finalKey : Readings \cup {None, Suffixed},
   finalValue : Values \cup Readings \cup {None, Suffixed},
   needsKey : BOOLEAN, written : BOOLEAN, requested : BOOLEAN,
   applied : BOOLEAN, handle : 0..MaxCommits, commit : 0..MaxCommits]

\* Type invariant of the acceptance and comparison of session.cc.
TypeOK ==
  /\ state \in States
  /\ reading \in Readings \cup {None} /\ (reading # None <=> Composing)
  /\ shown \in Values \cup Readings \cup {None}
  /\ visible \in Values \cup {None}
  /\ {live, recording, learning, incognito} \subseteq BOOLEAN
  /\ (visible # None => live) /\ (live => state = "CONVERSION")
  /\ learn.feedback \in Feedbacks
  /\ learn.direct \in 0..MaxCommits /\ learn.slot \in 0..MaxCommits
  /\ learn.history \in [CommitIds -> {"unlearned", "learned", "reverted"}]
  /\ Range(learn.file) \subseteq Records
  /\ Range(commits) \subseteq Commits
  /\ Range(log) \subseteq Records \X CommitIds

Logged(action, n) ==
  {i \in DOMAIN log : log[i][1].action = action /\ log[i][2] = n}

\* "One user decision contributes at most one accepted/rejected event"
\* (session.h:530): a commit is accepted or rejected once, whatever became
\* pending, was observed and was confirmed around it.
OneEventPerDecision ==
  \A n \in CommitIds :
    Cardinality(Logged("accepted", n) \cup Logged("rejected", n)) <= 1

\* "Only compensate an acceptance successfully appended" (session.cc:6476):
\* a rollback follows the one acceptance it takes back, and once.
RollbackFollowsItsAcceptance ==
  \A n \in CommitIds : \A i \in Logged("accepted_rollback", n) :
    /\ Logged("accepted_rollback", n) = {i}
    /\ \E j \in Logged("accepted", n) :
         /\ j < i
         /\ log[j][1].key = log[i][1].key /\ log[j][1].value = log[i][1].value

\* The commits that stand as accepted for a reading and a value.
Standing(key, value) ==
  {n \in CommitIds :
     /\ \E i \in Logged("accepted", n) :
          log[i][1].key = key /\ log[i][1].value = value
     /\ Logged("accepted_rollback", n) = {}}

\* What the store counts from the records the session wrote is what the user
\* accepted and did not take back, in whatever order rollbacks came.
CountsAreDecisions ==
  LET written == [i \in DOMAIN log |-> log[i][1]]
  IN  \A key \in Readings, value \in Values :
        LoadCounts(written, key, Class, value).accepted
          = Cardinality(Standing(key, value))

\* A rejection records a text that is not the one that was committed, unless
\* it was committed with a mark that is part of the result then, and
\* "continued typing is never miscounted as a reject" (session.h:538): where
\* the reading matters it is the committed one.
RejectedIsAnotherText ==
  \A n \in CommitIds : \A i \in Logged("rejected", n) :
    /\ commits[n].kind # "marked" => commits[n].value # log[i][1].value
    /\ log[i][1].reason \in {"auto_block_shadow_compare",
                             "cancel_visible_zenz_to_composition"}
         => commits[n].key = log[i][1].key

\* "Generalized Mozc history is applied immediately after the direct commit
\* and kept reversible during the same rollback window" (session.cc:8876):
\* an acceptance that was written, where learning is on, is also learned.
AcceptedIsReversible ==
  LET f == learn.feedback
  IN  f.action = "accepted" /\ f.written /\ f.requested => f.handle # 0

\* In a private field nothing is written by the session and nothing learned.
PrivateWritesNothing ==
  [][incognito /\ incognito' =>
       /\ log' = log
       /\ \A n \in CommitIds :
            learn'.history[n] = "learned" => learn.history[n] = "learned"]_vars

=============================================================================
