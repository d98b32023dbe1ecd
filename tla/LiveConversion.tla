--------------------------- MODULE LiveConversion ---------------------------
(***************************************************************************)
(* Live conversion in a Session (session/session.cc): the reading the user  *)
(* types is converted without being asked, after a delay, and the result is *)
(* corrected by a language model (Zenz) that answers whenever it can.       *)
(*                                                                         *)
(* Three actors meet here.  The user types keys.  The client keeps timers:  *)
(* an Output may carry a callback, a command the client sends back later,   *)
(* by which time the session may have moved on.  The corrector's worker     *)
(* answers the open question; it is the mailbox of ZenzMailbox.tla, which   *)
(* ZenzLiveCorrector.tla implements.  A handler runs under the server's     *)
(* lock, so it is one step: an operator that takes the Session object,      *)
(* with the Output it is building, to the next one.                         *)
(***************************************************************************)
EXTENDS Presentation, FiniteSets

CONSTANTS
  Alphabet,          \* the characters typed
  MaxLength,         \* bound on the reading
  MaxTimers,         \* callbacks a client keeps: 1 on mac, 512 on Windows
  MaxPolls,          \* polls before a question is given up
  MaxUndo,           \* kMultipleUndoMaxSize
  MinKeyLength,      \* live_conversion_min_key_length
  ZenzMinKeyLength,  \* zenz_live_correction_min_key_length
  UseLiveConversion, \* use_live_conversion
  DelayLive,         \* live_conversion_delay_msec > 0
  UseZenz,           \* use_zenz_live_correction
  DelayZenz,         \* zenz_live_correction_delay_msec > 0
  DeferDisplay,      \* defer_live_conversion_display_until_zenz_result
  ReuseFeedback,     \* CanReuseZenzFeedbackAutomatically
  DeletePreceding    \* the client's DELETE_PRECEDING_TEXT capability

ASSUME BoundsAssumption ==
  /\ {MaxLength, MaxTimers, MaxPolls} \subseteq Nat \ {0}
  /\ {MaxUndo, MinKeyLength, ZenzMinKeyLength} \subseteq Nat

ASSUME AlphabetAssumption == Alphabet \subseteq {"a", "r"}

ASSUME ConfigAssumption ==
  {UseLiveConversion, DelayLive, UseZenz, DelayZenz, DeferDisplay,
   ReuseFeedback, DeletePreceding} \subseteq BOOLEAN

VARIABLES
  session,   \* the Session object and the Output of its last handler
  timers     \* the callbacks the client holds, oldest first

vars == <<session, timers>>

(***************************************************************************)
(* Generations.  The code compares generations for equality only, so        *)
(* "++generation" is modelled by a token that no callback in flight and no  *)
(* pending record carries, and a generation nobody waits for is 0.          *)
(***************************************************************************)
Generations == 1..MaxTimers + 3

NoCallback == [kind |-> "none", generation |-> 0, key |-> <<>>]

NoZenz ==      \* PendingZenzLiveCorrection()
  [pending |-> FALSE, generation |-> 0, mozc |-> <<>>, submitted |-> FALSE,
   polls |-> 0]

NoVisible == [value |-> <<>>, mozc |-> <<>>, stable |-> 0]

NoDeferred ==
  [on |-> FALSE, value |-> <<>>, continued |-> NoPresentation,
   previous |-> <<>>]

\* The corrector's mailbox: no question, an open one, or its answer.
NoQuestion == [generation |-> 0, status |-> "none"]

FreshGeneration ==
  Min(Generations \ ({timers[i].generation : i \in DOMAIN timers}
                     \cup {session.pendingGeneration,
                           session.zenz.generation}))

InitialSession ==
  [state |-> "PRECOMPOSITION", key |-> <<>>, cursor |-> 0,
   conversion |-> <<>>, committed |-> 0,
   active |-> FALSE, fromComposition |-> FALSE,
   pending |-> FALSE, pendingGeneration |-> 0, pendingKey |-> <<>>,
   liveValue |-> <<>>, presentation |-> NoPresentation,
   zenz |-> NoZenz, visible |-> NoVisible, deferred |-> NoDeferred,
   corrector |-> NoQuestion, undo |-> <<>>,
   preedit |-> <<>>, result |-> <<>>, callback |-> NoCallback]

Init ==
  /\ session = InitialSession
  /\ timers = <<>>

(***************************************************************************)
(* State predicates of the code.                                            *)
(***************************************************************************)
HasVisibleZenz(s) ==
  /\ s.visible.value # <<>>
  /\ s.active
  /\ s.state = "CONVERSION"
  /\ s.liveValue = s.visible.mozc

HasDeferred(s) == s.deferred.on

CursorAtEnd(s) == s.cursor = Len(s.key)

LiveConversionApplies(s) ==
  /\ UseLiveConversion
  /\ s.state = "COMPOSITION"
  /\ Len(s.key) >= MinKeyLength
  /\ CursorAtEnd(s)

\* What Output() and OutputComposition() put on the screen by themselves.
Plain(s) ==
  CASE s.state = "CONVERSION"  -> s.conversion
    [] s.state = "COMPOSITION" -> Raw(s.key)
    [] OTHER                   -> <<>>

Output(s) == [s EXCEPT !.preedit = Plain(s)]

NewOutput(s) ==
  [s EXCEPT !.preedit = <<>>, !.result = <<>>, !.callback = NoCallback]

\* SetSessionState: leaving the composition resets the composer.
EnterState(s, state) ==
  IF state \in {"DIRECT", "PRECOMPOSITION"}
    THEN [s EXCEPT !.state = state, !.key = <<>>, !.cursor = 0]
    ELSE [s EXCEPT !.state = state]

CancelConverter(s) == [s EXCEPT !.conversion = <<>>]

DoNothing(s) == Output(s)

(***************************************************************************)
(* Invalidating what is in flight.                                          *)
(***************************************************************************)
\* Mutant: the question stays with the corrector.
CancelPendingZenz_KeepsQuestion(s) ==
  [s EXCEPT !.zenz = NoZenz, !.deferred = NoDeferred]

CancelPendingZenz(s) ==
  [s EXCEPT !.zenz = NoZenz, !.deferred = NoDeferred,
            !.corrector = NoQuestion]

ClearZenz(s) == [CancelPendingZenz(s) EXCEPT !.visible = NoVisible]

DropPending(s) ==
  [s EXCEPT !.pending = FALSE, !.pendingGeneration = 0, !.pendingKey = <<>>]

CancelPending(s) == CancelPendingZenz(DropPending(s))

ClearLive(s) ==
  ClearZenz([DropPending(s) EXCEPT
               !.active = FALSE, !.fromComposition = FALSE,
               !.liveValue = <<>>, !.presentation = NoPresentation])

LeaveLiveConversion(s) ==
  CancelConverter(EnterState([s EXCEPT !.active = FALSE,
                                       !.fromComposition = FALSE],
                             "COMPOSITION"))

\* The user edits while only the deferred presentation has been seen: the
\* hidden Mozc result is forgotten and the one before it comes back.
RestoreDeferred(s) ==
  LET cancelled == CancelPending(s)
      left == IF s.active /\ s.state = "CONVERSION"
                THEN LeaveLiveConversion(cancelled) ELSE cancelled
  IN  [left EXCEPT !.liveValue = s.deferred.previous]

CancelForEditing(s) ==
  IF HasDeferred(s)
    THEN [RestoreDeferred(s) EXCEPT !.presentation = NoPresentation]
    ELSE LET t == ClearZenz(CancelPending(
                    [s EXCEPT !.presentation = NoPresentation]))
         IN  IF s.active THEN LeaveLiveConversion(t) ELSE t

\* The end of SendKey and of SendCommand.
Settle(s) ==
  IF s.state = "CONVERSION" THEN s
  ELSE ClearZenz([s EXCEPT !.active = FALSE, !.fromComposition = FALSE])

(***************************************************************************)
(* Zenz: asking, and the reveal of an answer.                               *)
(*                                                                         *)
(* A handler's environment, e, is what it cannot know beforehand: whether   *)
(* the converter finds a conversion (and, when it does not, whether the     *)
(* reading is a transient sokuon), whether the privacy gate refuses the     *)
(* text, the correction the feedback store already has, the generation that *)
(* ++ yields, how late the clock is, and what is left of the model's answer  *)
(* after validation and adoption.                                           *)
(***************************************************************************)
OutputZenz(s) == [s EXCEPT !.preedit = s.visible.value]

OutputDeferred(s) ==
  IF HasDeferred(s) THEN [s EXCEPT !.preedit = s.deferred.value] ELSE s

\* OutputCurrentLiveConversionWithZenzPending
OutputWithZenzPending(s) ==
  IF s.active /\ s.state = "CONVERSION" THEN OutputDeferred(Output(s))
  ELSE Output(s)

AttachZenzCallback(s) ==
  [s EXCEPT !.callback = [kind       |-> "zenz",
                          generation |-> s.zenz.generation,
                          key        |-> Reading(s.zenz.mozc)]]

SubmitZenz(s) ==
  [s EXCEPT !.zenz.submitted = TRUE,
            !.zenz.polls = 0,
            !.corrector = [generation |-> s.zenz.generation,
                           status |-> "open"]]

\* A correction rewrites the whole text or all but its first surface.  One
\* that comes out equal to the Mozc text is no correction.
Rewrite(text, how) ==
  CASE how = "whole" -> Write(Reading(text), "zenz")
    [] how = "tail"  -> SubSeq(text, 1, 1)
                        \o Tail(Write(Reading(text), "zenz"))
    [] OTHER         -> text

\* The validator refuses an empty text.
IsCorrection(value, mozc) == value # <<>> /\ value # mozc

MayScheduleZenz(s, e, forced) ==
  /\ forced \/ (UseZenz /\ UseLiveConversion)
  /\ s.active
  /\ s.state = "CONVERSION"
  /\ s.liveValue # <<>>
  /\ ~e.private
  /\ forced \/ Len(s.liveValue) >= ZenzMinKeyLength

\* MaybeScheduleZenzLiveCorrection, where it schedules.
ScheduleZenz(s, e, forced) ==
  LET t == [s EXCEPT !.zenz = [pending |-> TRUE, generation |-> e.generation,
                               mozc |-> s.liveValue, submitted |-> FALSE,
                               polls |-> 0]]
  IN  AttachZenzCallback(IF forced \/ ~DelayZenz THEN SubmitZenz(t) ELSE t)

\* MaybeApplyZenzFeedbackLiveCorrection: a correction the user accepted
\* before, of a conversion of several segments, is shown without asking.
MayApplyFeedback(s, e) ==
  /\ ReuseFeedback /\ UseZenz /\ UseLiveConversion
  /\ s.active /\ s.state = "CONVERSION"
  /\ Len(s.liveValue) > 1
  /\ ~e.private
  /\ Len(s.liveValue) >= ZenzMinKeyLength
  /\ IsCorrection(Rewrite(s.liveValue, e.rewrite), s.liveValue)

ApplyFeedback(s, e) ==
  OutputZenz([s EXCEPT !.zenz = NoZenz,
                       !.visible = [value |-> Rewrite(s.liveValue, e.rewrite),
                                    mozc |-> s.liveValue, stable |-> 0]])

(***************************************************************************)
(* MaybeStartLiveConversionInternal, where it applies.                      *)
(***************************************************************************)
OutputPending(s) ==
  [s EXCEPT !.preedit = Present(s.key, s.presentation, s.liveValue)]

CanOutputPending(s) == CanPresent(s.key, s.presentation, s.liveValue)

\* ShouldKeepPendingLiveConversionForTransientSokuon: at least two kana and
\* a small tsu.
MayBeSokuon(key) == Len(key) >= 3 /\ ~HasTransientTail(key)

ConversionFails(s, e) ==
  LET t == DropPending(s)
  IN  IF e.converts = "sokuon" /\ MayBeSokuon(s.key) /\ CanOutputPending(t)
        THEN ClearZenz(OutputPending(t))
        ELSE Output([t EXCEPT !.presentation = NoPresentation])

\* The last thing the user saw, before the conversion replaces it.
SeenBefore(s) ==
  IF s.presentation # NoPresentation \/ s.liveValue = <<>>
    THEN s.presentation
    ELSE Presentation(s.liveValue, Len(s.liveValue))

\* The Mozc result stays hidden while Zenz is asked: what is shown instead is
\* built from what was shown before, or is the raw composition.
DeferDisplayOf(s, seen, previous) ==
  LET basis == Basis(s.key, seen, s.liveValue)
      built == seen # NoPresentation
               /\ CanPresent(s.key, seen, s.liveValue)
      value == IF built THEN Present(s.key, seen, s.liveValue) ELSE Raw(s.key)
  IN  OutputDeferred(
        [s EXCEPT !.deferred =
           [on |-> TRUE, value |-> value,
            continued |-> IF built /\ basis.value # <<>>
                            THEN basis ELSE NoPresentation,
            previous |-> previous]])

ConversionSucceeds(s, e, allowZenz) ==
  LET mozc == Write(s.key, "mozc")
      t == Output(ClearZenz([DropPending(s) EXCEPT
             !.state = "CONVERSION", !.conversion = mozc,
             !.active = TRUE, !.fromComposition = TRUE,
             !.liveValue = mozc, !.presentation = NoPresentation]))
  IN  CASE allowZenz /\ MayApplyFeedback(t, e) -> ApplyFeedback(t, e)
        [] /\ allowZenz
           /\ ~MayApplyFeedback(t, e)
           /\ MayScheduleZenz(t, e, FALSE)
             -> LET u == ScheduleZenz(t, e, FALSE)
                IN  IF DeferDisplay
                      THEN DeferDisplayOf(u, SeenBefore(s), s.liveValue)
                      ELSE u
        [] OTHER -> t

StartLiveConversion(s, e, allowZenz) ==
  IF e.converts = "ok" THEN ConversionSucceeds(s, e, allowZenz)
  ELSE ConversionFails(s, e)

\* MaybeScheduleLiveConversion and the plain output of its callers when it
\* returns false.
AttachDelayedCallback(s) ==
  [s EXCEPT !.callback = [kind       |-> "live",
                          generation |-> s.pendingGeneration,
                          key        |-> s.pendingKey]]

ScheduleLiveConversion(s, e) ==
  IF ~UseLiveConversion \/ s.state # "COMPOSITION" THEN Output(s)
  ELSE IF ~LiveConversionApplies(s) THEN Output(CancelPending(s))
  ELSE IF ~DelayLive THEN StartLiveConversion(s, e, TRUE)
  ELSE LET t == [s EXCEPT !.pending = TRUE,
                          !.pendingGeneration = e.generation,
                          !.pendingKey = s.key]
       IN  IF CanOutputPending(t) THEN AttachDelayedCallback(OutputPending(t))
           ELSE StartLiveConversion(t, e, TRUE)

\* MaybeStartLiveConversionAfterEditing and its callers' plain output.
StartAfterEditing(s, e) ==
  IF LiveConversionApplies(s)
    THEN StartLiveConversion(s, e, ~(UseZenz /\ DeferDisplay))
    ELSE Output(s)

(***************************************************************************)
(* Callbacks.                                                               *)
(***************************************************************************)
\* Mutants: an empty output, and the converter's own one.
IgnoreStale_Empty(s) == s

IgnoreStale_Plain(s) == OutputWithZenzPending(s)

IgnoreStale(s) ==
  CASE HasVisibleZenz(s) -> OutputZenz(s)
    [] /\ ~HasVisibleZenz(s)
       /\ s.zenz.pending /\ s.active /\ s.state = "CONVERSION"
         -> OutputWithZenzPending(s)
    [] /\ ~HasVisibleZenz(s)
       /\ ~(s.zenz.pending /\ s.active /\ s.state = "CONVERSION")
       /\ s.pending
         -> IF CanOutputPending(s) THEN OutputPending(s) ELSE s
    [] OTHER -> OutputWithZenzPending(s)

IsCurrentLiveCallback(s, c) ==
  /\ s.pending
  /\ c.generation = s.pendingGeneration
  /\ c.key = s.pendingKey
  /\ s.state = "COMPOSITION"
  /\ s.key = s.pendingKey

ApplyDelayedLiveConversion(s, c, e) ==
  IF ~IsCurrentLiveCallback(s, c) THEN IgnoreStale(s)
  ELSE IF ~(Len(s.key) >= MinKeyLength /\ CursorAtEnd(s))
    THEN Output(CancelPending(s))
  ELSE IF LiveConversionApplies(s) THEN StartLiveConversion(s, e, TRUE) ELSE s

IsCurrentZenzCallback(s, c) ==
  /\ s.zenz.pending
  /\ c.generation = s.zenz.generation
  /\ c.key = Reading(s.zenz.mozc)
  /\ s.state = "CONVERSION"
  /\ s.active
  /\ s.liveValue = s.zenz.mozc

\* OutputCurrentLiveConversionAfterZenzStop
StopZenz(s) == Output(CancelPendingZenz(s))

\* ApplyZenzLiveCorrectionResult for an answer that survives every gate.
AdoptZenz(s, value) ==
  LET continued == s.deferred.continued
      previous == IF HasDeferred(s) /\ continued # NoPresentation
                    THEN continued ELSE s.presentation
      kept == /\ HasTransientTail(s.key)
              /\ HasDeferred(s)
              /\ continued # NoPresentation
  IN  OutputZenz(
        [s EXCEPT !.visible = [value |-> value, mozc |-> s.zenz.mozc,
                               stable |-> MergeStableSpans(s.liveValue, value,
                                                           previous)],
                  !.zenz = NoZenz,
                  !.presentation = IF kept THEN continued ELSE NoPresentation,
                  !.deferred = NoDeferred])

TakeResult(s) ==
  IF s.corrector.generation = s.zenz.generation
    THEN s.corrector.status ELSE "none"

\* Mutant: polls are not counted.
PollZenz_NeverGivesUp(s) == AttachZenzCallback(OutputWithZenzPending(s))

PollZenz(s) ==
  LET t == [s EXCEPT !.zenz.polls = @ + 1]
  IN  IF t.zenz.polls >= MaxPolls THEN StopZenz(t)
      ELSE AttachZenzCallback(OutputWithZenzPending(t))

\* AdvancePendingZenzLiveCorrection from a callback.
AdvanceZenz(s, e) ==
  IF ~s.zenz.submitted
    THEN AttachZenzCallback(OutputWithZenzPending(SubmitZenz(s)))
  ELSE IF DeferDisplay /\ e.clock # "early" THEN StopZenz(s)
  ELSE IF TakeResult(s) \in {"ok", "error"}
    THEN LET value == Rewrite(s.zenz.mozc, e.rewrite)
             t == [s EXCEPT !.corrector = NoQuestion]
         IN  IF TakeResult(s) = "ok" /\ IsCorrection(value, s.zenz.mozc)
               THEN AdoptZenz(t, value) ELSE StopZenz(t)
  ELSE IF e.clock = "expired" THEN StopZenz(s)
  ELSE PollZenz(s)

ApplyZenzLiveCorrection(s, c, e) ==
  IF IsCurrentZenzCallback(s, c) THEN AdvanceZenz(s, e) ELSE IgnoreStale(s)

(***************************************************************************)
(* Committing.                                                              *)
(***************************************************************************)
\* Mutant: what the session holds of a pending display is not saved.
PushUndo_ContextOnly(s) ==
  LET entry == [state |-> s.state, key |-> s.key, cursor |-> s.cursor,
                conversion |-> s.conversion, committed |-> s.committed,
                pendingKey |-> <<>>, presentation |-> NoPresentation,
                delivered |-> 0, liveValue |-> <<>>]
      stack == Append(s.undo, entry)
  IN  [s EXCEPT !.undo = IF Len(stack) > MaxUndo THEN Tail(stack) ELSE stack]

PushUndo(s) ==
  LET pending == s.pending /\ s.state = "COMPOSITION"
      entry == [state |-> s.state, key |-> s.key, cursor |-> s.cursor,
                conversion |-> s.conversion, committed |-> s.committed,
                pendingKey |-> IF pending THEN s.pendingKey ELSE <<>>,
                presentation |-> IF pending THEN s.presentation
                                 ELSE NoPresentation,
                delivered |-> 0,
                liveValue |-> IF pending THEN s.liveValue ELSE <<>>]
      stack == Append(s.undo, entry)
  IN  [s EXCEPT !.undo = IF Len(stack) > MaxUndo THEN Tail(stack) ELSE stack]

CommitStringDirectly(s, value) ==
  IF value = <<>> THEN s
  ELSE Output(EnterState(CancelConverter([s EXCEPT !.result = @ \o value]),
                         "PRECOMPOSITION"))

\* *context_->mutable_output() = command->output(): Undo() deletes as many
\* characters from the client's document.  Nothing reads it without a saved
\* context.
RememberResult(s) ==
  [s EXCEPT !.committed = IF s.undo = <<>> THEN 0 ELSE Len(s.result)]

CommitInternal(s) ==
  IF s.state \notin {"COMPOSITION", "CONVERSION"} THEN DoNothing(s)
  ELSE LET t == [PushUndo(s) EXCEPT !.result = @ \o Plain(s)]
       IN  ClearLive(RememberResult(
             Output(EnterState(CancelConverter(t), "PRECOMPOSITION"))))

\* Mutant: what was on the screen is not saved for Undo.
CommitDeferred_PlainUndo(s, e) ==
  LET value == s.deferred.value
      t == RestoreDeferred(s)
  IN  IF value = <<>> THEN CommitInternal(t)
      ELSE RememberResult(
             CommitStringDirectly(ClearLive(PushUndo(t)), value))

\* CommitDeferredZenzLivePresentationForSubmit
CommitDeferred(s, e) ==
  LET value == s.deferred.value
      continued == s.deferred.continued
      t == RestoreDeferred(s)
      u == PushUndo([t EXCEPT
             !.pending = TRUE, !.pendingGeneration = e.generation,
             !.pendingKey = s.key,
             !.presentation = Presentation(value, continued.stable)])
  IN  IF value = <<>> THEN CommitInternal(t)
      ELSE RememberResult(CommitStringDirectly(ClearLive(u), value))

\* CommitZenzLiveCorrectionResult
CommitZenz(s) == CommitStringDirectly(ClearLive(s), s.visible.value)

\* Mutant: the result is not remembered for Undo.
CommitPending_NotRemembered(s) ==
  LET value == PendingCommitText(s.key, s.presentation, s.liveValue)
  IN  CommitStringDirectly(ClearLive(PushUndo(s)), value)

\* CommitPendingLiveConversionDisplayForSubmit
CommitPending(s) ==
  LET value == PendingCommitText(s.key, s.presentation, s.liveValue)
  IN  RememberResult(CommitStringDirectly(ClearLive(PushUndo(s)), value))

\* Mutants: Enter commits the composition of a pending display, or the hidden
\* conversion behind a deferred one.
Commit_IgnoresPending(s, e) ==
  CASE HasDeferred(s) -> CommitDeferred(s, e)
    [] ~HasDeferred(s) /\ HasVisibleZenz(s) -> CommitZenz(s)
    [] OTHER -> CommitInternal(s)

Commit_IgnoresDeferred(s, e) ==
  CASE HasVisibleZenz(s) -> CommitZenz(s)
    [] /\ ~HasVisibleZenz(s)
       /\ s.pending /\ s.state = "COMPOSITION" /\ s.key # <<>>
         -> CommitPending(s)
    [] OTHER -> CommitInternal(s)

Commit(s, e) ==
  CASE HasDeferred(s) -> CommitDeferred(s, e)
    [] ~HasDeferred(s) /\ HasVisibleZenz(s) -> CommitZenz(s)
    [] /\ ~HasDeferred(s) /\ ~HasVisibleZenz(s)
       /\ s.pending /\ s.state = "COMPOSITION" /\ s.key # <<>>
         -> CommitPending(s)
    [] OTHER -> CommitInternal(s)

(***************************************************************************)
(* Editing.                                                                 *)
(***************************************************************************)
ClearUndo(s) == [s EXCEPT !.undo = <<>>, !.committed = 0]

\* A vowel completes the consonant before it, in place.
ComposerInsert(s, c) ==
  IF CursorAtEnd(s) /\ HasTransientTail(s.key) /\ c = "a"
    THEN [s EXCEPT !.key = Append(Front(@), "k")]
    ELSE [s EXCEPT !.key = InsertAt(@, s.cursor + 1, c), !.cursor = @ + 1]

ComposerErase(s, i) ==
  IF i \in DOMAIN s.key THEN [s EXCEPT !.key = RemoveAt(@, i)] ELSE s

\* CapturePendingLiveConversionPresentationForContinuedInput
Capture(s) ==
  LET visible == Presentation(s.visible.value,
                   MergeStableSpans(s.liveValue, s.visible.value,
                     Presentation(s.visible.value, s.visible.stable)))
      deferred == Presentation(s.deferred.value,
                    BuildStableSpans(s.liveValue, s.deferred.value))
  IN  IF /\ HasTransientTail(s.key)
         /\ s.presentation # NoPresentation
         /\ IsPrefix(Reading(s.presentation.value), s.key)
        THEN s.presentation
      ELSE IF HasVisibleZenz(s) THEN visible
      ELSE IF HasDeferred(s)
        THEN IF s.deferred.continued # NoPresentation
               THEN s.deferred.continued ELSE deferred
      ELSE s.presentation

\* InsertCharacter up to the insertion: what was on the screen is kept, the
\* live conversion is cancelled, an ordinary conversion is committed.
InsertInto(s, c) ==
  LET seen == Capture(s)
      t == CancelForEditing(s)
      u == IF seen # NoPresentation THEN [t EXCEPT !.presentation = seen]
           ELSE t
      v == IF u.state = "CONVERSION" THEN CommitInternal(u) ELSE u
      w == ClearUndo(ComposerInsert(v, c))
  IN  IF ~s.active /\ ~w.pending /\ Len(w.key) = 1
        THEN ClearZenz([w EXCEPT !.liveValue = <<>>])
        ELSE w

InsertCharacter(s, c, e) ==
  ScheduleLiveConversion(EnterState(InsertInto(s, c), "COMPOSITION"), e)

\* CommitPendingLiveConversionDisplayDirectly
CommitPendingDirectly(s) ==
  CommitStringDirectly(ClearLive(s),
    PendingCommitText(s.key, s.presentation, s.liveValue))

\* InsertCharacter for a mark that commits what it follows.
InsertPunctuation(s) ==
  LET mark == Raw(<<".">>)
      t == InsertInto(s, ".")
  IN  CASE s.pending /\ s.state = "COMPOSITION"
             -> CommitPendingDirectly(ClearUndo(ComposerInsert(s, ".")))
        [] HasVisibleZenz(s)
             -> CommitStringDirectly(ClearLive(t), s.visible.value \o mark)
        [] /\ ~HasVisibleZenz(s)
           /\ HasDeferred(s) \/ (s.pending /\ s.state = "CONVERSION")
             -> CommitPendingDirectly(t)
        [] /\ s.active /\ ~HasVisibleZenz(s) /\ ~HasDeferred(s) /\ ~s.pending
           /\ t.liveValue # <<>>
             -> CommitStringDirectly(ClearLive(t), t.liveValue \o mark)
        [] OTHER -> CommitStringDirectly(t, Raw(t.key))

AfterErasing(s, e) ==
  IF s.key = <<>> THEN Output(CancelConverter(EnterState(s, "PRECOMPOSITION")))
  ELSE StartAfterEditing(s, e)

Backspace(s, e) ==
  LET t == ComposerErase(CancelForEditing(s), s.cursor)
  IN  AfterErasing(ClearUndo([t EXCEPT !.cursor = IF @ = 0 THEN 0 ELSE @ - 1]),
                   e)

Delete(s, e) ==
  AfterErasing(ClearUndo(ComposerErase(CancelForEditing(s), s.cursor + 1)), e)

MoveCursor(s, cursor) == Output(ClearUndo([s EXCEPT !.cursor = cursor]))

(***************************************************************************)
(* Explicit conversion.                                                     *)
(***************************************************************************)
\* Mutant: the correction survives the promotion.
Promote_KeepsZenz(s) ==
  IF s.active THEN [s EXCEPT !.active = FALSE, !.fromComposition = FALSE] ELSE s

\* SendKeyConversionState: an explicit command on a live conversion makes an
\* ordinary conversion of it first.
Promote(s) ==
  IF s.active
    THEN [ClearZenz(s) EXCEPT !.active = FALSE, !.fromComposition = FALSE]
    ELSE s

Convert(s, e) ==
  LET t == CancelPending(s)
  IN  IF e.converts # "ok" THEN Output(t)
      ELSE Output([t EXCEPT !.state = "CONVERSION",
                            !.conversion = Write(s.key, "mozc")])

\* ConvertNext, or a transliteration: of the focused segment, the first.
Choose(s) ==
  LET first == Min(Ends(s.conversion))
  IN  Output([s EXCEPT !.conversion =
                Write(SubSeq(s.key, 1, first), "chosen")
                \o SubSeq(@, first + 1, Len(@))])

\* ConvertToTransliteration makes one segment of a composition.
ConvertToTransliteration(s) ==
  Output([s EXCEPT !.state = "CONVERSION",
                   !.conversion = Write(s.key, "chosen")])

\* CommitFirstSegment of the converter, and CommitSegment.
CommitSegment(s) ==
  LET first == Min(Ends(s.conversion))
      t == [PushUndo(s) EXCEPT
              !.result = SubSeq(s.conversion, 1, first),
              !.conversion = SubSeq(@, first + 1, Len(@))]
      rest == [t EXCEPT !.key = SubSeq(@, first + 1, Len(@)),
                        !.cursor = IF @ < first THEN 0 ELSE @ - first]
  IN  RememberResult(
        Output(IF t.conversion # <<>> THEN rest
               ELSE EnterState(t, "PRECOMPOSITION")))

ConvertCancel(s) ==
  Output(CancelConverter(EnterState(ClearLive(s), "COMPOSITION")))

\* RevealDeferredZenzLiveConversion
RevealDeferred(s) == [ClearLive(s) EXCEPT !.preedit = s.liveValue]

\* RevertZenzLiveCorrectionToNormalConversion
RevertZenz(s) ==
  LET keep == UseLiveConversion /\ s.active /\ s.fromComposition
      t == IF keep THEN ClearZenz(CancelPending(s)) ELSE ClearLive(s)
  IN  [t EXCEPT !.preedit = s.liveValue]

\* ForceZenzLiveCorrection, once there is a conversion to correct.
AskForCorrection(s, e, wasLive, fromComposition) ==
  LET t == Output([ClearZenz(s) EXCEPT !.active = TRUE,
                                       !.fromComposition = fromComposition,
                                       !.liveValue = s.conversion])
  IN  IF MayScheduleZenz(t, e, TRUE) THEN ScheduleZenz(t, e, TRUE)
      ELSE IF wasLive THEN t ELSE ClearLive(t)

ForceZenz(s, e, withoutFeedback) ==
  LET fromComposition == \/ s.active /\ s.fromComposition
                         \/ s.pending /\ UseLiveConversion
      again == s.state = "CONVERSION" /\ withoutFeedback
      t == CancelPending(s)
      converted == [t EXCEPT !.state = "CONVERSION",
                             !.conversion = Write(s.key, "mozc")]
  IN  CASE s.state = "CONVERSION" /\ ~withoutFeedback
             -> AskForCorrection(s, e, s.active, fromComposition)
        [] (s.state = "COMPOSITION" \/ again) /\ e.converts = "ok"
             -> AskForCorrection(converted, e, s.active, fromComposition)
        [] s.state = "COMPOSITION" /\ e.converts # "ok" -> DoNothing(t)
        [] OTHER -> DoNothing(s)

(***************************************************************************)
(* Leaving, and coming back.                                                *)
(***************************************************************************)
\* EditCancel; Revert and ResetContext also forget the undo stack.
Abandon(s) ==
  Output(ClearLive(CancelConverter(EnterState(s, "PRECOMPOSITION"))))

IMEOff(s, e) ==
  LET t == IF HasDeferred(s) \/ HasVisibleZenz(s) THEN s
           ELSE IF s.state = "CONVERSION" THEN Promote(s) ELSE s
  IN  CancelConverter(EnterState(Commit(ClearUndo(t), e), "DIRECT"))

IMEOn(s) == EnterState(ClearUndo(s), "PRECOMPOSITION")

\* PopUndoContext.  The restored pending display gets a generation of its own.
PopUndo(s, e) ==
  LET entry == Last(s.undo)
      t == ClearLive([s EXCEPT !.undo = Front(@), !.state = entry.state,
                               !.key = entry.key, !.cursor = entry.cursor,
                               !.conversion = entry.conversion,
                               !.committed = entry.committed])
  IN  IF entry.pendingKey = <<>> \/ entry.pendingKey # entry.key THEN t
      ELSE [t EXCEPT !.pending = TRUE, !.pendingGeneration = e.generation,
                     !.pendingKey = entry.pendingKey,
                     !.liveValue = entry.liveValue,
                     !.presentation = entry.presentation]

\* Mutant: the restored pending display gets no callback.
Undo_NoCallback(s, e) ==
  LET t == PopUndo(s, e)
  IN  IF \/ s.state = "DIRECT"
         \/ s.undo = <<>>
         \/ s.committed > 0 /\ ~DeletePreceding
        THEN DoNothing(s)
      ELSE IF ~t.pending THEN Output(t)
      ELSE IF CanOutputPending(t) THEN OutputPending(t)
      ELSE Output(CancelPending(t))

Undo(s, e) ==
  LET t == PopUndo(s, e)
  IN  IF \/ s.state = "DIRECT"
         \/ s.undo = <<>>
         \/ s.committed > 0 /\ ~DeletePreceding
        THEN DoNothing(s)
      ELSE IF ~t.pending THEN Output(t)
      ELSE IF CanOutputPending(t) THEN AttachDelayedCallback(OutputPending(t))
      ELSE Output(CancelPending(t))

(***************************************************************************)
(* The steps: a key, a timer of the client, an answer of the worker.        *)
(***************************************************************************)
NoOutcome ==
  [converts |-> "none", private |-> TRUE, rewrite |-> "none",
   clock |-> "early", generation |-> FreshGeneration]

Rewrites == {"none", "whole", "tail"}

\* A rewrite at conversion time comes from the feedback store.
Conversions ==
  {[NoOutcome EXCEPT !.converts = found] : found \in {"ok", "none", "sokuon"}}
  \cup {[NoOutcome EXCEPT !.converts = "ok", !.private = FALSE,
                          !.rewrite = how] :
          how \in IF ReuseFeedback THEN Rewrites ELSE {"none"}}

\* A deadline that has passed matters only when no answer is taken.
Replies ==
  {[NoOutcome EXCEPT !.rewrite = how] : how \in Rewrites}
  \cup {[NoOutcome EXCEPT !.clock = clock] : clock \in {"deferred", "expired"}}

\* Mutant: the client never drops a callback.
Post_NoEviction(held, callback) ==
  IF callback = NoCallback THEN held ELSE Append(held, callback)

\* A client that holds MaxTimers callbacks drops the oldest for a new one.
Post(held, callback) ==
  IF callback = NoCallback THEN held
  ELSE Append(IF Len(held) >= MaxTimers THEN Tail(held) ELSE held, callback)

\* The result the client puts into its document, counted by the context that
\* Undo would restore.
Deliver(s) ==
  IF s.undo = <<>> THEN s
  ELSE [s EXCEPT !.undo[Len(s.undo)].delivered = @ + Len(s.result)]

Respond(s, held) ==
  /\ session' = [Deliver(Settle(s)) EXCEPT !.callback = NoCallback]
  /\ timers' = Post(held, s.callback)

Handle(s) == Respond(s, timers)

Before == NewOutput(session)

Composing == session.state = "COMPOSITION"
Converting == session.state = "CONVERSION"

TypeCharacter ==
  /\ session.state # "DIRECT"
  /\ \E c \in Alphabet, e \in Conversions :
       /\ c = "r" => ~HasTransientTail(session.key)
       /\ Handle(InsertCharacter(Before, c, e))
  /\ Len(session'.key) <= MaxLength

TypePunctuation ==
  /\ Composing \/ Converting
  /\ CursorAtEnd(session)
  /\ Handle(InsertPunctuation(Before))

BackspaceKey ==
  \E e \in Conversions :
    \/ /\ Composing \/ (Converting /\ session.active
                        /\ session.fromComposition /\ UseLiveConversion)
       /\ Handle(Backspace(Before, e))
    \/ /\ Converting
       /\ ~(session.active /\ session.fromComposition /\ UseLiveConversion)
       /\ Handle(ConvertCancel(Before))

DeleteKey ==
  /\ Composing
  /\ \E e \in Conversions : Handle(Delete(Before, e))

MoveCursorKey ==
  /\ Composing
  /\ \E cursor \in {0, Len(session.key)} : Handle(MoveCursor(Before, cursor))

SpaceKey ==
  \/ /\ Composing
     /\ \E e \in Conversions : Handle(Convert(Before, e))
  \/ /\ Converting
     /\ HasVisibleZenz(session)
     /\ Handle(RevertZenz(Before))
  \/ /\ Converting
     /\ HasDeferred(session)
     /\ Handle(RevealDeferred(Before))
  \/ /\ Converting
     /\ ~HasVisibleZenz(session)
     /\ ~HasDeferred(session)
     /\ Handle(Choose(Promote(Before)))

TransliterationKey ==
  \/ /\ Composing
     /\ Handle(ConvertToTransliteration(Before))
  \/ /\ Converting
     /\ Handle(Choose(Promote(Before)))

CommitSegmentKey ==
  /\ Converting
  /\ Handle(CommitSegment(Promote(Before)))

ForceZenzKey ==
  /\ Composing \/ Converting
  /\ \E withoutFeedback \in BOOLEAN, e \in Conversions :
       Handle(ForceZenz(Before, e, withoutFeedback))

CancelKey ==
  \/ /\ Composing
     /\ Handle(Abandon(Before))
  \/ /\ Converting
     /\ Handle(ConvertCancel(Before))

UnboundKey ==
  /\ Composing \/ Converting
  /\ Handle(DoNothing(Before))

EnterKey ==
  /\ Composing \/ Converting
  /\ Handle(Commit(Before, NoOutcome))

ResetContext ==
  /\ Composing \/ Converting
  /\ Handle(Abandon(ClearUndo(Before)))

IMEOffKey ==
  /\ session.state # "DIRECT"
  /\ Handle(IMEOff(Before, NoOutcome))

IMEOnKey ==
  /\ session.state = "DIRECT"
  /\ Handle(IMEOn(Before))

UndoKey ==
  /\ session.undo # <<>>
  /\ Handle(Undo(Before, NoOutcome))

Dispatch(c, e) ==
  IF c.kind = "live" THEN ApplyDelayedLiveConversion(Before, c, e)
  ELSE ApplyZenzLiveCorrection(Before, c, e)

FireTimer(i, outcomes) ==
  \E e \in outcomes : Respond(Dispatch(timers[i], e), RemoveAt(timers, i))

TimerFires ==
  \E i \in DOMAIN timers :
    FireTimer(i, IF timers[i].kind = "live" THEN Conversions ELSE Replies)

\* The oldest timer fires, and no deadline has passed: its progress must not
\* depend on the clock.
OldestTimerFires ==
  /\ timers # <<>>
  /\ FireTimer(1, IF timers[1].kind = "live" THEN Conversions
                  ELSE {e \in Replies : e.clock = "early"})

WorkerAnswers ==
  /\ session.corrector.status = "open"
  /\ \E status \in {"ok", "error"} :
       session' = [session EXCEPT !.corrector.status = status]
  /\ UNCHANGED timers

UserActs ==
  \/ TypeCharacter \/ TypePunctuation \/ BackspaceKey \/ DeleteKey
  \/ MoveCursorKey \/ SpaceKey \/ TransliterationKey \/ ForceZenzKey
  \/ CommitSegmentKey
  \/ CancelKey \/ UnboundKey \/ EnterKey \/ ResetContext
  \/ IMEOffKey \/ IMEOnKey \/ UndoKey

Next == UserActs \/ TimerFires \/ WorkerAnswers

Spec == Init /\ [][Next]_vars

\* A client that holds a timer sooner or later fires it, however little time
\* has passed; the worker may never answer.
FairSpec == Spec /\ WF_vars(OldestTimerFires)

(***************************************************************************)
(* Properties.  The type invariant first.                                   *)
(***************************************************************************)
Callback ==
  [kind : {"live", "zenz"}, generation : Generations,
   key : Seq(Characters)]

\* The control part of the Session object ranges over its type, and every
\* callback a client holds is one the session can read.
TypeOK ==
  /\ session.state \in {"DIRECT", "PRECOMPOSITION", "COMPOSITION",
                        "CONVERSION"}
  /\ {session.active, session.fromComposition, session.pending,
      session.deferred.on, session.zenz.pending, session.zenz.submitted}
       \subseteq BOOLEAN
  /\ session.key \in Seq(Characters) /\ session.cursor \in 0..Len(session.key)
  /\ {session.pendingGeneration, session.zenz.generation}
       \subseteq Generations \cup {0}
  /\ session.zenz.polls \in 0..MaxPolls
  /\ session.corrector.status \in {"none", "open", "ok", "error"}
  /\ Len(session.undo) <= MaxUndo /\ Len(timers) <= MaxTimers
  /\ \A i \in DOMAIN timers : timers[i] \in Callback

(***************************************************************************)
(* Callbacks and questions: nothing the session waits for is lost, and      *)
(* nothing it stopped waiting for comes back.                               *)
(***************************************************************************)
IsCurrent(s, c) ==
  IF c.kind = "live" THEN IsCurrentLiveCallback(s, c)
  ELSE IsCurrentZenzCallback(s, c)

IsOutstanding(kind) ==
  \E i \in DOMAIN timers :
    timers[i].kind = kind /\ IsCurrent(session, timers[i])

\* A composition that waits for its delayed conversion, or a conversion that
\* waits for its correction, always has the client's timer that will move it
\* on: no edit, undo, reveal or eviction of a timer loses the last one.
AwaitedCallbackIsOutstanding ==
  /\ session.pending /\ Composing => IsOutstanding("live")
  /\ session.zenz.pending => IsOutstanding("zenz")

\* The corrector works, or keeps an answer, for the pending correction only.
QuestionIsWaitedFor ==
  session.corrector.status # "none" =>
    /\ session.zenz.pending /\ session.zenz.submitted
    /\ session.zenz.generation = session.corrector.generation

\* A correction the session remembers as visible, or a hidden conversion, is
\* that of the live conversion on the screen: none survives an edit, a commit
\* or an explicit conversion to be shown or committed later.
CorrectionIsLive ==
  /\ session.visible # NoVisible => HasVisibleZenz(session)
  /\ HasDeferred(session) =>
       session.zenz.pending /\ session.active /\ Converting

(***************************************************************************)
(* The screen.                                                              *)
(***************************************************************************)
ShowsAReading(s) == s.state \in {"COMPOSITION", "CONVERSION"}

\* The screen always spells the reading that the composer holds; no callback,
\* however late, blanks it.
ScreenSpellsTheReading ==
  ShowsAReading(session) => Reading(session.preedit) = session.key

\* Enter would commit the text that is on the screen.
InStep(s) ==
  ShowsAReading(s) =>
    Commit(NewOutput(s), [generation |-> 0]).result = s.preedit

\* F6-F10 leave the pending flag behind when they leave the composition.
Leftover(s) == s.pending /\ s.state = "CONVERSION"

\* The presentation the session keeps no longer starts the reading.
Diverged(s) == ~IsPrefix(Reading(s.presentation.value), s.key)

\* A display kept across a failed conversion because of a trailing small tsu.
HeldForSokuon(s) == s.state = "COMPOSITION" /\ ~s.pending /\ MayBeSokuon(s.key)

\* An unbound key or a cursor movement.
Redraws ==
  session' = [session EXCEPT !.preedit = Plain(session), !.result = <<>>,
                             !.cursor = session'.cursor,
                             !.undo = session'.undo,
                             !.committed = session'.committed]

\* No step separates the screen from what Enter would commit, whichever of the
\* texts the session holds is on the screen, but for a redraw by an unbound
\* key or a cursor movement, a diverged presentation and a held display.
EnterStaysInStep ==
  [][InStep(session) /\ ~Leftover(session)
       => \/ InStep(session')
          \/ Diverged(session') \/ HeldForSokuon(session')
          \/ Redraws]_vars

\* A callback that comes too late changes neither the screen nor the session:
\* it shows again what Enter would commit.  A diverged presentation is shown
\* by its spans, which Enter does not consider.
StaleCallbackChangesNothing ==
  [][\A i \in DOMAIN timers :
       /\ timers' = RemoveAt(timers, i)
       /\ ~IsCurrent(session, timers[i])
       /\ InStep(session) /\ ~Leftover(session) /\ ~Diverged(session)
       => session' = [session EXCEPT !.result = <<>>]]_vars

(***************************************************************************)
(* Undo.                                                                    *)
(***************************************************************************)
\* Undo deletes from the document what was committed since it last saved a
\* context...
UndoIsExact ==
  session.undo # <<>> => session.committed = Last(session.undo).delivered

\* ...and only the commit of a Zenz correction, which neither saves a context
\* nor remembers its result, breaks that.
OnlyCorrectionsEscapeUndo ==
  [][UndoIsExact /\ ~HasVisibleZenz(session) => UndoIsExact']_vars

\* Undoing the last commit puts the committed text back on the screen, also
\* when it was a pending or a deferred display that no converter holds, for a
\* client that can delete it from the document.
UndoRestoresTheScreen ==
  [][/\ DeletePreceding
     /\ session.state = "PRECOMPOSITION"
     /\ session.undo # <<>> /\ session.result # <<>>
     /\ Last(session.undo).delivered = Len(session.result)
     /\ UndoKey
     => session'.preedit = session.result \/ Diverged(session')]_vars

(***************************************************************************)
(* Liveness.                                                                *)
(***************************************************************************)
Awaits == (session.pending /\ Composing) \/ session.zenz.pending

\* Once the user stops, the session comes to rest: the delayed conversion is
\* made or given up, and so is its correction, even if the worker never
\* answers.
ComesToRest == <>[][TimerFires \/ WorkerAnswers]_vars => <>[]~Awaits
=============================================================================
