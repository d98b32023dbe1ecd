------------------------ MODULE LiveConversion_proofs ------------------------
(***************************************************************************)
(* Proofs that what a session waits for is on its way, and that what it     *)
(* does not wait for any more is gone: no callback is lost, no question is  *)
(* worked on for nobody, no correction outlives its conversion.  They hold  *)
(* for every configuration, alphabet, number of timers and of polls.        *)
(***************************************************************************)
EXTENDS LiveConversion, SequenceTheorems, TLAPS

IsSeq(s) == \E S : s \in Seq(S)

\* The members of the Session object and of its Output.
SessionFields ==
  {"state", "key", "cursor", "conversion", "committed", "active",
   "fromComposition", "pending", "pendingGeneration", "pendingKey",
   "liveValue", "presentation", "zenz", "visible", "deferred", "corrector",
   "undo", "preedit", "result", "callback"}

EntryFields ==
  {"state", "key", "cursor", "conversion", "committed", "pendingKey",
   "presentation", "delivered", "liveValue"}

\* A saved context holds a pending display only where live conversion is used.
Stack(undo) ==
  /\ IsSeq(undo)
  /\ \A i \in DOMAIN undo :
       /\ DOMAIN undo[i] = EntryFields
       /\ undo[i].pendingKey # <<>> => UseLiveConversion

Shape(s) ==
  /\ DOMAIN s = SessionFields
  /\ DOMAIN s.zenz = DOMAIN NoZenz
  /\ DOMAIN s.corrector = DOMAIN NoQuestion
  /\ Stack(s.undo)
  /\ s.pending => UseLiveConversion

IsLive(s) == s.active /\ s.state = "CONVERSION"

\* The pending correction is of the live conversion on the screen.
ZenzIsLive(s) == s.zenz.pending => IsLive(s) /\ s.liveValue = s.zenz.mozc

\* So is the visible one, which is pending no more.
VisibleIsLive(s) ==
  s.visible # NoVisible =>
    /\ IsLive(s) /\ s.liveValue = s.visible.mozc /\ s.visible.value # <<>>
    /\ ~s.zenz.pending

DeferredIsLive(s) == s.deferred.on => s.zenz.pending /\ UseLiveConversion

QuestionIsAsked(s) ==
  s.corrector.status # "none" =>
    /\ s.zenz.pending /\ s.zenz.submitted
    /\ s.zenz.generation = s.corrector.generation

Good(s) ==
  ZenzIsLive(s) /\ VisibleIsLive(s) /\ DeferredIsLive(s) /\ QuestionIsAsked(s)

\* The callback a handler attaches, or one the client holds.
LiveCallback(s, c) ==
  c.kind = "live" /\ c.generation = s.pendingGeneration /\ c.key = s.pendingKey

ZenzCallback(s, c) ==
  /\ c.kind = "zenz" /\ c.generation = s.zenz.generation
  /\ c.key = Reading(s.zenz.mozc)

LiveOnItsWay(s, held) ==
  \/ LiveCallback(s, s.callback)
  \/ s.callback = NoCallback /\ \E i \in DOMAIN held : LiveCallback(s, held[i])

ZenzOnItsWay(s, held) ==
  \/ ZenzCallback(s, s.callback)
  \/ s.callback = NoCallback /\ \E i \in DOMAIN held : ZenzCallback(s, held[i])

\* A handler leaves the session with what it waits for on its way.  Outside a
\* conversion the end of SendKey and SendCommand clears what is left of one.
Handled(s, held) ==
  /\ Shape(s)
  /\ s.state = "CONVERSION" => Good(s)
  /\ s.pending /\ s.state = "COMPOSITION" =>
       s.pendingKey = s.key /\ LiveOnItsWay(s, held)
  /\ s.zenz.pending /\ s.state = "CONVERSION" => ZenzOnItsWay(s, held)

Inv ==
  /\ IsSeq(timers) /\ session.callback = NoCallback
  /\ Handled(session, timers) /\ Good(session)
-----------------------------------------------------------------------------
(***************************************************************************)
(* Operators that leave alone what is waited for                           *)
(***************************************************************************)

\* What Output() and its variants do not touch.
SameControl(s, t) ==
  /\ t.state = s.state /\ t.key = s.key /\ t.active = s.active
  /\ t.pending = s.pending /\ t.pendingGeneration = s.pendingGeneration
  /\ t.pendingKey = s.pendingKey /\ t.liveValue = s.liveValue
  /\ t.zenz = s.zenz /\ t.visible = s.visible /\ t.deferred = s.deferred
  /\ t.corrector = s.corrector /\ t.callback = s.callback

LEMMA SameHandled ==
  ASSUME NEW s, NEW held, Handled(s, held),
         NEW t, SameControl(s, t), Shape(t)
  PROVE  Handled(t, held)
BY DEF SameControl, Handled, Good, ZenzIsLive, VisibleIsLive, DeferredIsLive,
   QuestionIsAsked, IsLive, LiveOnItsWay, ZenzOnItsWay, LiveCallback,
   ZenzCallback

\* Only the text shown changes.
LEMMA Shown ==
  ASSUME NEW s, Shape(s), NEW text
  PROVE  LET t == [s EXCEPT !.preedit = text]
         IN  Shape(t) /\ SameControl(s, t) /\ t.undo = s.undo
BY DEF Shape, SameControl, SessionFields

LEMMA OutputShows ==
  ASSUME NEW s, Shape(s)
  PROVE  /\ Shape(Output(s)) /\ SameControl(s, Output(s))
         /\ Shape(OutputZenz(s)) /\ SameControl(s, OutputZenz(s))
         /\ Shape(OutputPending(s)) /\ SameControl(s, OutputPending(s))
         /\ Shape(OutputDeferred(s)) /\ SameControl(s, OutputDeferred(s))
         /\ Shape(OutputWithZenzPending(s))
         /\ SameControl(s, OutputWithZenzPending(s))
<1>1. Shape(Output(s)) /\ SameControl(s, Output(s))
  BY Shown DEF Output
<1>2. Shape(OutputZenz(s)) /\ SameControl(s, OutputZenz(s))
  BY Shown DEF OutputZenz
<1>3. Shape(OutputPending(s)) /\ SameControl(s, OutputPending(s))
  BY Shown DEF OutputPending
<1>4. \A t : Shape(t) =>
        Shape(OutputDeferred(t)) /\ SameControl(t, OutputDeferred(t))
  BY Shown DEF OutputDeferred, SameControl
<1>5. Shape(OutputDeferred(Output(s)))
      /\ SameControl(s, OutputDeferred(Output(s)))
  BY <1>1, <1>4 DEF SameControl
<1>. QED
  BY <1>1, <1>2, <1>3, <1>4, <1>5 DEF OutputWithZenzPending
-----------------------------------------------------------------------------
(***************************************************************************)
(* Operators after which nothing is waited for                             *)
(***************************************************************************)
NoZenzWork(s) ==
  ~s.zenz.pending /\ ~s.deferred.on /\ s.corrector.status = "none"

Idle(s) ==
  /\ Shape(s) /\ NoZenzWork(s)
  /\ s.state = "CONVERSION" => s.visible = NoVisible
  /\ s.state = "COMPOSITION" => ~s.pending

LEMMA IdleHandled ==
  ASSUME NEW s, Idle(s), NEW held
  PROVE  Handled(s, held)
BY DEF Idle, NoZenzWork, Handled, Good, ZenzIsLive, VisibleIsLive,
   DeferredIsLive, QuestionIsAsked

\* What an operator that moves between states leaves alone.
SameWork(s, t) ==
  /\ t.zenz = s.zenz /\ t.deferred = s.deferred /\ t.corrector = s.corrector
  /\ t.visible = s.visible /\ t.pending = s.pending

LEMMA SameIdle ==
  ASSUME NEW s, Idle(s), NEW t, Shape(t), SameWork(s, t),
         t.state = s.state \/ t.state \in {"DIRECT", "PRECOMPOSITION"}
  PROVE  Idle(t)
BY DEF Idle, SameWork, NoZenzWork

\* SetSessionState() and the converter's Cancel() change no such member.
LEMMA Entered ==
  ASSUME NEW s, Shape(s), NEW state
  PROVE  LET t == EnterState(s, state)
         IN  Shape(t) /\ SameWork(s, t) /\ t.state = state
BY DEF EnterState, Shape, SameWork, SessionFields

LEMMA ConverterCanceled ==
  ASSUME NEW s, Shape(s)
  PROVE  LET t == CancelConverter(s)
         IN  Shape(t) /\ SameWork(s, t) /\ t.state = s.state
BY DEF CancelConverter, Shape, SameWork, SessionFields

LEMMA ResultRemembered ==
  ASSUME NEW s, Shape(s)
  PROVE  LET t == RememberResult(s)
         IN  Shape(t) /\ SameWork(s, t) /\ t.state = s.state
BY DEF RememberResult, Shape, SameWork, SessionFields

\* The Cancel... and Clear... functions.
LEMMA ZenzCanceled ==
  ASSUME NEW s, Shape(s)
  PROVE  LET t == CancelPendingZenz(s)
         IN  /\ Shape(t) /\ NoZenzWork(t)
             /\ t.state = s.state /\ t.visible = s.visible
             /\ t.pending = s.pending /\ t.key = s.key
             /\ t.active = s.active /\ t.liveValue = s.liveValue
             /\ t.pendingKey = s.pendingKey /\ t.callback = s.callback
             /\ t.pendingGeneration = s.pendingGeneration
BY DEF CancelPendingZenz, Shape, NoZenzWork, SessionFields, NoZenz, NoDeferred,
   NoQuestion

LEMMA ZenzCleared ==
  ASSUME NEW s, Shape(s)
  PROVE  LET t == ClearZenz(s)
         IN  /\ Shape(t) /\ NoZenzWork(t) /\ t.visible = NoVisible
             /\ t.state = s.state /\ t.pending = s.pending /\ t.key = s.key
             /\ t.active = s.active /\ t.liveValue = s.liveValue
             /\ t.pendingKey = s.pendingKey /\ t.callback = s.callback
             /\ t.pendingGeneration = s.pendingGeneration
<1>. DEFINE c == CancelPendingZenz(s)
<1>1. /\ Shape(c) /\ NoZenzWork(c)
      /\ c.state = s.state /\ c.visible = s.visible
      /\ c.pending = s.pending /\ c.key = s.key
      /\ c.active = s.active /\ c.liveValue = s.liveValue
      /\ c.pendingKey = s.pendingKey /\ c.callback = s.callback
      /\ c.pendingGeneration = s.pendingGeneration
  BY ZenzCanceled
<1>. HIDE DEF c
<1>2. ClearZenz(s) = [c EXCEPT !.visible = NoVisible]
  BY DEF ClearZenz, c
<1>. QED
  BY <1>1, <1>2 DEF Shape, NoZenzWork, SessionFields

LEMMA PendingDropped ==
  ASSUME NEW s, Shape(s)
  PROVE  LET t == DropPending(s)
         IN  /\ Shape(t) /\ ~t.pending /\ t.state = s.state /\ t.key = s.key
             /\ t.active = s.active /\ t.liveValue = s.liveValue
             /\ t.zenz = s.zenz /\ t.deferred = s.deferred
             /\ t.corrector = s.corrector /\ t.visible = s.visible
             /\ t.callback = s.callback
BY DEF DropPending, Shape, SessionFields

LEMMA PendingCanceled ==
  ASSUME NEW s, Shape(s)
  PROVE  LET t == CancelPending(s)
         IN  /\ Shape(t) /\ ~t.pending /\ NoZenzWork(t)
             /\ t.state = s.state /\ t.visible = s.visible /\ t.key = s.key
             /\ t.active = s.active /\ t.liveValue = s.liveValue
             /\ t.callback = s.callback
BY PendingDropped, ZenzCanceled DEF CancelPending

LEMMA LiveCleared ==
  ASSUME NEW s, Shape(s)
  PROVE  LET t == ClearLive(s)
         IN  /\ Idle(t) /\ ~t.pending /\ t.visible = NoVisible
             /\ t.state = s.state /\ t.key = s.key
             /\ t.callback = s.callback
<1>. DEFINE d == DropPending(s)
            q == [d EXCEPT !.active = FALSE, !.fromComposition = FALSE,
                           !.liveValue = <<>>,
                           !.presentation = NoPresentation]
<1>1. /\ Shape(d) /\ ~d.pending /\ d.state = s.state /\ d.key = s.key
      /\ d.callback = s.callback
  BY PendingDropped
<1>. HIDE DEF d
<1>2. /\ Shape(q) /\ ~q.pending /\ q.state = s.state /\ q.key = s.key
      /\ q.callback = s.callback
  BY <1>1 DEF Shape, SessionFields
<1>. HIDE DEF q
<1>3. ClearLive(s) = ClearZenz(q)
  BY DEF ClearLive, d, q
<1>. QED
  BY <1>2, <1>3, ZenzCleared DEF Idle

\* The converter gives way to the composition.
LEMMA LiveLeft ==
  ASSUME NEW s, Shape(s)
  PROVE  LET t == LeaveLiveConversion(s)
         IN  Shape(t) /\ SameWork(s, t) /\ t.state = "COMPOSITION"
<1>. DEFINE q == [s EXCEPT !.active = FALSE, !.fromComposition = FALSE]
<1>1. Shape(q) /\ SameWork(s, q)
  BY DEF Shape, SessionFields, SameWork
<1>. HIDE DEF q
<1>2. LeaveLiveConversion(s) = CancelConverter(EnterState(q, "COMPOSITION"))
  BY DEF LeaveLiveConversion, q
<1>. QED
  BY <1>1, <1>2, Entered, ConverterCanceled DEF SameWork

\* RestoreDeferred is called on the deferred display of a live conversion.
LEMMA DeferredRestored ==
  ASSUME NEW s, Shape(s), s.state = "CONVERSION" => Good(s), HasDeferred(s)
  PROVE  LET t == RestoreDeferred(s)
         IN  Idle(t) /\ ~t.pending
<1>. DEFINE c == CancelPending(s)
            l == IF s.active /\ s.state = "CONVERSION"
                 THEN LeaveLiveConversion(c) ELSE c
<1>1. /\ Shape(c) /\ ~c.pending /\ NoZenzWork(c) /\ c.state = s.state
  BY PendingCanceled
<1>. HIDE DEF c
<1>2. Shape(l) /\ ~l.pending /\ NoZenzWork(l) /\ l.state # "CONVERSION"
  <2>1. CASE s.active /\ s.state = "CONVERSION"
    BY <1>1, <2>1, LiveLeft DEF SameWork, NoZenzWork
  <2>2. CASE s.state # "CONVERSION"
    BY <1>1, <2>2
  <2>. QED
    BY <2>1, <2>2 DEF Good, DeferredIsLive, ZenzIsLive, IsLive, HasDeferred
<1>. HIDE DEF l
<1>3. RestoreDeferred(s) = [l EXCEPT !.liveValue = s.deferred.previous]
  BY DEF RestoreDeferred, l, c
<1>. QED
  BY <1>2, <1>3 DEF Idle, NoZenzWork, Shape, SessionFields

\* CancelLiveConversionForEditing leaves nothing behind.
LEMMA EditingCancels ==
  ASSUME NEW s, Shape(s), s.state = "CONVERSION" => Good(s)
  PROVE  LET t == CancelForEditing(s)
         IN  Idle(t) /\ ~t.pending
<1>1. CASE HasDeferred(s)
  <2>. DEFINE r == RestoreDeferred(s)
  <2>1. Idle(r) /\ ~r.pending
    BY <1>1, DeferredRestored
  <2>. HIDE DEF r
  <2>2. CancelForEditing(s) = [r EXCEPT !.presentation = NoPresentation]
    BY <1>1 DEF CancelForEditing, r
  <2>. QED
    BY <2>1, <2>2 DEF Idle, NoZenzWork, Shape, SessionFields
<1>2. CASE ~HasDeferred(s)
  <2>. DEFINE p == [s EXCEPT !.presentation = NoPresentation]
              t == ClearZenz(CancelPending(p))
  <2>1. Shape(p)
    BY DEF Shape, SessionFields
  <2>. HIDE DEF p
  <2>2. /\ Shape(t) /\ NoZenzWork(t) /\ t.visible = NoVisible /\ ~t.pending
    BY <2>1, PendingCanceled, ZenzCleared
  <2>. HIDE DEF t
  <2>3. CancelForEditing(s) = IF s.active THEN LeaveLiveConversion(t) ELSE t
    BY <1>2 DEF CancelForEditing, t, p
  <2>. QED
    BY <2>2, <2>3, LiveLeft DEF Idle, SameWork, NoZenzWork
<1>. QED
  BY <1>1, <1>2
-----------------------------------------------------------------------------
(***************************************************************************)
(* The undo stack                                                          *)
(***************************************************************************)

\* What is left of a stack by pushing, popping and counting.
LEMMA Pushed ==
  ASSUME NEW u, Stack(u), NEW entry, DOMAIN entry = EntryFields,
         entry.pendingKey # <<>> => UseLiveConversion
  PROVE  /\ Stack(Append(u, entry)) /\ Stack(Tail(Append(u, entry)))
         /\ Append(u, entry) # <<>>
<1>1. PICK S : u \in Seq(S)
  BY DEF Stack, IsSeq
<1>. DEFINE T == S \cup {entry}
            a == Append(u, entry)
<1>2. u \in Seq(T) /\ entry \in T
  BY <1>1
<1>. HIDE DEF T
<1>3. a \in Seq(T) /\ Len(a) = Len(u) + 1 /\ Len(u) \in Nat
  BY <1>2
<1>4. \A i \in DOMAIN a :
        DOMAIN a[i] = EntryFields
        /\ (a[i].pendingKey # <<>> => UseLiveConversion)
  <2>. SUFFICES ASSUME NEW i \in DOMAIN a
                PROVE  DOMAIN a[i] = EntryFields
                       /\ (a[i].pendingKey # <<>> => UseLiveConversion)
    OBVIOUS
  <2>1. CASE i \in DOMAIN u
    <3>1. a[i] = u[i]
      BY <1>2, <2>1
    <3>. QED
      BY <2>1, <3>1 DEF Stack
  <2>2. CASE i \notin DOMAIN u
    <3>1. a[i] = entry
      BY <1>2, <2>2
    <3>. QED
      BY <3>1
  <2>. QED
    BY <2>1, <2>2
<1>. HIDE DEF a
<1>5. a # <<>>
  BY <1>3
<1>6. Tail(a) \in Seq(T) /\ Len(Tail(a)) = Len(a) - 1
      /\ \A i \in DOMAIN Tail(a) : i + 1 \in DOMAIN a /\ Tail(a)[i] = a[i + 1]
  BY <1>3, <1>5
<1>. QED
  BY <1>3, <1>4, <1>5, <1>6 DEF Stack, IsSeq, a

LEMMA Popped ==
  ASSUME NEW u, Stack(u), u # <<>>
  PROVE  /\ Stack(Front(u))
         /\ DOMAIN Last(u) = EntryFields
         /\ Last(u).pendingKey # <<>> => UseLiveConversion
<1>1. PICK S : u \in Seq(S)
  BY DEF Stack, IsSeq
<1>2. Len(u) \in Nat /\ Len(u) \in DOMAIN u /\ Last(u) = u[Len(u)]
  BY <1>1 DEF Last
<1>3. Front(u) \in Seq(S)
      /\ \A i \in DOMAIN Front(u) : i \in DOMAIN u /\ Front(u)[i] = u[i]
  BY <1>1 DEF Front
<1>. QED
  BY <1>2, <1>3 DEF Stack, IsSeq

LEMMA Counted ==
  ASSUME NEW u, Stack(u), u # <<>>, NEW n
  PROVE  Stack([u EXCEPT ![Len(u)].delivered = n])
<1>1. PICK S : u \in Seq(S)
  BY DEF Stack, IsSeq
<1>. DEFINE e == [u[Len(u)] EXCEPT !.delivered = n]
            T == S \cup {e}
            w == [u EXCEPT ![Len(u)] = e]
<1>2. Len(u) \in DOMAIN u /\ u \in Seq(T) /\ e \in T
  BY <1>1
<1>3. DOMAIN e = EntryFields /\ e.pendingKey = u[Len(u)].pendingKey
  BY <1>2 DEF Stack, EntryFields
<1>. HIDE DEF e, T
<1>4. w \in Seq(T) /\ DOMAIN w = DOMAIN u
      /\ \A i \in DOMAIN w : w[i] = IF i = Len(u) THEN e ELSE u[i]
  BY <1>2
<1>5. Stack(w)
  BY <1>2, <1>3, <1>4 DEF Stack, IsSeq
<1>. QED
  BY <1>5 DEF e

\* PushUndoContext.
LEMMA UndoPushed ==
  ASSUME NEW s, Shape(s)
  PROVE  LET t == PushUndo(s)
         IN  Shape(t) /\ SameWork(s, t) /\ t.state = s.state
<1>. DEFINE pending == s.pending /\ s.state = "COMPOSITION"
            entry == [state |-> s.state, key |-> s.key, cursor |-> s.cursor,
                      conversion |-> s.conversion,
                      committed |-> s.committed,
                      pendingKey |-> IF pending THEN s.pendingKey ELSE <<>>,
                      presentation |-> IF pending THEN s.presentation
                                       ELSE NoPresentation,
                      delivered |-> 0,
                      liveValue |-> IF pending THEN s.liveValue ELSE <<>>]
            stack == Append(s.undo, entry)
            u == IF Len(stack) > MaxUndo THEN Tail(stack) ELSE stack
<1>1. /\ DOMAIN entry = EntryFields
      /\ entry.pendingKey # <<>> => UseLiveConversion
  BY DEF EntryFields, Shape
<1>. HIDE DEF entry
<1>2. Stack(u)
  BY <1>1, Pushed DEF Shape
<1>. HIDE DEF u
<1>3. PushUndo(s) = [s EXCEPT !.undo = u]
  BY DEF PushUndo, u, entry
<1>. QED
  BY <1>2, <1>3 DEF Shape, SameWork, SessionFields

LEMMA UndoCleared ==
  ASSUME NEW s, Shape(s)
  PROVE  LET t == ClearUndo(s)
         IN  Shape(t) /\ SameControl(s, t)
<1>1. Stack(<<>>)
  BY DEF Stack, IsSeq
<1>. QED
  BY <1>1 DEF ClearUndo, Shape, SameControl, SessionFields

\* What PopUndoContext brings back is a composition with nothing pending, or
\* one whose pending display gets a generation of its own.
LEMMA UndoPopped ==
  ASSUME NEW s, Shape(s), s.undo # <<>>, NEW e
  PROVE  LET t == PopUndo(s, e)
         IN  /\ Shape(t) /\ NoZenzWork(t) /\ t.visible = NoVisible
             /\ t.pending => t.pendingKey = t.key
<1>. DEFINE entry == Last(s.undo)
            q == [s EXCEPT !.undo = Front(@), !.state = entry.state,
                           !.key = entry.key, !.cursor = entry.cursor,
                           !.conversion = entry.conversion,
                           !.committed = entry.committed]
            t == ClearLive(q)
            r == [t EXCEPT !.pending = TRUE, !.pendingGeneration = e.generation,
                           !.pendingKey = entry.pendingKey,
                           !.liveValue = entry.liveValue,
                           !.presentation = entry.presentation]
<1>1. Stack(Front(s.undo)) /\ (entry.pendingKey # <<>> => UseLiveConversion)
  BY Popped DEF Shape
<1>2. Shape(q) /\ q.key = entry.key
  BY <1>1 DEF Shape, SessionFields
<1>. HIDE DEF q
<1>3. Idle(t) /\ ~t.pending /\ t.visible = NoVisible /\ t.key = entry.key
  BY <1>2, LiveCleared
<1>. HIDE DEF t
<1>4. CASE PopUndo(s, e) = t
  BY <1>3, <1>4 DEF Idle
<1>5. CASE /\ PopUndo(s, e) = r
           /\ ~(entry.pendingKey = <<>> \/ entry.pendingKey # entry.key)
  <2>1. Shape(r)
    BY <1>1, <1>3, <1>5 DEF Idle, Shape, SessionFields
  <2>2. /\ r.pendingKey = r.key /\ r.visible = NoVisible /\ r.zenz = t.zenz
        /\ r.deferred = t.deferred /\ r.corrector = t.corrector
    BY <1>3, <1>5 DEF Idle, Shape, SessionFields
  <2>. QED
    BY <1>3, <1>5, <2>1, <2>2 DEF Idle, NoZenzWork
<1>. QED
  BY <1>4, <1>5 DEF PopUndo, t, q
-----------------------------------------------------------------------------
(***************************************************************************)
(* Committing and editing                                                  *)
(***************************************************************************)
LEMMA CommittedDirectly ==
  ASSUME NEW s, Idle(s), NEW value
  PROVE  Idle(CommitStringDirectly(s, value))
<1>. DEFINE q == [s EXCEPT !.result = @ \o value]
            c == CancelConverter(q)
            n == EnterState(c, "PRECOMPOSITION")
<1>1. Shape(q) /\ SameWork(s, q) /\ q.state = s.state
  BY DEF Idle, Shape, SameWork, SessionFields
<1>. HIDE DEF q
<1>2. Shape(c) /\ SameWork(s, c)
  BY <1>1, ConverterCanceled DEF SameWork
<1>. HIDE DEF c
<1>3. Shape(n) /\ SameWork(s, n) /\ n.state = "PRECOMPOSITION"
  BY <1>2, Entered DEF SameWork
<1>. HIDE DEF n
<1>4. Idle(Output(n))
  BY <1>3, OutputShows, SameIdle DEF SameWork, SameControl
<1>. QED
  BY <1>4 DEF CommitStringDirectly, n, c, q

\* CommitInternal commits what is composed, or only redraws.
LEMMA CommittedInternally ==
  ASSUME NEW s, Shape(s)
  PROVE  LET t == CommitInternal(s)
         IN  \/ Idle(t) /\ ~t.pending
             \/ Shape(t) /\ SameControl(s, t)
<1>1. CASE s.state \notin {"COMPOSITION", "CONVERSION"}
  BY <1>1, OutputShows DEF CommitInternal, DoNothing
<1>2. CASE s.state \in {"COMPOSITION", "CONVERSION"}
  <2>. DEFINE p == PushUndo(s)
              t == [p EXCEPT !.result = @ \o Plain(s)]
              n == EnterState(CancelConverter(t), "PRECOMPOSITION")
              r == RememberResult(Output(n))
  <2>1. Shape(p)
    BY UndoPushed
  <2>. HIDE DEF p
  <2>2. Shape(t)
    BY <2>1 DEF Shape, SessionFields
  <2>. HIDE DEF t
  <2>3. Shape(n)
    BY <2>2, ConverterCanceled, Entered
  <2>. HIDE DEF n
  <2>4. Shape(r)
    BY <2>3, OutputShows, ResultRemembered
  <2>. HIDE DEF r
  <2>5. CommitInternal(s) = ClearLive(r)
    BY <1>2 DEF CommitInternal, r, n, t, p
  <2>. QED
    BY <2>4, <2>5, LiveCleared
<1>. QED
  BY <1>1, <1>2

\* The text of a cleared display is committed and remembered.
LEMMA DisplayCommitted ==
  ASSUME NEW s, Shape(s), NEW value
  PROVE  /\ Idle(CommitStringDirectly(ClearLive(s), value))
         /\ Idle(RememberResult(CommitStringDirectly(ClearLive(s), value)))
<1>. DEFINE c == CommitStringDirectly(ClearLive(s), value)
<1>1. Idle(c)
  BY LiveCleared, CommittedDirectly
<1>. HIDE DEF c
<1>2. Idle(RememberResult(c))
  BY <1>1, ResultRemembered, SameIdle DEF Idle
<1>. QED
  BY <1>1, <1>2 DEF c

\* Enter.
LEMMA Entering ==
  ASSUME NEW s, NEW held, Handled(s, held), Good(s), NEW e
  PROVE  Handled(Commit(s, e), held)
<1>0. Shape(s)
  BY DEF Handled
<1>1. CASE HasDeferred(s)
  <2>. DEFINE t == RestoreDeferred(s)
              value == s.deferred.value
              q == [t EXCEPT
                     !.pending = TRUE, !.pendingGeneration = e.generation,
                     !.pendingKey = s.key,
                     !.presentation = Presentation(value,
                                        s.deferred.continued.stable)]
              u == PushUndo(q)
  <2>1. Idle(t)
    BY <1>0, <1>1, DeferredRestored
  <2>. HIDE DEF t
  <2>2. Shape(q)
    BY <1>1, <2>1 DEF Idle, Shape, SessionFields, Good, DeferredIsLive,
       HasDeferred
  <2>. HIDE DEF q
  <2>3. Shape(u)
    BY <2>2, UndoPushed
  <2>. HIDE DEF u
  <2>4. Idle(CommitInternal(t))
    BY <2>1, CommittedInternally, SameIdle DEF Idle, SameControl, SameWork
  <2>5. Idle(RememberResult(CommitStringDirectly(ClearLive(u), value)))
    BY <2>3, DisplayCommitted
  <2>6. Commit(s, e) = CommitDeferred(s, e)
    BY <1>1 DEF Commit
  <2>7. Idle(CommitDeferred(s, e))
    BY <2>4, <2>5 DEF CommitDeferred, u, q, t
  <2>. QED
    BY <2>6, <2>7, IdleHandled
<1>2. CASE ~HasDeferred(s)
  <2>1. Idle(CommitZenz(s))
    BY <1>0, DisplayCommitted DEF CommitZenz
  <2>2. Idle(CommitPending(s))
    BY <1>0, UndoPushed, DisplayCommitted DEF CommitPending
  <2>3. Handled(CommitInternal(s), held)
    BY <1>0, CommittedInternally, IdleHandled, SameHandled
  <2>4. Commit(s, e) \in {CommitZenz(s), CommitPending(s), CommitInternal(s)}
    BY <1>2 DEF Commit
  <2>. QED
    BY <2>1, <2>2, <2>3, <2>4, IdleHandled
<1>. QED
  BY <1>1, <1>2

\* InsertCharacter up to the insertion leaves nothing waited for.
LEMMA Inserted ==
  ASSUME NEW s, Shape(s), s.state = "CONVERSION" => Good(s), NEW c
  PROVE  LET t == InsertInto(s, c)
         IN  Idle(t) /\ ~t.pending
<1>. DEFINE seen == Capture(s)
            t == CancelForEditing(s)
            u == IF seen # NoPresentation
                 THEN [t EXCEPT !.presentation = seen] ELSE t
            v == IF u.state = "CONVERSION" THEN CommitInternal(u) ELSE u
            i == ComposerInsert(v, c)
            w == ClearUndo(i)
            x == [w EXCEPT !.liveValue = <<>>]
<1>1. Idle(t) /\ ~t.pending
  BY EditingCancels
<1>. HIDE DEF t, seen
<1>2. Idle(u) /\ ~u.pending
  BY <1>1 DEF Idle, NoZenzWork, Shape, SessionFields
<1>. HIDE DEF u
<1>3. Idle(v) /\ ~v.pending
  BY <1>2, CommittedInternally, SameIdle DEF Idle, SameControl, SameWork
<1>. HIDE DEF v
<1>4. Idle(i) /\ ~i.pending
  BY <1>3 DEF ComposerInsert, Idle, NoZenzWork, Shape, SessionFields
<1>. HIDE DEF i
<1>5. Idle(w) /\ ~w.pending
  BY <1>4, UndoCleared, SameIdle DEF SameControl, SameWork, Idle
<1>. HIDE DEF w
<1>6. Idle(x) /\ ~x.pending
  BY <1>5 DEF Idle, NoZenzWork, Shape, SessionFields
<1>. HIDE DEF x
<1>7. Idle(ClearZenz(x)) /\ ~ClearZenz(x).pending
  BY <1>6, ZenzCleared DEF Idle
<1>8. InsertInto(s, c) \in {ClearZenz(x), w}
  BY DEF InsertInto, x, w, i, v, u, t, seen
<1>. QED
  BY <1>5, <1>7, <1>8
-----------------------------------------------------------------------------
(***************************************************************************)
(* Converting and asking                                                   *)
(***************************************************************************)

\* A live conversion with no correction yet.
Fresh(s) ==
  /\ Shape(s) /\ NoZenzWork(s) /\ s.visible = NoVisible /\ IsLive(s)

LEMMA FreshHandled ==
  ASSUME NEW s, Fresh(s), NEW held
  PROVE  Handled(s, held)
BY IdleHandled DEF Fresh, IsLive, Idle

\* A correction of what is on the screen is pending.
Asking(s) ==
  /\ Shape(s) /\ s.zenz.pending /\ IsLive(s) /\ s.liveValue = s.zenz.mozc
  /\ s.visible = NoVisible /\ QuestionIsAsked(s)
  /\ s.deferred.on => UseLiveConversion

\* SubmitZenz opens the question for it.
LEMMA Submitted ==
  ASSUME NEW s, Asking(s)
  PROVE  Asking(SubmitZenz(s))
<1>. DEFINE p == [s EXCEPT !.zenz.submitted = TRUE]
            q == [p EXCEPT !.zenz.polls = 0]
            t == [q EXCEPT !.corrector = [generation |-> s.zenz.generation,
                                          status |-> "open"]]
<1>1. /\ Shape(p) /\ p.zenz.pending /\ p.zenz.submitted /\ IsLive(p)
      /\ p.liveValue = p.zenz.mozc /\ p.visible = NoVisible
      /\ p.zenz.generation = s.zenz.generation
      /\ p.deferred = s.deferred
  BY DEF Asking, Shape, SessionFields, NoZenz, IsLive, VisibleIsLive
<1>. HIDE DEF p
<1>2. /\ Shape(q) /\ q.zenz.pending /\ q.zenz.submitted /\ IsLive(q)
      /\ q.liveValue = q.zenz.mozc /\ q.visible = NoVisible
      /\ q.zenz.generation = s.zenz.generation
      /\ q.deferred = s.deferred
  BY <1>1 DEF Shape, SessionFields, NoZenz, IsLive, VisibleIsLive
<1>. HIDE DEF q
<1>3. Asking(t)
  BY <1>2 DEF Asking, Shape, SessionFields, NoQuestion, IsLive, VisibleIsLive,
     QuestionIsAsked
<1>4. SubmitZenz(s) = t
  BY DEF SubmitZenz, q, p
<1>. QED
  BY <1>3, <1>4

\* AttachZenzLiveCorrectionPollCallback brings the session back to it.
LEMMA Attached ==
  ASSUME NEW s, Asking(s), NEW held
  PROVE  LET t == AttachZenzCallback(s)
         IN  Asking(t) /\ ZenzCallback(t, t.callback) /\ Handled(t, held)
<1>. DEFINE t == AttachZenzCallback(s)
<1>1. Asking(t)
  BY DEF AttachZenzCallback, Asking, Shape, SessionFields, IsLive,
     VisibleIsLive, QuestionIsAsked
<1>2. ZenzCallback(t, t.callback)
  BY DEF AttachZenzCallback, ZenzCallback, Asking, Shape, SessionFields
<1>. QED
  BY <1>1, <1>2 DEF Asking, Handled, Good, ZenzIsLive, DeferredIsLive,
     VisibleIsLive,
     IsLive, ZenzOnItsWay

\* MaybeScheduleZenzLiveCorrection on a fresh conversion.
LEMMA Scheduled ==
  ASSUME NEW s, Fresh(s), NEW e, NEW forced, NEW held
  PROVE  LET t == ScheduleZenz(s, e, forced)
         IN  Asking(t) /\ ZenzCallback(t, t.callback) /\ Handled(t, held)
<1>. DEFINE z == [pending |-> TRUE, generation |-> e.generation,
                  mozc |-> s.liveValue, submitted |-> FALSE, polls |-> 0]
            t == [s EXCEPT !.zenz = z]
<1>1. z.pending /\ z.mozc = s.liveValue /\ DOMAIN z = DOMAIN NoZenz
  BY DEF NoZenz
<1>. HIDE DEF z
<1>2. Asking(t)
  BY <1>1 DEF Fresh, NoZenzWork, Asking, Shape, SessionFields, IsLive,
     VisibleIsLive, QuestionIsAsked
<1>3. ScheduleZenz(s, e, forced)
        \in {AttachZenzCallback(t), AttachZenzCallback(SubmitZenz(t))}
  BY Zenon DEF ScheduleZenz, t, z
<1>. HIDE DEF t
<1>. QED
  BY <1>2, <1>3, Submitted, Attached

\* A live conversion is made, corrected from what was accepted before, or
\* corrected later, with or without being shown meanwhile.
LEMMA Succeeded ==
  ASSUME NEW s, Shape(s), NEW e, NEW allowZenz, NEW held
  PROVE  Handled(ConversionSucceeds(s, e, allowZenz), held)
<1>. DEFINE mozc == Write(s.key, "mozc")
            d == DropPending(s)
            q == [d EXCEPT !.state = "CONVERSION", !.conversion = mozc,
                           !.active = TRUE, !.fromComposition = TRUE,
                           !.liveValue = mozc,
                           !.presentation = NoPresentation]
            t == Output(ClearZenz(q))
            u == ScheduleZenz(t, e, FALSE)
            v == DeferDisplayOf(u, SeenBefore(s), s.liveValue)
<1>1. Shape(d)
  BY PendingDropped
<1>. HIDE DEF d
<1>2. Shape(q) /\ IsLive(q)
  BY <1>1, Zenon DEF Shape, SessionFields, IsLive
<1>. HIDE DEF q
<1>3. Fresh(t)
  BY <1>2, ZenzCleared, OutputShows DEF Fresh, IsLive, NoZenzWork, SameControl
<1>. HIDE DEF t
<1>4. CASE ConversionSucceeds(s, e, allowZenz) = t
  BY <1>3, <1>4, FreshHandled
<1>5. CASE /\ ConversionSucceeds(s, e, allowZenz) = ApplyFeedback(t, e)
           /\ MayApplyFeedback(t, e)
  <2>. DEFINE value == Rewrite(t.liveValue, e.rewrite)
              vis == [value |-> value, mozc |-> t.liveValue, stable |-> 0]
              a == [t EXCEPT !.zenz = NoZenz, !.visible = vis]
  <2>1. value # <<>> /\ vis.value = value /\ vis.mozc = t.liveValue
    BY <1>5 DEF MayApplyFeedback, IsCorrection
  <2>. HIDE DEF vis, value
  <2>2. Handled(a, held)
    BY <1>3, <2>1 DEF Fresh, NoZenzWork, Handled, Good, ZenzIsLive,
       VisibleIsLive, DeferredIsLive, QuestionIsAsked, IsLive, Shape,
       SessionFields, NoZenz
  <2>3. ApplyFeedback(t, e) = OutputZenz(a)
    BY DEF ApplyFeedback, a, vis, value
  <2>. HIDE DEF a
  <2>. QED
    BY <1>5, <2>2, <2>3, OutputShows, SameHandled DEF Handled
<1>6. CASE /\ ConversionSucceeds(s, e, allowZenz) \in {u, v}
           /\ UseLiveConversion
  <2>1. PICK no : no = FALSE
    OBVIOUS
  <2>2. u = ScheduleZenz(t, e, no)
    BY <2>1, Zenon
  <2>3. Asking(u) /\ ZenzCallback(u, u.callback) /\ Handled(u, held)
    BY <1>3, <2>2, Scheduled
  <2>. HIDE DEF u
  <2>4. PICK def : v = OutputDeferred([u EXCEPT !.deferred = def])
    BY Zenon DEF DeferDisplayOf, v
  <2>. DEFINE w == [u EXCEPT !.deferred = def]
  <2>5. Shape(w) /\ Handled(w, held)
    BY <1>6, <2>3 DEF Asking, Handled, Good, ZenzIsLive, VisibleIsLive,
       DeferredIsLive, QuestionIsAsked, IsLive, Shape, SessionFields,
       ZenzOnItsWay, ZenzCallback
  <2>. HIDE DEF w
  <2>6. Handled(OutputDeferred(w), held)
    BY <2>5, OutputShows, SameHandled
  <2>. QED
    BY <1>6, <2>3, <2>4, <2>6 DEF w
<1>7. \/ ConversionSucceeds(s, e, allowZenz) = t
      \/ /\ ConversionSucceeds(s, e, allowZenz) = ApplyFeedback(t, e)
         /\ MayApplyFeedback(t, e)
      \/ /\ ConversionSucceeds(s, e, allowZenz) \in {u, v}
         /\ UseLiveConversion
  <2>1. MayScheduleZenz(t, e, FALSE) => UseLiveConversion
    BY Zenon DEF MayScheduleZenz
  <2>. HIDE DEF u, v
  <2>. QED
    BY <2>1, Zenon DEF ConversionSucceeds, u, v, t, q, d
<1>. QED
  BY <1>4, <1>5, <1>6, <1>7

LEMMA Started ==
  ASSUME NEW s, Shape(s), s.state = "COMPOSITION", NEW e, NEW allowZenz,
         NEW held
  PROVE  Handled(StartLiveConversion(s, e, allowZenz), held)
<1>. DEFINE d == DropPending(s)
            p == [d EXCEPT !.presentation = NoPresentation]
            o == OutputPending(d)
<1>1. Shape(d) /\ ~d.pending /\ d.state = "COMPOSITION"
  BY PendingDropped
<1>. HIDE DEF d
<1>2. Shape(p) /\ ~p.pending /\ p.state = "COMPOSITION"
  BY <1>1 DEF Shape, SessionFields
<1>. HIDE DEF p
<1>3. Shape(o) /\ ~o.pending /\ o.state = "COMPOSITION"
  BY <1>1, OutputShows DEF SameControl
<1>. HIDE DEF o
<1>4. \A t : Shape(t) /\ ~t.pending /\ t.state = "COMPOSITION"
               => Handled(t, held)
  BY DEF Handled
<1>5. Handled(ClearZenz(o), held)
  BY <1>3, <1>4, ZenzCleared
<1>6. Handled(Output(p), held)
  BY <1>2, <1>4, OutputShows DEF SameControl
<1>7. Handled(ConversionFails(s, e), held)
  BY <1>5, <1>6 DEF ConversionFails, o, p, d
<1>. QED
  BY <1>7, Succeeded DEF StartLiveConversion

\* After a key the conversion is made at once, later, or not at all.
LEMMA ScheduledLive ==
  ASSUME NEW s, Idle(s), NEW e, NEW held
  PROVE  Handled(ScheduleLiveConversion(s, e), held)
<1>0. Shape(s)
  BY DEF Idle
<1>1. Handled(Output(s), held)
  BY <1>0, IdleHandled, OutputShows, SameHandled
<1>2. CASE ~UseLiveConversion \/ s.state # "COMPOSITION"
  BY <1>1, <1>2 DEF ScheduleLiveConversion
<1>3. CASE UseLiveConversion /\ s.state = "COMPOSITION"
  <2>. DEFINE c == CancelPending(s)
              t == [s EXCEPT !.pending = TRUE,
                             !.pendingGeneration = e.generation,
                             !.pendingKey = s.key]
              o == OutputPending(t)
              a == AttachDelayedCallback(o)
  <2>1. Idle(c)
    BY <1>0, <1>3, PendingCanceled DEF Idle
  <2>. HIDE DEF c
  <2>2. Handled(Output(c), held)
    BY <2>1, IdleHandled, OutputShows, SameHandled DEF Idle
  <2>3. /\ Shape(t) /\ t.state = "COMPOSITION" /\ t.pendingKey = t.key
    BY <1>0, <1>3 DEF Shape, SessionFields
  <2>. HIDE DEF t
  <2>4. Shape(o) /\ o.state = "COMPOSITION" /\ o.pendingKey = o.key
    BY <2>3, OutputShows DEF SameControl
  <2>. HIDE DEF o
  <2>5. /\ Shape(a) /\ a.state = "COMPOSITION" /\ a.pendingKey = a.key
        /\ LiveCallback(a, a.callback)
    BY <2>4 DEF AttachDelayedCallback, Shape, SessionFields, LiveCallback
  <2>. HIDE DEF a
  <2>6. Handled(a, held)
    BY <2>5 DEF Handled, LiveOnItsWay
  <2>7. PICK yes : yes = TRUE
    OBVIOUS
  <2>8. /\ Handled(StartLiveConversion(s, e, yes), held)
        /\ Handled(StartLiveConversion(t, e, yes), held)
    BY <1>0, <1>3, <2>3, Started
  <2>9. /\ Handled(StartLiveConversion(s, e, TRUE), held)
        /\ Handled(StartLiveConversion(t, e, TRUE), held)
    BY <2>7, <2>8, Zenon
  <2>. QED
    BY <1>3, <2>2, <2>6, <2>9, Zenon DEF ScheduleLiveConversion, a, o, t, c
<1>. QED
  BY <1>2, <1>3
-----------------------------------------------------------------------------
(***************************************************************************)
(* The keys                                                                *)
(***************************************************************************)
LEMMA CharacterInserted ==
  ASSUME NEW s, Shape(s), s.state = "CONVERSION" => Good(s), NEW c, NEW e,
         NEW held
  PROVE  Handled(InsertCharacter(s, c, e), held)
<1>. DEFINE i == InsertInto(s, c)
            n == EnterState(i, "COMPOSITION")
<1>1. Idle(i) /\ ~i.pending
  BY Inserted
<1>. HIDE DEF i
<1>2. Idle(n)
  BY <1>1, Entered DEF Idle, SameWork, NoZenzWork
<1>. HIDE DEF n
<1>3. InsertCharacter(s, c, e) = ScheduleLiveConversion(n, e)
  BY DEF InsertCharacter, n, i
<1>. QED
  BY <1>2, <1>3, ScheduledLive

\* A punctuation mark commits what it follows.
LEMMA PunctuationInserted ==
  ASSUME NEW s, Shape(s), s.state = "CONVERSION" => Good(s), NEW held
  PROVE  Handled(InsertPunctuation(s), held)
<1>. DEFINE i == ComposerInsert(s, ".")
            u == ClearUndo(i)
            t == InsertInto(s, ".")
            p == InsertPunctuation(s)
<1>1. Shape(i)
  BY DEF ComposerInsert, Shape, SessionFields
<1>. HIDE DEF i
<1>2. Shape(u)
  BY <1>1, UndoCleared
<1>. HIDE DEF u
<1>3. Idle(t) /\ Shape(t)
  BY Inserted DEF Idle
<1>. HIDE DEF t
<1>. DEFINE mark == Raw(<<".">>)
            a == CommitPendingDirectly(u)
            b == CommitStringDirectly(ClearLive(t), s.visible.value \o mark)
            d == CommitPendingDirectly(t)
            f == CommitStringDirectly(ClearLive(t), t.liveValue \o mark)
            g == CommitStringDirectly(t, Raw(t.key))
<1>4. p \in {a, b, d, f, g}
  BY Zenon DEF InsertPunctuation, a, b, d, f, g, p, t, u, i
<1>. HIDE DEF p
<1>5. Idle(CommitPendingDirectly(u)) /\ Idle(CommitPendingDirectly(t))
  BY <1>2, <1>3, DisplayCommitted DEF CommitPendingDirectly
<1>6. Idle(b) /\ Idle(f) /\ Idle(g)
  BY <1>3, DisplayCommitted, CommittedDirectly
<1>7. Idle(p)
  BY <1>4, <1>5, <1>6
<1>. QED
  BY <1>7, IdleHandled DEF p

LEMMA Erased ==
  ASSUME NEW s, Idle(s), NEW e, NEW held
  PROVE  Handled(AfterErasing(s, e), held)
<1>. DEFINE n == EnterState(s, "PRECOMPOSITION")
            c == CancelConverter(n)
<1>1. Idle(n)
  BY Entered, SameIdle DEF Idle
<1>. HIDE DEF n
<1>2. Idle(c)
  BY <1>1, ConverterCanceled, SameIdle DEF Idle
<1>. HIDE DEF c
<1>3. Handled(Output(c), held) /\ Handled(Output(s), held)
  BY <1>2, IdleHandled, OutputShows, SameHandled DEF Idle
<1>4. PICK allow : allow = ~(UseZenz /\ DeferDisplay)
  OBVIOUS
<1>5. LiveConversionApplies(s) =>
        Handled(StartLiveConversion(s, e, allow), held)
  BY Started DEF Idle, LiveConversionApplies
<1>6. StartAfterEditing(s, e)
      = IF LiveConversionApplies(s)
        THEN StartLiveConversion(s, e, allow) ELSE Output(s)
  BY <1>4, Zenon DEF StartAfterEditing
<1>7. Handled(StartAfterEditing(s, e), held)
  BY <1>3, <1>5, <1>6, Zenon
<1>. QED
  BY <1>3, <1>7, Zenon DEF AfterErasing, c, n

LEMMA Erasing ==
  ASSUME NEW s, Shape(s), s.state = "CONVERSION" => Good(s), NEW e, NEW held
  PROVE  Handled(Backspace(s, e), held) /\ Handled(Delete(s, e), held)
<1>. DEFINE c == CancelForEditing(s)
            t == ComposerErase(c, s.cursor)
            p == [t EXCEPT !.cursor = IF @ = 0 THEN 0 ELSE @ - 1]
            d == ComposerErase(c, s.cursor + 1)
<1>1. Idle(c)
  BY EditingCancels
<1>. HIDE DEF c
<1>2. Idle(t) /\ Idle(d)
  BY <1>1 DEF ComposerErase, Idle, NoZenzWork, Shape, SessionFields
<1>. HIDE DEF t, d
<1>3. Idle(p)
  BY <1>2 DEF Idle, NoZenzWork, Shape, SessionFields
<1>. HIDE DEF p
<1>4. Idle(ClearUndo(p)) /\ Idle(ClearUndo(d))
  BY <1>2, <1>3, UndoCleared, SameIdle DEF Idle, SameControl, SameWork
<1>. QED
  BY <1>4, Erased DEF Backspace, Delete, p, t, d, c

\* The cursor moves through a composition; what it waits for stays.
LEMMA CursorMoved ==
  ASSUME NEW s, NEW held, Handled(s, held), NEW cursor
  PROVE  Handled(MoveCursor(s, cursor), held)
<1>. DEFINE t == [s EXCEPT !.cursor = cursor]
<1>1. Shape(t) /\ SameControl(s, t)
  BY DEF Handled, Shape, SessionFields, SameControl
<1>. HIDE DEF t
<1>2. Handled(ClearUndo(t), held)
  BY <1>1, SameHandled, UndoCleared
<1>. QED
  BY <1>2, OutputShows, SameHandled DEF MoveCursor, t, Handled

\* What is left of a composition's corrections by the steps before: nothing.
LEMMA NoneInComposition ==
  ASSUME NEW s, Good(s), ~IsLive(s)
  PROVE  NoZenzWork(s) /\ s.visible = NoVisible
BY DEF Good, ZenzIsLive, VisibleIsLive, DeferredIsLive, QuestionIsAsked,
   NoZenzWork, HasDeferred

\* Space and the keys of a transliteration start an ordinary conversion.
LEMMA Converted ==
  ASSUME NEW s, Shape(s), Good(s), s.state = "COMPOSITION", NEW e, NEW held
  PROVE  /\ Handled(Convert(s, e), held)
         /\ Handled(ConvertToTransliteration(s), held)
<1>. DEFINE c == CancelPending(s)
            t == [c EXCEPT !.state = "CONVERSION",
                           !.conversion = Write(s.key, "mozc")]
            u == [s EXCEPT !.state = "CONVERSION",
                           !.conversion = Write(s.key, "chosen")]
<1>1. NoZenzWork(s) /\ s.visible = NoVisible
  BY NoneInComposition DEF IsLive
<1>2. Idle(c) /\ c.visible = NoVisible
  BY <1>1, PendingCanceled DEF Idle
<1>. HIDE DEF c
<1>3. Idle(t) /\ Idle(u)
  BY <1>1, <1>2 DEF Idle, NoZenzWork, Shape, SessionFields
<1>. HIDE DEF t, u
<1>4. /\ Handled(Output(c), held) /\ Handled(Output(t), held)
      /\ Handled(Output(u), held)
  BY <1>2, <1>3, IdleHandled, OutputShows, SameHandled DEF Idle
<1>. QED
  BY <1>4 DEF Convert, ConvertToTransliteration, t, c, u

\* An explicit command on a conversion leaves no correction of it.
LEMMA Promoted ==
  ASSUME NEW s, Shape(s), Good(s), s.state = "CONVERSION"
  PROVE  LET t == Promote(s)
         IN  Idle(t) /\ Good(t)
<1>. DEFINE c == ClearZenz(s)
            q == [c EXCEPT !.active = FALSE, !.fromComposition = FALSE]
<1>1. Shape(c) /\ NoZenzWork(c) /\ c.visible = NoVisible
      /\ c.state = "CONVERSION"
  BY ZenzCleared
<1>. HIDE DEF c
<1>2. Idle(q)
  BY <1>1 DEF Idle, NoZenzWork, Shape, SessionFields
<1>. HIDE DEF q
<1>3. ~s.active => Idle(s)
  BY NoneInComposition DEF IsLive, Idle
<1>4. Promote(s) = IF s.active THEN q ELSE s
  BY DEF Promote, q, c
<1>5. q.visible = NoVisible
  BY <1>1 DEF q, Shape, SessionFields
<1>6. Good(q)
  BY <1>2, <1>5 DEF Idle, NoZenzWork, Good, ZenzIsLive, VisibleIsLive,
     DeferredIsLive, QuestionIsAsked
<1>. QED
  BY <1>2, <1>3, <1>4, <1>6

LEMMA Chosen ==
  ASSUME NEW s, Idle(s), NEW held
  PROVE  Handled(Choose(s), held)
<1>1. PICK text : Choose(s) = Output([s EXCEPT !.conversion = text])
  BY DEF Choose
<1>. DEFINE t == [s EXCEPT !.conversion = text]
<1>2. Idle(t)
  BY DEF Idle, NoZenzWork, Shape, SessionFields
<1>. HIDE DEF t
<1>. QED
  BY <1>1, <1>2, IdleHandled, OutputShows, SameHandled DEF t, Idle

LEMMA SegmentCommitted ==
  ASSUME NEW s, Idle(s), NEW held
  PROVE  Handled(CommitSegment(s), held)
<1>. DEFINE first == Min(Ends(s.conversion))
            p == PushUndo(s)
            t == [p EXCEPT !.result = SubSeq(s.conversion, 1, first),
                           !.conversion = SubSeq(@, first + 1, Len(@))]
            rest == [t EXCEPT !.key = SubSeq(@, first + 1, Len(@)),
                              !.cursor = IF @ < first THEN 0 ELSE @ - first]
            n == EnterState(t, "PRECOMPOSITION")
<1>1. Idle(p)
  BY UndoPushed, SameIdle DEF Idle
<1>. HIDE DEF p
<1>2. Idle(t)
  BY <1>1 DEF Idle, NoZenzWork, Shape, SessionFields
<1>. HIDE DEF t
<1>3. Idle(rest)
  BY <1>2 DEF Idle, NoZenzWork, Shape, SessionFields
<1>. HIDE DEF rest
<1>4. Idle(n)
  BY <1>2, Entered, SameIdle DEF Idle
<1>. HIDE DEF n
<1>5. Idle(Output(rest)) /\ Idle(Output(n))
  BY <1>3, <1>4, OutputShows, SameIdle DEF SameControl, SameWork, Idle
<1>6. Idle(RememberResult(Output(rest))) /\ Idle(RememberResult(Output(n)))
  BY <1>5, ResultRemembered, SameIdle DEF Idle
<1>7. CommitSegment(s) \in {RememberResult(Output(rest)),
                            RememberResult(Output(n))}
  BY Zenon DEF CommitSegment, rest, n, t, p
<1>. QED
  BY <1>6, <1>7, IdleHandled

\* Leaving a conversion for its composition, or for the conversion itself.
LEMMA ConversionLeft ==
  ASSUME NEW s, Shape(s), NEW held
  PROVE  /\ Handled(ConvertCancel(s), held)
         /\ Handled(RevealDeferred(s), held)
         /\ Handled(RevertZenz(s), held)
<1>. DEFINE c == ClearLive(s)
            n == EnterState(c, "COMPOSITION")
            d == CancelConverter(n)
            p == CancelPending(s)
            z == ClearZenz(p)
<1>1. Idle(c) /\ ~c.pending
  BY LiveCleared
<1>. HIDE DEF c
<1>2. Idle(n) /\ ~n.pending
  BY <1>1, Entered DEF Idle, SameWork, NoZenzWork
<1>. HIDE DEF n
<1>3. Idle(d)
  BY <1>2, ConverterCanceled, SameIdle DEF Idle
<1>. HIDE DEF d
<1>4. Shape(p) /\ ~p.pending
  BY PendingCanceled
<1>. HIDE DEF p
<1>5. Idle(z)
  BY <1>4, ZenzCleared DEF Idle
<1>. HIDE DEF z
<1>6. Handled(Output(d), held)
  BY <1>3, IdleHandled, OutputShows, SameHandled DEF Idle
<1>7. \A t : Idle(t) => Handled([t EXCEPT !.preedit = s.liveValue], held)
  BY IdleHandled, Shown, SameHandled DEF Idle
<1>. QED
  BY <1>1, <1>5, <1>6, <1>7 DEF ConvertCancel, RevealDeferred, RevertZenz,
     d, n, c, z, p

\* The user asks for a correction of a conversion.
LEMMA CorrectionAskedFor ==
  ASSUME NEW s, Shape(s), s.state = "CONVERSION", NEW e, NEW wasLive,
         NEW fromComposition, NEW held
  PROVE  Handled(AskForCorrection(s, e, wasLive, fromComposition), held)
<1>. DEFINE c == ClearZenz(s)
            q == [c EXCEPT !.active = TRUE,
                           !.fromComposition = fromComposition,
                           !.liveValue = s.conversion]
            t == Output(q)
<1>1. Shape(c) /\ NoZenzWork(c) /\ c.visible = NoVisible
      /\ c.state = "CONVERSION"
  BY ZenzCleared
<1>. HIDE DEF c
<1>2. Shape(q) /\ NoZenzWork(q) /\ q.visible = NoVisible /\ IsLive(q)
  BY <1>1, Zenon DEF NoZenzWork, Shape, SessionFields, IsLive
<1>. HIDE DEF q
<1>3. Fresh(t)
  BY <1>2, OutputShows DEF Fresh, IsLive, NoZenzWork, SameControl
<1>. HIDE DEF t
<1>4. PICK yes : yes = TRUE
  OBVIOUS
<1>5. Handled(ScheduleZenz(t, e, yes), held)
  BY <1>3, Scheduled
<1>6. Handled(ScheduleZenz(t, e, TRUE), held)
  BY <1>4, <1>5, Zenon
<1>7. Handled(t, held) /\ Handled(ClearLive(t), held)
  BY <1>3, FreshHandled, LiveCleared, IdleHandled DEF Fresh
<1>8. AskForCorrection(s, e, wasLive, fromComposition)
        \in {ScheduleZenz(t, e, TRUE), t, ClearLive(t)}
  BY Zenon DEF AskForCorrection, t, q, c
<1>. QED
  BY <1>6, <1>7, <1>8, Zenon

LEMMA CorrectionForced ==
  ASSUME NEW s, NEW held, Handled(s, held), NEW e, NEW withoutFeedback
  PROVE  Handled(ForceZenz(s, e, withoutFeedback), held)
<1>. DEFINE from == \/ s.active /\ s.fromComposition
                    \/ s.pending /\ UseLiveConversion
            t == CancelPending(s)
            c == [t EXCEPT !.state = "CONVERSION",
                           !.conversion = Write(s.key, "mozc")]
            r == ForceZenz(s, e, withoutFeedback)
<1>1. Shape(s) /\ Shape(t) /\ ~t.pending /\ NoZenzWork(t)
      /\ t.state = s.state
  BY PendingCanceled DEF Handled
<1>. HIDE DEF t
<1>2. Shape(c) /\ c.state = "CONVERSION"
  BY <1>1 DEF Shape, SessionFields
<1>. HIDE DEF c
<1>3. \/ r = AskForCorrection(s, e, s.active, from) /\ s.state = "CONVERSION"
      \/ r = AskForCorrection(c, e, s.active, from)
      \/ r = DoNothing(t) /\ s.state = "COMPOSITION"
      \/ r = DoNothing(s)
  BY Zenon DEF ForceZenz, r, c, t, from
<1>. HIDE DEF r
<1>4. PICK live, origin : live = s.active /\ origin = from
  OBVIOUS
<1>5. /\ Handled(AskForCorrection(c, e, live, origin), held)
      /\ s.state = "CONVERSION" =>
           Handled(AskForCorrection(s, e, live, origin), held)
  BY <1>1, <1>2, CorrectionAskedFor
<1>6. /\ Handled(AskForCorrection(c, e, s.active, from), held)
      /\ s.state = "CONVERSION" =>
           Handled(AskForCorrection(s, e, s.active, from), held)
  BY <1>4, <1>5, Zenon
<1>7. Handled(DoNothing(s), held)
  BY <1>1, OutputShows, SameHandled DEF DoNothing
<1>8. s.state = "COMPOSITION" => Idle(t)
  BY <1>1 DEF Idle
<1>9. s.state = "COMPOSITION" => Handled(DoNothing(t), held)
  BY <1>1, <1>8, IdleHandled, OutputShows, SameHandled DEF DoNothing
<1>10. Handled(r, held)
  BY <1>3, <1>6, <1>7, <1>9, Zenon
<1>. QED
  BY <1>10 DEF r
-----------------------------------------------------------------------------
(***************************************************************************)
(* Leaving and coming back                                                 *)
(***************************************************************************)
LEMMA Abandoned ==
  ASSUME NEW s, Shape(s), NEW held
  PROVE  Handled(Abandon(s), held)
<1>. DEFINE n == EnterState(s, "PRECOMPOSITION")
            c == CancelConverter(n)
            l == ClearLive(c)
<1>1. Shape(n)
  BY Entered
<1>. HIDE DEF n
<1>2. Shape(c)
  BY <1>1, ConverterCanceled
<1>. HIDE DEF c
<1>3. Idle(l)
  BY <1>2, LiveCleared
<1>. HIDE DEF l
<1>. QED
  BY <1>3, IdleHandled, OutputShows, SameHandled DEF Abandon, l, c, n, Idle

LEMMA TurnedOn ==
  ASSUME NEW s, Shape(s), NEW held
  PROVE  Handled(IMEOn(s), held)
<1>. DEFINE u == ClearUndo(s)
<1>1. Shape(u)
  BY UndoCleared
<1>. HIDE DEF u
<1>2. Shape(IMEOn(s)) /\ IMEOn(s).state = "PRECOMPOSITION"
  BY <1>1, Entered DEF IMEOn, u
<1>. QED
  BY <1>2 DEF Handled

\* Turning the IME off commits first.
LEMMA TurnedOff ==
  ASSUME NEW s, NEW held, Handled(s, held), Good(s), NEW e
  PROVE  Handled(IMEOff(s, e), held)
<1>. DEFINE t == IF HasDeferred(s) \/ HasVisibleZenz(s) THEN s
                 ELSE IF s.state = "CONVERSION" THEN Promote(s) ELSE s
            u == ClearUndo(t)
            c == Commit(u, e)
            n == EnterState(c, "DIRECT")
            o == CancelConverter(n)
<1>1. Handled(t, held) /\ Good(t)
  BY Promoted, IdleHandled DEF Handled
<1>. HIDE DEF t
<1>2. Shape(u) /\ SameControl(t, u)
  BY <1>1, UndoCleared DEF Handled
<1>3. Handled(u, held) /\ Good(u)
  BY <1>1, <1>2, SameHandled DEF SameControl, Good, ZenzIsLive, VisibleIsLive,
     DeferredIsLive, QuestionIsAsked, IsLive
<1>. HIDE DEF u
<1>4. Shape(c)
  BY <1>3, Entering DEF Handled
<1>. HIDE DEF c
<1>5. Shape(n) /\ n.state = "DIRECT"
  BY <1>4, Entered
<1>. HIDE DEF n
<1>6. Shape(o) /\ o.state = "DIRECT"
  BY <1>5, ConverterCanceled
<1>. HIDE DEF o
<1>7. IMEOff(s, e) = o
  BY Zenon DEF IMEOff, o, n, c, u, t
<1>. QED
  BY <1>6, <1>7 DEF Handled

\* A pending display that Undo brings back waits for a callback of its own.
LEMMA Undone ==
  ASSUME NEW s, NEW held, Handled(s, held), NEW e
  PROVE  Handled(Undo(s, e), held)
<1>0. Shape(s)
  BY DEF Handled
<1>1. Handled(DoNothing(s), held)
  BY <1>0, OutputShows, SameHandled DEF DoNothing
<1>2. CASE s.undo = <<>>
  BY <1>1, <1>2 DEF Undo
<1>3. CASE s.undo # <<>>
  <2>. DEFINE t == PopUndo(s, e)
              c == CancelPending(t)
              o == OutputPending(t)
              a == AttachDelayedCallback(o)
  <2>1. /\ Shape(t) /\ NoZenzWork(t) /\ t.visible = NoVisible
        /\ t.pending => t.pendingKey = t.key
    BY <1>0, <1>3, UndoPopped
  <2>. HIDE DEF t
  <2>2. Handled(Output(c), held)
    <3>1. Idle(c)
      BY <2>1, PendingCanceled DEF Idle
    <3>. HIDE DEF c
    <3>. QED
      BY <3>1, IdleHandled, OutputShows, SameHandled DEF Idle
  <2>3. ~t.pending => Handled(Output(t), held)
    <3>. SUFFICES ASSUME ~t.pending PROVE Handled(Output(t), held)
      OBVIOUS
    <3>1. Idle(t)
      BY <2>1 DEF Idle
    <3>. QED
      BY <3>1, IdleHandled, OutputShows, SameHandled DEF Idle
  <2>4. t.pending => Handled(a, held)
    <3>1. /\ Shape(o) /\ NoZenzWork(o) /\ o.visible = NoVisible
          /\ o.pending => o.pendingKey = o.key
      BY <2>1, OutputShows DEF SameControl, NoZenzWork
    <3>. HIDE DEF o
    <3>2. /\ Shape(a) /\ NoZenzWork(a) /\ a.visible = NoVisible
          /\ a.pending => a.pendingKey = a.key
          /\ LiveCallback(a, a.callback)
      BY <3>1 DEF AttachDelayedCallback, Shape, SessionFields, NoZenzWork,
         LiveCallback
    <3>. QED
      BY <3>2 DEF Handled, LiveOnItsWay, NoZenzWork, Good, ZenzIsLive,
         VisibleIsLive, DeferredIsLive, QuestionIsAsked
  <2>5. \/ Undo(s, e) \in {DoNothing(s), Output(c)}
        \/ Undo(s, e) = Output(t) /\ ~t.pending
        \/ Undo(s, e) = a /\ t.pending
    <3>. HIDE DEF c
    <3>. QED
      BY Zenon DEF Undo, t, o, a, c
  <2>. QED
    BY <1>1, <2>2, <2>3, <2>4, <2>5
<1>. QED
  BY <1>2, <1>3
-----------------------------------------------------------------------------
(***************************************************************************)
(* The callbacks                                                           *)
(***************************************************************************)

\* One that comes too late only redraws.
LEMMA StaleIgnored ==
  ASSUME NEW s, NEW held, Handled(s, held)
  PROVE  Handled(IgnoreStale(s), held)
<1>1. Shape(s)
  BY DEF Handled
<1>2. IgnoreStale(s) \in {OutputZenz(s), OutputWithZenzPending(s),
                          OutputPending(s), s}
  BY Zenon DEF IgnoreStale
<1>3. Shape(IgnoreStale(s)) /\ SameControl(s, IgnoreStale(s))
  BY <1>1, <1>2, OutputShows DEF SameControl
<1>. QED
  BY <1>3, SameHandled

\* The delayed conversion is made or given up.
LEMMA DelayedApplied ==
  ASSUME NEW s, Shape(s), NEW c, IsCurrentLiveCallback(s, c), NEW e, NEW held
  PROVE  Handled(ApplyDelayedLiveConversion(s, c, e), held)
<1>. DEFINE p == CancelPending(s)
            short == ~(Len(s.key) >= MinKeyLength /\ CursorAtEnd(s))
<1>1. Idle(p)
  BY PendingCanceled DEF Idle, IsCurrentLiveCallback
<1>. HIDE DEF p
<1>2. Handled(Output(p), held)
  BY <1>1, IdleHandled, OutputShows, SameHandled DEF Idle
<1>3. PICK yes : yes = TRUE
  OBVIOUS
<1>4. Handled(StartLiveConversion(s, e, yes), held)
  BY Started DEF IsCurrentLiveCallback
<1>5. Handled(StartLiveConversion(s, e, TRUE), held)
  BY <1>3, <1>4, Zenon
<1>6. ~short => LiveConversionApplies(s)
  BY Zenon DEF IsCurrentLiveCallback, Shape, LiveConversionApplies
<1>7. ApplyDelayedLiveConversion(s, c, e)
        \in {Output(p), StartLiveConversion(s, e, TRUE)}
  BY <1>6, Zenon DEF ApplyDelayedLiveConversion, p
<1>. QED
  BY <1>2, <1>5, <1>7, Zenon

\* OutputCurrentLiveConversionAfterZenzStop gives the question up.
LEMMA Stopped ==
  ASSUME NEW s, Asking(s), NEW held
  PROVE  Handled(StopZenz(s), held)
<1>. DEFINE c == CancelPendingZenz(s)
<1>1. /\ Shape(c) /\ NoZenzWork(c)
      /\ c.state = s.state /\ c.visible = s.visible
      /\ c.active = s.active /\ c.liveValue = s.liveValue
  BY ZenzCanceled DEF Asking
<1>. HIDE DEF c
<1>2. Handled(c, held)
  BY <1>1 DEF Asking, NoZenzWork, IsLive, Handled, Good, ZenzIsLive,
     VisibleIsLive, DeferredIsLive, QuestionIsAsked
<1>. QED
  BY <1>1, <1>2, OutputShows, SameHandled DEF StopZenz, c

\* ApplyZenzLiveCorrectionResult makes the answer visible.
LEMMA Adopted ==
  ASSUME NEW s, Asking(s), s.corrector.status = "none",
         NEW value, value # <<>>, NEW held
  PROVE  Handled(AdoptZenz(s, value), held)
<1>1. PICK stable, kept :
        AdoptZenz(s, value)
        = OutputZenz([s EXCEPT !.visible = [value |-> value,
                                            mozc |-> s.zenz.mozc,
                                            stable |-> stable],
                               !.zenz = NoZenz, !.presentation = kept,
                               !.deferred = NoDeferred])
  BY Zenon DEF AdoptZenz
<1>. DEFINE v == [value |-> value, mozc |-> s.zenz.mozc, stable |-> stable]
            t == [s EXCEPT !.visible = v, !.zenz = NoZenz,
                           !.presentation = kept, !.deferred = NoDeferred]
<1>2. v.value # <<>> /\ v.mozc = s.zenz.mozc
  OBVIOUS
<1>3. AdoptZenz(s, value) = OutputZenz(t)
  BY <1>1
<1>. HIDE DEF v
<1>4. /\ Shape(t) /\ NoZenzWork(t) /\ t.visible = v /\ IsLive(t)
      /\ t.liveValue = s.zenz.mozc
  BY DEF Asking, Shape, SessionFields, NoZenzWork, NoZenz, NoDeferred, IsLive
<1>. HIDE DEF t
<1>5. Handled(t, held)
  BY <1>2, <1>4 DEF NoZenzWork, IsLive, Handled, Good, ZenzIsLive,
     VisibleIsLive, DeferredIsLive, QuestionIsAsked
<1>. QED
  BY <1>3, <1>4, <1>5, OutputShows, SameHandled

LEMMA AskingShown ==
  ASSUME NEW s, Asking(s), NEW t, SameControl(s, t), Shape(t)
  PROVE  Asking(t)
BY DEF Asking, SameControl, IsLive, VisibleIsLive, QuestionIsAsked

\* AdvancePendingZenzLiveCorrection asks, waits on, adopts or gives up.
LEMMA Advanced ==
  ASSUME NEW s, Asking(s), NEW e, NEW held
  PROVE  Handled(AdvanceZenz(s, e), held)
<1>. DEFINE value == Rewrite(s.zenz.mozc, e.rewrite)
            q == SubmitZenz(s)
            a == OutputWithZenzPending(q)
            t == [s EXCEPT !.corrector = NoQuestion]
            p == [s EXCEPT !.zenz.polls = @ + 1]
            w == OutputWithZenzPending(p)
<1>1. Asking(q)
  BY Submitted
<1>. HIDE DEF q
<1>2. Asking(a)
  BY <1>1, AskingShown, OutputShows DEF Asking
<1>. HIDE DEF a
<1>3. Handled(AttachZenzCallback(a), held)
  BY <1>2, Attached
<1>4. Asking(t) /\ t.corrector.status = "none" /\ t.zenz = s.zenz
  BY DEF Asking, Shape, SessionFields, NoQuestion, IsLive, VisibleIsLive,
     QuestionIsAsked
<1>. HIDE DEF t
<1>5. Asking(p)
  BY DEF Asking, Shape, SessionFields, NoZenz, IsLive, VisibleIsLive,
     QuestionIsAsked
<1>. HIDE DEF p
<1>6. Asking(w)
  BY <1>5, AskingShown, OutputShows DEF Asking
<1>. HIDE DEF w
<1>7. Handled(PollZenz(s), held)
  <2>1. PollZenz(s) \in {StopZenz(p), AttachZenzCallback(w)}
    BY Zenon DEF PollZenz, w, p
  <2>. QED
    BY <1>5, <1>6, <2>1, Stopped, Attached
<1>8. Handled(StopZenz(s), held) /\ Handled(StopZenz(t), held)
  BY <1>4, Stopped
<1>9. IsCorrection(value, s.zenz.mozc) => Handled(AdoptZenz(t, value), held)
  <2>. HIDE DEF value
  <2>. QED
    BY <1>4, Adopted DEF IsCorrection
<1>10. \/ AdvanceZenz(s, e) \in {AttachZenzCallback(a), StopZenz(s),
                                 StopZenz(t), PollZenz(s)}
       \/ /\ AdvanceZenz(s, e) = AdoptZenz(t, value)
          /\ IsCorrection(value, s.zenz.mozc)
  BY Zenon DEF AdvanceZenz, a, q, t, value
<1>. QED
  BY <1>3, <1>7, <1>8, <1>9, <1>10, Zenon

\* The client sends a callback back: one of those it held, and the others are
\* still on their way.
LEMMA OthersOnTheirWay ==
  ASSUME NEW held, IsSeq(held), NEW i \in DOMAIN held
  PROVE  /\ IsSeq(RemoveAt(held, i))
         /\ \A j \in DOMAIN held \ {i} :
              \E k \in DOMAIN RemoveAt(held, i) :
                RemoveAt(held, i)[k] = held[j]
<1>1. PICK S : held \in Seq(S)
  BY DEF IsSeq
<1>. DEFINE l == SubSeq(held, 1, i - 1)
            r == SubSeq(held, i + 1, Len(held))
            n == Len(held)
<1>2. n \in Nat /\ i \in 1..n /\ DOMAIN held = 1..n
  BY <1>1
<1>3. l \in Seq(S) /\ Len(l) = i - 1 /\ \A k \in 1..i - 1 : l[k] = held[k]
  BY <1>1, <1>2
<1>4. r \in Seq(S) /\ Len(r) = n - i /\ \A k \in 1..n - i : r[k] = held[i + k]
  <2>1. i + 1 \in Int /\ n \in Int /\ \A k \in i + 1 .. n : held[k] \in S
    BY <1>1, <1>2
  <2>. HIDE DEF n
  <2>2. \A k \in 1..n - (i + 1) + 1 :
          SubSeq(held, i + 1, n)[k] = held[(i + 1) + k - 1]
    BY <2>1, SubSeqProperties
  <2>3. \A k \in 1..n - i : SubSeq(held, i + 1, n)[k] = held[i + k]
    BY <1>2, <2>2
  <2>. QED
    BY <1>1, <1>2, <2>3 DEF n
<1>. DEFINE lr == l \o r
<1>. HIDE DEF l, r, n
<1>5. /\ lr \in Seq(S) /\ DOMAIN lr = 1..n - 1
      /\ \A k \in 1..n - 1 : lr[k] = IF k < i THEN l[k] ELSE r[k - (i - 1)]
  <2>1. /\ lr \in Seq(S) /\ Len(lr) = Len(l) + Len(r)
        /\ \A k \in 1..Len(l) + Len(r) :
             lr[k] = IF k <= Len(l) THEN l[k] ELSE r[k - Len(l)]
    BY <1>3, <1>4, ConcatProperties
  <2>2. Len(l) + Len(r) = n - 1 /\ i \in Int /\ n \in Int
    BY <1>2, <1>3, <1>4
  <2>3. DOMAIN lr = 1..Len(lr)
    BY <2>1
  <2>. HIDE DEF lr
  <2>4. \A k \in 1..n - 1 : lr[k] = IF k < i THEN l[k] ELSE r[k - (i - 1)]
    BY <1>3, <2>1, <2>2
  <2>. QED
    BY <2>1, <2>2, <2>3, <2>4
<1>. HIDE DEF lr
<1>6. ASSUME NEW j \in DOMAIN held \ {i}
      PROVE  \E k \in DOMAIN lr : lr[k] = held[j]
  <2>1. j \in 1..n /\ j # i /\ i \in 1..n /\ n \in Nat
    BY <1>2
  <2>2. CASE j < i
    <3>1. j \in 1..n - 1 /\ j \in 1..i - 1
      BY <2>1, <2>2
    <3>2. lr[j] = held[j]
      BY <1>3, <1>5, <2>2, <3>1
    <3>. QED
      BY <1>5, <3>1, <3>2
  <2>3. CASE j > i
    <3>1. /\ j - 1 \in 1..n - 1 /\ ~(j - 1 < i)
          /\ (j - 1) - (i - 1) = j - i
          /\ j - i \in 1..n - i /\ i + (j - i) = j
      BY <2>1, <2>3
    <3>2. lr[j - 1] = r[j - i] /\ r[j - i] = held[j]
      BY <1>4, <1>5, <3>1
    <3>. QED
      BY <1>5, <3>1, <3>2
  <2>. QED
    BY <2>1, <2>2, <2>3
<1>7. RemoveAt(held, i) = lr
  BY DEF RemoveAt, lr, l, r, n
<1>. QED
  BY <1>5, <1>6, <1>7 DEF IsSeq

LEMMA Kept ==
  ASSUME NEW held, IsSeq(held), NEW callback
  PROVE  LET next == Post(held, callback)
         IN  /\ IsSeq(next)
             /\ callback = NoCallback => next = held
             /\ callback # NoCallback =>
                  \E k \in DOMAIN next : next[k] = callback
<1>. DEFINE room == IF Len(held) >= MaxTimers THEN Tail(held) ELSE held
<1>1. PICK S : held \in Seq(S)
  BY DEF IsSeq
<1>2. MaxTimers \in Nat \ {0}
  BY BoundsAssumption
<1>3. room \in Seq(S)
  BY <1>1, <1>2
<1>. HIDE DEF room
<1>. DEFINE T == S \cup {callback}
            a == Append(room, callback)
<1>4. room \in Seq(T) /\ callback \in T
  BY <1>3
<1>. HIDE DEF T
<1>5. a \in Seq(T) /\ Len(room) + 1 \in DOMAIN a
      /\ a[Len(room) + 1] = callback
  BY <1>4
<1>6. Post(held, callback) = IF callback = NoCallback THEN held ELSE a
  BY DEF Post, a, room
<1>. QED
  BY <1>5, <1>6 DEF IsSeq
-----------------------------------------------------------------------------
(***************************************************************************)
(* The steps                                                               *)
(***************************************************************************)

\* What a handler starts from is what the step before left.
LEMMA BeginsAsItEnded ==
  ASSUME Inv
  PROVE  /\ Shape(Before) /\ SameControl(session, Before)
         /\ Handled(Before, timers) /\ Good(Before)
<1>1. Shape(Before) /\ SameControl(session, Before)
  BY DEF Inv, Before, NewOutput, Handled, Shape, SessionFields, SameControl
<1>2. Handled(Before, timers)
  BY <1>1, SameHandled DEF Inv
<1>. QED
  BY <1>1, <1>2 DEF Inv, Good, ZenzIsLive, VisibleIsLive, DeferredIsLive,
     QuestionIsAsked, IsLive, SameControl

\* The end of SendKey and SendCommand, and the client that takes the callback:
\* whatever it drops to make room, the last one it was given is there.
LEMMA Responded ==
  ASSUME NEW s, NEW held, IsSeq(held), Handled(s, held), Respond(s, held)
  PROVE  Inv'
<1>. DEFINE q == [s EXCEPT !.active = FALSE, !.fromComposition = FALSE]
            t == Settle(s)
            d == Deliver(t)
            f == [d EXCEPT !.callback = NoCallback]
<1>0. Shape(s)
  BY DEF Handled
<1>1. /\ Shape(q) /\ q.state = s.state /\ q.pending = s.pending
      /\ q.key = s.key /\ q.pendingKey = s.pendingKey
      /\ q.callback = s.callback /\ q.pendingGeneration = s.pendingGeneration
  BY <1>0 DEF Shape, SessionFields
<1>. HIDE DEF q
<1>2. Handled(t, held) /\ Good(t) /\ t.callback = s.callback
  <2>1. CASE s.state = "CONVERSION"
    BY <2>1 DEF Settle, Handled
  <2>2. CASE s.state # "CONVERSION"
    <3>1. t = ClearZenz(q)
      BY <2>2 DEF Settle, q
    <3>. HIDE DEF t
    <3>2. /\ Shape(t) /\ NoZenzWork(t) /\ t.visible = NoVisible
          /\ t.state = s.state /\ t.pending = s.pending /\ t.key = s.key
          /\ t.pendingKey = s.pendingKey /\ t.callback = s.callback
          /\ t.pendingGeneration = s.pendingGeneration
      BY <1>1, <3>1, ZenzCleared
    <3>. QED
      BY <2>2, <3>2 DEF Handled, NoZenzWork, Good, ZenzIsLive, VisibleIsLive,
         DeferredIsLive, QuestionIsAsked, LiveOnItsWay, LiveCallback
  <2>. QED
    BY <2>1, <2>2
<1>. HIDE DEF t
<1>3. Shape(d) /\ SameControl(t, d)
  <2>1. CASE t.undo = <<>>
    BY <1>2, <2>1 DEF Deliver, Handled, SameControl
  <2>2. CASE t.undo # <<>>
    <3>. DEFINE u == t.undo
                n == u[Len(u)].delivered + Len(t.result)
                w == [u EXCEPT ![Len(u)].delivered = n]
    <3>1. Stack(w)
      BY <1>2, <2>2, Counted DEF Handled, Shape
    <3>2. d = [t EXCEPT !.undo = w]
      BY <1>2, <2>2 DEF Deliver, Handled, Shape, SessionFields
    <3>. HIDE DEF w, d
    <3>. QED
      BY <1>2, <3>1, <3>2 DEF Handled, Shape, SessionFields, SameControl
  <2>. QED
    BY <2>1, <2>2
<1>. HIDE DEF d
<1>4. Handled(d, held) /\ Good(d) /\ d.callback = s.callback
  <2>1. Handled(d, held)
    BY <1>2, <1>3, SameHandled
  <2>. QED
    BY <1>2, <1>3, <2>1 DEF SameControl, Good, ZenzIsLive, VisibleIsLive,
       DeferredIsLive, QuestionIsAsked, IsLive
<1>5. /\ Shape(f) /\ f.callback = NoCallback
      /\ f.state = d.state /\ f.key = d.key /\ f.active = d.active
      /\ f.pending = d.pending /\ f.pendingGeneration = d.pendingGeneration
      /\ f.pendingKey = d.pendingKey /\ f.liveValue = d.liveValue
      /\ f.zenz = d.zenz /\ f.visible = d.visible /\ f.deferred = d.deferred
      /\ f.corrector = d.corrector
  BY <1>4 DEF Handled, Shape, SessionFields
<1>6. session' = f /\ timers' = Post(held, s.callback)
  BY DEF Respond, f, d, t
<1>. HIDE DEF f
<1>7. /\ IsSeq(timers')
      /\ s.callback = NoCallback => timers' = held
      /\ s.callback # NoCallback =>
           \E k \in DOMAIN timers' : timers'[k] = s.callback
  BY <1>6, Kept
<1>8. Good(f)
  BY <1>4, <1>5 DEF Good, ZenzIsLive, VisibleIsLive, DeferredIsLive,
     QuestionIsAsked, IsLive
<1>9. LiveOnItsWay(d, held) => LiveOnItsWay(f, timers')
  BY <1>4, <1>5, <1>7 DEF LiveOnItsWay, LiveCallback, NoCallback
<1>10. ZenzOnItsWay(d, held) => ZenzOnItsWay(f, timers')
  BY <1>4, <1>5, <1>7 DEF ZenzOnItsWay, ZenzCallback, NoCallback
<1>11. Handled(f, timers')
  BY <1>4, <1>5, <1>8, <1>9, <1>10 DEF Handled
<1>12. Handled(session, timers)' /\ Good(session)'
  BY <1>6, <1>8, <1>11 DEF Handled, Shape, LiveOnItsWay, ZenzOnItsWay,
     LiveCallback, ZenzCallback, Good, ZenzIsLive, VisibleIsLive,
     DeferredIsLive, QuestionIsAsked, IsLive
<1>. QED
  BY <1>5, <1>6, <1>7, <1>12 DEF Inv

\* Each key's handler leaves what it waits for on its way.
LEMMA UserStep ==
  ASSUME Inv, UserActs
  PROVE  Inv'
<1>. DEFINE b == Before
<1>1. /\ Shape(b) /\ Handled(b, timers) /\ Good(b) /\ IsSeq(timers)
      /\ b.state = session.state
  BY BeginsAsItEnded DEF Inv, SameControl
<1>. HIDE DEF b
<1>2. \A s : Handled(s, timers) /\ Handle(s) => Inv'
  BY <1>1, Responded DEF Handle
<1>3. ASSUME TypeCharacter PROVE Inv'
  BY <1>1, <1>2, <1>3, CharacterInserted DEF TypeCharacter, b
<1>4. ASSUME TypePunctuation PROVE Inv'
  BY <1>1, <1>2, <1>4, PunctuationInserted DEF TypePunctuation, b
<1>5. ASSUME BackspaceKey PROVE Inv'
  BY <1>1, <1>2, <1>5, Erasing, ConversionLeft DEF BackspaceKey, b
<1>6. ASSUME DeleteKey PROVE Inv'
  BY <1>1, <1>2, <1>6, Erasing DEF DeleteKey, b
<1>7. ASSUME MoveCursorKey PROVE Inv'
  BY <1>1, <1>2, <1>7, CursorMoved DEF MoveCursorKey, b
<1>8. Converting => Handled(Choose(Promote(b)), timers)
                    /\ Handled(CommitSegment(Promote(b)), timers)
  BY <1>1, Promoted, Chosen, SegmentCommitted DEF Converting
<1>9. ASSUME SpaceKey PROVE Inv'
  BY <1>1, <1>2, <1>8, <1>9, Converted, ConversionLeft
  DEF SpaceKey, Composing, b
<1>10. ASSUME TransliterationKey PROVE Inv'
  BY <1>1, <1>2, <1>8, <1>10, Converted DEF TransliterationKey, Composing, b
<1>11. ASSUME CommitSegmentKey PROVE Inv'
  BY <1>2, <1>8, <1>11 DEF CommitSegmentKey, b
<1>12. ASSUME ForceZenzKey PROVE Inv'
  BY <1>1, <1>2, <1>12, CorrectionForced DEF ForceZenzKey, b
<1>13. ASSUME CancelKey PROVE Inv'
  BY <1>1, <1>2, <1>13, Abandoned, ConversionLeft DEF CancelKey, b
<1>14. Handled(DoNothing(b), timers)
  BY <1>1, OutputShows, SameHandled DEF DoNothing
<1>15. ASSUME UnboundKey PROVE Inv'
  BY <1>2, <1>14, <1>15 DEF UnboundKey, b
<1>16. ASSUME EnterKey PROVE Inv'
  BY <1>1, <1>2, <1>16, Entering DEF EnterKey, b
<1>17. ASSUME ResetContext PROVE Inv'
  BY <1>1, <1>2, <1>17, UndoCleared, Abandoned DEF ResetContext, b
<1>18. ASSUME IMEOffKey PROVE Inv'
  BY <1>1, <1>2, <1>18, TurnedOff DEF IMEOffKey, b
<1>19. ASSUME IMEOnKey PROVE Inv'
  BY <1>1, <1>2, <1>19, TurnedOn DEF IMEOnKey, b
<1>20. ASSUME UndoKey PROVE Inv'
  BY <1>1, <1>2, <1>20, Undone DEF UndoKey, b
<1>. QED
  BY <1>3, <1>4, <1>5, <1>6, <1>7, <1>9, <1>10, <1>11, <1>12, <1>13, <1>15,
     <1>16, <1>17, <1>18, <1>19, <1>20 DEF UserActs

\* A timer the session waits for moves it on; any other leaves the awaited
\* ones with the client.
LEMMA TimerStep ==
  ASSUME Inv, NEW i \in DOMAIN timers, NEW outcomes, FireTimer(i, outcomes)
  PROVE  Inv'
<1>. DEFINE b == Before
            c == timers[i]
            rest == RemoveAt(timers, i)
<1>1. /\ Shape(b) /\ Handled(b, timers) /\ Good(b) /\ IsSeq(timers)
      /\ b.callback = NoCallback
  BY BeginsAsItEnded DEF Inv, SameControl
<1>2. /\ IsSeq(rest)
      /\ \A j \in DOMAIN timers \ {i} :
           \E k \in DOMAIN rest : rest[k] = timers[j]
  BY <1>1, OthersOnTheirWay
<1>3. PICK e : Respond(Dispatch(c, e), rest)
  BY DEF FireTimer
<1>. HIDE DEF b, rest
<1>4. ~LiveCallback(b, c) => (LiveOnItsWay(b, timers) => LiveOnItsWay(b, rest))
  BY <1>1, <1>2 DEF LiveOnItsWay
<1>5. ~ZenzCallback(b, c) => (ZenzOnItsWay(b, timers) => ZenzOnItsWay(b, rest))
  BY <1>1, <1>2 DEF ZenzOnItsWay
<1>6. c.kind = "live" /\ IsCurrentLiveCallback(b, c) =>
        Handled(ApplyDelayedLiveConversion(b, c, e), rest)
  BY <1>1, DelayedApplied
<1>7. c.kind = "live" /\ ~IsCurrentLiveCallback(b, c) =>
        Handled(ApplyDelayedLiveConversion(b, c, e), rest)
  <2>. SUFFICES ASSUME c.kind = "live", ~IsCurrentLiveCallback(b, c)
                PROVE  Handled(IgnoreStale(b), rest)
    BY DEF ApplyDelayedLiveConversion
  <2>. HIDE DEF c
  <2>1. ~ZenzCallback(b, c)
    BY DEF ZenzCallback
  <2>2. b.pending /\ b.state = "COMPOSITION" => ~LiveCallback(b, c)
    BY <1>1 DEF LiveCallback, IsCurrentLiveCallback, Handled
  <2>3. Handled(b, rest)
    BY <1>1, <1>4, <1>5, <2>1, <2>2 DEF Handled, c
  <2>. QED
    BY <2>3, StaleIgnored
<1>8. c.kind # "live" /\ IsCurrentZenzCallback(b, c) =>
        Handled(ApplyZenzLiveCorrection(b, c, e), rest)
  <2>. SUFFICES ASSUME IsCurrentZenzCallback(b, c)
                PROVE  Handled(AdvanceZenz(b, e), rest)
    BY DEF ApplyZenzLiveCorrection
  <2>1. Asking(b)
    BY <1>1 DEF Good, DeferredIsLive, VisibleIsLive,
       IsCurrentZenzCallback, Asking, IsLive
  <2>. QED
    BY <2>1, Advanced
<1>9. c.kind # "live" /\ ~IsCurrentZenzCallback(b, c) =>
        Handled(ApplyZenzLiveCorrection(b, c, e), rest)
  <2>. SUFFICES ASSUME c.kind # "live", ~IsCurrentZenzCallback(b, c)
                PROVE  Handled(IgnoreStale(b), rest)
    BY DEF ApplyZenzLiveCorrection
  <2>. HIDE DEF c
  <2>1. ~LiveCallback(b, c)
    BY DEF LiveCallback
  <2>2. b.zenz.pending /\ b.state = "CONVERSION" => ~ZenzCallback(b, c)
    BY <1>1 DEF ZenzCallback, IsCurrentZenzCallback, Good, ZenzIsLive, IsLive
  <2>3. Handled(b, rest)
    BY <1>1, <1>4, <1>5, <2>1, <2>2 DEF Handled, c
  <2>. QED
    BY <2>3, StaleIgnored
<1>10. Handled(Dispatch(c, e), rest)
  BY <1>6, <1>7, <1>8, <1>9, Zenon DEF Dispatch, b
<1>. QED
  BY <1>2, <1>3, <1>10, Responded

\* The worker changes its own mailbox only.
LEMMA WorkerStep ==
  ASSUME Inv, WorkerAnswers
  PROVE  Inv'
<1>1. PICK status :
        session' = [session EXCEPT !.corrector.status = status]
  BY DEF WorkerAnswers
<1>. DEFINE t == [session EXCEPT !.corrector.status = status]
<1>2. /\ session.corrector.status # "none" /\ timers' = timers
      /\ Shape(session)
  BY DEF WorkerAnswers, Inv, Handled
<1>3. /\ Shape(t) /\ t.callback = session.callback
      /\ t.state = session.state /\ t.key = session.key
      /\ t.active = session.active /\ t.pending = session.pending
      /\ t.pendingGeneration = session.pendingGeneration
      /\ t.pendingKey = session.pendingKey
      /\ t.liveValue = session.liveValue /\ t.zenz = session.zenz
      /\ t.visible = session.visible /\ t.deferred = session.deferred
      /\ t.corrector.generation = session.corrector.generation
  BY <1>2 DEF Shape, SessionFields, NoQuestion
<1>4. session' = t
  BY <1>1
<1>. HIDE DEF t
<1>5. Good(t)
  BY <1>2, <1>3 DEF Inv, Good, ZenzIsLive, VisibleIsLive, DeferredIsLive,
     QuestionIsAsked, IsLive
<1>6. Handled(t, timers)
  BY <1>3, <1>5 DEF Inv, Handled, LiveOnItsWay, ZenzOnItsWay, LiveCallback,
     ZenzCallback
<1>. QED
  BY <1>2, <1>3, <1>4, <1>5, <1>6 DEF Inv, Handled, Shape, LiveOnItsWay,
     ZenzOnItsWay, LiveCallback, ZenzCallback, Good, ZenzIsLive,
     VisibleIsLive, DeferredIsLive, QuestionIsAsked, IsLive
-----------------------------------------------------------------------------
(***************************************************************************)
(* The invariant and what follows from it                                  *)
(***************************************************************************)
LEMMA InvHoldsAtFirst ==
  ASSUME Init
  PROVE  Inv
<1>1. IsSeq(timers) /\ Stack(session.undo)
  BY DEF Init, InitialSession, IsSeq, Stack
<1>2. Shape(session)
  BY <1>1 DEF Init, InitialSession, Shape, SessionFields
<1>. QED
  BY <1>1, <1>2 DEF Init, InitialSession, Inv, Handled, Good, ZenzIsLive,
     VisibleIsLive, DeferredIsLive, QuestionIsAsked, NoZenz, NoDeferred,
     NoQuestion

\* What the session waits for is always on its way and what it does not wait
\* for is gone: however keys, timers and answers interleave, each handler of
\* session.cc restores this before it returns.
THEOREM AlwaysHandled == Spec => []Inv
<1>1. Init => Inv
  BY InvHoldsAtFirst
<1>2. Inv /\ [Next]_vars => Inv'
  <2>. SUFFICES ASSUME Inv, [Next]_vars PROVE Inv'
    OBVIOUS
  <2>1. CASE UserActs
    BY <2>1, UserStep
  <2>2. CASE TimerFires
    BY <2>2, TimerStep DEF TimerFires
  <2>3. CASE WorkerAnswers
    BY <2>3, WorkerStep
  <2>4. CASE UNCHANGED vars
    BY <2>4 DEF vars, Inv, Handled, Shape, LiveOnItsWay, ZenzOnItsWay,
       LiveCallback, ZenzCallback, Good, ZenzIsLive, VisibleIsLive,
       DeferredIsLive, QuestionIsAsked, IsLive
  <2>. QED
    BY <2>1, <2>2, <2>3, <2>4 DEF Next
<1>. QED
  BY <1>1, <1>2, PTL DEF Spec

\* Whatever edit, undo, reveal or late callback comes between, the callback
\* that MaybeScheduleLiveConversion or
\* AttachZenzLiveCorrectionPollCallback left with the client is still there
\* for as long as the session waits for it, with any number of timers.
THEOREM CallbackIsNeverLost == Spec => []AwaitedCallbackIsOutstanding
<1>1. Inv => AwaitedCallbackIsOutstanding
  <2>. SUFFICES ASSUME Inv PROVE AwaitedCallbackIsOutstanding
    OBVIOUS
  <2>1. ASSUME session.pending, Composing PROVE IsOutstanding("live")
    BY <2>1 DEF Inv, Handled, LiveOnItsWay, LiveCallback, NoCallback,
       IsOutstanding, IsCurrent, IsCurrentLiveCallback, Composing
  <2>2. ASSUME session.zenz.pending PROVE IsOutstanding("zenz")
    BY <2>2 DEF Inv, Handled, Good, ZenzIsLive, IsLive, ZenzOnItsWay,
       ZenzCallback, NoCallback, IsOutstanding, IsCurrent,
       IsCurrentZenzCallback
  <2>. QED
    BY <2>1, <2>2 DEF AwaitedCallbackIsOutstanding
<1>. QED
  BY <1>1, AlwaysHandled, PTL

\* CancelPendingZenzLiveCorrection takes the corrector's question with it on
\* every path: nothing is left that the worker answers for nobody.
THEOREM NoOrphanedQuestion == Spec => []QuestionIsWaitedFor
<1>1. Inv => QuestionIsWaitedFor
  BY DEF Inv, Good, QuestionIsAsked, QuestionIsWaitedFor
<1>. QED
  BY <1>1, AlwaysHandled, PTL

\* No path of SendKey or SendCommand leaves a visible correction or a deferred
\* display behind without the live conversion it belongs to, so none can be
\* shown or committed later.
THEOREM NoCorrectionOutlives == Spec => []CorrectionIsLive
<1>1. Inv => CorrectionIsLive
  BY DEF Inv, Good, VisibleIsLive, DeferredIsLive, ZenzIsLive, IsLive,
     CorrectionIsLive, HasVisibleZenz, HasDeferred, Converting
<1>. QED
  BY <1>1, AlwaysHandled, PTL
=============================================================================
