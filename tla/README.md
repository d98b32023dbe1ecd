# A TLA+ model of Mozkey

Mozkey is an input method for Japanese, a fork of Mozc. What it adds to Mozc is
*live conversion*: the reading the user types is converted without a key being
pressed, after a delay, and the result is then corrected by *Zenz*, a language
model that runs in a scorer process and answers whenever it can. What the user
makes of a correction is learned. This directory holds TLA+ models of that
part, of the server's table of sessions, of the loader that replaces its engine
and of the client that talks to it, the TLC configurations that check them, and
proofs for TLAPS.

Paths below are relative to `src/src/` of the repository.

## Inventory

| Part | State | Operations | Modelled |
|---|---|---|---|
| `Session` (`session/session.cc`) | IME state, composer, converter, live conversion, pending and visible correction, deferred display, undo contexts | keys and session commands | `LiveConversion` (partly) |
| Presentation of a pending conversion (`session.cc`) | the presentation kept, with its stable spans | write, cut, merge, commit text | `Presentation` |
| `ZenzLiveCorrector` and its socket client | a latest question, a latest answer, the stop flag, the interrupt of the transport, a worker thread | Start, Submit, CancelPending, TakeResult, Stop; the worker loop and Convert | `ZenzLiveCorrector`, `ZenzMailbox` |
| The clients' delayed commands (`win32/tip`, `mac`) | a queue of timers | post, fire, evict | in `LiveConversion` |
| Zenz feedback (`session.cc`, `session/zenz_feedback_store.cc`) | pending acceptance or comparison, rollback handles, the store on disk | accept, compare, observe, confirm, discard, append | `ZenzFeedback`, `ZenzFeedbackStore` (partly) |
| `SessionHandler`, watch dog, server | sessions by id, LRU, time stamps, settings, engine | create, send, delete, clean up, reload, shut down | `SessionHandler`, `SessionTable` (partly) |
| Command sequences and keymap | the rest of a macro and the callback that resumes it | execute, suspend, resume, cancel | no |
| Zenz policies (validator, adoption, orthography, privacy, context) | none: pure functions of text and tables | decide | as a nondeterministic verdict |
| Zenz transport (named pipe, wire protocol, scorer process) | connection, child process | connect, launch, exchange | socket client only |
| Composer, converter, prediction, rewriters, dictionaries | lattice, dictionaries, history | convert, predict, learn | as a nondeterministic result |
| Engine and data loader (`engine/engine.cc`, `data_loader.cc`) | requests by priority, the data loaded last, a response to take, the loader's thread | register, load, fail, take over | `DataLoader`; a flag and a response in `SessionHandler` |
| Storage | LRU cache, LRU file, bit tables | insert, look up, erase, save | `LruCache` (the cache) |
| Client library, launcher, IPC | server status, key history | call, reconnect, launch, replay | `Client` (partly) |
| Renderer, dialogs, front ends, configuration, base | drawing, platform events | | no |

How they interact. The client library sends every key to the server, and
`SessionHandler` hands it to a `Session` under the server's lock: one handler
runs at a time and is one step. Its `Output` carries the preedit to show, the
text to commit and at most one *callback*, a session command that the client
sends back after a delay. When the callback comes back the session may have
moved on, so it carries a generation and a reading that the session compares
with its own. A correction is asked of the session's `ZenzLiveCorrector`, whose
worker thread talks to the scorer; the session learns the answer by polling,
and each poll is another callback.

What is hard, and what makes each part correct:

* *Corrector.* The session thread and the worker share a mailbox, a condition
  variable and the descriptor that interrupts a blocked transport. No wakeup and
  no interrupt may be lost, `Stop` must end even if the scorer hangs, and an
  answer must never be taken for that of another question.
* *Live conversion.* Timers fire late, in any order, and may be evicted. The
  text on the screen and the text Enter commits are computed by different
  functions of different fields: pending, deferred, corrected and ordinary
  displays must agree on both. Some two dozen commands cancel one or more of
  these; what each forgets turns up later.
* *Undo* restores a composition with its displays, and deletes from the
  document as much as was committed since.
* *Presentation.* What is shown must spell the reading, whatever part of an
  older display still holds.
* *Feedback.* A correction is in the document before anyone knows whether it
  was wanted. An acceptance is recorded at once and may be taken back; a
  correction the user left is compared with what is committed many keys later.
  Both wait in the same field, and their handles in the converter of a context
  that Undo, suggestions and reconversion replace. A decision must count once,
  and must be taken back only if it was counted.
* *Sessions.* The table is full, applications die, the machine sleeps, settings
  and engines change under sessions that keep copies of them.
* *Data loader.* Requests come while others wait, load or fail, and the result
  is handed over in a variable without a lock. The best data must be loaded in
  the end, never replaced by worse, and served.
* *Client.* The server may crash, or forget the session, between any two
  messages of a call and in the middle of the playback that repairs the last
  crash; a key that crashes it must not crash it for ever.

The complete list, with the line where each hazard bites and the properties that
would catch it, is under `hazards` in `PROJECT.json`.

## Modules

| Module | Contents |
|---|---|
| `ZenzMailbox` | What the corrector promises: at most one open question, whose answer is delivered at most once and is never that of an older one. |
| `ZenzLiveCorrector` | The two threads, lock by lock. `ImplementsMailbox` is the refinement. |
| `ZenzLiveCorrector_proofs` | Its inductive invariant, the safety theorems, the refinement. |
| `Presentation` | Texts, segments, presentations: pure operators. |
| `LiveConversion` | Session, clients' timers and the mailbox together; extends `Presentation`. |
| `LiveConversion_proofs` | The invariant every handler re-establishes: awaited callbacks, questions and corrections. |
| `LiveConversionScreen_proofs` | What is shown and what Enter commits spell the reading, whatever handlers ran; the session keeps its type; what Undo deletes and what it puts back; late callbacks. Extends `LiveConversion_proofs`. |
| `ZenzFeedbackStore` | The records of the feedback file and what is read from them: pure operators. |
| `ZenzFeedback` | What a session learns from corrections; extends `ZenzFeedbackStore`. |
| `ZenzFeedback_proofs` | What is pending agrees with what was written: one event per decision, rollbacks, privacy. What is counted from the whole log is what the user decided; a rollback undoes an acceptance, the readers of the file agree. Instantiates `LruCache_proofs` for its induction. |
| `LruCache` | The cache with its linked elements and free list: pure operators. |
| `LruCache_proofs` | The linked elements hold the keys and values of an order of recency, after any operations: what each operation makes of the order. |
| `SessionTable` | What the handler promises of its sessions: a table in order of recency. |
| `SessionHandler` | The handler with its sessions, settings, engine and watch dog; extends `LruCache`. `ImplementsTable` is the refinement. |
| `SessionHandler_proofs` | The handler's inductive invariant, all its safety properties and the refinement of `SessionTable`; extends `LruCache_proofs`. |
| `DataLoader` | The engine's loader thread and the main thread, critical section by critical section. |
| `DataLoader_proofs` | Its inductive invariant and all its safety properties. |
| `Client` | A call of the client, message by message, and the server it talks to. |
| `Client_proofs` | Its inductive invariant and safety theorems. |
| `MCZenzLiveCorrector`, `MCLiveConversion`, `MCZenzFeedback`, `MCSessionHandler`, `MCDataLoader`, `MCClient` | Instances for TLC. |

### ZenzLiveCorrector

One action is one critical section of `mu_`, or one step between two of them.
`started`, `stop`, `latestRequest`, `latestResult` are the members the lock
guards; `stopRequested` and `interrupt` are `ZenzClient`'s, and `cancelled` says
that the running `Convert()` has been woken. `worker` and `caller` are program
counters: `Submit` is `SubmitStart` (which starts the thread if need be),
`SubmitEnqueue` (the critical section) and `SubmitNotify` (after the lock), and
`Stop` is `StopBegin`, `StopNotify`, `StopJoin`, `StopEnd`. `Convert()` is the
path through `connect`, `launch` (the scorer is not running yet), `startup` and
`exchange`, and it may fail or be cancelled at each of its blocking points. A
request is its generation.

The session takes part with the generation counter it increments on asking and
cancelling (`generation`), the question it waits for (`asked`), and what
`TakeResult` last gave it (`delivered`, which only the refinement reads).

### Presentation

A reading is a sequence of characters: `"a"` any kana, `"r"` a consonant whose
vowel has not been typed, `"k"` the kana the pair becomes, `"."` punctuation. A
text is a sequence of *surfaces*, one per character, each with the style in
which that character is written: raw, converted by Mozc, chosen by the user, or
corrected by Zenz. Converted characters are segments of their own, while what a
user transliterates is one segment; the loops of the code that walk segments
become prefixes and maxima over where segments end.

### LiveConversion

`session` is the `Session` object with the preedit, result and callback of its
last handler; `timers` are the callbacks the client holds. An operator of the
model takes a session to the next one, as a method of `Session` does:
`CancelForEditing` is `CancelLiveConversionForEditing`, `AdvanceZenz` is
`AdvancePendingZenzLiveCorrection`, and so on. An action is a key, a session
command, or a timer that fires; it begins with `NewOutput`, ends with `Settle`
(what `SendKey` and `SendCommand` do last) and posts the callback of its output
with the client (`Respond`). The action `WorkerAnswers` is the corrector, by its
mailbox: no question, an open one, an answer or an error.

Abstractions:

* **Generations.** The code compares generations for equality only. A fresh one
  is a token that no timer and no pending record carries; the 32-bit counter
  would have to wrap while a timer of the same value is outstanding to differ.
* **Nondeterminism.** The converter may succeed or fail; the correction may be
  adopted (it rewrites every converted character) or not; the privacy check may
  refuse; the deadline of the question may have passed at a poll. Candidate
  selection is `Choose`: the first segment takes another value.
* **Cursor.** It moves to either end of the reading. Deletion and insertion take
  place there; punctuation is typed at the end only.
* **Bounds.** `MaxLength` of a reading, `MaxTimers` of a client, `MaxPolls` of a
  question (the code allows more than the handful needed to see one given up),
  `MaxUndo` contexts (`kMultipleUndoMaxSize` in the code).
* **`committed`** is the length of the result kept in `context_->output()`, which
  Undo deletes; it is left at 0 while there is no undo context, where nothing
  reads it. **`delivered`**, in an undo context, is a ghost: how much was really
  committed to the document since that context was saved.

### ZenzFeedback and ZenzFeedbackStore

A composition is reduced to what the feedback can tell: its reading, the text
an ordinary commit would commit (`shown`), whether the live conversion is on
and the correction on the screen (`visible`). `learn` is what the session is
about to learn: `feedback` is `pending_zenz_feedback_`, `direct` the commit of
`pending_direct_commit_learning_`, `slot` the one revert entry of the converter
(`kMaxExternalLearningRevertEntries`), `history` what Mozc knows of each commit
and `file` the store. An operator takes `learn` to the next one, as in
`LiveConversion`; `ok` says whether the write it attempts succeeds. `log` is a
ghost: every record the session wrote, with the commit it is about, from which
the properties are stated. Undo, reconversion and a picked suggestion replace
the context by one that owns no handle, as in the code.

The store is the sequence of its records. `LoadCounts` folds them as the reader
does, clamped rollback included; classes that share their feedback are
aggregated, and `Decide` and `GetRankedCandidates`, which the code writes twice,
are two operators. The weights, thresholds and reasons are those of the code; of
the classes there are one that keeps to itself and two that share.

### SessionHandler, SessionTable and LruCache

`session_map` is the cache: elements with `next` and `prev`, the head, the tail,
the free list and the table of keys, changed by the pointer assignments of
`lru_cache.h`. The handler's commands are the actions; each takes the settings,
the cache and the values through the calls of the code in their order.
`EvictOldest` and `MaybeReloadEngine` precede the insertion, `UpdateSessions`
follows it. A session holds what the handler gives it or looks at: the time of
creation and of the last command, the settings of its context and of the saved
contexts Undo brings back, and the engine its converter came from. Times are
ticks; `Past` is `absl::InfinitePast()`. The watch dog and `Cleanup` are one
step, since `CLEANUP` is an ordinary command. The engine's loader is a flag and
a response that appears at any time; `DataLoader` is what is behind them.

### DataLoader

`sequence` is `requests_` with its order: a request is there when its sequence
id is positive, and `Pending` is its front unless that is what was loaded last
(`current`). The main thread's calls are cut where the loader's thread may come
between: `StartNewDataBuildTask` is `RequestIsAccepted` (the critical section of
`RegisterRequest`), `NotifyHighPriority` and `StartThread` (the test of
`IsRunning()` with the start of a thread), and `MaybeReloadEngine` is the call,
`CheckLoader` and `ReloadModules`. The thread is `StartReloadLoop`, one action
for each look at the requests, for the notification and its time-out, for the
build, the callback and the two reports; `ThreadEnds` is the return of the task,
after which alone `IsRunning()` is false. A request is its fingerprint; its file
may fail to load at any time. `engine` and `response` are the requests their
data came from. That the main thread calls `MaybeReloadEngine` only between
sessions is `SessionHandler`'s part. `missed` is a ghost, described under
*Findings*.

### Client

A call of `EnsureCallCommand` is a program counter (`ensure`, `create`,
`playback`, `call`) with the trial it is in; one message is one step, so that a
crash, a restart by another client or the removal of the session may come
between any two. A session is the inputs it consumed since the last commit,
which is what a playback restores. A message may fail before or after the
server executed it. `Poison` are the keys that crash the server.

## Runs

| Run | Question | Bounds |
|---|---|---|
| `corrector` | Are wakeups, interrupts and answers safe, does `Stop` end, is the latest question answered, is it a mailbox? | 4 generations: an answered, a cancelled, a replaced and an open question |
| `typing` | Does the screen spell the reading, does Enter commit it? | readings of 2 with a romaji pair, one timer |
| `timers` | Are awaited callbacks outstanding, questions waited for, stale callbacks harmless? Does Undo delete and restore what it should? | readings of 2, 2 timers firing in any order, 2 polls, 2 undo contexts, stored feedback |
| `deferred` | Does the hidden conversion stay inside? | readings of 3, deferred display, one undo context |
| `progress` | Does a session come to rest? | readings of 2, 2 polls, the worker may never answer |
| `feedback` | Does a decision count once, is it taken back only if it counted, is nothing written in private? | 2 readings, 2 texts, 2 commits, every write may fail |
| `server` | Is the cache a table in order of recency, are settings and engine shared, is the idle time kept? | 3 ids for 2 places, 2 configurations, one reload, one undo context, 3 instants |
| `loader` | Do data only get better, is what is loaded served, is the response unshared, does the thread leave nothing behind and come to rest? | one request of high priority and two of the same low one, 5 registrations |
| `client` | Is the text continued after a crash, is poison forgotten, does a call return? | history of 3, 2 faults between two answered inputs |

and three that disagree with what the repository says (see *Findings*):
`undo_after_correction`, `feedback_orphan`, `client_other_calls`.

Why the bounds are enough. A reading of two has a converted prefix and one
character typed after it, and with `"r"` the second key rewrites the first; a
reading of three adds a second segment to commit on its own. One timer is the
macOS client and evicts at once; with two, an older callback meets a newer one
and either may be evicted, and no handler tells two old ones apart. The
configuration (delays, deferral, feedback, minimal lengths) is CONSTANT, and the
runs together take the combinations in which a different branch of the code is
the default one. `DeletePreceding = FALSE` makes Undo after a commit a redraw and is not run.

Two commits are what two pending decisions, or a decision and what replaces it,
need; a third repeats the pair. Two readings tell continued typing from the
same reading, two texts a rejection from an acceptance. With two places for
three ids the third session evicts, and an id that was evicted comes back; the
cache itself is checked with three elements and four keys after every sequence
of five calls (`CacheKeepsOrder`). A history of three is full while one input
is still missing; two faults allow a crash during the repair of a crash. Five
registrations are three requests and two of them again, so that a request moves
to the front of its priority while the thread works on it or on another; the
high one comes before, during and after the wait for it.

`CHECK_DEADLOCK FALSE` is in the configurations of the corrector, where the
generations are bounded and a stopped corrector has nothing left to do, and of
the session handler, which ends with `Shutdown`.

### Properties

For the corrector: `NoLostInterrupt`, `InterruptOnlyInConvert` and
`NoLostWakeup` are the three races between threads; `StopTerminates` and
`QuestionIsAnswered` are liveness; `ImplementsMailbox` is the refinement.

For live conversion: `AwaitedCallbackIsOutstanding` (nothing pending without
the timer that moves it on), `QuestionIsWaitedFor` (the worker never works for
nobody), `StaleCallbackChangesNothing`, `CorrectionIsLive` (no remembered
correction or hidden conversion outlives its conversion),
`ScreenSpellsTheReading`, `EnterStaysInStep` (no step separates the screen from
what Enter commits), `OnlyCorrectionsEscapeUndo` and `UndoRestoresTheScreen`,
`ComesToRest`.

For the feedback: `OneEventPerDecision` (a commit is accepted or rejected at most
once), `RollbackFollowsItsAcceptance`, `CountsAreDecisions` (what the store
counts from the file is what the user accepted and did not take back),
`RejectedIsAnotherText` (continued typing, or the same text, is no rejection),
`PrivateWritesNothing`. For the server: `CacheIsLinked`, `SettingsAreShared`
(undo contexts included), `EngineIsShared`, `IdleTimeIsKept`,
`ImplementsTable`. For the client: `SecondTrialContinues` (the input of a second
trial reaches a session brought back to the history), `PoisonIsForgotten`,
`CallReturns`. For the loader: `NeverGetsWorse`, `CurrentIsServed` (what is
refused as loaded is what the engine has or is about to take),
`ResponseIsNotShared` (the variable without a lock), `NothingIsLeftBehind`, and
`LoaderComesToRest`.

Every module with state has a type invariant. That of the corrector is proved and
not among its run's properties.

`EnterStaysInStep`, `StaleCallbackChangesNothing` and `UndoRestoresTheScreen`
name the situations in which the code does otherwise: a redraw by an unbound
key or a cursor movement, a presentation that is no prefix of the reading any
more (`Diverged`), a pending flag that F6-F10 leave behind (`Leftover`), and the
display kept for a trailing small tsu after the converter failed
(`HeldForSokuon`; session.cc:4493-4500 shows it with the pending flag reset, so
Enter commits the raw reading). They are described under *Findings*.

### Fairness

* Corrector: the scheduler runs both threads, and a `fork`/`exec` of the
  launcher returns. Nothing is assumed of the scorer: `StopTerminates` holds
  although it may hang. Only `QuestionIsAnswered` supposes, as its premise, that
  the deadline of a blocked transport expires, which `poll` with a timeout gives.
* Live conversion: a client that holds a timer fires its oldest one sooner or
  later (`SetTimer`, `NSTimer`). The worker needs no fairness: polls are counted.
  `ComesToRest` is about a user who stops typing; one who types for ever keeps
  replacing what is pending.
* Client: `WF_vars(EnsureCallCommand)`. A message has a time-out and the launcher
  gives up after a while, so a call that is in progress takes its next step.
  Nothing is assumed of the server or the user. Faults are bounded between two
  answered inputs; `CallReturns` does not need that, since a call has two trials.
* Data loader: `WF_vars(LoaderThread)` and `WF_vars(MainReturns)`. Both threads
  are scheduled, a wait has a time-out of 100 ms and a load returns with data or
  an error; a call of the main thread that has begun goes on. No call need ever
  come, and `LoaderComesToRest` has the end of the calls as its premise.
* Session handler and feedback: safety only.

## Findings

With a run that shows them:

1. *Undo after a correction.* The commit of a correction saves neither an undo
   context nor the result; an Undo that finds an older context deletes the
   length of an older commit (`undo_after_correction`).
2. *An orphaned acceptance.* A correction accepted by Shift and a letter stays
   pending while the next reading is converted. The next acceptance replaces it
   without confirming its handle, so the converter's only revert entry stays
   taken: the next correction is recorded as accepted, but Mozc does not learn
   it (`feedback_orphan`).
3. *A crash another call sees first.* `SyncData` or `GetConfig` notices the
   crash and marks the server as shut down; the next input then gets a new
   session without the history, which only the second trial plays back
   (`client_other_calls`). A `CreateSession` that fails in the second trial
   leaves the same situation behind.

Met while modelling `LiveConversion`; its properties name them as exceptions:

* *Enter after typing on.* When the reading no longer extends the presentation
  kept (the next key rewrote a roman tail), the screen keeps its proven spans
  (session.cc:4731-4778) and Enter commits the raw reading
  (session.cc:8313-8349): `Diverged`. A stale callback then draws the one over the
  other, which takes a roman reading and two timers together; the attempt to
  prove `StaleCallbackChangesNothing` without the exception showed it.
* *Enter after a redraw.* An unbound key, or moving the cursor, redraws without
  the pending or deferred display; Enter commits that display
  (session.cc:3632-3648): `Redraws`.
* *A stale callback after F7.* The pending flag survives the transliteration
  (session.cc:9914-9930), so the callback draws the older display over it:
  `Leftover`.
* *The deferred display.* With no older presentation to keep, the new Mozc
  conversion is shown while Zenz is pending (session.cc:4632).

Met while modelling the others, without a run:

* Undo replaces the context after the time of the command was stamped on the
  one it replaces (session.cc:1996-2041). The session then carries the time of
  the saved copy, and a clean-up may delete a session that was just used,
  although session_handler.cc:583-589 speaks of one "not activated for 60min".
* With `FLAGS_timeout` set (restricted mode sets it to 60,
  session_handler.cc:147), `Cleanup` compares the present with `InfinitePast`
  while there are sessions (650-653) and so shuts down at its first run,
  although line 587 speaks of a server with no active session. `Timeout = 0` in
  the runs. The time a machine slept is given to sessions in the first
  `Cleanup` after it only.
* A live conversion committed with its punctuation mark is not equal to the
  correction it is compared with and counts as a rejection (hence the exception
  for `marked` commits in `RejectedIsAnotherText`). An arrow key closes neither
  the rollback window of a direct commit nor that of an acceptance;
  reconversion leaves both open.
* After a playback that broke off the status stays `SERVER_SHUTDOWN` and the
  input is sent to the session as it is; the id in the answer to the second
  trial is not looked at.
* `StartNewDataBuildTask` (engine/data_loader.cc:239) starts no thread while the
  old one is past its last look at the requests and has not ended; the request
  is accepted ("Actual data-loading task is executed asynchronously",
  data_loader.h:72) and waits for the next one. `NothingIsLeftBehind` names the
  situation by the ghost `missed`, which is set there and cleared when a thread
  starts.
* A request equal to the one loaded last is refused without moving to the front
  (data_loader.cc:98), so it does not override another of its priority that was
  registered meanwhile, as engine_builder.proto:53 has it.

## Proofs

`ZenzLiveCorrector_proofs` assumes only that the bound on generations is a
positive natural number. The safety properties are not inductive on their own.
`IndInv` adds: when the worker thread exists and which flags a `Stop` in
progress has raised (`ThreadLifecycle`: without it a stop could be raised that
no one announces, and `NoLostWakeup` fails one step later); that the interrupt
is registered exactly inside `Convert` (`InterruptIsRegistered`: without it
`RequestStop` would not reach a blocked worker); and where the generation of
the open question may be (`GenerationsInFlight`: queued, in the worker's hands,
or answered, and only one of these, which is what the refinement needs). From
`Init => IndInv` and `IndInv /\ [Next]_vars => IndInv'`, one step per action,
follow

* `TypeCorrect`, `InterruptIsNeverLost`, `InterruptStaysInConvert`,
  `WakeupIsNeverLost`, and
* `CorrectorImplementsMailbox`: under the mapping `answerSeen` (an answer is in
  the mailbox when the stored result is of the open question) every step is a
  step of `ZenzMailbox` or a stutter. `Submit` is `Ask`, `CancelPending` is
  `Withdraw`, `StopBegin` is `Close`, `WorkerStore` of a current answer is
  `Answer`, `TakeResult` of one is `Deliver`, and everything else, answers to
  older questions included, stutters.

The first part of `LiveConversionScreen_proofs` shows for every reading, every presentation and every
last live value that what is shown (`PresentSpells`, when `CanPresent`) and what
Enter commits (`PendingCommitTextSpells`) spell the reading. The argument: every
basis is a prefix, by whole segments, of the presentation or of the live value;
`Max` and `LongestCommonPrefix` stay within the length of what they cut
(`MaxIsGreatest`, `CommonLengthIsBounded`, `WholeIsInRange`); and extending a
text whose reading is a prefix of the reading spells it (`ExtendSpells`).

`LiveConversion_proofs` treats the session as a value that operators transform,
as the model does. `Handled(s, held)` is what every handler must leave behind:
the members are all there (`Shape`), in a conversion what is pending, visible,
deferred or asked belongs to it (`Good`), and the callback of a pending
conversion or correction is attached to the output or held by the client
(`LiveOnItsWay`, `ZenzOnItsWay`). The properties alone are not inductive: a
handler may only keep a pending conversion if it either leaves the callback
alone or attaches the new one, and a commit may only forget a correction if it
forgets the deferred display, the worker's question and the visible correction
with it. There is one lemma per operator, named for what it does; most of them
end in `Idle`, where nothing is waited for. `Responded` then shows that posting
the callback of an output loses no other that is awaited, whichever the client
drops; a timer that fires is either the awaited one, and its handler settles
what it was for, or a stale one, and the awaited one is still held
(`OthersOnTheirWay`). From `Inv` follow `CallbackIsNeverLost`,
`NoOrphanedQuestion` and `NoCorrectionOutlives`, for every configuration,
alphabet, number of timers, polls and undo contexts.

The rest of `LiveConversionScreen_proofs` adds the data. `Sessions` is what a Session object
may hold and `Consistent` what its members say of each other at any point of a
handler: in a conversion the converter's text is of the whole reading
(`Composed`); so is a live text (`LiveSpells`) and a deferred one
(`DeferredSpells`); and a pending display can be presented on the reading, or,
where F6-F10 left the flag behind, the conversion is one segment
(`PendingSpells`: without it the commit of the first segment would leave a display
of a reading that is partly gone). `Spells` adds the screen a handler leaves. Consistent
alone does not survive a key: what the next handler finds is `Ready`, which takes
from `Inv` that nothing stays deferred without a live conversion and nothing
pending where live conversion is off. So `Rests` is inductive relative to `Inv`,
not on its own. Contexts to undo carry their own copy of the facts (`Entries`),
because Undo brings back a composition no handler checks again. A new callback
needs a token that no timer carries: of `MaxTimers + 3` tokens one is always left
(`GenerationLeft`, by counting). There is one lemma per function of the session,
from `Ready` to `Spells`; `Settle` and `Respond` then give `Rests`. From it follow
`ScreenAlwaysSpells` and `SessionTypeOK`.

Three action properties of `LiveConversion` are proved in the same module. For Undo,
every handler is shown to do one of six things to the document and the contexts
(`Accounts`): to leave both alone, to save a context and remember what it commits,
to forget the contexts before it commits or at all, to go back by one, or, with a
visible correction, to commit without saving. `UndoIsExact` is not inductive, as
Undo uncovers a context of which it says nothing: `UndoIsChained` adds that each
context was saved at the point of the document the one below it had delivered up
to (`Chained`) and that Undo is exact while a reading is composed or converted,
which is when contexts are saved (`UndoStaysChained`). `UndoIsEscapedByCorrections`
follows. That Undo also puts the text back needs the history of the commit, which is
in the session as the context on top: `CommitsReturn` says that every context has
delivered something, and that while all the one on top has delivered is the result
that was just sent, what Undo would show of it (`Redisplay`) is that result, unless
its presentation has come apart from the reading (`Restores`). A lemma per way to
commit shows it of the context it saves (`EnterReturns`, `SegmentReturns`,
`TurningOffReturns`), `CommitsAlwaysReturn` of every state, and `UndoAlwaysRestores`
follows. The proof failed first for a client that cannot delete the text before the
cursor: there Undo leaves the composition as it is, and TLC found the run that shows
it, so `UndoRestoresTheScreen` asks for `DeletePreceding`. For late callbacks, `EnterCommits` says which of the texts of a session
Enter commits, by where the session is, and `StaleShowsAgain` that a callback
which finds itself too late draws just that one. That nothing else changes needs
`AlwaysSettled`: outside a conversion there is no correction, visible, deferred or
asked for, which the end of every key and command would clear. In
`StaleCallbacksChangeNothing` the step is known by the timer that is gone, so the
timers before and after decide that it was no key (`PostedLength`) and which timer
fired (`SameRemoved`).

`ZenzFeedback_proofs` relates the pending feedback to the log. A comparison
that has seen its commit has not recorded it (`Undecided`: otherwise the key
that confirms it records it twice), and an acceptance that was written is in
the log and was not taken back (`Accepted`: otherwise its rollback is the
second, or the first of nothing). With the facts about the log itself
(`LogInv`: a commit is decided once, rolled back once, after its acceptance, and
none is of the future) they are inductive, whatever write fails, and give
`OneEvent` and `RollbackFollows`. `PrivateFields` needs no invariant but the
shape of what is learned. `RejectionsAreReal` relates the log to the text: a
comparison that has seen its commit holds what was committed, except for a mark,
and a comparison for one of the reasons that concern the reading compares it
(`Told`); what is in the log stays true of its commit (`TruthfulLog`); and no
composition, nor one an undo brings back, spells a mark alone (`PlainKeys`).
`TypeInv` says the types: what is pending has a reading and a text, and the
commit it is about once there is one (`Named`: without it a record of nothing
could be written), and what Undo may bring back is a composition (`UndoTypes`). It
is inductive on its own and gives `FeedbackIsTyped`. The last part of the module is
about the store. `LoadCounts` counts one record after the other, which is what the
induction follows (`LoadCountsCounts`). `StandsNext` says what the next record of a
log does to the commits that stand as accepted: an acceptance adds its commit,
which did not stand, because a commit is decided once and rolled back after its
acceptance; a rollback removes one that stood; nothing else changes. `LogInv` holds
of all of the log, so `CountsAreTheDecisions` needs no invariant of its own: it
follows from `LogInv` and the types by induction along the log (`StandsCounted`).

`DataLoader_proofs` proves all safety properties of the loader, for any
requests and priorities. `WorksOnABetter` carries the argument: while the thread
works without the lock, its request stays registered and better than the data
loaded last, because a registration can only move a request towards the front
and what was loaded last is refused (`Registering`). `StoredIsServed` covers the
gap between the callback and the report, `TakesAResponse` the one between the
test and the replacement, and `LeavesNothing` extends `NothingIsLeftBehind` to
the thread that has looked for the last time.

`LruCache_proofs` relates the linked elements to sequences. `Represents(c, list,
ks, spare)` says that following the links from the head passes the elements
`list` and that those hold the keys `ks`, that the table finds exactly these, and
that `spare` are the free elements, no element being in both or twice. Each
operation of the cache is proved to lead from what represents some sequences to
what represents the sequences the operation is meant for: a hit moves a key to
the front, an insertion into a full cache drops the last, an erasure removes one
and frees its element. What the code walks is then found again (`Order` of a
cache that represents `ks` is `ks`), so the links need never be followed in the
proofs about the handler. `AnyCallsFollowRecency` states the whole: after any
sequence of calls the cache represents the order of recency those calls have.
The library's induction theorems cannot be used, but an induction over the
natural numbers can be put as a fact about a set (`UpTo`: a set of numbers that
holds 0 and with each number below a bound the next one holds all up to the
bound), which follows from the least element of a nonempty set of numbers
(`LeastNatural`), and that from the well-foundedness of strict inclusion among
finite sets, which the library proves. `Recursion` shows in the same way that
the recursive functions of the models exist. This is why the models write what
follows a list, or deletes in a row, as a recursive function.

`SessionHandler_proofs` has two inductive invariants. `AllMadeBy` generalises
`EngineIsShared` from the sessions in use to every place of the cache that has a
session, so that it survives the reuse of elements. `HandlerInv` says the rest:
the types; the cache represents some order, and exactly its elements in use have
a session (`Held`); every session, in each of its contexts, those Undo may bring
back included, has the settings in force (`AllSettled`), which are the stored ones;
`IdleTimeIsKept`; and a reload is under way only below the bound of the reloads.
The properties themselves are not inductive: `CacheIsLinked` says nothing of the
free elements the next insertion takes, nor that what a hit moves is the element
the table names, and `SettingsAreShared` nothing of what a command finds. What a
clean-up removes is a series of deletions (`DeletedSessions`, `ToRemove`);
`Trimmed` says what each leaves of the order and adds them up. From the invariants
follow `HandlerIsTyped`, `CacheIsAlwaysLinked`,
`EngineIsNeverReplacedUnderSessions`, `SettingsAreAlwaysShared`,
`IdleTimeIsAlwaysKept`, and `CleanupDeletesTheGivenUp` (a clean-up deletes exactly
the sessions it has to give up and leaves the others in their elements as they
were). `HandlerImplementsTable` is the refinement: every step of the handler is a
`Create`, a `Use` or a `Drop` of `SessionTable`, or a stutter, where the table is the
order read from the links.

`Client_proofs` adds `Restoring`: during a playback the session, if it is still
there, is in the state the part of the history that was sent leads to. Without
it nothing connects the session a second trial reaches with the history.

The assumptions are those named in the modules (types of the constants, finite
sets, positive bounds, `Nil` is no session, a feedback file is a sequence of
records).

Model-checked only:

* liveness (`StopTerminates`, `QuestionIsAnswered`, `ComesToRest`, `CallReturns`,
  `LoaderComesToRest`), out of reach of the prover as is everything that depends
  on `ENABLED`;
* one action property of `LiveConversion`, `EnterStaysInStep`, whose exceptions
  depend on how every handler redraws.

## Not modelled, and why

* *Of the session*: candidate windows, suggestion, prediction, reconversion,
  password and ASCII modes (they leave live conversion at once), punctuation in
  the middle of a reading, text deletion requests other than that of Undo, a
  `ConvertToTransliteration` that fails (only on an empty reading), and the block
  command of the Zenz menu, which changes the session as a revert does.
* *Command sequences.* A suspended macro resumes by a callback of its own. It
  touches the rest only through the client's timers, and only on macOS, where
  one timer serves all; everything it executes is a sequence of the modelled
  commands.
* *Policies and converters.* The validator, adoption, orthography and privacy
  policies, the converter, the predictors and the rewriters are functions of
  Japanese text, tables and statistics. The models leave their verdict open, so
  that what is checked holds for each.
* *Of the feedback store*: the edits of the dialog (delete, import, manual block),
  which replace the file at once; its compaction and encodings.
* *Of the server*: commands that only pass to the user dictionary or the engine;
  a clock that is set back; the load of the CPU beyond the decision to skip a
  clean-up.
* *Of the loader*: `DataLoader::Wait` in the destructor, where nothing follows;
  the supplemental model, of which the repository has only the interface.
* *Of the client*: the replacement of a server of another version, `Reset`,
  `Shutdown`, `DeleteSession` and the launch of tools.
* *Storage and dictionaries*: the LRU file, filters and tries are sequential
  algorithms on bytes. IPC, renderer, dialogs, platform front ends and the
  configuration are input and output around the parts above.

## Plan

Done, in this order: `ZenzMailbox` and `ZenzLiveCorrector`; `Presentation`;
`LiveConversion`; `ZenzFeedbackStore` and `ZenzFeedback`; `LruCache`,
`SessionTable` and `SessionHandler`; `Client`; `DataLoader`; and the proofs of
each.

Left, should the project go on: `CommandSequence`, suspended macros composed
with the single timer of macOS; the action properties of `LiveConversion` in
TLAPS, for which `AlwaysSpells` is the base.
