--------------------------- MODULE SessionHandler ---------------------------
(***************************************************************************)
(* session/session_handler.cc: the sessions of all applications in one     *)
(* server, found by id in an LRU cache, with the time stamps by which      *)
(* sessions and, at last, the server itself are given up, the settings     *)
(* every session shares, and the replacement of the engine; together with  *)
(* the watch dog (session/session_watch_dog.cc) that sends CLEANUP.        *)
(*                                                                         *)
(* Commands are evaluated one at a time by the IPC thread, so that each is *)
(* one step.  Of a session there is what the handler looks at or hands to  *)
(* it, and the contexts its Undo may bring back, which hold the same.      *)
(***************************************************************************)
EXTENDS LruCache, Integers

CONSTANTS
  Ids,               \* session ids
  MaxSessions,       \* max_session_size_
  Configs, Requests, \* what ConfigHandler and a client may set
  DefaultConfig, DefaultRequest,
  Interval,          \* watch_dog_interval
  CreateTimeout,     \* last_create_session_timeout
  CommandTimeout,    \* last_command_timeout
  Timeout,           \* timeout; not positive: the server never gives up
  MinCreateInterval, \* create_session_min_interval
  MaxTime,           \* bound of the clock
  MaxReloads,        \* bound of the data files loaded
  MaxUndo            \* kMultipleUndoMaxSize

\* The constructor clamps max_session_size_ to 2..128.
ASSUME SessionHandlerAssumption ==
  /\ MaxSessions \in 2 .. 128
  /\ {Interval, CreateTimeout, CommandTimeout} \subseteq Nat \ {0}
  /\ Timeout \in Int
  /\ {MinCreateInterval, MaxTime, MaxReloads, MaxUndo} \subseteq Nat
  /\ DefaultConfig \in Configs /\ DefaultRequest \in Requests
  /\ Nil \notin Ids \cup (1 .. MaxSessions)

VARIABLES
  is_available,        \* is_available_
  session_map,         \* session_map_: the links
  value,               \* and the values of its elements
  config,              \* config_
  stored,              \* the configuration of ConfigHandler
  request,             \* request_
  last_session_empty,  \* last_session_empty_time_; Past is InfinitePast
  last_cleanup,        \* last_cleanup_time_
  last_create,         \* last_create_session_time_
  engine,              \* which data the engine was built from
  loader,              \* loader_.IsRunning() and loader_response_
  dog,                 \* the watch dog's own last_cleanup_time
  now                  \* Clock::GetAbslTime()

settings == <<config, stored, request>>
engineVars == <<engine, loader>>
vars == <<is_available, session_map, value, settings, last_session_empty,
          last_cleanup, last_create, engineVars, dog, now>>

\* absl::InfinitePast(): every time is infinitely later.
Past == -1
AtLeast(since, duration) == since = Past \/ now - since >= duration

Times == 0 .. MaxTime
-----------------------------------------------------------------------------
(***************************************************************************)
(* Sessions                                                                *)
(***************************************************************************)

\* The part of an ImeContext that a copy of it takes along.
Contexts == [last : Times \cup {Past}, config : Configs, request : Requests]

Sessions ==
  [created : Times,              \* create_session_time()
   context : Contexts,
   undo : UNION {[1 .. n -> Contexts] : n \in 0 .. MaxUndo},
   alive : BOOLEAN,              \* the application's process
   engine : 0 .. MaxReloads,     \* the engine its converter was made by
   used : Times \cup {Past}]     \* the time of its last command

\* The null pointer is no session.
ASSUME SessionsAssumption == Nil \notin Sessions

SessionsOf(v) == RangeOf(v) \ {Nil}

NewSession ==
  [created |-> now,
   context |-> [last |-> Past, config |-> DefaultConfig,
                request |-> DefaultRequest],
   undo |-> << >>, alive |-> TRUE, engine |-> engine, used |-> Past]

\* UpdateTime(), which begins every command.
UpdateTime(s) == [s EXCEPT !.context.last = now, !.used = now]

PushUndoContext_Unbounded(s) == [s EXCEPT !.undo = Append(@, s.context)]

PushUndoContext(s) ==
  [s EXCEPT !.undo = LET all == Append(@, s.context)
                     IN  IF Len(all) > MaxUndo THEN Tail(all) ELSE all]

PopUndoContext(s) ==
  IF s.undo = << >> THEN s
  ELSE [s EXCEPT !.context = Last(s.undo), !.undo = Front(@)]

SetSettings_KeepsUndo(s, c, r) ==
  [s EXCEPT !.context.config = c, !.context.request = r]

\* Session::SetConfig() and SetRequest(), which forget the undo contexts.
SetSettings(s, c, r) ==
  [s EXCEPT !.undo = << >>, !.context.config = c, !.context.request = r]

\* A command may save the context, lose the saved ones, or bring one back.
Commanded(s) ==
  LET t == UpdateTime(s)
  IN  {t, PushUndoContext(t), [t EXCEPT !.undo = << >>], PopUndoContext(t)}
-----------------------------------------------------------------------------
Init ==
  /\ is_available = TRUE
  /\ session_map = NewCache(MaxSessions)
  /\ value = [e \in 1 .. MaxSessions |-> Nil]
  /\ config = DefaultConfig /\ stored = DefaultConfig
  /\ request = DefaultRequest
  /\ last_session_empty = 0 /\ last_cleanup = Past /\ last_create = Past
  /\ engine = 0
  /\ loader = [running |-> FALSE, response |-> FALSE]
  /\ dog = 0 /\ now = 0

(***************************************************************************)
(* UpdateSessions(): takes the configuration over from ConfigHandler and   *)
(* hands it, with the request, to the sessions the iterator finds.         *)
(***************************************************************************)
UpdatedSessions(map, v, c, r) ==
  LET met == RangeOf(Order(map))
  IN  [e \in DOMAIN v |-> IF e \in met /\ v[e] # Nil
                          THEN SetSettings(v[e], c, r) ELSE v[e]]

UpdateSessions(map, v, c, r) ==
  /\ config' = c /\ request' = r
  /\ session_map' = map
  /\ value' = UpdatedSessions(map, v, c, r)

\* MaybeUpdateConfig() of an output that has a configuration: ConfigHandler
\* takes it and Reload() hands it to the sessions.
MaybeUpdateConfig(map, v, c) ==
  /\ stored' = c
  /\ UpdateSessions(map, v, c, request)

LookedUp(id) == Lookup(session_map, id)

Available(id) ==
  /\ is_available
  /\ HasKey(session_map, id)
  /\ value[session_map.table[id]] # Nil

DeletedSessions_OnlyReset(ids) ==
  LET after[i \in 0 .. Len(ids)] ==
        IF i = 0 THEN session_map ELSE Lookup(after[i - 1], ids[i])
  IN  after[Len(ids)]

\* The cache once DeleteSessionID() looked each id up and erased it...
DeletedSessions(ids) ==
  LET after[i \in 0 .. Len(ids)] ==
        IF i = 0 THEN session_map
        ELSE Erase(Lookup(after[i - 1], ids[i]), ids[i])
  IN  after[Len(ids)]

\* ...and the values it reset.
ResetSessions(ids) ==
  [e \in DOMAIN value |->
     IF \E id \in ToSet(ids) :
          HasKey(session_map, id) /\ session_map.table[id] = e
     THEN Nil ELSE value[e]]

EmptiedAt_Always(map) == now

\* What DeleteSessionID() leaves in last_session_empty_time_.
EmptiedAt(map) ==
  IF last_session_empty = Past /\ Size(map) = 0 /\ Size(session_map) > 0
  THEN now ELSE last_session_empty

DeleteSessionIDs(ids) ==
  /\ session_map' = DeletedSessions(ids)
  /\ value' = ResetSessions(ids)
  /\ last_session_empty' = EmptiedAt(session_map')

-----------------------------------------------------------------------------
(***************************************************************************)
(* The commands of EvalCommand(), which refuses all of them once           *)
(* is_available_ is FALSE.  A command for an id that is not in the cache   *)
(* fails and changes nothing.                                              *)
(***************************************************************************)

EvictOldest_Head(map) ==
  IF Size(map) >= MaxSessions THEN Erase(map, KeyOf(map, map.head)) ELSE map

\* A full cache loses its tail before the new session is made.
EvictOldest(map) ==
  IF Size(map) >= MaxSessions THEN Erase(map, KeyOf(map, map.tail)) ELSE map

MayReload_Always(map) == ~loader.running /\ loader.response

\* MaybeReloadEngine(): only while no session uses the engine, and
\* Engine::MaybeReloadEngine(), only while the loader does not run.
MayReload(map) ==
  DOMAIN map.table = {} /\ ~loader.running /\ loader.response

MaybeReloadEngine(map) ==
  IF MayReload(map)
  THEN /\ engine' = engine + 1
       /\ loader' = [loader EXCEPT !.response = FALSE]
  ELSE UNCHANGED engineVars

CreateSession(id) ==
  /\ is_available
  /\ AtLeast(last_create, MinCreateInterval) \/ now < last_create
  /\ last_create' = now
  /\ LET rest == EvictOldest(session_map)
         map == Insert(rest, id)
         left == [e \in DOMAIN value |->
                    IF e \in RangeOf(rest.table) THEN value[e] ELSE Nil]
     IN  /\ ~HasKey(rest, id)
         /\ MaybeReloadEngine(rest)
         /\ UpdateSessions(map,
              [left EXCEPT ![map.table[id]] =
                             [NewSession EXCEPT !.engine = engine']],
              stored, request)
  /\ last_session_empty' = Past
  /\ UNCHANGED <<is_available, stored, last_cleanup, dog, now>>

DeleteSession(id) ==
  /\ Available(id)
  /\ DeleteSessionIDs(<<id>>)
  /\ UNCHANGED <<is_available, settings, last_cleanup, last_create, engineVars,
                 dog, now>>

\* TestSendKey() only updates the time.
TestSendKey(id) ==
  /\ Available(id)
  /\ session_map' = LookedUp(id)
  /\ value' = [value EXCEPT ![session_map.table[id]] = UpdateTime(@)]
  /\ UNCHANGED <<is_available, settings, last_session_empty, last_cleanup,
                 last_create, engineVars, dog, now>>

\* SendKey() and SendCommand() with an output that has no configuration.
SendKey(id) ==
  /\ Available(id)
  /\ session_map' = LookedUp(id)
  /\ LET e == session_map.table[id]
     IN  \E s \in Commanded(value[e]) : value' = [value EXCEPT ![e] = s]
  /\ UNCHANGED <<is_available, settings, last_session_empty, last_cleanup,
                 last_create, engineVars, dog, now>>

\* The same for a key that toggles an option.
SendKeyThatConfigures(id, c) ==
  /\ Available(id)
  /\ LET e == session_map.table[id]
     IN  MaybeUpdateConfig(LookedUp(id),
                           [value EXCEPT ![e] = UpdateTime(@)], c)
  /\ UNCHANGED <<is_available, last_session_empty, last_cleanup, last_create,
                 engineVars, dog, now>>

SetConfig(c) ==
  /\ is_available
  /\ MaybeUpdateConfig(session_map, value, c)
  /\ UNCHANGED <<is_available, last_session_empty, last_cleanup, last_create,
                 engineVars, dog, now>>

SetRequest(r) ==
  /\ is_available
  /\ UpdateSessions(session_map, value, stored, r)
  /\ UNCHANGED <<is_available, stored, last_session_empty, last_cleanup,
                 last_create, engineVars, dog, now>>

\* GetConfig(), Reload() and ReloadAndWait().
Reload ==
  /\ is_available
  /\ UpdateSessions(session_map, value, stored, request)
  /\ UNCHANGED <<is_available, stored, last_session_empty, last_cleanup,
                 last_create, engineVars, dog, now>>

Shutdown ==
  /\ is_available
  /\ is_available' = FALSE
  /\ UNCHANGED <<session_map, value, settings, last_session_empty,
                 last_cleanup, last_create, engineVars, dog, now>>

\* The loader accepts the request and starts its thread (data_loader.cc).
SendEngineReloadRequest ==
  /\ is_available
  /\ engine < MaxReloads  \* bound
  /\ loader' = [loader EXCEPT !.running = TRUE]
  /\ UNCHANGED <<is_available, session_map, value, settings, engine,
                 last_session_empty, last_cleanup, last_create, dog, now>>
-----------------------------------------------------------------------------
(***************************************************************************)
(* Cleanup().  After a pause of more than two intervals the machine is     *)
(* taken to have slept, and the sessions are given that time.              *)
(***************************************************************************)
Suspended ==
  IF last_cleanup # Past /\ now - last_cleanup > 2 * Interval
  THEN now - last_cleanup - Interval ELSE 0

GivenUp(s) ==
  \/ ~s.alive
  \/ /\ s.context.last = Past
     /\ now - s.created >= Suspended + CreateTimeout
  \/ /\ s.context.last # Past
     /\ now - s.context.last >= Suspended + CommandTimeout

ToRemove ==
  LET list == OrderOfKeys(session_map)
      remove_ids[i \in 0 .. Len(list)] ==
        IF i = 0 THEN << >>
        ELSE IF GivenUp(value[session_map.table[list[i]]])
        THEN Append(remove_ids[i - 1], list[i]) ELSE remove_ids[i - 1]
  IN  remove_ids[Len(list)]

IdleTooLong ==
  Timeout > 0 /\ (last_session_empty' = Past
                   \/ now - last_session_empty' >= Suspended + Timeout)

Cleanup ==
  /\ DeleteSessionIDs(ToRemove)
  /\ is_available' = ~IdleTooLong
  /\ last_cleanup' = now
  /\ UNCHANGED <<settings, last_create, engineVars, now>>

\* SessionWatchDog::CanSendCleanupCommand(), but for the load of the CPU.
CanSendCleanupCommand == now > dog /\ now - dog <= 2 * Interval

(***************************************************************************)
(* SessionWatchDog::ThreadMain() once it has slept for an interval.        *)
(***************************************************************************)
WatchDogCleansUp ==
  /\ is_available
  /\ now - dog >= Interval
  /\ CanSendCleanupCommand
  /\ dog' = now
  /\ Cleanup

\* The CPU is busy, the clock was altered or the machine slept.
WatchDogSkips ==
  /\ is_available
  /\ now # dog
  /\ now - dog >= Interval \/ now < dog
  /\ dog' = now
  /\ UNCHANGED <<is_available, session_map, value, settings,
                 last_session_empty, last_cleanup, last_create, engineVars,
                 now>>
-----------------------------------------------------------------------------
(***************************************************************************)
(* The environment                                                         *)
(***************************************************************************)

\* The loader's thread ends, with or without a response.
LoaderEnds ==
  /\ loader.running
  /\ \E b \in {TRUE, loader.response} :
       loader' = [running |-> FALSE, response |-> b]
  /\ UNCHANGED <<is_available, session_map, value, settings, engine,
                 last_session_empty, last_cleanup, last_create, dog, now>>

ApplicationDies(id) ==
  /\ Available(id)
  /\ value' = [value EXCEPT ![session_map.table[id]].alive = FALSE]
  /\ UNCHANGED <<is_available, session_map, settings, last_session_empty,
                 last_cleanup, last_create, engineVars, dog, now>>

\* Time passes.
Tick ==
  /\ is_available
  /\ now < MaxTime  \* bound
  /\ now' = now + 1
  /\ UNCHANGED <<is_available, session_map, value, settings,
                 last_session_empty, last_cleanup, last_create, engineVars,
                 dog>>

Commands(id) ==
  \/ CreateSession(id)
  \/ DeleteSession(id)
  \/ TestSendKey(id)
  \/ SendKey(id)
  \/ ApplicationDies(id)
  \/ \E c \in Configs : SendKeyThatConfigures(id, c)

Next ==
  \/ \E id \in Ids : Commands(id)
  \/ \E c \in Configs : SetConfig(c)
  \/ \E r \in Requests : SetRequest(r)
  \/ Reload
  \/ Shutdown
  \/ SendEngineReloadRequest
  \/ LoaderEnds
  \/ WatchDogCleansUp
  \/ WatchDogSkips
  \/ Tick

Spec == Init /\ [][Next]_vars
-----------------------------------------------------------------------------
(***************************************************************************)
(* Properties                                                              *)
(***************************************************************************)

TypeOK ==
  /\ is_available \in BOOLEAN
  /\ DOMAIN session_map.table \subseteq Ids
  /\ value \in [1 .. MaxSessions -> Sessions \cup {Nil}]
  /\ {config, stored} \subseteq Configs /\ request \in Requests
  /\ {last_session_empty, last_cleanup, last_create} \subseteq
       Times \cup {Past}
  /\ engine \in 0 .. MaxReloads
  /\ loader \in [running : BOOLEAN, response : BOOLEAN]
  /\ {dog, now} \subseteq Times

(***************************************************************************)
(* The lists of the cache hold together whatever mixture of lookups,       *)
(* evictions, deletions and reuse of elements there was, and exactly the   *)
(* elements in use have a session (lru_cache.h, CreateSession and          *)
(* DeleteSessionID reset it by themselves).                                *)
(***************************************************************************)
CacheIsLinked ==
  /\ Linked(session_map)
  /\ \A e \in 1 .. MaxSessions :
       value[e] # Nil <=> e \in RangeOf(session_map.table)

(***************************************************************************)
(* Every session works with the configuration and the request that were    *)
(* set last, by whichever application, and so does every context its Undo  *)
(* may bring back, although that is a copy with the older settings.        *)
(***************************************************************************)
SettingsAreShared ==
  /\ config = stored
  /\ \A s \in SessionsOf(value) :
       \A c \in {s.context} \cup RangeOf(s.undo) :
         c.config = config /\ c.request = request

(***************************************************************************)
(* No session is left with a converter of an engine that was replaced      *)
(* (MaybeReloadEngine in CreateSession, after the eviction).               *)
(***************************************************************************)
EngineIsShared ==
  \A s \in SessionsOf(value) : s.engine = engine

(***************************************************************************)
(* The time since which there is no session is known exactly while there   *)
(* is none: it decides when an unused server ends.                         *)
(***************************************************************************)
IdleTimeIsKept == last_session_empty = Past <=> Size(session_map) > 0

(***************************************************************************)
(* The cache of linked elements, with its evictions, deletions and         *)
(* lookups by every kind of command, is a table in order of recency: the   *)
(* session that goes for a new one is always the least recently used one.  *)
(***************************************************************************)
Table == INSTANCE SessionTable WITH order <- OrderOfKeys(session_map)

ImplementsTable == Table!Spec
=============================================================================
