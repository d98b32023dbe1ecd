------------------------ MODULE SessionHandler_proofs ------------------------
(***************************************************************************)
(* Proofs about the sessions of a server, for any number of sessions up to *)
(* the 128 of the handler, of applications, settings, reloads and contexts *)
(* to undo, and any timeouts: no session keeps a converter of an engine    *)
(* that was replaced; the cache stays linked and has a session in exactly  *)
(* the elements in use; every session has the settings that were set last; *)
(* the idle time is kept; CLEANUP deletes what is given up and nothing     *)
(* else; and the handler implements SessionTable.                          *)
(*                                                                         *)
(* What the cache does is taken from LruCache_proofs: Cached says that it  *)
(* was reached by calls of it, Held that the values fit the elements in    *)
(* use, AllSettled that each session has the settings.                     *)
(***************************************************************************)
EXTENDS SessionHandler, LruCache_proofs

\* A session whose converter was made by an engine.
MadeBy(s, n) == "engine" \in DOMAIN s /\ s.engine = n

AllMadeBy(v, n) == \A e \in DOMAIN v : v[e] # Nil => MadeBy(v[e], n)

Inv == AllMadeBy(value, engine)
-----------------------------------------------------------------------------
\* SetConfig() and SetRequest() leave the converter of a session alone.
LEMMA SetSettingsKeepsEngine ==
  ASSUME NEW s, NEW n, MadeBy(s, n), NEW c, NEW r
  PROVE  MadeBy(SetSettings(s, c, r), n)
BY DEF MadeBy, SetSettings

\* So does UpdateSessions(), of every session.
LEMMA UpdatedSessionsKeepEngine ==
  ASSUME NEW map, NEW v, NEW n, AllMadeBy(v, n), NEW c, NEW r
  PROVE  AllMadeBy(UpdatedSessions(map, v, c, r), n)
<1>. DEFINE u == UpdatedSessions(map, v, c, r)
            met == RangeOf(Order(map))
<1>. SUFFICES ASSUME NEW e \in DOMAIN v, u[e] # Nil
              PROVE  MadeBy(u[e], n)
  BY DEF UpdatedSessions, AllMadeBy
<1>1. CASE e \in met /\ v[e] # Nil
  <2>1. u[e] = SetSettings(v[e], c, r)
    BY <1>1 DEF UpdatedSessions
  <2>. QED
    BY <1>1, <2>1, SetSettingsKeepsEngine DEF AllMadeBy
<1>2. CASE ~ (e \in met /\ v[e] # Nil)
  <2>1. u[e] = v[e]
    BY <1>2 DEF UpdatedSessions
  <2>. QED
    BY <2>1 DEF AllMadeBy
<1>. QED
  BY <1>1, <1>2

\* And so does a command of the session, Undo included.
LEMMA CommandKeepsEngine ==
  ASSUME NEW s, NEW n, MadeBy(s, n), NEW t \in Commanded(s)
  PROVE  MadeBy(t, n)
<1>1. MadeBy(UpdateTime(s), n)
  BY DEF MadeBy, UpdateTime
<1>. QED
  BY <1>1 DEF MadeBy, Commanded, PushUndoContext, PopUndoContext

\* One session replaced by another of the same engine.
LEMMA OneReplaced ==
  ASSUME NEW v, NEW n, AllMadeBy(v, n), NEW i, NEW s,
         i \in DOMAIN v => s = Nil \/ MadeBy(s, n)
  PROVE  AllMadeBy([v EXCEPT ![i] = s], n)
BY DEF AllMadeBy

\* An engine is replaced only when there is no session, and the new session
\* is made by the engine that is left.
LEMMA CreateSessionInv ==
  ASSUME Inv, NEW id, CreateSession(id)
  PROVE  Inv'
<1>. DEFINE rest == EvictOldest(session_map)
            map == Insert(rest, id)
            left == [e \in DOMAIN value |->
                       IF e \in RangeOf(rest.table) THEN value[e] ELSE Nil]
            new == [NewSession EXCEPT !.engine = engine']
<1>1. AllMadeBy(left, engine')
  <2>1. CASE MayReload(rest)
    <3>1. RangeOf(rest.table) = {}
      BY <2>1 DEF MayReload, RangeOf
    <3>. QED
      BY <3>1 DEF AllMadeBy
  <2>2. CASE ~MayReload(rest)
    <3>1. engine' = engine
      BY <2>2 DEF CreateSession, MaybeReloadEngine, engineVars
    <3>. QED
      BY <3>1 DEF Inv, AllMadeBy
  <2>. QED
    BY <2>1, <2>2
<1>2. MadeBy(new, engine')
  BY DEF MadeBy, NewSession
<1>. DEFINE v == [left EXCEPT ![map.table[id]] = new]
<1>3. AllMadeBy(v, engine')
  BY <1>1, <1>2, OneReplaced
<1>4. value' = UpdatedSessions(map, v, stored, request)
  BY DEF CreateSession, UpdateSessions
<1>. QED
  BY <1>3, <1>4, UpdatedSessionsKeepEngine DEF Inv
-----------------------------------------------------------------------------
\* Every command, the watch dog and the environment preserve it.
LEMMA NextInv == Inv /\ [Next]_vars => Inv'
<1>. SUFFICES ASSUME Inv, [Next]_vars PROVE Inv'
  OBVIOUS
<1>1. ASSUME NEW id \in Ids, Commands(id) PROVE Inv'
  <2>. DEFINE e == session_map.table[id]
  <2>1. CASE CreateSession(id)
    BY <2>1, CreateSessionInv
  <2>2. CASE DeleteSession(id)
    BY <2>2 DEF DeleteSession, DeleteSessionIDs, ResetSessions, Inv,
                AllMadeBy, engineVars
  <2>3. CASE TestSendKey(id)
    <3>1. e \in DOMAIN value => MadeBy(UpdateTime(value[e]), engine)
      BY <2>3 DEF TestSendKey, Available, Inv, AllMadeBy, MadeBy, UpdateTime
    <3>2. AllMadeBy([value EXCEPT ![e] = UpdateTime(value[e])], engine)
      BY <3>1, OneReplaced DEF Inv
    <3>. QED
      BY <2>3, <3>2 DEF TestSendKey, Inv, engineVars
  <2>4. CASE SendKey(id)
    <3>1. PICK s \in Commanded(value[e]) : value' = [value EXCEPT ![e] = s]
      BY <2>4 DEF SendKey
    <3>2. e \in DOMAIN value => MadeBy(s, engine)
      BY <2>4, CommandKeepsEngine DEF SendKey, Available, Inv, AllMadeBy
    <3>. QED
      BY <2>4, <3>1, <3>2, OneReplaced DEF SendKey, Inv, engineVars
  <2>5. CASE ApplicationDies(id)
    <3>1. e \in DOMAIN value =>
            MadeBy([value[e] EXCEPT !.alive = FALSE], engine)
      BY <2>5 DEF ApplicationDies, Available, Inv, AllMadeBy, MadeBy
    <3>2. AllMadeBy([value EXCEPT ![e] = [value[e] EXCEPT !.alive = FALSE]],
                    engine)
      BY <3>1, OneReplaced DEF Inv
    <3>. QED
      BY <2>5, <3>2 DEF ApplicationDies, Inv, engineVars
  <2>6. ASSUME NEW c \in Configs, SendKeyThatConfigures(id, c)
        PROVE  Inv'
    <3>. DEFINE v == [value EXCEPT ![e] = UpdateTime(value[e])]
    <3>1. e \in DOMAIN value => MadeBy(UpdateTime(value[e]), engine)
      BY <2>6 DEF SendKeyThatConfigures, Available, Inv, AllMadeBy, MadeBy,
                  UpdateTime
    <3>2. AllMadeBy(v, engine)
      BY <3>1, OneReplaced DEF Inv
    <3>3. value' = UpdatedSessions(LookedUp(id), v, c, request)
          /\ engine' = engine
      BY <2>6 DEF SendKeyThatConfigures, MaybeUpdateConfig, UpdateSessions,
                  engineVars
    <3>. QED
      BY <3>2, <3>3, UpdatedSessionsKeepEngine DEF Inv
  <2>. QED
    BY <1>1, <2>1, <2>2, <2>3, <2>4, <2>5, <2>6 DEF Commands
<1>2. ASSUME NEW c, NEW r, engine' = engine,
             UpdateSessions(session_map, value, c, r)
      PROVE  Inv'
  BY <1>2, UpdatedSessionsKeepEngine DEF UpdateSessions, Inv
<1>3. ASSUME NEW c \in Configs, SetConfig(c) PROVE Inv'
  BY <1>2, <1>3 DEF SetConfig, MaybeUpdateConfig, engineVars
<1>4. ASSUME NEW r \in Requests, SetRequest(r) PROVE Inv'
  BY <1>2, <1>4 DEF SetRequest, engineVars
<1>5. CASE Reload
  BY <1>2, <1>5 DEF Reload, engineVars
<1>6. CASE WatchDogCleansUp
  BY <1>6 DEF WatchDogCleansUp, Cleanup, DeleteSessionIDs, ResetSessions,
              Inv, AllMadeBy, engineVars
<1>7. CASE UNCHANGED <<value, engine>>
  BY <1>7 DEF Inv
<1>8. Shutdown \/ SendEngineReloadRequest \/ LoaderEnds \/ WatchDogSkips
        \/ Tick \/ UNCHANGED vars => UNCHANGED <<value, engine>>
  BY DEF Shutdown, SendEngineReloadRequest, LoaderEnds, WatchDogSkips, Tick,
         vars, engineVars
<1>. QED
  BY <1>1, <1>3, <1>4, <1>5, <1>6, <1>7, <1>8 DEF Next

\* No session is left with a converter of an engine that was replaced
\* (SessionHandler::MaybeReloadEngine in CreateSession, after the eviction).
THEOREM EngineIsNeverReplacedUnderSessions == Spec => []EngineIsShared
<1>1. Init => Inv
  BY DEF Init, Inv, AllMadeBy
<1>2. Inv => EngineIsShared
  BY DEF Inv, AllMadeBy, MadeBy, EngineIsShared, SessionsOf, RangeOf
<1>. QED
  BY <1>1, <1>2, NextInv, PTL DEF Spec
-----------------------------------------------------------------------------
(***************************************************************************)
(* Sequences that lose some of their elements                              *)
(***************************************************************************)

\* The steps of SessionTable's Without.
Keeps(kept, s, ids) ==
  /\ kept[0] = << >>
  /\ \A i \in 1 .. Len(s) :
       kept[i] = IF s[i] \in ids THEN kept[i - 1]
                 ELSE Append(kept[i - 1], s[i])

\* There are such steps, they are the only ones, and Without takes them.
LEMMA WithoutKeeps ==
  ASSUME NEW S, NEW s \in Seq(S), NEW ids
  PROVE  /\ \E kept : Keeps(kept, s, ids)
         /\ \A kept : Keeps(kept, s, ids) =>
              Table!Without(s, ids) = kept[Len(s)]
<1>. DEFINE l == Len(s)
            G == [i \in 1 .. l |-> [t \in Seq(S) |->
                    IF s[i] \in ids THEN t ELSE Append(t, s[i])]]
            Step(f) == [i \in 0 .. l |->
                          IF i = 0 THEN << >>
                          ELSE IF s[i] \in ids THEN f[i - 1]
                          ELSE Append(f[i - 1], s[i])]
            kept == CHOOSE f : f = Step(f)
<1>1. l \in Nat /\ \A i \in 1 .. l : s[i] \in S
  OBVIOUS
<1>2. \E f : f = Step(f)
  <2>1. G \in Steps(l, Seq(S))
    <3>1. ASSUME NEW i \in 1 .. l, NEW t \in Seq(S)
          PROVE  (IF s[i] \in ids THEN t ELSE Append(t, s[i])) \in Seq(S)
      BY <1>1
    <3>. QED
      BY <3>1 DEF Steps
  <2>. HIDE DEF G
  <2>2. PICK f \in [0 .. l -> Seq(S)] :
          /\ f[0] = << >>
          /\ \A i \in 1 .. l : f[i] = G[i][f[i - 1]]
    <3>1. << >> \in Seq(S) /\ l \in Nat
      OBVIOUS
    <3>2. \E f : Takes(f, l, Seq(S), << >>, G)
      BY <2>1, <3>1, Recursion
    <3>. QED
      BY <3>2 DEF Takes
  <2>3. ASSUME NEW i \in 0 .. l PROVE f[i] = Step(f)[i]
    <3>1. CASE i = 0
      BY <3>1, <2>2
    <3>2. CASE i # 0
      <4>1. i \in 1 .. l /\ i - 1 \in 0 .. l
        BY <3>2, <1>1
      <4>2. f[i] = G[i][f[i - 1]] /\ f[i - 1] \in Seq(S)
        BY <4>1, <2>2
      <4>. QED
        BY <3>2, <4>1, <4>2 DEF G
    <3>. QED
      BY <3>1, <3>2
  <2>4. f = Step(f)
    BY <2>3
  <2>. QED
    BY <2>4
<1>3. kept = Step(kept)
  <2>. HIDE DEF Step
  <2>. QED
    BY <1>2
<1>4. Table!Without(s, ids) = kept[l]
  BY DEF Table!Without
<1>. HIDE DEF kept
<1>5. Keeps(kept, s, ids)
  <2>1. kept[0] = Step(kept)[0] /\ \A i \in 1 .. l : kept[i] = Step(kept)[i]
    <3>. HIDE DEF Step
    <3>. QED
      BY <1>3
  <2>2. /\ Step(kept)[0] = << >>
        /\ \A i \in 1 .. l : Step(kept)[i] = IF s[i] \in ids THEN kept[i - 1]
                                             ELSE Append(kept[i - 1], s[i])
    BY <1>1
  <2>. HIDE DEF Step
  <2>. QED
    BY <2>1, <2>2 DEF Keeps
<1>6. ASSUME NEW f, Keeps(f, s, ids) PROVE kept[l] = f[l]
  <2>. DEFINE P == {i \in 0 .. l : kept[i] = f[i]}
  <2>1. 0 \in P
    BY <1>1, <1>5, <1>6 DEF Keeps
  <2>2. ASSUME NEW i \in 1 .. l, i - 1 \in P PROVE i \in P
    <3>1. kept[i - 1] = f[i - 1] /\ i \in 0 .. l
      BY <2>2, <1>1
    <3>2. kept[i] = IF s[i] \in ids THEN kept[i - 1]
                    ELSE Append(kept[i - 1], s[i])
      BY <1>5 DEF Keeps
    <3>3. f[i] = IF s[i] \in ids THEN f[i - 1] ELSE Append(f[i - 1], s[i])
      BY <1>6 DEF Keeps
    <3>. QED
      BY <3>1, <3>2, <3>3
  <2>3. \A i \in 0 .. l : i \in P
    <3>. HIDE DEF P, l
    <3>. QED
      BY <1>1, <2>1, <2>2, UpTo
  <2>. QED
    BY <1>1, <2>3
<1>. QED
  BY <1>4, <1>5, <1>6

\* Nothing is lost without anything to lose.
LEMMA WithoutNone ==
  ASSUME NEW S, NEW s \in Seq(S)
  PROVE  Table!Without(s, {}) = s
<1>. DEFINE l == Len(s)
            Part(i) == [j \in 1 .. i |-> s[j]]
            kept == [i \in 0 .. l |-> Part(i)]
<1>1. l \in Nat /\ DOMAIN s = 1 .. l /\ \A i \in 1 .. l : s[i] \in S
  OBVIOUS
<1>2. ASSUME NEW i \in 0 .. l PROVE Part(i) \in Seq(S) /\ Len(Part(i)) = i
  <2>1. Part(i) \in [1 .. i -> S] /\ i \in Nat
    BY <1>1
  <2>. HIDE DEF Part
  <2>. QED
    BY <2>1, FunctionIsSeq
<1>3. ASSUME NEW i \in 1 .. l PROVE Part(i) = Append(Part(i - 1), s[i])
  <2>1. i - 1 \in 0 .. l /\ i \in 0 .. l /\ i \in Nat
    BY <1>1
  <2>2. /\ Part(i - 1) \in Seq(S) /\ Len(Part(i - 1)) = i - 1
        /\ Part(i) \in Seq(S) /\ Len(Part(i)) = i
    BY <2>1, <1>2
  <2>3. /\ Append(Part(i - 1), s[i]) \in Seq(S)
        /\ Len(Append(Part(i - 1), s[i])) = i
        /\ \A j \in 1 .. i : Append(Part(i - 1), s[i])[j] =
                               IF j = i THEN s[i] ELSE Part(i - 1)[j]
    <3>1. s[i] \in S
      BY <1>1
    <3>. HIDE DEF Part
    <3>. QED
      BY <2>1, <2>2, <3>1, AppendProperties
  <2>4. \A j \in 1 .. i : Part(i)[j] = Append(Part(i - 1), s[i])[j]
    BY <2>1, <2>3
  <2>. HIDE DEF Part
  <2>. QED
    BY <2>2, <2>3, <2>4, SeqEqual
<1>4. Part(0) = << >> /\ Part(l) = s
  <2>1. Part(0) \in Seq(S) /\ Len(Part(0)) = 0
    BY <1>1, <1>2
  <2>2. Part(0) = << >>
    <3>. HIDE DEF Part
    <3>. QED
      BY <2>1, EmptySeq
  <2>. QED
    BY <1>1, <2>2
<1>5. Keeps(kept, s, {})
  <2>. HIDE DEF Part
  <2>. QED
    BY <1>1, <1>3, <1>4 DEF Keeps
<1>6. Table!Without(s, {}) = kept[l]
  <2>. HIDE DEF kept
  <2>. QED
    BY <1>5, WithoutKeeps
<1>. QED
  BY <1>1, <1>4, <1>6

\* Of a sequence that lost one element, the same goes as of the sequence with
\* that element added to what it loses.
LEMMA WithoutMore ==
  ASSUME NEW S, NEW s \in Strings(S), NEW p \in DOMAIN s, NEW ids
  PROVE  Table!Without(Without(s, p), ids) = Table!Without(s, ids \cup {s[p]})
<1>. DEFINE l == Len(s)
            t == Without(s, p)
            more == ids \cup {s[p]}
<1>1. s \in Seq(S) /\ l \in Nat /\ DOMAIN s = 1 .. l /\ p \in 1 .. l
      /\ Len(s) = l /\ \A i, j \in 1 .. l : s[i] = s[j] => i = j
  <2>1. s \in Seq(S) /\ Distinct(s)
    BY DEF Strings
  <2>. QED
    BY <2>1 DEF Distinct
<1>2. t \in Seq(S) /\ Len(t) = l - 1
      /\ \A i \in 1 .. l - 1 : t[i] = IF i < p THEN s[i] ELSE s[i + 1]
  <2>1. /\ t \in Strings(S) /\ Len(t) = Len(s) - 1
        /\ \A i \in 1 .. Len(s) - 1 : t[i] = IF i < p THEN s[i] ELSE s[i + 1]
    BY WithoutOne
  <2>. QED
    BY <2>1 DEF Strings
<1>3. PICK K : Keeps(K, s, more)
  BY <1>1, WithoutKeeps
<1>4. Table!Without(s, more) = K[l]
  BY <1>1, <1>3, WithoutKeeps
<1>. DEFINE kept == [i \in 0 .. l - 1 |-> IF i < p THEN K[i] ELSE K[i + 1]]
<1>. HIDE DEF t, l
<1>5. K[0] = << >> /\ \A i \in 1 .. l : K[i] = IF s[i] \in more THEN K[i - 1]
                                               ELSE Append(K[i - 1], s[i])
  BY <1>1, <1>3 DEF Keeps
<1>6. K[p] = K[p - 1]
  BY <1>1, <1>5
<1>7. ASSUME NEW i \in 1 .. l - 1
      PROVE  kept[i] = IF t[i] \in ids THEN kept[i - 1]
                       ELSE Append(kept[i - 1], t[i])
  <2>1. CASE i < p
    <3>1. i \in 1 .. l /\ i # p /\ i - 1 \in 0 .. l - 1 /\ i \in 0 .. l - 1
          /\ i - 1 < p
      BY <2>1, <1>1
    <3>2. kept[i] = K[i] /\ kept[i - 1] = K[i - 1] /\ t[i] = s[i]
      BY <2>1, <3>1, <1>2
    <3>3. s[i] \in more <=> s[i] \in ids
      BY <3>1, <1>1
    <3>. HIDE DEF more, kept
    <3>. QED
      BY <3>1, <3>2, <3>3, <1>5
  <2>2. CASE ~(i < p)
    <3>1. i + 1 \in 1 .. l /\ i + 1 # p /\ i - 1 \in 0 .. l - 1
          /\ i \in 0 .. l - 1 /\ (i + 1) - 1 = i /\ (i - 1) + 1 = i
          /\ (i - 1 < p => i = p)
      BY <2>2, <1>1
    <3>2. kept[i] = K[i + 1] /\ t[i] = s[i + 1]
      BY <2>2, <3>1, <1>2
    <3>3. kept[i - 1] = K[i]
      BY <2>2, <3>1, <1>6
    <3>4. s[i + 1] \in more <=> s[i + 1] \in ids
      BY <3>1, <1>1
    <3>5. K[i + 1] = IF s[i + 1] \in more THEN K[i] ELSE Append(K[i], s[i + 1])
      BY <3>1, <1>5
    <3>. HIDE DEF more, kept
    <3>. QED
      BY <3>2, <3>3, <3>4, <3>5
  <2>. QED
    BY <2>1, <2>2
<1>8. kept[0] = << >>
  BY <1>1, <1>5
<1>9. kept[l - 1] = K[l]
  BY <1>1, <1>6
<1>. HIDE DEF kept, more
<1>10. Keeps(kept, t, ids)
  BY <1>2, <1>7, <1>8 DEF Keeps
<1>11. Table!Without(t, ids) = kept[l - 1]
  BY <1>2, <1>10, WithoutKeeps
<1>. QED
  BY <1>4, <1>9, <1>11 DEF t, more
-----------------------------------------------------------------------------
(***************************************************************************)
(* Deletions                                                               *)
(***************************************************************************)

Cached(c) == Good(c, MaxSessions, Ids)

\* What the assumptions on the constants say of the cache.
LEMMA CacheConstants ==
  MaxSessions \in Nat \ {0} /\ MaxSessions >= 2 /\ Nil \notin 1 .. MaxSessions
BY SessionHandlerAssumption

\* t is s without some of its elements.
Trimmed(s, t) ==
  /\ RangeOf(t) \subseteq RangeOf(s)
  /\ \A ids : Table!Without(t, ids) =
                Table!Without(s, (RangeOf(s) \ RangeOf(t)) \cup ids)

\* One element less is still trimmed.
LEMMA TrimmedOnce ==
  ASSUME NEW S, NEW s, NEW t \in Strings(S), Trimmed(s, t), NEW p \in DOMAIN t
  PROVE  Trimmed(s, Without(t, p))
<1>. DEFINE u == Without(t, p)
<1>1. RangeOf(u) = RangeOf(t) \ {t[p]}
  BY WithoutOne
<1>2. t[p] \in RangeOf(t)
  BY DEF RangeOf
<1>3. ASSUME NEW ids
      PROVE  Table!Without(u, ids) =
               Table!Without(s, (RangeOf(s) \ RangeOf(u)) \cup ids)
  <2>1. Table!Without(u, ids) = Table!Without(t, ids \cup {t[p]})
    BY WithoutMore
  <2>2. Table!Without(t, ids \cup {t[p]}) =
          Table!Without(s, (RangeOf(s) \ RangeOf(t)) \cup (ids \cup {t[p]}))
    BY DEF Trimmed
  <2>3. (RangeOf(s) \ RangeOf(t)) \cup (ids \cup {t[p]}) =
          (RangeOf(s) \ RangeOf(u)) \cup ids
    BY <1>1, <1>2 DEF Trimmed
  <2>. QED
    BY <2>1, <2>2, <2>3
<1>. QED
  BY <1>1, <1>3 DEF Trimmed

\* What is left is what SessionTable drops to.
LEMMA TrimmedIs ==
  ASSUME NEW S, NEW s, NEW t \in Seq(S), Trimmed(s, t)
  PROVE  t = Table!Without(s, RangeOf(s) \ RangeOf(t))
<1>1. Table!Without(t, {}) = t
  BY WithoutNone
<1>2. Table!Without(t, {}) =
        Table!Without(s, (RangeOf(s) \ RangeOf(t)) \cup {})
  BY DEF Trimmed
<1>3. (RangeOf(s) \ RangeOf(t)) \cup {} = RangeOf(s) \ RangeOf(t)
  OBVIOUS
<1>. QED
  BY <1>1, <1>2, <1>3

\* The first is what the last was pushed to.
LEMMA WithoutFirst ==
  ASSUME NEW S, NEW s \in Seq(S), NEW x
  PROVE  Without(Pushed(x, s), 1) = s /\ Pushed(x, s)[1] = x
         /\ 1 \in DOMAIN Pushed(x, s)
<1>. DEFINE l == Len(s)
            t == Pushed(x, s)
<1>1. l \in Nat /\ s = [i \in 1 .. l |-> s[i]]
  OBVIOUS
<1>2. t \in [1 .. l + 1 -> S \cup {x}]
  BY DEF Pushed
<1>3. Len(t) = l + 1 /\ DOMAIN t = 1 .. l + 1
  BY <1>1, <1>2, FunctionIsSeq
<1>4. Without(t, 1) = [i \in 1 .. l |-> t[i + 1]]
  BY <1>1, <1>3 DEF Without
<1>5. \A i \in 1 .. l : t[i + 1] = s[i]
  BY <1>1 DEF Pushed
<1>6. t[1] = x
  BY <1>1 DEF Pushed
<1>7. Without(t, 1) = s /\ 1 \in DOMAIN t
  <2>. HIDE DEF t, l
  <2>. QED
    BY <1>1, <1>3, <1>4, <1>5
<1>. QED
  BY <1>6, <1>7

\* d is what the deletion of some ids makes of c.
Deleted(c, ids, d) ==
  /\ Cached(d)
  /\ Trimmed(OrderOfKeys(c), OrderOfKeys(d))
  /\ DOMAIN d.table = DOMAIN c.table \ ids
  /\ \A id \in DOMAIN d.table : d.table[id] = c.table[id]

\* DeleteSessionID() looks the id up, which moves it to the head, and erases
\* it: the others stay where they were.
LEMMA DeleteOne ==
  ASSUME NEW c, NEW ids, NEW b, Deleted(c, ids, b), NEW id
  PROVE  Deleted(c, ids \cup {id}, Erase(Lookup(b, id), id))
<1>. DEFINE M == MaxSessions
            l == Lookup(b, id)
            d == Erase(l, id)
            order == OrderOfKeys(b)
<1>1. Good(b, M, Ids) /\ M \in Nat /\ Nil \notin 1 .. M
  BY CacheConstants DEF Deleted, Cached
<1>2. order \in Strings(Ids) /\ DOMAIN b.table = RangeOf(order)
  BY <1>1, GoodIsSound DEF Sound
<1>3. CASE ~HasKey(b, id)
  <2>1. d = b
    BY <1>3 DEF Erase, Lookup
  <2>. QED
    BY <1>3, <2>1 DEF Deleted, HasKey
<1>4. CASE HasKey(b, id)
  <2>1. PICK p \in DOMAIN order : id = order[p]
    BY <1>2, <1>4 DEF HasKey, RangeOf
  <2>. DEFINE rest == Without(order, p)
  <2>2. /\ Good(l, M, Ids) /\ OrderOfKeys(l) = Pushed(id, rest)
        /\ l.table = b.table
    BY <1>1, <2>1, GoodLookup
  <2>3. rest \in Seq(Ids)
    BY <1>2, <2>1, WithoutOne DEF Strings
  <2>4. /\ 1 \in DOMAIN OrderOfKeys(l) /\ OrderOfKeys(l)[1] = id
        /\ Without(OrderOfKeys(l), 1) = rest
    BY <2>2, <2>3, WithoutFirst
  <2>. HIDE DEF l
  <2>5. /\ Good(d, M, Ids) /\ OrderOfKeys(d) = rest
        /\ DOMAIN d.table = DOMAIN l.table \ {id}
        /\ \A x \in DOMAIN d.table : d.table[x] = l.table[x]
    <3>1. ErasedAt(l, M, Ids, 1)
      BY <1>1, <2>2, <2>4, GoodErase
    <3>. QED
      BY <2>4, <3>1 DEF ErasedAt
  <2>6. Trimmed(OrderOfKeys(c), rest)
    BY <1>2, <2>1, TrimmedOnce DEF Deleted
  <2>. HIDE DEF d
  <2>. QED
    BY <2>2, <2>5, <2>6 DEF Deleted, Cached, d, l
<1>. QED
  BY <1>3, <1>4

\* DeleteSessionID() of a sequence of ids.
LEMMA DeletedSessionsDeletes ==
  ASSUME Cached(session_map), NEW ids \in Seq(Ids)
  PROVE  Deleted(session_map, RangeOf(ids), DeletedSessions(ids))
<1>. DEFINE l == Len(ids)
            S == {c \in Caches(MaxSessions, Ids) : Cached(c)}
            G == [i \in 1 .. l |->
                    [c \in S |-> Erase(Lookup(c, ids[i]), ids[i])]]
            Step(f) == [i \in 0 .. l |->
                          IF i = 0 THEN session_map
                          ELSE Erase(Lookup(f[i - 1], ids[i]), ids[i])]
            after == CHOOSE f : f = Step(f)
            First(i) == {ids[j] : j \in 1 .. i}
<1>1. l \in Nat /\ DOMAIN ids = 1 .. l
  OBVIOUS
<1>2. ASSUME NEW c, Cached(c) PROVE c \in S
  BY <1>2, CacheConstants, GoodIsSound DEF Cached, Sound
<1>3. ASSUME NEW c
      PROVE  Trimmed(OrderOfKeys(c), OrderOfKeys(c))
  BY DEF Trimmed
<1>4. ASSUME NEW c, Cached(c) PROVE Deleted(c, {}, c)
  BY <1>3, <1>4 DEF Deleted
<1>5. \E f : f = Step(f)
  <2>1. ASSUME NEW i \in 1 .. l, NEW c \in S
        PROVE  Erase(Lookup(c, ids[i]), ids[i]) \in S
    <3>1. Deleted(c, {} \cup {ids[i]}, Erase(Lookup(c, ids[i]), ids[i]))
      BY <1>4, DeleteOne
    <3>. HIDE DEF S
    <3>. QED
      BY <3>1, <1>2 DEF Deleted
  <2>2. session_map \in S
    BY <1>2
  <2>. HIDE DEF S
  <2>3. G \in Steps(l, S)
    BY <2>1 DEF Steps
  <2>4. PICK f : Takes(f, l, S, session_map, G)
    <3>. HIDE DEF G
    <3>. QED
      BY <1>1, <2>2, <2>3, Recursion
  <2>5. ASSUME NEW i \in 0 .. l PROVE f[i] = Step(f)[i]
    <3>1. CASE i = 0
      BY <3>1, <2>4 DEF Takes
    <3>2. CASE i # 0
      <4>1. i \in 1 .. l /\ i - 1 \in 0 .. l
        BY <3>2, <1>1
      <4>2. f[i] = G[i][f[i - 1]] /\ f[i - 1] \in S
        <5>. HIDE DEF G
        <5>. QED
          BY <4>1, <2>4 DEF Takes
      <4>. QED
        BY <3>2, <4>1, <4>2
    <3>. QED
      BY <3>1, <3>2
  <2>6. f = Step(f)
    BY <2>4, <2>5 DEF Takes
  <2>. HIDE DEF Step
  <2>. QED
    BY <2>6
<1>6. after = Step(after)
  <2>. HIDE DEF Step
  <2>. QED
    BY <1>5
<1>7. DeletedSessions(ids) = after[l]
  BY DEF DeletedSessions
<1>. HIDE DEF after
<1>8. /\ after[0] = session_map
      /\ \A i \in 1 .. l :
           after[i] = Erase(Lookup(after[i - 1], ids[i]), ids[i])
  <2>1. after[0] = Step(after)[0]
        /\ \A i \in 1 .. l : after[i] = Step(after)[i]
    <3>. HIDE DEF Step
    <3>. QED
      BY <1>6
  <2>2. /\ Step(after)[0] = session_map
        /\ \A i \in 1 .. l : Step(after)[i] =
                               Erase(Lookup(after[i - 1], ids[i]), ids[i])
    BY <1>1
  <2>. HIDE DEF Step
  <2>. QED
    BY <2>1, <2>2
<1>. DEFINE P == {i \in 0 .. l : Deleted(session_map, First(i), after[i])}
<1>9. 0 \in P
  <2>1. First(0) = {}
    OBVIOUS
  <2>2. Deleted(session_map, {}, session_map)
    BY <1>4
  <2>. HIDE DEF First
  <2>3. Deleted(session_map, First(0), after[0])
    BY <1>8, <2>1, <2>2
  <2>. QED
    BY <1>1, <2>3
<1>10. ASSUME NEW i \in 1 .. l, i - 1 \in P PROVE i \in P
  <2>1. First(i) = First(i - 1) \cup {ids[i]}
    BY <1>1
  <2>. HIDE DEF First
  <2>2. Deleted(session_map, First(i - 1), after[i - 1])
    BY <1>10
  <2>3. Deleted(session_map, First(i - 1) \cup {ids[i]},
                Erase(Lookup(after[i - 1], ids[i]), ids[i]))
    BY <2>2, DeleteOne
  <2>4. after[i] = Erase(Lookup(after[i - 1], ids[i]), ids[i]) /\ i \in 0 .. l
    BY <1>1, <1>8
  <2>. QED
    BY <2>1, <2>3, <2>4
<1>11. l \in P
  <2>. HIDE DEF P, l
  <2>1. \A i \in 0 .. l : i \in P
    BY <1>1, <1>9, <1>10, UpTo
  <2>. QED
    BY <1>1, <2>1
<1>12. First(l) = RangeOf(ids)
  BY <1>1 DEF RangeOf
<1>. HIDE DEF First
<1>. QED
  BY <1>7, <1>11, <1>12

\* Append() adds one element.
LEMMA AppendRange ==
  ASSUME NEW S, NEW s \in Seq(S), NEW x \in S
  PROVE  /\ Append(s, x) \in Seq(S)
         /\ RangeOf(Append(s, x)) = RangeOf(s) \cup {x}
<1>. DEFINE t == Append(s, x)
<1>1. t \in Seq(S) /\ Len(t) = Len(s) + 1 /\ Len(s) \in Nat
      /\ DOMAIN s = 1 .. Len(s)
  BY AppendProperties
<1>2. /\ \A i \in 1 .. Len(s) : t[i] = s[i]
      /\ t[Len(s) + 1] = x
  BY AppendProperties
<1>3. DOMAIN t = 1 .. Len(s) + 1
  BY <1>1, LenProperties
<1>. HIDE DEF t
<1>4. ASSUME NEW i \in DOMAIN t PROVE t[i] \in RangeOf(s) \cup {x}
  BY <1>1, <1>2, <1>3 DEF RangeOf
<1>5. ASSUME NEW i \in DOMAIN s PROVE s[i] \in RangeOf(t)
  BY <1>1, <1>2, <1>3 DEF RangeOf
<1>6. x \in RangeOf(t)
  BY <1>1, <1>2, <1>3 DEF RangeOf
<1>. QED
  BY <1>1, <1>4, <1>5, <1>6 DEF RangeOf, t

\* The loop of Cleanup() collects exactly the sessions that are given up.
LEMMA ToRemoveIsGivenUp ==
  ASSUME Cached(session_map)
  PROVE  /\ ToRemove \in Seq(Ids)
         /\ RangeOf(ToRemove) =
              {id \in DOMAIN session_map.table :
                 GivenUp(value[session_map.table[id]])}
<1>. DEFINE list == OrderOfKeys(session_map)
            l == Len(list)
            Gone(id) == GivenUp(value[session_map.table[id]])
            G == [i \in 1 .. l |-> [t \in Seq(Ids) |->
                    IF Gone(list[i]) THEN Append(t, list[i]) ELSE t]]
            Step(f) == [i \in 0 .. l |->
                          IF i = 0 THEN << >>
                          ELSE IF Gone(list[i]) THEN Append(f[i - 1], list[i])
                          ELSE f[i - 1]]
            ids == CHOOSE f : f = Step(f)
            First(i) == {list[j] : j \in {k \in 1 .. i : Gone(list[k])}}
<1>1. /\ list \in Seq(Ids) /\ l \in Nat /\ \A i \in 1 .. l : list[i] \in Ids
      /\ DOMAIN list = 1 .. l /\ DOMAIN session_map.table = RangeOf(list)
  <2>1. Sound(session_map, MaxSessions, Ids)
    BY CacheConstants, GoodIsSound DEF Cached
  <2>2. list \in Seq(Ids) /\ DOMAIN session_map.table = RangeOf(list)
    BY <2>1 DEF Sound, Strings
  <2>. HIDE DEF list
  <2>. QED
    BY <2>2
<1>2. ToRemove = ids[l]
  BY DEF ToRemove
<1>. HIDE DEF list, Gone
<1>3. \E f : f = Step(f)
  <2>1. G \in Steps(l, Seq(Ids))
    <3>1. ASSUME NEW i \in 1 .. l, NEW t \in Seq(Ids)
          PROVE  (IF Gone(list[i]) THEN Append(t, list[i]) ELSE t) \in Seq(Ids)
      BY <1>1
    <3>. QED
      BY <3>1 DEF Steps
  <2>. HIDE DEF G
  <2>2. PICK f : Takes(f, l, Seq(Ids), << >>, G)
    <3>1. << >> \in Seq(Ids) /\ l \in Nat
      BY <1>1
    <3>. QED
      BY <2>1, <3>1, Recursion
  <2>3. ASSUME NEW i \in 0 .. l PROVE f[i] = Step(f)[i]
    <3>1. CASE i = 0
      BY <3>1, <2>2 DEF Takes
    <3>2. CASE i # 0
      <4>1. i \in 1 .. l /\ i - 1 \in 0 .. l
        BY <3>2, <1>1
      <4>2. f[i] = G[i][f[i - 1]] /\ f[i - 1] \in Seq(Ids)
        BY <4>1, <2>2 DEF Takes
      <4>. QED
        BY <3>2, <4>1, <4>2 DEF G
    <3>. QED
      BY <3>1, <3>2
  <2>4. f = Step(f)
    BY <2>2, <2>3 DEF Takes
  <2>. HIDE DEF Step
  <2>. QED
    BY <2>4
<1>4. ids = Step(ids)
  <2>. HIDE DEF Step
  <2>. QED
    BY <1>3
<1>. HIDE DEF ids
<1>5. /\ ids[0] = << >>
      /\ \A i \in 1 .. l : ids[i] = IF Gone(list[i])
                                    THEN Append(ids[i - 1], list[i])
                                    ELSE ids[i - 1]
  <2>1. ids[0] = Step(ids)[0] /\ \A i \in 1 .. l : ids[i] = Step(ids)[i]
    <3>. HIDE DEF Step
    <3>. QED
      BY <1>4
  <2>2. /\ Step(ids)[0] = << >>
        /\ \A i \in 1 .. l : Step(ids)[i] = IF Gone(list[i])
                                            THEN Append(ids[i - 1], list[i])
                                            ELSE ids[i - 1]
    BY <1>1
  <2>. HIDE DEF Step
  <2>. QED
    BY <2>1, <2>2
<1>. DEFINE P == {i \in 0 .. l : ids[i] \in Seq(Ids)
                                 /\ RangeOf(ids[i]) = First(i)}
<1>6. 0 \in P
  <2>1. First(0) = {} /\ RangeOf(<< >>) = {}
    BY DEF RangeOf
  <2>2. ids[0] \in Seq(Ids) /\ RangeOf(ids[0]) = First(0)
    BY <1>5, <2>1
  <2>. QED
    BY <1>1, <2>2
<1>7. ASSUME NEW i \in 1 .. l, i - 1 \in P PROVE i \in P
  <2>1. ids[i - 1] \in Seq(Ids) /\ RangeOf(ids[i - 1]) = First(i - 1)
        /\ i \in 0 .. l
    BY <1>1, <1>7
  <2>2. CASE Gone(list[i])
    <3>1. First(i) = First(i - 1) \cup {list[i]}
      <4>1. {k \in 1 .. i : Gone(list[k])} =
              {k \in 1 .. i - 1 : Gone(list[k])} \cup {i}
        BY <2>2, <1>1
      <4>. QED
        BY <4>1
    <3>2. ids[i] = Append(ids[i - 1], list[i]) /\ list[i] \in Ids
      BY <2>2, <1>1, <1>5
    <3>3. /\ ids[i] \in Seq(Ids)
          /\ RangeOf(ids[i]) = RangeOf(ids[i - 1]) \cup {list[i]}
      BY <2>1, <3>2, AppendRange
    <3>. HIDE DEF First
    <3>. QED
      BY <2>1, <3>1, <3>3
  <2>3. CASE ~Gone(list[i])
    <3>1. First(i) = First(i - 1)
      <4>1. {k \in 1 .. i : Gone(list[k])} = {k \in 1 .. i - 1 : Gone(list[k])}
        BY <2>3, <1>1
      <4>. QED
        BY <4>1
    <3>2. ids[i] = ids[i - 1]
      BY <2>3, <1>5
    <3>. HIDE DEF First
    <3>. QED
      BY <2>1, <3>1, <3>2
  <2>. QED
    BY <2>2, <2>3
<1>8. l \in P
  <2>. HIDE DEF P, l
  <2>1. \A i \in 0 .. l : i \in P
    BY <1>1, <1>6, <1>7, UpTo
  <2>. QED
    BY <1>1, <2>1
<1>9. First(l) = {id \in RangeOf(list) : Gone(id)}
  BY <1>1 DEF RangeOf
<1>. HIDE DEF First
<1>. QED
  BY <1>1, <1>2, <1>8, <1>9 DEF Gone, list
-----------------------------------------------------------------------------
(***************************************************************************)
(* Sessions and their settings                                             *)
(***************************************************************************)

Undos == UNION {[1 .. n -> Contexts] : n \in 0 .. MaxUndo}

\* The contexts of Undo are a sequence of at most MaxUndo of them.
LEMMA UndosAreSequences ==
  ASSUME NEW u
  PROVE  u \in Undos <=> u \in Seq(Contexts) /\ Len(u) <= MaxUndo
<1>1. MaxUndo \in Nat
  BY SessionHandlerAssumption
<1>2. ASSUME u \in Undos PROVE u \in Seq(Contexts) /\ Len(u) <= MaxUndo
  <2>1. PICK n \in 0 .. MaxUndo : u \in [1 .. n -> Contexts]
    BY <1>2 DEF Undos
  <2>. QED
    BY <1>1, <2>1, FunctionIsSeq
<1>3. ASSUME u \in Seq(Contexts), Len(u) <= MaxUndo PROVE u \in Undos
  <2>1. Len(u) \in 0 .. MaxUndo /\ u \in [1 .. Len(u) -> Contexts]
    BY <1>1, <1>3
  <2>. QED
    BY <2>1 DEF Undos
<1>. QED
  BY <1>2, <1>3

\* A context, and a session in all of its contexts, has these settings.
Set(x, c, r) == x \in Contexts /\ x.config = c /\ x.request = r

Settled(s, c, r) ==
  /\ s \in Sessions
  /\ Set(s.context, c, r)
  /\ \A i \in DOMAIN s.undo : Set(s.undo[i], c, r)

\* What a session is made of.
LEMMA SessionFields ==
  ASSUME NEW s
  PROVE  /\ s \in Sessions =>
              /\ s.context \in Contexts /\ s.undo \in Undos
              /\ s.created \in Times /\ s.alive \in BOOLEAN
              /\ s.engine \in 0 .. MaxReloads /\ s.used \in Times \cup {Past}
         /\ \A x \in Contexts, u \in Undos, t \in Times \cup {Past} :
              s \in Sessions =>
                [s EXCEPT !.context = x, !.undo = u, !.used = t] \in Sessions
BY DEF Sessions, Undos

\* A session with another context, other contexts for Undo and another time.
Changed(s, x, u, t) == [s EXCEPT !.context = x, !.undo = u, !.used = t]

\* It has these settings when all of its contexts do.
LEMMA ChangedIsSettled ==
  ASSUME NEW s \in Sessions, NEW c, NEW r, NEW x, Set(x, c, r),
         NEW u \in Seq(Contexts), Len(u) <= MaxUndo,
         \A i \in 1 .. Len(u) : Set(u[i], c, r),
         NEW t \in Times \cup {Past}
  PROVE  Settled(Changed(s, x, u, t), c, r)
<1>1. u \in Undos /\ DOMAIN u = 1 .. Len(u)
  BY UndosAreSequences
<1>2. Changed(s, x, u, t) \in Sessions
  BY <1>1, SessionFields DEF Set, Changed
<1>3. Changed(s, x, u, t).context = x /\ Changed(s, x, u, t).undo = u
  BY DEF Sessions, Changed
<1>. QED
  BY <1>1, <1>2, <1>3 DEF Settled

\* SetConfig() and SetRequest() leave no context with other settings.
LEMMA SetSettingsSettles ==
  ASSUME NEW s \in Sessions, NEW c \in Configs, NEW r \in Requests
  PROVE  Settled(SetSettings(s, c, r), c, r)
<1>. DEFINE x == [s.context EXCEPT !.config = c, !.request = r]
<1>1. s.context \in Contexts /\ s.used \in Times \cup {Past}
  BY SessionFields
<1>2. Set(x, c, r)
  BY <1>1 DEF Contexts, Set
<1>3. SetSettings(s, c, r) = Changed(s, x, << >>, s.used)
  BY DEF SetSettings, Changed, Sessions
<1>4. << >> \in Seq(Contexts) /\ Len(<< >>) <= MaxUndo
      /\ \A i \in 1 .. Len(<< >>) : Set(<< >>[i], c, r)
  BY SessionHandlerAssumption
<1>. HIDE DEF x
<1>. QED
  BY <1>1, <1>2, <1>3, <1>4, ChangedIsSettled

\* A command of a session keeps its settings, in the context it saves and in
\* the one its Undo brings back.
LEMMA CommandedIsSettled ==
  ASSUME NEW s, NEW c, NEW r, Settled(s, c, r), now \in Times,
         NEW t \in Commanded(s)
  PROVE  Settled(t, c, r)
<1>. DEFINE x == [s.context EXCEPT !.last = now]
            u == s.undo
            l == Len(u)
            a == Append(u, x)
<1>1. /\ s \in Sessions /\ s.context \in Contexts /\ u \in Undos
      /\ now \in Times \cup {Past} /\ Set(s.context, c, r)
      /\ \A i \in DOMAIN u : Set(u[i], c, r)
  BY SessionFields DEF Settled
<1>2. /\ u \in Seq(Contexts) /\ l \in Nat /\ l <= MaxUndo /\ MaxUndo \in Nat
      /\ DOMAIN u = 1 .. l
  BY <1>1, UndosAreSequences, SessionHandlerAssumption
<1>3. Set(x, c, r) /\ x \in Contexts
  BY <1>1 DEF Contexts, Set
<1>4. UpdateTime(s) = Changed(s, x, u, now)
  BY <1>1 DEF UpdateTime, Changed, Sessions
<1>. DEFINE m == UpdateTime(s)
<1>5. /\ m \in Sessions /\ m.context = x /\ m.undo = u /\ m.used = now
      /\ Settled(m, c, r)
  <2>1. Settled(m, c, r)
    <3>. HIDE DEF x, u
    <3>. QED
      BY <1>1, <1>2, <1>3, <1>4, ChangedIsSettled
  <2>2. m.context = x /\ m.undo = u /\ m.used = now
    BY <1>1 DEF UpdateTime, Sessions
  <2>. QED
    BY <2>1, <2>2 DEF Settled
<1>. HIDE DEF x, u, m
<1>6. CASE t = PushUndoContext(m)
  <2>1. /\ a \in Seq(Contexts) /\ Len(a) = l + 1
        /\ \A i \in 1 .. l + 1 : Set(a[i], c, r)
    <3>1. a \in Seq(Contexts) /\ Len(a) = l + 1
      BY <1>2, <1>3, AppendProperties
    <3>2. /\ \A i \in 1 .. l : a[i] = u[i]
          /\ a[l + 1] = x
      BY <1>2, <1>3, AppendProperties
    <3>. HIDE DEF a
    <3>. QED
      BY <1>1, <1>2, <1>3, <3>1, <3>2
  <2>. DEFINE b == IF Len(a) > MaxUndo THEN Tail(a) ELSE a
  <2>2. t = Changed(m, x, b, now)
    BY <1>5, <1>6 DEF PushUndoContext, Changed, Sessions
  <2>. HIDE DEF a
  <2>3. /\ b \in Seq(Contexts) /\ Len(b) <= MaxUndo
        /\ \A i \in 1 .. Len(b) : Set(b[i], c, r)
    <3>1. CASE Len(a) > MaxUndo
      <4>1. a # << >>
        BY <2>1, <1>2, <3>1
      <4>2. /\ Tail(a) \in Seq(Contexts) /\ Len(Tail(a)) = l
            /\ \A i \in 1 .. l : Tail(a)[i] = a[i + 1]
        BY <2>1, <4>1, <1>2, HeadTailProperties
      <4>3. \A i \in 1 .. l : Set(Tail(a)[i], c, r)
        BY <2>1, <4>2, <1>2
      <4>. QED
        BY <1>2, <3>1, <4>2, <4>3
    <3>2. CASE ~(Len(a) > MaxUndo)
      BY <2>1, <1>2, <3>2
    <3>. QED
      BY <3>1, <3>2
  <2>. HIDE DEF b
  <2>. QED
    BY <1>1, <1>3, <1>5, <2>2, <2>3, ChangedIsSettled
<1>7. CASE t = [m EXCEPT !.undo = << >>]
  <2>1. t = Changed(m, x, << >>, now)
    BY <1>5, <1>7 DEF Changed, Sessions
  <2>2. << >> \in Seq(Contexts) /\ Len(<< >>) <= MaxUndo
        /\ \A i \in 1 .. Len(<< >>) : Set(<< >>[i], c, r)
    BY <1>2
  <2>. QED
    BY <1>1, <1>3, <1>5, <2>1, <2>2, ChangedIsSettled
<1>8. CASE t = PopUndoContext(m)
  <2>1. CASE u = << >>
    BY <1>5, <1>8, <2>1 DEF PopUndoContext
  <2>2. CASE u # << >>
    <3>1. l >= 1
      BY <1>2, <2>2
    <3>2. t = Changed(m, u[l], Front(u), now)
      BY <1>5, <1>8, <2>2 DEF PopUndoContext, Last, Changed, Sessions
    <3>3. /\ Front(u) \in Seq(Contexts) /\ Len(Front(u)) = l - 1
          /\ \A i \in 1 .. l - 1 : Front(u)[i] = u[i]
      BY <1>2, <3>1, SubSeqProperties DEF Front
    <3>4. /\ Len(Front(u)) <= MaxUndo /\ Set(u[l], c, r)
          /\ \A i \in 1 .. Len(Front(u)) : Set(Front(u)[i], c, r)
      BY <1>1, <1>2, <3>1, <3>3
    <3>. QED
      BY <1>1, <1>5, <3>2, <3>3, <3>4, ChangedIsSettled
  <2>. QED
    BY <2>1, <2>2
<1>. QED
  BY <1>5, <1>6, <1>7, <1>8 DEF Commanded, m
-----------------------------------------------------------------------------
(***************************************************************************)
(* The sessions of the elements                                            *)
(***************************************************************************)

\* Exactly the elements in use have a session...
Held(map, v) ==
  /\ Cached(map)
  /\ v \in [1 .. MaxSessions -> Sessions \cup {Nil}]
  /\ \A e \in 1 .. MaxSessions : v[e] # Nil <=> e \in RangeOf(map.table)

\* ...with these settings.
AllSettled(v, c, r) ==
  \A e \in 1 .. MaxSessions : v[e] # Nil => Settled(v[e], c, r)

\* The cache is sound, whatever was done with it.
LEMMA CachedIsSound ==
  ASSUME NEW map, Cached(map)
  PROVE  Sound(map, MaxSessions, Ids)
BY CacheConstants, GoodIsSound DEF Cached

\* UpdateSessions() reaches every session, for the iterator meets every
\* element in use.
LEMMA UpdatedSessionsAreSettled ==
  ASSUME NEW map, NEW v, Held(map, v), NEW c \in Configs, NEW r \in Requests
  PROVE  /\ Held(map, UpdatedSessions(map, v, c, r))
         /\ AllSettled(UpdatedSessions(map, v, c, r), c, r)
<1>. DEFINE u == UpdatedSessions(map, v, c, r)
            met == RangeOf(Order(map))
<1>1. met = RangeOf(map.table)
  BY CachedIsSound DEF Held, Sound
<1>2. /\ DOMAIN v = 1 .. MaxSessions
      /\ \A e \in 1 .. MaxSessions : v[e] \in Sessions \cup {Nil}
      /\ \A e \in 1 .. MaxSessions : v[e] # Nil <=> e \in met
  BY <1>1 DEF Held
<1>3. u = [e \in 1 .. MaxSessions |-> IF e \in met /\ v[e] # Nil
                                      THEN SetSettings(v[e], c, r) ELSE v[e]]
  BY <1>2 DEF UpdatedSessions
<1>. HIDE DEF u, met
<1>4. ASSUME NEW e \in 1 .. MaxSessions
      PROVE  /\ u[e] \in Sessions \cup {Nil}
             /\ u[e] # Nil <=> v[e] # Nil
             /\ u[e] # Nil => Settled(u[e], c, r)
  <2>1. CASE v[e] # Nil
    <3>1. u[e] = SetSettings(v[e], c, r) /\ v[e] \in Sessions
      BY <1>2, <1>3, <2>1
    <3>2. Settled(u[e], c, r)
      BY <3>1, SetSettingsSettles
    <3>. QED
      BY <2>1, <3>2, SessionsAssumption DEF Settled
  <2>2. CASE v[e] = Nil
    BY <1>3, <2>2
  <2>. QED
    BY <2>1, <2>2
<1>. QED
  BY <1>1, <1>2, <1>3, <1>4 DEF Held, AllSettled, u

\* The session of an element in use is replaced by another one.
LEMMA OneSettled ==
  ASSUME NEW map, NEW v, Held(map, v), NEW c, NEW r, AllSettled(v, c, r),
         NEW e \in RangeOf(map.table), NEW s, Settled(s, c, r)
  PROVE  Held(map, [v EXCEPT ![e] = s])
         /\ AllSettled([v EXCEPT ![e] = s], c, r)
<1>1. s \in Sessions /\ s # Nil
  BY SessionsAssumption DEF Settled
<1>2. e \in 1 .. MaxSessions
  <2>1. /\ map.table \in [DOMAIN map.table -> 1 .. MaxSessions]
        /\ e \in RangeOf(map.table)
    BY CachedIsSound DEF Held, Sound
  <2>. QED
    BY <2>1 DEF RangeOf
<1>. QED
  BY <1>1, <1>2 DEF Held, AllSettled

\* A lookup changes which element is first, and nothing else.
LEMMA LookedUpIsHeld ==
  ASSUME NEW map, NEW v, Held(map, v), NEW id, HasKey(map, id)
  PROVE  /\ Held(Lookup(map, id), v)
         /\ Lookup(map, id).table = map.table
         /\ \E p \in DOMAIN OrderOfKeys(map) :
              /\ id = OrderOfKeys(map)[p]
              /\ OrderOfKeys(Lookup(map, id)) =
                   Pushed(id, Without(OrderOfKeys(map), p))
<1>1. Sound(map, MaxSessions, Ids) /\ Good(map, MaxSessions, Ids)
  BY CacheConstants, GoodIsSound DEF Held, Cached
<1>2. PICK p \in DOMAIN OrderOfKeys(map) : id = OrderOfKeys(map)[p]
  BY <1>1 DEF Sound, RangeOf, HasKey
<1>3. /\ Good(Lookup(map, id), MaxSessions, Ids)
      /\ OrderOfKeys(Lookup(map, id)) =
           Pushed(id, Without(OrderOfKeys(map), p))
      /\ Lookup(map, id).table = map.table
  BY <1>1, <1>2, CacheConstants, GoodLookup
<1>. QED
  BY <1>2, <1>3 DEF Held, Cached

\* DeleteSessionID() resets the sessions of the elements it frees.
LEMMA DeletedSessionsAreReset ==
  ASSUME Held(session_map, value), NEW c, NEW r, AllSettled(value, c, r),
         NEW ids \in Seq(Ids)
  PROVE  /\ Held(DeletedSessions(ids), ResetSessions(ids))
         /\ AllSettled(ResetSessions(ids), c, r)
<1>. DEFINE d == DeletedSessions(ids)
            u == ResetSessions(ids)
            gone == {e \in 1 .. MaxSessions : \E id \in RangeOf(ids) :
                       HasKey(session_map, id) /\ session_map.table[id] = e}
<1>1. Deleted(session_map, RangeOf(ids), d)
  BY DeletedSessionsDeletes DEF Held
<1>2. /\ Sound(session_map, MaxSessions, Ids)
      /\ \A k \in DOMAIN session_map.table :
           /\ session_map.table[k] \in 1 .. MaxSessions
           /\ KeyOf(session_map, session_map.table[k]) = k
  <2>1. Sound(session_map, MaxSessions, Ids)
    BY CachedIsSound DEF Held
  <2>. QED
    BY <2>1 DEF Sound
<1>3. ToSet(ids) = RangeOf(ids) /\ DOMAIN value = 1 .. MaxSessions
  BY DEF ToSet, RangeOf, Held
<1>4. u = [e \in 1 .. MaxSessions |-> IF e \in gone THEN Nil ELSE value[e]]
  BY <1>3 DEF ResetSessions
<1>5. RangeOf(d.table) = RangeOf(session_map.table) \ gone
  <2>1. DOMAIN d.table = DOMAIN session_map.table \ RangeOf(ids)
        /\ \A id \in DOMAIN d.table : d.table[id] = session_map.table[id]
    BY <1>1 DEF Deleted
  <2>2. ASSUME NEW e \in RangeOf(d.table)
        PROVE  e \in RangeOf(session_map.table) \ gone
    <3>1. PICK k \in DOMAIN d.table : e = d.table[k]
      BY <2>2 DEF RangeOf
    <3>2. /\ k \in DOMAIN session_map.table /\ k \notin RangeOf(ids)
          /\ e = session_map.table[k] /\ KeyOf(session_map, e) = k
      BY <1>2, <2>1, <3>1
    <3>3. ASSUME NEW id \in RangeOf(ids), HasKey(session_map, id),
                 session_map.table[id] = e
          PROVE  FALSE
      BY <1>2, <3>2, <3>3 DEF HasKey
    <3>. QED
      BY <3>2, <3>3 DEF RangeOf
  <2>3. ASSUME NEW e \in RangeOf(session_map.table), e \notin gone
        PROVE  e \in RangeOf(d.table)
    <3>1. PICK k \in DOMAIN session_map.table : e = session_map.table[k]
      BY <2>3 DEF RangeOf
    <3>2. k \notin RangeOf(ids)
      BY <1>2, <2>3, <3>1 DEF HasKey
    <3>. QED
      BY <2>1, <3>1, <3>2 DEF RangeOf
  <2>. QED
    BY <2>2, <2>3
<1>. HIDE DEF d, u, gone
<1>. QED
  BY <1>1, <1>4, <1>5 DEF Held, AllSettled, Deleted, d, u
-----------------------------------------------------------------------------
(***************************************************************************)
(* A new session                                                           *)
(***************************************************************************)

\* Empty is empty.
LEMMA SizeOfCached ==
  ASSUME NEW c, Cached(c)
  PROVE  Size(c) \in Nat /\ (Size(c) = 0 <=> DOMAIN c.table = {})
         /\ Size(c) = Len(OrderOfKeys(c))
<1>1. /\ DOMAIN c.table = RangeOf(OrderOfKeys(c))
      /\ Size(c) = Len(OrderOfKeys(c)) /\ OrderOfKeys(c) \in Seq(Ids)
  BY CachedIsSound DEF Sound, Strings
<1>2. DOMAIN OrderOfKeys(c) = 1 .. Len(OrderOfKeys(c))
      /\ Len(OrderOfKeys(c)) \in Nat
  BY <1>1
<1>3. Len(OrderOfKeys(c)) = 0 => DOMAIN c.table = {}
  BY <1>1, <1>2 DEF RangeOf
<1>4. Len(OrderOfKeys(c)) # 0 => DOMAIN c.table # {}
  BY <1>1, <1>2 DEF RangeOf
<1>. QED
  BY <1>1, <1>2, <1>3, <1>4

\* The eviction makes room for one more, at the expense of the session that
\* was used least recently.
LEMMA EvictOldestMakesRoom ==
  ASSUME NEW map, Cached(map)
  PROVE  LET rest == EvictOldest(map)
         IN  /\ Cached(rest) /\ Size(rest) < MaxSessions
             /\ OrderOfKeys(rest) = Kept(OrderOfKeys(map), MaxSessions)
             /\ RangeOf(rest.table) \subseteq RangeOf(map.table)
<1>. DEFINE rest == EvictOldest(map)
            order == OrderOfKeys(map)
<1>1. MaxSessions \in Nat \ {0} /\ MaxSessions >= 2
  BY CacheConstants
<1>2. /\ Size(map) = Len(order) /\ Size(map) \in 0 .. MaxSessions
      /\ Size(map) # 0 => /\ Size(map) \in DOMAIN order
                          /\ KeyOf(map, map.tail) = order[Size(map)]
      /\ order \in Strings(Ids)
  BY CachedIsSound DEF Sound
<1>3. CASE Size(map) >= MaxSessions
  <2>1. Size(map) = MaxSessions
    BY <1>1, <1>2, <1>3
  <2>2. rest = Erase(map, order[MaxSessions]) /\ MaxSessions \in DOMAIN order
    BY <1>1, <1>2, <1>3, <2>1 DEF EvictOldest
  <2>3. ErasedAt(map, MaxSessions, Ids, MaxSessions)
    BY <2>2, CacheConstants, GoodErase DEF Cached
  <2>4. /\ Cached(rest) /\ OrderOfKeys(rest) = Without(order, MaxSessions)
        /\ DOMAIN rest.table = DOMAIN map.table \ {order[MaxSessions]}
        /\ \A x \in DOMAIN rest.table : rest.table[x] = map.table[x]
    BY <2>2, <2>3 DEF ErasedAt, Cached
  <2>5. Size(rest) = MaxSessions - 1
    <3>1. Size(rest) = Len(OrderOfKeys(rest))
      BY <2>4, SizeOfCached
    <3>2. Len(Without(order, MaxSessions)) = Len(order) - 1
      BY <1>2, <2>2, WithoutOne
    <3>. QED
      BY <1>2, <2>1, <2>4, <3>1, <3>2
  <2>6. OrderOfKeys(rest) = Kept(order, MaxSessions)
    BY <1>2, <2>1, <2>4 DEF Kept
  <2>7. RangeOf(rest.table) \subseteq RangeOf(map.table)
    BY <2>4 DEF RangeOf
  <2>. QED
    BY <1>1, <2>4, <2>5, <2>6, <2>7
<1>4. CASE ~(Size(map) >= MaxSessions)
  <2>1. rest = map /\ Size(map) < MaxSessions
    BY <1>1, <1>2, <1>4 DEF EvictOldest
  <2>2. Kept(order, MaxSessions) = order
    BY <1>1, <1>2, <2>1 DEF Kept
  <2>. QED
    BY <2>1, <2>2
<1>. QED
  BY <1>3, <1>4

\* Into a cache that has room.
LEMMA InsertedIsHeld ==
  ASSUME NEW rest, Cached(rest), Size(rest) < MaxSessions,
         NEW id \in Ids, ~HasKey(rest, id),
         NEW v, Held(rest, v), NEW s \in Sessions
  PROVE  LET map == Insert(rest, id)
         IN  /\ Held(map, [v EXCEPT ![map.table[id]] = s])
             /\ OrderOfKeys(map) = Pushed(id, OrderOfKeys(rest))
             /\ Size(map) > 0
<1>. DEFINE map == Insert(rest, id)
            e == map.table[id]
            u == [v EXCEPT ![e] = s]
<1>1. /\ Good(map, MaxSessions, Ids)
      /\ OrderOfKeys(map) = Pushed(id, Kept(OrderOfKeys(rest), MaxSessions))
      /\ Size(rest) < MaxSessions =>
           /\ DOMAIN map.table = DOMAIN rest.table \cup {id}
           /\ e \in (1 .. MaxSessions) \ RangeOf(rest.table)
           /\ RangeOf(map.table) = RangeOf(rest.table) \cup {e}
  BY CacheConstants, GoodInsert DEF Cached
<1>2. Kept(OrderOfKeys(rest), MaxSessions) = OrderOfKeys(rest)
  BY SizeOfCached, CacheConstants DEF Kept
<1>. HIDE DEF map, e
<1>3. Cached(map)
  BY <1>1 DEF Cached
<1>4. Size(map) > 0
  <2>1. DOMAIN map.table # {}
    BY <1>1
  <2>. QED
    BY <1>3, <2>1, SizeOfCached
<1>5. Held(map, u)
  <2>1. /\ v \in [1 .. MaxSessions -> Sessions \cup {Nil}]
        /\ \A x \in 1 .. MaxSessions : v[x] # Nil <=> x \in RangeOf(rest.table)
    BY DEF Held
  <2>2. s # Nil /\ e \in 1 .. MaxSessions
    BY <1>1, SessionsAssumption
  <2>3. u \in [1 .. MaxSessions -> Sessions \cup {Nil}]
    BY <2>1, <2>2
  <2>4. ASSUME NEW x \in 1 .. MaxSessions
        PROVE  u[x] # Nil <=> x \in RangeOf(map.table)
    BY <1>1, <2>1, <2>2
  <2>. HIDE DEF u
  <2>. QED
    BY <1>3, <2>3, <2>4 DEF Held
<1>. QED
  BY <1>1, <1>2, <1>4, <1>5 DEF map, e
-----------------------------------------------------------------------------
(***************************************************************************)
(* The invariant of the handler                                            *)
(***************************************************************************)

\* The loader has something to answer only below the bound of the reloads.
ReloadsLeft == loader.running \/ loader.response => engine < MaxReloads

HandlerInv ==
  /\ TypeOK
  /\ Held(session_map, value)
  /\ AllSettled(value, config, request)
  /\ config = stored
  /\ IdleTimeIsKept
  /\ ReloadsLeft

\* What the constants are.
LEMMA HandlerConstants ==
  /\ MaxTime \in Nat /\ MaxReloads \in Nat /\ MaxUndo \in Nat
  /\ DefaultConfig \in Configs /\ DefaultRequest \in Requests
BY SessionHandlerAssumption

\* The ids are those of the cache.
LEMMA HeldTable ==
  ASSUME NEW map, NEW v, Held(map, v)
  PROVE  DOMAIN map.table \subseteq Ids
         /\ v \in [1 .. MaxSessions -> Sessions \cup {Nil}]
BY CachedIsSound DEF Held, Sound

\* A new session is one, whichever engine it is made by.
LEMMA NewSessionIsASession ==
  ASSUME now \in Times, engine \in 0 .. MaxReloads, NEW n \in 0 .. MaxReloads
  PROVE  [NewSession EXCEPT !.engine = n] \in Sessions
<1>. DEFINE x == [last |-> Past, config |-> DefaultConfig,
                  request |-> DefaultRequest]
            none == << >>
            s == [created |-> now, context |-> x, undo |-> none,
                  alive |-> TRUE, engine |-> engine, used |-> Past]
<1>1. none \in Undos
  <2>1. << >> \in Seq(Contexts) /\ Len(<< >>) = 0
    OBVIOUS
  <2>2. << >> \in Undos <=> << >> \in Seq(Contexts) /\ Len(<< >>) <= MaxUndo
    BY UndosAreSequences
  <2>. QED
    BY <2>1, <2>2, HandlerConstants
<1>2. x \in Contexts
  BY HandlerConstants DEF Contexts
<1>3. NewSession = s
  BY DEF NewSession
<1>. HIDE DEF x, none
<1>4. s \in Sessions
  BY <1>1, <1>2 DEF Sessions, Undos
<1>. HIDE DEF s
<1>5. [s EXCEPT !.engine = n] \in Sessions
  BY <1>4 DEF Sessions
<1>. QED
  BY <1>3, <1>5

\* A new session starts with the engine that is left.
LEMMA CreateSessionHandlerInv ==
  ASSUME HandlerInv, NEW id \in Ids, CreateSession(id)
  PROVE  HandlerInv'
<1>. DEFINE rest == EvictOldest(session_map)
            map == Insert(rest, id)
            left == [e \in DOMAIN value |->
                       IF e \in RangeOf(rest.table) THEN value[e] ELSE Nil]
            new == [NewSession EXCEPT !.engine = engine']
            v == [left EXCEPT ![map.table[id]] = new]
<1>1. /\ Cached(rest) /\ Size(rest) < MaxSessions
      /\ RangeOf(rest.table) \subseteq RangeOf(session_map.table)
  BY EvictOldestMakesRoom DEF HandlerInv, Held
<1>. HIDE DEF rest
<1>2. Held(rest, left)
  <2>1. /\ value \in [1 .. MaxSessions -> Sessions \cup {Nil}]
        /\ \A e \in 1 .. MaxSessions :
             value[e] # Nil <=> e \in RangeOf(session_map.table)
    BY DEF HandlerInv, Held
  <2>. QED
    BY <1>1, <2>1 DEF Held
<1>3. /\ engine \in 0 .. MaxReloads /\ now \in Times
      /\ loader \in [running : BOOLEAN, response : BOOLEAN]
      /\ ReloadsLeft
  BY DEF HandlerInv, TypeOK
<1>4. /\ engine' \in 0 .. MaxReloads /\ ReloadsLeft'
      /\ loader' \in [running : BOOLEAN, response : BOOLEAN]
  <2>1. MaybeReloadEngine(rest)
    BY DEF CreateSession, rest
  <2>2. CASE MayReload(rest)
    <3>1. /\ engine' = engine + 1 /\ ~loader.running /\ loader.response
          /\ loader' = [loader EXCEPT !.response = FALSE]
      BY <2>1, <2>2 DEF MaybeReloadEngine, MayReload
    <3>2. engine < MaxReloads
      BY <1>3, <3>1 DEF ReloadsLeft
    <3>3. engine' \in 0 .. MaxReloads
      BY <1>3, <3>1, <3>2, HandlerConstants
    <3>4. loader' = [running |-> FALSE, response |-> FALSE]
      BY <1>3, <3>1
    <3>. QED
      BY <3>3, <3>4 DEF ReloadsLeft
  <2>3. CASE ~MayReload(rest)
    <3>1. engine' = engine /\ loader' = loader
      BY <2>1, <2>3 DEF MaybeReloadEngine, engineVars
    <3>. QED
      BY <1>3, <3>1 DEF ReloadsLeft
  <2>. QED
    BY <2>2, <2>3
<1>5. new \in Sessions
  BY <1>3, <1>4, NewSessionIsASession
<1>6. Held(map, v) /\ Size(map) > 0
  <2>1. ~HasKey(rest, id)
    BY DEF CreateSession, rest
  <2>. HIDE DEF left, new
  <2>. QED
    BY <1>1, <1>2, <1>5, <2>1, InsertedIsHeld
<1>. HIDE DEF left, new, v, map
<1>7. UpdateSessions(map, v, stored, request)
  BY DEF CreateSession, rest, map, v, left, new
<1>8. /\ config' = stored /\ request' = request /\ session_map' = map
      /\ value' = UpdatedSessions(map, v, stored, request)
  BY <1>7 DEF UpdateSessions
<1>9. Held(map, value') /\ AllSettled(value', stored, request)
  BY <1>6, <1>8, UpdatedSessionsAreSettled DEF HandlerInv, TypeOK
<1>10. /\ is_available' = is_available /\ stored' = stored
       /\ last_session_empty' = Past /\ last_cleanup' = last_cleanup
       /\ last_create' = now /\ dog' = dog /\ now' = now
  BY DEF CreateSession
<1>11. TypeOK'
  <2>1. DOMAIN session_map'.table \subseteq Ids
        /\ value' \in [1 .. MaxSessions -> Sessions \cup {Nil}]
    BY <1>8, <1>9, HeldTable
  <2>. QED
    BY <1>4, <1>8, <1>10, <2>1 DEF HandlerInv, TypeOK
<1>12. IdleTimeIsKept'
  BY <1>6, <1>8, <1>10 DEF IdleTimeIsKept
<1>. QED
  BY <1>4, <1>8, <1>9, <1>10, <1>11, <1>12 DEF HandlerInv

\* The time since which there is no session is kept by a deletion: nothing
\* but the last session sets it.
LEMMA DeleteSessionIDsHandlerInv ==
  ASSUME HandlerInv, NEW ids \in Seq(Ids), DeleteSessionIDs(ids)
  PROVE  /\ Held(session_map', value') /\ AllSettled(value', config, request)
         /\ last_session_empty' \in Times \cup {Past}
         /\ IdleTimeIsKept'
<1>1. /\ session_map' = DeletedSessions(ids)
      /\ value' = ResetSessions(ids)
      /\ last_session_empty' = EmptiedAt(session_map')
  BY DEF DeleteSessionIDs
<1>2. /\ Held(session_map, value) /\ AllSettled(value, config, request)
      /\ last_session_empty \in Times \cup {Past} /\ now \in Times
      /\ IdleTimeIsKept
  BY DEF HandlerInv, TypeOK
<1>3. Held(session_map', value') /\ AllSettled(value', config, request)
  BY <1>1, <1>2, DeletedSessionsAreReset
<1>4. Deleted(session_map, RangeOf(ids), session_map')
  BY <1>1, <1>2, DeletedSessionsDeletes DEF Held
<1>5. /\ Size(session_map) \in Nat /\ Size(session_map') \in Nat
      /\ Size(session_map) = 0 => Size(session_map') = 0
  <2>1. Cached(session_map) /\ Cached(session_map')
    BY <1>2, <1>4 DEF Held, Deleted
  <2>2. /\ Size(session_map) \in Nat
        /\ Size(session_map) = 0 <=> DOMAIN session_map.table = {}
    BY <2>1, SizeOfCached
  <2>3. /\ Size(session_map') \in Nat
        /\ Size(session_map') = 0 <=> DOMAIN session_map'.table = {}
    BY <2>1, SizeOfCached
  <2>4. DOMAIN session_map'.table = DOMAIN session_map.table \ RangeOf(ids)
    BY <1>4 DEF Deleted
  <2>. QED
    BY <2>2, <2>3, <2>4
<1>6. now # Past /\ now \in Times \cup {Past}
  BY <1>2, HandlerConstants DEF Times, Past
<1>7. last_session_empty' = IF last_session_empty = Past
                               /\ Size(session_map') = 0
                               /\ Size(session_map) > 0
                            THEN now ELSE last_session_empty
  BY <1>1 DEF EmptiedAt
<1>8. last_session_empty' \in Times \cup {Past}
  BY <1>2, <1>6, <1>7
<1>9. last_session_empty = Past <=> Size(session_map) > 0
  BY <1>2 DEF IdleTimeIsKept
<1>10. last_session_empty' = Past <=> Size(session_map') > 0
  BY <1>5, <1>6, <1>7, <1>9
<1>. QED
  BY <1>3, <1>8, <1>10 DEF IdleTimeIsKept

\* A command of one session, for an id that is in the cache.
LEMMA CommandedHandlerInv ==
  ASSUME HandlerInv, NEW id \in Ids, Available(id),
         NEW s, Settled(s, config, request)
  PROVE  LET v == [value EXCEPT ![session_map.table[id]] = s]
         IN  /\ Held(session_map, v) /\ AllSettled(v, config, request)
             /\ Held(LookedUp(id), v)
             /\ LookedUp(id).table = session_map.table
             /\ Settled(value[session_map.table[id]], config, request)
<1>. DEFINE e == session_map.table[id]
            v == [value EXCEPT ![e] = s]
<1>1. /\ Held(session_map, value) /\ AllSettled(value, config, request)
      /\ HasKey(session_map, id) /\ value[e] # Nil
  BY DEF HandlerInv, Available
<1>2. e \in RangeOf(session_map.table)
  BY <1>1 DEF HasKey, RangeOf
<1>3. e \in 1 .. MaxSessions
  BY <1>1, <1>2, CachedIsSound DEF Held, Sound, RangeOf
<1>4. Settled(value[e], config, request)
  BY <1>1, <1>3 DEF AllSettled
<1>. HIDE DEF e
<1>5. Held(session_map, v) /\ AllSettled(v, config, request)
  BY <1>1, <1>2, OneSettled
<1>. HIDE DEF v
<1>6. Held(LookedUp(id), v) /\ LookedUp(id).table = session_map.table
  BY <1>1, <1>5, LookedUpIsHeld DEF LookedUp
<1>. QED
  BY <1>4, <1>5, <1>6 DEF v, e

\* What remains to be shown of a step that leaves the times, the engine and
\* the loader alone.
LEMMA SettledHandlerInv ==
  ASSUME HandlerInv, Held(session_map', value'),
         AllSettled(value', config', request'),
         config' \in Configs, request' \in Requests, stored' = config',
         session_map'.table = session_map.table,
         UNCHANGED <<is_available, last_session_empty, last_cleanup,
                     last_create, engine, loader, dog, now>>
  PROVE  HandlerInv'
<1>1. TypeOK'
  <2>1. DOMAIN session_map'.table \subseteq Ids
        /\ value' \in [1 .. MaxSessions -> Sessions \cup {Nil}]
    BY HeldTable
  <2>. QED
    BY <2>1 DEF HandlerInv, TypeOK
<1>2. IdleTimeIsKept' /\ ReloadsLeft'
  BY DEF HandlerInv, IdleTimeIsKept, Size, ReloadsLeft
<1>. QED
  BY <1>1, <1>2 DEF HandlerInv

\* The commands of a session, whichever they are.
LEMMA CommandsHandlerInv ==
  ASSUME HandlerInv, NEW id \in Ids, Commands(id)
  PROVE  HandlerInv'
<1>. DEFINE e == session_map.table[id]
<1>1. /\ now \in Times /\ config \in Configs /\ request \in Requests
      /\ stored = config
      /\ Held(session_map, value) /\ AllSettled(value, config, request)
  BY DEF HandlerInv, TypeOK
<1>2. ASSUME Available(id) PROVE Settled(value[e], config, request)
  <2>1. e \in RangeOf(session_map.table) /\ value[e] # Nil
    BY <1>2 DEF Available, HasKey, RangeOf
  <2>2. e \in 1 .. MaxSessions
    BY <1>1, <2>1, CachedIsSound DEF Held, Sound, RangeOf
  <2>. QED
    BY <1>1, <2>1, <2>2 DEF AllSettled
<1>3. CASE CreateSession(id)
  BY <1>3, CreateSessionHandlerInv
<1>4. CASE DeleteSession(id)
  <2>1. /\ DeleteSessionIDs(<<id>>) /\ <<id>> \in Seq(Ids)
        /\ UNCHANGED <<is_available, config, stored, request, last_cleanup,
                       last_create, engine, loader, dog, now>>
    BY <1>4 DEF DeleteSession, settings, engineVars
  <2>2. /\ Held(session_map', value') /\ AllSettled(value', config, request)
        /\ last_session_empty' \in Times \cup {Past}
        /\ IdleTimeIsKept'
    BY <2>1, DeleteSessionIDsHandlerInv
  <2>. QED
    BY <2>1, <2>2, HeldTable DEF HandlerInv, TypeOK, ReloadsLeft
<1>5. CASE TestSendKey(id)
  <2>. DEFINE s == UpdateTime(value[e])
  <2>1. /\ Available(id)
        /\ session_map' = LookedUp(id) /\ value' = [value EXCEPT ![e] = s]
        /\ UNCHANGED <<is_available, config, stored, request,
                       last_session_empty, last_cleanup, last_create, engine,
                       loader, dog, now>>
    BY <1>5 DEF TestSendKey, settings, engineVars
  <2>2. Settled(s, config, request)
    <3>1. s \in Commanded(value[e])
      BY DEF Commanded
    <3>. QED
      BY <1>1, <1>2, <2>1, <3>1, CommandedIsSettled
  <2>. HIDE DEF s, e
  <2>3. /\ Held(session_map', value') /\ AllSettled(value', config, request)
        /\ session_map'.table = session_map.table
    BY <2>1, <2>2, CommandedHandlerInv DEF e
  <2>. QED
    BY <1>1, <2>1, <2>3, SettledHandlerInv
<1>6. CASE SendKey(id)
  <2>1. PICK s \in Commanded(value[e]) : value' = [value EXCEPT ![e] = s]
    BY <1>6 DEF SendKey
  <2>2. /\ Available(id)
        /\ session_map' = LookedUp(id)
        /\ UNCHANGED <<is_available, config, stored, request,
                       last_session_empty, last_cleanup, last_create, engine,
                       loader, dog, now>>
    BY <1>6 DEF SendKey, settings, engineVars
  <2>3. Settled(s, config, request)
    BY <1>1, <1>2, <2>1, <2>2, CommandedIsSettled
  <2>4. /\ Held(session_map', value') /\ AllSettled(value', config, request)
        /\ session_map'.table = session_map.table
    BY <2>1, <2>2, <2>3, CommandedHandlerInv
  <2>. QED
    BY <1>1, <2>2, <2>4, SettledHandlerInv
<1>7. CASE ApplicationDies(id)
  <2>. DEFINE s == [value[e] EXCEPT !.alive = FALSE]
  <2>1. /\ Available(id)
        /\ value' = [value EXCEPT ![e] = s]
        /\ UNCHANGED <<is_available, session_map, config, stored, request,
                       last_session_empty, last_cleanup, last_create, engine,
                       loader, dog, now>>
    BY <1>7 DEF ApplicationDies, settings, engineVars
  <2>2. Settled(s, config, request)
    BY <1>2, <2>1 DEF Settled, Sessions
  <2>. HIDE DEF s
  <2>3. /\ Held(session_map', value') /\ AllSettled(value', config, request)
        /\ session_map'.table = session_map.table
    BY <2>1, <2>2, CommandedHandlerInv
  <2>. QED
    BY <1>1, <2>1, <2>3, SettledHandlerInv
<1>8. ASSUME NEW c \in Configs, SendKeyThatConfigures(id, c)
      PROVE  HandlerInv'
  <2>. DEFINE s == UpdateTime(value[e])
              v == [value EXCEPT ![e] = s]
  <2>1. /\ Available(id)
        /\ MaybeUpdateConfig(LookedUp(id), v, c)
        /\ UNCHANGED <<is_available, last_session_empty, last_cleanup,
                       last_create, engine, loader, dog, now>>
    BY <1>8 DEF SendKeyThatConfigures, engineVars
  <2>2. Settled(s, config, request)
    <3>1. s \in Commanded(value[e])
      BY DEF Commanded
    <3>. QED
      BY <1>1, <1>2, <2>1, <3>1, CommandedIsSettled
  <2>. HIDE DEF s, e
  <2>3. Held(LookedUp(id), v) /\ LookedUp(id).table = session_map.table
    BY <2>1, <2>2, CommandedHandlerInv DEF e
  <2>. HIDE DEF v
  <2>4. /\ stored' = c /\ config' = c /\ request' = request
        /\ session_map' = LookedUp(id)
        /\ value' = UpdatedSessions(LookedUp(id), v, c, request)
    BY <2>1 DEF MaybeUpdateConfig, UpdateSessions
  <2>5. Held(session_map', value') /\ AllSettled(value', config', request')
    BY <1>1, <2>3, <2>4, UpdatedSessionsAreSettled
  <2>. QED
    BY <1>1, <2>1, <2>3, <2>4, <2>5, SettledHandlerInv
<1>. QED
  BY <1>3, <1>4, <1>5, <1>6, <1>7, <1>8 DEF Commands

\* Every command, the watch dog and the environment preserve it.
LEMMA NextHandlerInv == HandlerInv /\ [Next]_vars => HandlerInv'
<1>. SUFFICES ASSUME HandlerInv, [Next]_vars PROVE HandlerInv'
  OBVIOUS
<1>1. /\ now \in Times /\ config \in Configs /\ request \in Requests
      /\ stored = config
      /\ Held(session_map, value) /\ AllSettled(value, config, request)
  BY DEF HandlerInv, TypeOK
<1>2. ASSUME NEW id \in Ids, Commands(id) PROVE HandlerInv'
  BY <1>2, CommandsHandlerInv
<1>3. ASSUME NEW c \in Configs, NEW r \in Requests, stored' = c,
             UpdateSessions(session_map, value, c, r),
             UNCHANGED <<is_available, last_session_empty, last_cleanup,
                         last_create, engine, loader, dog, now>>
      PROVE  HandlerInv'
  <2>1. /\ config' = c /\ request' = r /\ session_map' = session_map
        /\ value' = UpdatedSessions(session_map, value, c, r)
    BY <1>3 DEF UpdateSessions
  <2>2. Held(session_map', value') /\ AllSettled(value', config', request')
    BY <1>1, <2>1, UpdatedSessionsAreSettled
  <2>. QED
    BY <1>3, <2>1, <2>2, SettledHandlerInv
<1>4. ASSUME NEW c \in Configs, SetConfig(c) PROVE HandlerInv'
  BY <1>1, <1>3, <1>4 DEF SetConfig, MaybeUpdateConfig, engineVars
<1>5. ASSUME NEW r \in Requests, SetRequest(r) PROVE HandlerInv'
  BY <1>1, <1>3, <1>5 DEF SetRequest, engineVars
<1>6. CASE Reload
  BY <1>1, <1>3, <1>6 DEF Reload, engineVars
<1>7. CASE WatchDogCleansUp
  <2>1. ToRemove \in Seq(Ids) /\ DeleteSessionIDs(ToRemove)
    BY <1>1, <1>7, ToRemoveIsGivenUp DEF WatchDogCleansUp, Cleanup, Held
  <2>2. /\ is_available' = ~IdleTooLong /\ last_cleanup' = now /\ dog' = now
        /\ UNCHANGED <<config, stored, request, last_create, engine, loader,
                       now>>
    BY <1>7 DEF WatchDogCleansUp, Cleanup, settings, engineVars
  <2>3. /\ Held(session_map', value') /\ AllSettled(value', config, request)
        /\ last_session_empty' \in Times \cup {Past}
        /\ IdleTimeIsKept'
    BY <2>1, DeleteSessionIDsHandlerInv
  <2>4. is_available' \in BOOLEAN
    BY <2>2
  <2>5. DOMAIN session_map'.table \subseteq Ids
        /\ value' \in [1 .. MaxSessions -> Sessions \cup {Nil}]
    BY <2>3, HeldTable
  <2>6. TypeOK'
    BY <1>1, <2>2, <2>3, <2>4, <2>5 DEF HandlerInv, TypeOK
  <2>. QED
    BY <1>1, <2>2, <2>3, <2>6 DEF HandlerInv, ReloadsLeft
<1>8. ASSUME UNCHANGED <<session_map, value, settings, last_session_empty,
                         last_cleanup, last_create, engine>>,
             is_available' \in BOOLEAN, dog' \in Times, now' \in Times,
             loader' \in [running : BOOLEAN, response : BOOLEAN], ReloadsLeft'
      PROVE  HandlerInv'
  <2>1. TypeOK' /\ IdleTimeIsKept'
    BY <1>8 DEF HandlerInv, TypeOK, IdleTimeIsKept, settings
  <2>. QED
    BY <1>8, <2>1 DEF HandlerInv, settings
<1>9. CASE Shutdown \/ WatchDogSkips \/ Tick \/ UNCHANGED vars
  <2>1. /\ UNCHANGED <<session_map, value, settings, last_session_empty,
                       last_cleanup, last_create, engine, loader>>
        /\ is_available' \in BOOLEAN
    BY <1>9 DEF Shutdown, WatchDogSkips, Tick, vars, engineVars, HandlerInv,
                TypeOK
  <2>2. now' \in Times
    BY <1>1, <1>9, HandlerConstants
       DEF Shutdown, WatchDogSkips, Tick, vars, Times
  <2>3. dog' \in Times
    BY <1>9 DEF Shutdown, WatchDogSkips, Tick, vars, HandlerInv, TypeOK
  <2>4. /\ loader' \in [running : BOOLEAN, response : BOOLEAN]
        /\ ReloadsLeft'
    BY <2>1 DEF HandlerInv, TypeOK, ReloadsLeft
  <2>. QED
    BY <1>8, <2>1, <2>2, <2>3, <2>4
<1>10. CASE SendEngineReloadRequest \/ LoaderEnds
  <2>1. /\ UNCHANGED <<is_available, session_map, value, settings,
                       last_session_empty, last_cleanup, last_create, engine,
                       dog, now>>
    BY <1>10 DEF SendEngineReloadRequest, LoaderEnds
  <2>2. /\ is_available' \in BOOLEAN /\ dog' \in Times /\ now' \in Times
    BY <2>1 DEF HandlerInv, TypeOK
  <2>3. loader \in [running : BOOLEAN, response : BOOLEAN] /\ ReloadsLeft
    BY DEF HandlerInv, TypeOK
  <2>4. /\ loader' \in [running : BOOLEAN, response : BOOLEAN]
        /\ ReloadsLeft'
    <3>1. CASE SendEngineReloadRequest
      BY <2>3, <3>1 DEF SendEngineReloadRequest, ReloadsLeft
    <3>2. CASE LoaderEnds
      <4>1. PICK b \in {TRUE, loader.response} :
              loader' = [running |-> FALSE, response |-> b]
        BY <3>2 DEF LoaderEnds
      <4>2. engine' < MaxReloads /\ b \in BOOLEAN
        BY <2>3, <3>2 DEF LoaderEnds, ReloadsLeft
      <4>. QED
        BY <4>1, <4>2 DEF ReloadsLeft
    <3>. QED
      BY <1>10, <3>1, <3>2
  <2>. QED
    BY <1>8, <2>1, <2>2, <2>4
<1>. QED
  BY <1>2, <1>4, <1>5, <1>6, <1>7, <1>9, <1>10 DEF Next

\* It holds of the handler that was just made.
LEMMA InitHandlerInv == Init => HandlerInv
<1>. SUFFICES ASSUME Init PROVE HandlerInv
  OBVIOUS
<1>1. Cached(NewCache(MaxSessions))
  BY CacheConstants, NewCacheRepresents DEF Cached, Good
<1>2. (NewCache(MaxSessions)).table = << >>
  BY DEF NewCache
<1>3. DOMAIN session_map.table = {} /\ Cached(session_map)
  BY <1>1, <1>2 DEF Init
<1>4. RangeOf(session_map.table) = {}
  BY <1>3 DEF RangeOf
<1>5. value = [e \in 1 .. MaxSessions |-> Nil]
  BY DEF Init
<1>6. Held(session_map, value) /\ AllSettled(value, config, request)
  BY <1>3, <1>4, <1>5 DEF Held, AllSettled
<1>7. Size(session_map) = 0
  BY <1>3, SizeOfCached
<1>8. TypeOK
  BY <1>3, <1>5, HandlerConstants DEF Init, TypeOK, Times, Past
<1>9. IdleTimeIsKept /\ ReloadsLeft
  BY <1>7 DEF Init, IdleTimeIsKept, ReloadsLeft, Past
<1>. QED
  BY <1>6, <1>8, <1>9 DEF HandlerInv, Init

\* The state of the handler has its types, however many sessions, settings,
\* and reloads there are (SessionHandler::EvalCommand and Cleanup).
THEOREM HandlerIsTyped == Spec => []TypeOK
<1>1. HandlerInv => TypeOK
  BY DEF HandlerInv
<1>. QED
  BY <1>1, InitHandlerInv, NextHandlerInv, PTL DEF Spec

\* The lists of the cache hold together and exactly the elements in use have
\* a session, whatever lookups, evictions, deletions and reuse there was
\* (LruCache, SessionHandler::CreateSession and DeleteSessionID).
THEOREM CacheIsAlwaysLinked == Spec => []CacheIsLinked
<1>1. HandlerInv => CacheIsLinked
  BY CachedIsSound DEF HandlerInv, Held, CacheIsLinked, Sound
<1>. QED
  BY <1>1, InitHandlerInv, NextHandlerInv, PTL DEF Spec

\* Every session, and every context its Undo may bring back, has the settings
\* that were set last (SessionHandler::UpdateSessions, Session::SetConfig).
THEOREM SettingsAreAlwaysShared == Spec => []SettingsAreShared
<1>1. HandlerInv => SettingsAreShared
  <2>. SUFFICES ASSUME HandlerInv PROVE SettingsAreShared
    OBVIOUS
  <2>1. ASSUME NEW s \in SessionsOf(value),
               NEW c \in {s.context} \cup RangeOf(s.undo)
        PROVE  c.config = config /\ c.request = request
    <3>1. PICK e \in 1 .. MaxSessions : s = value[e] /\ value[e] # Nil
      BY DEF HandlerInv, TypeOK, SessionsOf, RangeOf
    <3>2. Settled(s, config, request)
      BY <3>1 DEF HandlerInv, AllSettled
    <3>. QED
      BY <2>1, <3>2 DEF Settled, Set, RangeOf
  <2>. QED
    BY <2>1 DEF SettingsAreShared, HandlerInv
<1>. QED
  BY <1>1, InitHandlerInv, NextHandlerInv, PTL DEF Spec

\* The time since which there is no session is known exactly while there is
\* none (SessionHandler::CreateSession, DeleteSessionID).
THEOREM IdleTimeIsAlwaysKept == Spec => []IdleTimeIsKept
<1>1. HandlerInv => IdleTimeIsKept
  BY DEF HandlerInv
<1>. QED
  BY <1>1, InitHandlerInv, NextHandlerInv, PTL DEF Spec
-----------------------------------------------------------------------------
(***************************************************************************)
(* The refinement of the table in order of recency                         *)
(***************************************************************************)

order == OrderOfKeys(session_map)

\* The elements of a sequence.
LEMMA ToSetIsRange ==
  ASSUME NEW S, NEW s \in Seq(S)
  PROVE  Table!ToSet(s) = RangeOf(s)
BY DEF Table!ToSet, RangeOf

\* To push is to put in front, and the last is lost by Front.
LEMMA PushedIsConcat ==
  ASSUME NEW S, NEW s \in Seq(S), NEW x \in S
  PROVE  Pushed(x, s) = <<x>> \o s
<1>. DEFINE l == Len(s)
            t == <<x>> \o s
<1>1. l \in Nat /\ <<x>> \in Seq(S) /\ Len(<<x>>) = 1 /\ <<x>>[1] = x
  OBVIOUS
<1>2. t \in Seq(S) /\ Len(t) = l + 1
      /\ \A i \in 1 .. l + 1 : t[i] = IF i <= 1 THEN <<x>>[i] ELSE s[i - 1]
  BY <1>1, ConcatProperties
<1>3. t = [i \in 1 .. l + 1 |-> t[i]]
  BY <1>1, <1>2
<1>. HIDE DEF t
<1>4. ASSUME NEW i \in 1 .. l + 1
      PROVE  t[i] = IF i = 1 THEN x ELSE s[i - 1]
  BY <1>1, <1>2
<1>. QED
  BY <1>3, <1>4 DEF Pushed, t

\* What the eviction keeps is what Front keeps.
LEMMA KeptIsFront ==
  ASSUME NEW S, NEW s \in Seq(S), NEW n \in Nat \ {0}
  PROVE  Kept(s, n) = IF Len(s) = n THEN Table!Front(s) ELSE s
<1>. SUFFICES ASSUME Len(s) = n PROVE Without(s, n) = Table!Front(s)
  BY DEF Kept
<1>1. Table!Front(s) = [i \in 1 .. n - 1 |-> s[i]]
  BY DEF Table!Front
<1>2. Without(s, n) = [i \in 1 .. n - 1 |-> s[i]]
  BY DEF Without
<1>. QED
  BY <1>1, <1>2

\* CreateSession() is Create of the table...
LEMMA CreateSessionCreates ==
  ASSUME HandlerInv, NEW id \in Ids, CreateSession(id)
  PROVE  Table!Create(id)
<1>. DEFINE rest == EvictOldest(session_map)
            map == Insert(rest, id)
            kept == Kept(order, MaxSessions)
<1>1. Held(session_map, value) /\ Cached(session_map)
  BY DEF HandlerInv, Held
<1>2. order \in Seq(Ids)
  BY <1>1, CachedIsSound DEF Sound, Strings, order
<1>3. /\ Cached(rest) /\ Size(rest) < MaxSessions
      /\ OrderOfKeys(rest) = kept
  BY <1>1, EvictOldestMakesRoom DEF order
<1>. HIDE DEF rest
<1>4. /\ kept \in Seq(Ids) /\ DOMAIN rest.table = RangeOf(kept)
      /\ Size(rest) = Len(kept)
  BY <1>3, CachedIsSound DEF Sound, Strings
<1>5. ~HasKey(rest, id) /\ session_map' = map
  BY DEF CreateSession, rest, UpdateSessions
<1>6. OrderOfKeys(map) = Pushed(id, Kept(OrderOfKeys(rest), MaxSessions))
  BY <1>3, <1>5, CacheConstants, GoodInsert DEF Cached
<1>7. Kept(kept, MaxSessions) = kept
  BY <1>3, <1>4, CacheConstants DEF Kept
<1>8. kept = IF Len(order) = MaxSessions THEN Table!Front(order) ELSE order
  BY <1>2, CacheConstants, KeptIsFront
<1>. HIDE DEF kept, map
<1>9. id \notin Table!ToSet(kept)
  BY <1>4, <1>5, ToSetIsRange DEF HasKey
<1>10. OrderOfKeys(session_map') = <<id>> \o kept
  BY <1>3, <1>4, <1>5, <1>6, <1>7, PushedIsConcat
<1>. QED
  BY <1>8, <1>9, <1>10 DEF Table!Create, order

\* ...every lookup is Use...
LEMMA LookupUses ==
  ASSUME HandlerInv, NEW id, Available(id), session_map' = LookedUp(id)
  PROVE  Table!Use(id)
<1>1. Held(session_map, value) /\ Cached(session_map)
      /\ HasKey(session_map, id)
  BY DEF HandlerInv, Held, Available
<1>2. order \in Strings(Ids) /\ order \in Seq(Ids)
  BY <1>1, CachedIsSound DEF Sound, Strings, order
<1>3. PICK p \in DOMAIN order : /\ id = order[p]
                                /\ OrderOfKeys(session_map') =
                                     Pushed(id, Without(order, p))
  BY <1>1, LookedUpIsHeld DEF order, LookedUp
<1>4. Without(order, p) \in Seq(Ids) /\ id \in Ids
  BY <1>2, <1>3, WithoutOne DEF Strings
<1>5. Table!Without(order, {id}) = Without(order, p)
  <2>1. Table!Without(Without(order, p), {}) =
          Table!Without(order, {} \cup {order[p]})
    BY <1>2, WithoutMore
  <2>2. Table!Without(Without(order, p), {}) = Without(order, p)
    BY <1>4, WithoutNone
  <2>3. {} \cup {order[p]} = {id}
    BY <1>3
  <2>. QED
    BY <2>1, <2>2, <2>3
<1>6. OrderOfKeys(session_map') = <<id>> \o Table!Without(order, {id})
  BY <1>3, <1>4, <1>5, PushedIsConcat
<1>7. id \in Table!ToSet(order)
  BY <1>2, <1>3, ToSetIsRange DEF RangeOf
<1>. QED
  BY <1>6, <1>7 DEF Table!Use, order

\* ...and every deletion is Drop.
LEMMA DeleteSessionIDsDrops ==
  ASSUME HandlerInv, NEW ids \in Seq(Ids), DeleteSessionIDs(ids)
  PROVE  Table!Drop
<1>. DEFINE left == OrderOfKeys(session_map')
<1>1. Deleted(session_map, RangeOf(ids), session_map')
  BY DeletedSessionsDeletes DEF HandlerInv, Held, DeleteSessionIDs
<1>2. Cached(session_map) /\ Cached(session_map') /\ Trimmed(order, left)
  BY <1>1 DEF HandlerInv, Held, Deleted, order
<1>3. order \in Seq(Ids) /\ left \in Seq(Ids)
  BY <1>2, CachedIsSound DEF Sound, Strings, order
<1>. HIDE DEF left
<1>4. left = Table!Without(order, RangeOf(order) \ RangeOf(left))
  BY <1>2, <1>3, TrimmedIs
<1>5. Table!ToSet(order) = RangeOf(order) /\ Table!ToSet(left) = RangeOf(left)
  BY <1>3, ToSetIsRange
<1>. QED
  BY <1>4, <1>5 DEF Table!Drop, order, left

\* Every other step leaves the order as it was.
LEMMA NextOfTheTable ==
  HandlerInv /\ [Next]_vars => [Table!Next]_(OrderOfKeys(session_map))
<1>. SUFFICES ASSUME HandlerInv, [Next]_vars
              PROVE  Table!Next \/ UNCHANGED OrderOfKeys(session_map)
  OBVIOUS
<1>1. ASSUME NEW id \in Ids, Commands(id)
      PROVE  Table!Next \/ UNCHANGED OrderOfKeys(session_map)
  <2>1. CASE CreateSession(id)
    BY <2>1, CreateSessionCreates DEF Table!Next
  <2>2. CASE DeleteSession(id)
    <3>1. <<id>> \in Seq(Ids) /\ DeleteSessionIDs(<<id>>)
      BY <2>2 DEF DeleteSession
    <3>. QED
      BY <3>1, DeleteSessionIDsDrops DEF Table!Next
  <2>3. CASE TestSendKey(id) \/ SendKey(id)
    <3>1. Available(id) /\ session_map' = LookedUp(id)
      BY <2>3 DEF TestSendKey, SendKey
    <3>. QED
      BY <3>1, LookupUses DEF Table!Next
  <2>4. CASE ApplicationDies(id)
    BY <2>4 DEF ApplicationDies
  <2>5. ASSUME NEW c \in Configs, SendKeyThatConfigures(id, c)
        PROVE  Table!Next
    <3>1. Available(id) /\ session_map' = LookedUp(id)
      BY <2>5 DEF SendKeyThatConfigures, MaybeUpdateConfig, UpdateSessions
    <3>. QED
      BY <3>1, LookupUses DEF Table!Next
  <2>. QED
    BY <1>1, <2>1, <2>2, <2>3, <2>4, <2>5 DEF Commands
<1>2. CASE WatchDogCleansUp
  <2>1. ToRemove \in Seq(Ids) /\ DeleteSessionIDs(ToRemove)
    BY <1>2, ToRemoveIsGivenUp
       DEF WatchDogCleansUp, Cleanup, HandlerInv, Held
  <2>. QED
    BY <2>1, DeleteSessionIDsDrops DEF Table!Next
<1>3. CASE \/ \E c \in Configs : SetConfig(c)
           \/ \E r \in Requests : SetRequest(r)
           \/ Reload
  BY <1>3 DEF SetConfig, SetRequest, Reload, MaybeUpdateConfig, UpdateSessions
<1>4. CASE \/ Shutdown \/ SendEngineReloadRequest \/ LoaderEnds
           \/ WatchDogSkips \/ Tick \/ UNCHANGED vars
  BY <1>4 DEF Shutdown, SendEngineReloadRequest, LoaderEnds, WatchDogSkips,
              Tick, vars
<1>. QED
  BY <1>1, <1>2, <1>3, <1>4 DEF Next

\* The cache of linked elements, with its free list, its evictions and its
\* reuse of elements, is a table of sessions in order of recency: the session
\* that goes for a new one is always the least recently used one, for any
\* number of sessions (LruCache, SessionHandler::CreateSession).
THEOREM HandlerImplementsTable == Spec => ImplementsTable
<1>1. Init => Table!Init
  <2>. SUFFICES ASSUME Init PROVE order = << >>
    BY DEF Table!Init, order
  <2>1. Cached(session_map) /\ (NewCache(MaxSessions)).table = << >>
    BY InitHandlerInv DEF HandlerInv, Held, NewCache
  <2>2. DOMAIN session_map.table = {}
    BY <2>1 DEF Init
  <2>3. Len(order) = 0 /\ order \in Seq(Ids)
    BY <2>1, <2>2, SizeOfCached, CachedIsSound DEF order, Sound, Strings
  <2>. QED
    BY <2>3, EmptySeq
<1>. QED
  BY <1>1, InitHandlerInv, NextHandlerInv, NextOfTheTable, PTL
     DEF Spec, ImplementsTable, Table!Spec
-----------------------------------------------------------------------------
\* CLEANUP deletes exactly the sessions that are given up, wherever they are
\* in the cache, and leaves every other one in its element as it was
\* (SessionHandler::Cleanup, DeleteSessionID).
THEOREM CleanupDeletesTheGivenUp ==
  Spec => [][WatchDogCleansUp =>
               /\ DOMAIN session_map'.table =
                    {id \in DOMAIN session_map.table :
                       ~GivenUp(value[session_map.table[id]])}
               /\ \A id \in DOMAIN session_map'.table :
                    /\ session_map'.table[id] = session_map.table[id]
                    /\ value'[session_map.table[id]] =
                         value[session_map.table[id]]]_vars
<1>. DEFINE Deletes ==
              /\ DOMAIN session_map'.table =
                   {id \in DOMAIN session_map.table :
                      ~GivenUp(value[session_map.table[id]])}
              /\ \A id \in DOMAIN session_map'.table :
                   /\ session_map'.table[id] = session_map.table[id]
                   /\ value'[session_map.table[id]] =
                        value[session_map.table[id]]
<1>1. ASSUME HandlerInv, WatchDogCleansUp PROVE Deletes
  <2>. DEFINE T == session_map.table
  <2>1. /\ DeleteSessionIDs(ToRemove) /\ ToRemove \in Seq(Ids)
        /\ RangeOf(ToRemove) = {id \in DOMAIN T : GivenUp(value[T[id]])}
    BY <1>1, ToRemoveIsGivenUp
       DEF WatchDogCleansUp, Cleanup, HandlerInv, Held
  <2>2. Deleted(session_map, RangeOf(ToRemove), session_map')
    BY <1>1, <2>1, DeletedSessionsDeletes
       DEF HandlerInv, Held, DeleteSessionIDs
  <2>3. /\ DOMAIN session_map'.table = DOMAIN T \ RangeOf(ToRemove)
        /\ \A id \in DOMAIN session_map'.table : session_map'.table[id] = T[id]
    BY <2>2 DEF Deleted
  <2>4. Held(session_map, value) /\ Sound(session_map, MaxSessions, Ids)
    BY <1>1, CachedIsSound DEF HandlerInv, Held
  <2>5. ToSet(ToRemove) = RangeOf(ToRemove)
    BY <2>1 DEF ToSet, RangeOf
  <2>6. value' = [e \in 1 .. MaxSessions |->
                    IF \E id \in RangeOf(ToRemove) :
                         HasKey(session_map, id) /\ T[id] = e
                    THEN Nil ELSE value[e]]
    BY <2>1, <2>4, <2>5 DEF DeleteSessionIDs, ResetSessions, Held
  <2>7. /\ T \in [DOMAIN T -> 1 .. MaxSessions]
        /\ \A k \in DOMAIN T : KeyOf(session_map, T[k]) = k
    BY <2>4 DEF Sound
  <2>8. ASSUME NEW id \in DOMAIN session_map'.table
        PROVE  value'[T[id]] = value[T[id]]
    <3>1. id \in DOMAIN T /\ id \notin RangeOf(ToRemove)
          /\ T[id] \in 1 .. MaxSessions
      BY <2>3, <2>7, <2>8
    <3>2. ~ \E k \in RangeOf(ToRemove) :
              HasKey(session_map, k) /\ T[k] = T[id]
      BY <2>7, <3>1 DEF HasKey
    <3>. QED
      BY <2>6, <3>1, <3>2
  <2>9. DOMAIN session_map'.table = {id \in DOMAIN T : ~GivenUp(value[T[id]])}
    BY <2>1, <2>3
  <2>. QED
    BY <2>3, <2>8, <2>9
<1>2. HandlerInv /\ [Next]_vars => [WatchDogCleansUp => Deletes]_vars
  BY <1>1
<1>. QED
  BY <1>2, InitHandlerInv, NextHandlerInv, PTL DEF Spec
=============================================================================
