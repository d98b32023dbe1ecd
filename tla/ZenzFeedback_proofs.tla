------------------------- MODULE ZenzFeedback_proofs -------------------------
(***************************************************************************)
(* Proofs that a decision of the user is recorded once, that a record is   *)
(* taken back only after it was written, that nothing is written in        *)
(* private, that a rejection tells of another text, and that what is       *)
(* counted from the records is what the user decided, for any readings,    *)
(* texts, options and number of commits; and that the readers of the       *)
(* feedback file agree with each other, whatever records it has.           *)
(***************************************************************************)
EXTENDS ZenzFeedback, FiniteSetTheorems, TLAPS

\* A sequence of whatever.
IsSeq(s) == \E S : s \in Seq(S)

(***************************************************************************)
(* What the session keeps has the fields it is given in CreateContext.     *)
(***************************************************************************)
Shape(l) ==
  /\ DOMAIN l = {"feedback", "direct", "slot", "history", "file"}
  /\ DOMAIN l.feedback = DOMAIN NoFeedback
  /\ DOMAIN l.history = CommitIds

IsDecision(e) == e[1].action \in {"accepted", "rejected"}
IsRollback(e) == e[1].action = "accepted_rollback"

SameText(r, q) == r.key = q.key /\ r.value = q.value

\* An entry that records the acceptance of a pending feedback or a rollback.
Accepts(e, r, n) == e[1].action = "accepted" /\ SameText(e[1], r) /\ e[2] = n

\* The log tells of commits that were made, of each once.
PastCommits(g, c) == \A i \in DOMAIN g : g[i][2] \in 1 .. c

DecidedOnce(g) ==
  \A i, j \in DOMAIN g :
    IsDecision(g[i]) /\ IsDecision(g[j]) /\ g[i][2] = g[j][2] => i = j

RolledBackOnce(g) ==
  \A i, j \in DOMAIN g :
    IsRollback(g[i]) /\ IsRollback(g[j]) /\ g[i][2] = g[j][2] => i = j

RollbacksFollow(g) ==
  \A i \in DOMAIN g :
    IsRollback(g[i]) =>
      \E j \in DOMAIN g : j < i /\ Accepts(g[j], g[i][1], g[i][2])

\* A comparison that has seen its commit has not recorded it.
Undecided(f, g, c) ==
  f.action = "compare" /\ f.finalValue # None =>
    /\ f.commit \in 1 .. c
    /\ \A i \in DOMAIN g : IsDecision(g[i]) => g[i][2] # f.commit

\* An acceptance that was written is in the log and was not taken back.
Accepted(f, g) ==
  f.action = "accepted" /\ f.written =>
    /\ \E j \in DOMAIN g : Accepts(g[j], f, f.commit)
    /\ \A i \in DOMAIN g : IsRollback(g[i]) => g[i][2] # f.commit

LogInv(g, c) ==
  /\ IsSeq(g) /\ c \in Nat
  /\ PastCommits(g, c)
  /\ DecidedOnce(g)
  /\ RolledBackOnce(g)
  /\ RollbacksFollow(g)

Settled(f, g, c) == LogInv(g, c) /\ Undecided(f, g, c) /\ Accepted(f, g)

Count == Len(commits)

Inv == /\ Shape(learn) /\ IsSeq(commits)
       /\ Settled(learn.feedback, log, Count)
-----------------------------------------------------------------------------
(***************************************************************************)
(* Sequences                                                               *)
(***************************************************************************)

\* What an append leaves of a sequence.
LEMMA Appended ==
  ASSUME NEW s, IsSeq(s), NEW e
  PROVE  /\ IsSeq(Append(s, e))
         /\ Len(s) \in Nat /\ DOMAIN s = 1 .. Len(s)
         /\ Len(Append(s, e)) = Len(s) + 1
         /\ DOMAIN Append(s, e) = 1 .. Len(s) + 1
         /\ Append(s, e)[Len(s) + 1] = e
         /\ \A i \in DOMAIN s : Append(s, e)[i] = s[i]
<1>1. PICK S : s \in Seq(S)
  BY DEF IsSeq
<1>. DEFINE T == S \cup {e}
<1>2. s \in Seq(T) /\ e \in T
  BY <1>1
<1>. HIDE DEF T
<1>3. Append(s, e) \in Seq(T)
  BY <1>2
<1>. QED
  BY <1>2, <1>3 DEF IsSeq

\* A log that tells of c commits tells of c + 1.
LEMMA LaterCommit ==
  ASSUME NEW f, NEW g, NEW c, Settled(f, g, c)
  PROVE  Settled(f, g, c + 1)
BY DEF Settled, LogInv, PastCommits, Undecided

\* One more entry: an event of a commit nothing was decided of...
LEMMA OneMoreDecision ==
  ASSUME NEW g, NEW c, LogInv(g, c), NEW e, IsDecision(e), e[2] \in 1 .. c,
         \A i \in DOMAIN g : IsDecision(g[i]) => g[i][2] # e[2]
  PROVE  LogInv(Append(g, e), c)
<1>. DEFINE h == Append(g, e)
<1>1. /\ IsSeq(h) /\ Len(g) \in Nat
      /\ DOMAIN g = 1 .. Len(g) /\ DOMAIN h = 1 .. Len(g) + 1
      /\ h[Len(g) + 1] = e
      /\ \A i \in DOMAIN g : h[i] = g[i]
  BY Appended DEF LogInv
<1>2. \A i \in DOMAIN h : i \in DOMAIN g \/ i = Len(g) + 1
  BY <1>1
<1>3. ~ IsRollback(e)
  BY DEF IsDecision, IsRollback
<1>. HIDE DEF h
<1>4. PastCommits(h, c)
  BY <1>1, <1>2 DEF PastCommits, LogInv
<1>5. DecidedOnce(h)
  BY <1>1, <1>2 DEF DecidedOnce, LogInv
<1>6. RolledBackOnce(h)
  BY <1>1, <1>2, <1>3 DEF RolledBackOnce, LogInv
<1>7. RollbacksFollow(h)
  <2>. SUFFICES ASSUME NEW i \in DOMAIN h, IsRollback(h[i])
                PROVE  \E j \in DOMAIN h :
                         j < i /\ Accepts(h[j], h[i][1], h[i][2])
    BY DEF RollbacksFollow
  <2>1. i \in DOMAIN g /\ h[i] = g[i]
    BY <1>1, <1>2, <1>3
  <2>2. PICK j \in DOMAIN g : j < i /\ Accepts(g[j], g[i][1], g[i][2])
    BY <2>1 DEF RollbacksFollow, LogInv
  <2>3. j \in DOMAIN h /\ h[j] = g[j]
    BY <1>1
  <2>. QED
    BY <2>1, <2>2, <2>3
<1>. QED
  BY <1>1, <1>4, <1>5, <1>6, <1>7 DEF LogInv, h

\* ...or the rollback of an acceptance that is in the log.
LEMMA OneMoreRollback ==
  ASSUME NEW g, NEW c, LogInv(g, c), NEW e, IsRollback(e),
         \E j \in DOMAIN g : Accepts(g[j], e[1], e[2]),
         \A i \in DOMAIN g : IsRollback(g[i]) => g[i][2] # e[2]
  PROVE  LogInv(Append(g, e), c)
<1>. DEFINE h == Append(g, e)
<1>1. /\ IsSeq(h) /\ Len(g) \in Nat
      /\ DOMAIN g = 1 .. Len(g) /\ DOMAIN h = 1 .. Len(g) + 1
      /\ h[Len(g) + 1] = e
      /\ \A i \in DOMAIN g : h[i] = g[i]
  BY Appended DEF LogInv
<1>2. \A i \in DOMAIN h : i \in DOMAIN g \/ i = Len(g) + 1
  BY <1>1
<1>3. ~ IsDecision(e)
  BY DEF IsDecision, IsRollback
<1>8. PICK k \in DOMAIN g : Accepts(g[k], e[1], e[2])
  OBVIOUS
<1>9. e[2] \in 1 .. c
  BY <1>8 DEF Accepts, PastCommits, LogInv
<1>. HIDE DEF h
<1>4. PastCommits(h, c)
  BY <1>1, <1>2, <1>9 DEF PastCommits, LogInv
<1>5. DecidedOnce(h)
  BY <1>1, <1>2, <1>3 DEF DecidedOnce, LogInv
<1>6. RolledBackOnce(h)
  BY <1>1, <1>2 DEF RolledBackOnce, LogInv
<1>7. RollbacksFollow(h)
  <2>. SUFFICES ASSUME NEW i \in DOMAIN h, IsRollback(h[i])
                PROVE  \E j \in DOMAIN h :
                         j < i /\ Accepts(h[j], h[i][1], h[i][2])
    BY DEF RollbacksFollow
  <2>1. CASE i \in DOMAIN g
    <3>1. PICK j \in DOMAIN g : j < i /\ Accepts(g[j], g[i][1], g[i][2])
      BY <1>1, <2>1 DEF RollbacksFollow, LogInv
    <3>. QED
      BY <1>1, <2>1, <3>1
  <2>2. CASE i = Len(g) + 1
    BY <1>1, <1>8, <2>2
  <2>. QED
    BY <1>2, <2>1, <2>2
<1>. QED
  BY <1>1, <1>4, <1>5, <1>6, <1>7 DEF LogInv, h
-----------------------------------------------------------------------------
(***************************************************************************)
(* The operators on what is learned                                        *)
(***************************************************************************)

\* Nothing pending: nothing to be decided or taken back.
LEMMA NothingPending ==
  ASSUME NEW g, NEW c, LogInv(g, c)
  PROVE  Settled(NoFeedback, g, c)
BY DEF Settled, Undecided, Accepted, NoFeedback

\* ConfirmPendingZenzFeedback() writes the comparison and forgets it.
LEMMA Confirmed ==
  ASSUME NEW l, Shape(l), NEW c, Settled(l.feedback, log, c), NEW ok
  PROVE  /\ Shape(ConfirmFeedback(l, ok))
         /\ ConfirmFeedback(l, ok).history = l.history
         /\ Settled(ConfirmFeedback(l, ok).feedback, LogConfirm(l, ok), c)
<1>1. /\ Shape(ConfirmFeedback(l, ok))
      /\ ConfirmFeedback(l, ok).history = l.history
      /\ ConfirmFeedback(l, ok).feedback = NoFeedback
  BY DEF ConfirmFeedback, Released, Shape
<1>. DEFINE f == l.feedback
            e == <<ComparisonRecord(f), f.commit>>
<1>2. CASE WritesComparison(f) /\ ok
  <2>1. e[1].action \in {"accepted", "rejected"} /\ e[2] = f.commit
    BY DEF ComparisonRecord, Record
  <2>2. /\ f.commit \in 1 .. c
        /\ \A i \in DOMAIN log : IsDecision(log[i]) => log[i][2] # f.commit
    BY <1>2 DEF WritesComparison, Neutral, Settled, Undecided
  <2>3. LogInv(Append(log, e), c)
    <3>. HIDE DEF e
    <3>. QED
      BY <2>1, <2>2, OneMoreDecision DEF Settled, IsDecision
  <2>4. LogConfirm(l, ok) = Append(log, e)
    BY <1>2 DEF LogConfirm
  <2>. QED
    BY <1>1, <2>3, <2>4, NothingPending
<1>3. CASE ~ (WritesComparison(f) /\ ok)
  <2>1. LogConfirm(l, ok) = log
    BY <1>3 DEF LogConfirm
  <2>. QED
    BY <1>1, <2>1, NothingPending DEF Settled
<1>. QED
  BY <1>2, <1>3

\* DiscardPendingZenzFeedback() takes back what was written, and forgets it.
LEMMA Discarded ==
  ASSUME NEW l, Shape(l), NEW c, Settled(l.feedback, log, c), NEW ok
  PROVE  /\ Shape(DiscardFeedback(l, ok))
         /\ Settled(DiscardFeedback(l, ok).feedback, LogDiscard(l, ok), c)
<1>. DEFINE f == l.feedback
            e == <<RollbackRecord(f), f.commit>>
<1>1. Shape(DiscardFeedback(l, ok))
  BY DEF DiscardFeedback, Released, Shape
<1>0. DiscardFeedback(l, ok).feedback = NoFeedback
  BY DEF DiscardFeedback, Released, Shape
<1>2. CASE WritesRollback(f) /\ ok
  <2>1. /\ e[1].action = "accepted_rollback" /\ e[2] = f.commit
        /\ e[1].key = f.key /\ e[1].value = f.value
    BY DEF RollbackRecord, Record
  <2>2. /\ \E j \in DOMAIN log : Accepts(log[j], f, f.commit)
        /\ \A i \in DOMAIN log : IsRollback(log[i]) => log[i][2] # f.commit
    BY <1>2 DEF WritesRollback, Settled, Accepted
  <2>3. LogInv(Append(log, e), c)
    <3>. HIDE DEF e
    <3>1. \E j \in DOMAIN log : Accepts(log[j], e[1], e[2])
      BY <2>1, <2>2 DEF Accepts, SameText
    <3>. QED
      BY <2>1, <2>2, <3>1, OneMoreRollback DEF Settled, IsRollback
  <2>4. LogDiscard(l, ok) = Append(log, e)
    BY <1>2 DEF LogDiscard
  <2>. QED
    BY <1>0, <1>1, <2>3, <2>4, NothingPending
<1>3. CASE ~ (WritesRollback(f) /\ ok)
  <2>1. LogDiscard(l, ok) = log
    BY <1>3 DEF LogDiscard
  <2>. QED
    BY <1>0, <1>1, <2>1, NothingPending DEF Settled
<1>. QED
  BY <1>2, <1>3

\* What the session learns of a commit by itself leaves the feedback alone.
LEMMA ConfirmedDirect ==
  ASSUME NEW l, Shape(l)
  PROVE  /\ Shape(ConfirmDirect(l))
         /\ ConfirmDirect(l).feedback = l.feedback
         /\ ConfirmDirect(l).history = l.history
BY DEF ConfirmDirect, Shape

\* Taking back the learning of a commit leaves what is pending alone...
LEMMA RevertedCommit ==
  ASSUME NEW l, Shape(l), NEW n
  PROVE  Shape(RevertCommit(l, n)) /\ RevertCommit(l, n).feedback = l.feedback
BY DEF RevertCommit, Shape

\* ...so does taking back that of a punctuation key...
LEMMA DiscardedDirect ==
  ASSUME NEW l, Shape(l)
  PROVE  Shape(DiscardDirect(l)) /\ DiscardDirect(l).feedback = l.feedback
BY RevertedCommit DEF DiscardDirect, Shape

\* ...and learning an ordinary commit.
LEMMA LearnedCommit ==
  ASSUME NEW l, Shape(l), NEW n
  PROVE  Shape(LearnCommit(l, n)) /\ LearnCommit(l, n).feedback = l.feedback
BY DEF LearnCommit, Shape

\* Both, as most keys settle what is pending.
LEMMA ConfirmedBoth ==
  ASSUME NEW l, Shape(l), NEW c, Settled(l.feedback, log, c), NEW ok
  PROVE  /\ Shape(ConfirmBoth(l, ok))
         /\ Settled(ConfirmBoth(l, ok).feedback, LogConfirm(l, ok), c)
<1>1. LogConfirm(ConfirmDirect(l), ok) = LogConfirm(l, ok)
  BY ConfirmedDirect DEF LogConfirm
<1>. QED
  BY <1>1, ConfirmedDirect, Confirmed DEF ConfirmBoth

\* DiscardPendingZenzFeedback() after the learning of a punctuation key.
LEMMA DiscardedBoth ==
  ASSUME NEW l, Shape(l), NEW c, Settled(l.feedback, log, c), NEW ok
  PROVE  /\ Shape(DiscardBoth(l, ok))
         /\ Settled(DiscardBoth(l, ok).feedback, LogDiscard(l, ok), c)
<1>1. LogDiscard(DiscardDirect(l), ok) = LogDiscard(l, ok)
  BY DiscardedDirect DEF LogDiscard
<1>. QED
  BY <1>1, DiscardedDirect, Discarded DEF DiscardBoth

\* SetPendingZenzFeedbackComparison() has seen no commit yet.
LEMMA Compared ==
  ASSUME NEW l, Shape(l), NEW g, NEW c, Settled(l.feedback, g, c),
         NEW value, NEW reason, NEW needsKey
  PROVE  LET m == SetComparison(l, value, reason, needsKey)
         IN  Shape(m) /\ m.history = l.history /\ Settled(m.feedback, g, c)
<1>. DEFINE m == SetComparison(l, value, reason, needsKey)
<1>1. CASE ~ CanRecordZenzFeedback
  BY <1>1 DEF SetComparison
<1>2. CASE CanRecordZenzFeedback
  <2>1. /\ Shape(m) /\ m.history = l.history
        /\ m.feedback.action = "compare" /\ m.feedback.finalValue = None
    BY <1>2 DEF SetComparison, Shape, NoFeedback
  <2>. QED
    BY <2>1 DEF Settled, Undecided, Accepted
<1>. QED
  BY <1>1, <1>2

\* ...nor has a comparison with a correction that was on the screen.
LEMMA RejectionCompared ==
  ASSUME NEW l, Shape(l), NEW g, NEW c, Settled(l.feedback, g, c), NEW reason
  PROVE  LET m == SetRejected(l, reason)
         IN  Shape(m) /\ m.history = l.history /\ Settled(m.feedback, g, c)
<1>1. CASE visible = None
  BY <1>1 DEF SetRejected
<1>2. CASE visible # None
  <2>1. PICK no : no = FALSE
    OBVIOUS
  <2>2. SetRejected(l, reason) = SetComparison(l, visible, reason, no)
    BY <1>2, <2>1, Zenon DEF SetRejected
  <2>. QED
    BY <2>2, Compared
<1>. QED
  BY <1>1, <1>2

\* The commit a comparison sees is a new one.
LEMMA Observed ==
  ASSUME NEW l, Shape(l), NEW g, NEW c, Settled(l.feedback, g, c),
         NEW key, NEW value
  PROVE  LET m == Observe(l, key, value, c + 1)
         IN  /\ Shape(m) /\ m.history = l.history
             /\ Settled(m.feedback, g, c + 1)
<1>. DEFINE m == Observe(l, key, value, c + 1)
<1>0. c \in Nat
  BY DEF Settled, LogInv
<1>1. CASE m = l
  BY <1>1, LaterCommit
<1>2. CASE /\ l.feedback.action = "compare"
           /\ m = [l EXCEPT !.feedback.finalKey = key,
                            !.feedback.finalValue = value,
                            !.feedback.commit = c + 1]
  <2>1. /\ Shape(m) /\ m.history = l.history
        /\ m.feedback.action = "compare" /\ m.feedback.commit = c + 1
    <3>. DEFINE p == [l EXCEPT !.feedback.finalKey = key]
                q == [p EXCEPT !.feedback.finalValue = value]
    <3>1. Shape(p) /\ p.history = l.history /\ p.feedback.action = "compare"
      BY <1>2 DEF Shape, NoFeedback
    <3>. HIDE DEF p
    <3>2. Shape(q) /\ q.history = l.history /\ q.feedback.action = "compare"
      BY <3>1 DEF Shape, NoFeedback
    <3>. HIDE DEF q
    <3>3. m = [q EXCEPT !.feedback.commit = c + 1]
      BY <1>2 DEF p, q
    <3>. HIDE DEF m
    <3>. QED
      BY <3>2, <3>3 DEF Shape, NoFeedback
  <2>2. LogInv(g, c + 1)
    BY LaterCommit DEF Settled
  <2>3. \A i \in DOMAIN g : g[i][2] # c + 1
    BY <1>0 DEF Settled, LogInv, PastCommits
  <2>4. Settled(m.feedback, g, c + 1)
    BY <1>0, <2>1, <2>2, <2>3 DEF Settled, Undecided, Accepted
  <2>. QED
    BY <2>1, <2>4
<1>. QED
  BY <1>1, <1>2 DEF Observe

\* The history of Mozc learns of an acceptance; what is pending stays.
SameDecision(f, q) ==
  /\ f.action = q.action /\ f.finalValue = q.finalValue
  /\ f.commit = q.commit /\ f.written = q.written
  /\ f.key = q.key /\ f.value = q.value

\* What is settled does not depend on the rest of the feedback.
LEMMA SameDecisionSettled ==
  ASSUME NEW f, NEW q, SameDecision(f, q), NEW g, NEW c, Settled(f, g, c)
  PROVE  Settled(q, g, c)
BY DEF SameDecision, Settled, Undecided, Accepted, Accepts, SameText

\* ApplyPendingZenzMozcHistoryLearning() decides nothing.
LEMMA AppliedHistory ==
  ASSUME NEW l, Shape(l), NEW ok
  PROVE  /\ Shape(ApplyHistory(l, ok))
         /\ SameDecision(l.feedback, ApplyHistory(l, ok).feedback)
<1>1. CASE ApplyHistory(l, ok) = l
  BY <1>1 DEF SameDecision
<1>2. CASE ApplyHistory(l, ok) = [l EXCEPT !.feedback.applied = TRUE]
  BY <1>2 DEF Shape, SameDecision, NoFeedback
<1>3. CASE ApplyHistory(l, ok) =
             [l EXCEPT !.feedback.applied = TRUE,
                       !.feedback.handle = l.feedback.commit,
                       !.slot = l.feedback.commit,
                       !.history[l.feedback.commit] = "learned"]
  <2>. DEFINE p == [l EXCEPT !.feedback.applied = TRUE]
              q == [p EXCEPT !.feedback.handle = l.feedback.commit]
              r == [q EXCEPT !.slot = l.feedback.commit]
  <2>1. Shape(p) /\ SameDecision(l.feedback, p.feedback)
    BY DEF Shape, SameDecision, NoFeedback
  <2>. HIDE DEF p
  <2>2. Shape(q) /\ SameDecision(l.feedback, q.feedback)
    BY <2>1 DEF Shape, SameDecision, NoFeedback
  <2>. HIDE DEF q
  <2>3. Shape(r) /\ SameDecision(l.feedback, r.feedback)
    BY <2>2 DEF Shape, SameDecision, NoFeedback
  <2>. HIDE DEF r
  <2>4. ApplyHistory(l, ok)
          = [r EXCEPT !.history[l.feedback.commit] = "learned"]
    BY <1>3 DEF p, q, r
  <2>. QED
    BY <2>3, <2>4 DEF Shape, SameDecision
<1>. QED
  BY <1>1, <1>2, <1>3 DEF ApplyHistory

\* SetPendingZenzFeedbackAccepted() for the commit that is being made.
LEMMA AcceptedCommit ==
  ASSUME NEW l, Shape(l), IsSeq(commits), Settled(l.feedback, log, Count),
         NEW key, NEW value, NEW ok
  PROVE  LET m == ApplyHistory(Observe(SetAccepted(l, ok), key, value,
                                       NextCommit), ok)
         IN  Shape(m) /\ Settled(m.feedback, LogAccepted(ok), Count + 1)
<1>. DEFINE a == SetAccepted(l, ok)
            o == Observe(a, key, value, NextCommit)
            m == ApplyHistory(o, ok)
            e == <<Record("accepted", reading, Class, visible, ""),
                   NextCommit>>
<1>0. NextCommit = Count + 1 /\ Count \in Nat
  BY DEF NextCommit, Count, Settled, LogInv
<1>1. CASE ~ CanRecordZenzFeedback /\ ~ CanLearnZenzToMozcHistory
  <2>1. a = l /\ LogAccepted(ok) = log
    BY <1>1 DEF SetAccepted, LogAccepted
  <2>2. Shape(o) /\ Settled(o.feedback, log, Count + 1)
    BY <1>0, <2>1, Observed
  <2>3. Shape(m) /\ SameDecision(o.feedback, m.feedback)
    BY <2>2, AppliedHistory
  <2>. QED
    BY <2>1, <2>2, <2>3, SameDecisionSettled
<1>2. CASE CanRecordZenzFeedback \/ CanLearnZenzToMozcHistory
  <2>1. /\ Shape(a)
        /\ a.feedback.action = "accepted"
        /\ a.feedback.key = reading /\ a.feedback.value = visible
        /\ a.feedback.commit = NextCommit
        /\ a.feedback.written <=> CanRecordZenzFeedback /\ ok
    BY <1>2 DEF SetAccepted, Shape, NoFeedback
  <2>2. o = a
    BY <2>1 DEF Observe
  <2>3. Shape(m) /\ SameDecision(a.feedback, m.feedback)
    BY <2>1, <2>2, AppliedHistory
  <2>4. LogInv(log, Count + 1)
    BY LaterCommit DEF Settled
  <2>5. \A i \in DOMAIN log : log[i][2] # NextCommit
    BY <1>0 DEF Settled, LogInv, PastCommits
  <2>6. Undecided(a.feedback, LogAccepted(ok), Count + 1)
    BY <2>1 DEF Undecided
  <2>7. CASE CanRecordZenzFeedback /\ ok
    <3>1. LogAccepted(ok) = Append(log, e)
      BY <2>7 DEF LogAccepted
    <3>2. /\ e[1].action = "accepted" /\ e[1].key = reading
          /\ e[1].value = visible /\ e[2] = NextCommit
      BY DEF Record
    <3>. HIDE DEF e
    <3>3. LogInv(Append(log, e), Count + 1)
      BY <1>0, <2>4, <2>5, <3>2, OneMoreDecision DEF IsDecision
    <3>4. Accepted(a.feedback, Append(log, e))
      <4>1. /\ DOMAIN Append(log, e) = 1 .. Len(log) + 1
            /\ Len(log) \in Nat /\ DOMAIN log = 1 .. Len(log)
            /\ Append(log, e)[Len(log) + 1] = e
            /\ \A i \in DOMAIN log : Append(log, e)[i] = log[i]
        BY Appended DEF Settled, LogInv
      <4>2. Accepts(Append(log, e)[Len(log) + 1], a.feedback, NextCommit)
        BY <2>1, <3>2, <4>1 DEF Accepts, SameText
      <4>3. ASSUME NEW i \in DOMAIN Append(log, e),
                   IsRollback(Append(log, e)[i])
            PROVE  Append(log, e)[i][2] # NextCommit
        <5>1. i # Len(log) + 1
          BY <3>2, <4>1, <4>3 DEF IsRollback
        <5>2. i \in DOMAIN log
          BY <4>1, <5>1
        <5>. QED
          BY <2>5, <4>1, <5>2
      <4>. QED
        <5>. DEFINE h == Append(log, e)
        <5>1. Len(log) + 1 \in DOMAIN h
          BY <4>1
        <5>2. \E j \in DOMAIN h : Accepts(h[j], a.feedback, NextCommit)
          BY <4>2, <5>1
        <5>. HIDE DEF h, a
        <5>. QED
          BY <2>1, <4>3, <5>2 DEF Accepted, h
    <3>. QED
      BY <2>3, <2>6, <3>1, <3>3, <3>4, SameDecisionSettled DEF Settled
  <2>8. CASE ~ (CanRecordZenzFeedback /\ ok)
    <3>1. LogAccepted(ok) = log
      BY <2>8 DEF LogAccepted
    <3>2. Accepted(a.feedback, log)
      BY <2>1, <2>8 DEF Accepted
    <3>. QED
      BY <2>3, <2>4, <2>6, <3>1, <3>2, SameDecisionSettled DEF Settled
  <2>. QED
    BY <2>7, <2>8
<1>. QED
  BY <1>1, <1>2

\* An ordinary commit, which a comparison may be waiting for.
LEMMA CommittedOrdinarily ==
  ASSUME NEW l, Shape(l), IsSeq(commits), Settled(l.feedback, log, Count)
  PROVE  /\ Shape(OrdinaryCommit(l))
         /\ Settled(OrdinaryCommit(l).feedback, log, Count + 1)
<1>1. NextCommit = Count + 1
  BY DEF NextCommit, Count
<1>. QED
  BY <1>1, LearnedCommit, Observed DEF OrdinaryCommit

\* The commits are one more.
LEMMA CommitCounted ==
  ASSUME IsSeq(commits), NEW value, NEW kind, Committed(value, kind)
  PROVE  IsSeq(commits') /\ Count' = Count + 1
BY Appended DEF Committed, Count
-----------------------------------------------------------------------------
(***************************************************************************)
(* The actions                                                             *)
(***************************************************************************)

\* What is learned starts with nothing pending and nothing in the log.
LEMMA InitInv ==
  Init => Inv
<1>. SUFFICES ASSUME Init PROVE Inv
  OBVIOUS
<1>1. learn.feedback = NoFeedback /\ log = <<>> /\ commits = <<>>
  BY DEF Init
<1>2. Shape(learn)
  BY DEF Init, Shape
<1>3. IsSeq(log) /\ IsSeq(commits)
  BY <1>1 DEF IsSeq
<1>4. Count = 0 /\ DOMAIN log = {}
  BY <1>1 DEF Count
<1>5. LogInv(log, Count)
  BY <1>3, <1>4
     DEF LogInv, PastCommits, DecidedOnce, RolledBackOnce, RollbacksFollow
<1>. QED
  BY <1>1, <1>2, <1>3, <1>5, NothingPending DEF Inv

\* A step that learns nothing and writes nothing.
LEMMA Unlearned ==
  ASSUME Inv, UNCHANGED <<learn, commits, log>>
  PROVE  Inv'
BY DEF Inv, Count, Shape

\* A step after which what is pending is l, and what was written is logged.
LEMMA SettledAgain ==
  ASSUME Inv, UNCHANGED commits,
         NEW l, Shape(l), Settled(l.feedback, log', Count), learn' = l
  PROVE  Inv'
<1>1. Count' = Count /\ IsSeq(commits)'
  BY DEF Inv, Count
<1>2. Shape(learn)'
  BY DEF Shape
<1>3. Settled(learn.feedback, log, Count)'
  BY <1>1 DEF Settled, Undecided, Accepted, LogInv
<1>. QED
  BY <1>1, <1>2, <1>3 DEF Inv

\* The same where a commit is made.
LEMMA SettledByCommit ==
  ASSUME Inv, NEW value, NEW kind, Committed(value, kind),
         NEW l, Shape(l), Settled(l.feedback, log', Count + 1), learn' = l
  PROVE  Inv'
<1>1. Count' = Count + 1 /\ IsSeq(commits)'
  BY CommitCounted DEF Inv
<1>2. Shape(learn)'
  BY DEF Shape
<1>3. Settled(learn.feedback, log, Count)'
  BY <1>1 DEF Settled, Undecided, Accepted, LogInv
<1>. QED
  BY <1>1, <1>2, <1>3 DEF Inv

\* The correction on the screen is committed: CommitZenzLiveCorrectionResult.
LEMMA VisibleAccepted ==
  ASSUME Inv, NEW l, Shape(l), l.feedback = learn.feedback,
         NEW suffix, NEW ok, AcceptVisible(l, suffix, ok)
  PROVE  Inv'
<1>1. Settled(l.feedback, log, Count) /\ IsSeq(commits)
  BY DEF Inv
<1>2. PICK emitted :
        learn' = ApplyHistory(Observe(SetAccepted(l, ok), emitted[1],
                                      emitted[2], NextCommit), ok)
  BY Zenon DEF AcceptVisible
<1>3. log' = LogAccepted(ok)
  BY DEF AcceptVisible
<1>4. \E kind : Committed(visible, kind)
  BY Zenon DEF AcceptVisible
<1>. QED
  BY <1>1, <1>2, <1>3, <1>4, AcceptedCommit, SettledByCommit

\* Keys that take back what is pending: EditCancel, Revert, MaybeUndo...
LEMMA UndoingInv ==
  ASSUME Inv, NEW ok \in BOOLEAN
  PROVE  /\ CancelConversion(ok) => Inv'
         /\ CancelComposition(ok) => Inv'
         /\ RollbackKey(ok) => Inv'
         /\ CancelKey(ok) => Inv'
         /\ Undo(ok) => Inv'
         /\ \A key : EraseCharacter(key, ok) => Inv'
<1>. DEFINE d == DiscardBoth(learn, ok)
<1>1. Shape(d) /\ Settled(d.feedback, LogDiscard(learn, ok), Count)
  BY DiscardedBoth DEF Inv
<1>. HIDE DEF d
<1>2. ASSUME learn' = d, log' = LogDiscard(learn, ok), UNCHANGED commits
      PROVE  Inv'
  BY <1>1, <1>2, SettledAgain
<1>3. ASSUME CancelConversion(ok)
      PROVE  Inv'
  <2>1. log' = LogDiscard(learn, ok) /\ UNCHANGED commits
    BY <1>3 DEF CancelConversion
  <2>2. CASE visible = None
    <3>1. learn' = d
      BY <1>3, <2>2, Zenon DEF CancelConversion, d
    <3>. QED
      BY <1>2, <2>1, <3>1
  <2>3. CASE visible # None
    <3>1. PICK yes : yes = TRUE
      OBVIOUS
    <3>2. learn' = SetComparison(d, visible,
                     "cancel_visible_zenz_to_composition", yes)
      BY <1>3, <2>3, <3>1, Zenon DEF CancelConversion, d
    <3>. QED
      BY <1>1, <2>1, <3>2, Compared, SettledAgain
  <2>. QED
    BY <2>2, <2>3
<1>4. ASSUME CancelComposition(ok)
      PROVE  Inv'
  BY <1>2, <1>4 DEF CancelComposition, d
<1>5. ASSUME RollbackKey(ok)
      PROVE  Inv'
  BY <1>2, <1>5 DEF RollbackKey, d
<1>6. Shape(UndoneLearning(d)) /\ UndoneLearning(d).feedback = d.feedback
  BY <1>1, RevertedCommit DEF UndoneLearning
<1>7. ASSUME CancelKey(ok)
      PROVE  Inv'
  <2>1. /\ learn' = UndoneLearning(d) /\ log' = LogDiscard(learn, ok)
        /\ UNCHANGED commits
    BY <1>7 DEF CancelKey, d
  <2>. QED
    BY <1>1, <1>6, <2>1, SettledAgain
<1>8. ASSUME Undo(ok)
      PROVE  Inv'
  <2>1. log' = LogDiscard(learn, ok) /\ UNCHANGED commits
    BY <1>8 DEF Undo
  <2>2. CASE undos = <<>>
    BY <1>2, <1>8, <2>1, <2>2 DEF Undo, d
  <2>3. CASE undos # <<>>
    <3>1. learn' = [UndoneLearning(d) EXCEPT !.slot = 0]
      BY <1>8, <2>3 DEF Undo, d
    <3>2. /\ Shape([UndoneLearning(d) EXCEPT !.slot = 0])
          /\ [UndoneLearning(d) EXCEPT !.slot = 0].feedback = d.feedback
      BY <1>6 DEF Shape
    <3>. QED
      BY <1>1, <2>1, <3>1, <3>2, SettledAgain
  <2>. QED
    BY <2>2, <2>3
<1>9. ASSUME NEW key, EraseCharacter(key, ok)
      PROVE  Inv'
  BY <1>2, <1>9 DEF EraseCharacter, d
<1>. QED
  BY <1>3, <1>4, <1>5, <1>7, <1>8, <1>9

\* Keys that confirm what is pending: InsertCharacter, a key that passes to
\* the application, ResetContext.
LEMMA ConfirmingInv ==
  ASSUME Inv, NEW ok \in BOOLEAN
  PROVE  /\ \A key : TypeCharacter(key, ok) => Inv'
         /\ PassKey(ok) => Inv'
         /\ ResetContext(ok) => Inv'
<1>1. ASSUME learn' = ConfirmDirect(learn), log' = log, UNCHANGED commits
      PROVE  Inv'
  <2>1. /\ Shape(ConfirmDirect(learn))
        /\ ConfirmDirect(learn).feedback = learn.feedback
    BY ConfirmedDirect DEF Inv
  <2>. QED
    BY <1>1, <2>1, SettledAgain DEF Inv
<1>2. ASSUME learn' = ConfirmBoth(learn, ok), log' = LogConfirm(learn, ok),
             UNCHANGED commits
      PROVE  Inv'
  <2>1. /\ Shape(ConfirmBoth(learn, ok))
        /\ Settled(ConfirmBoth(learn, ok).feedback, LogConfirm(learn, ok),
                   Count)
    BY ConfirmedBoth DEF Inv
  <2>. QED
    BY <1>2, <2>1, SettledAgain
<1>3. ASSUME NEW key, TypeCharacter(key, ok)
      PROVE  Inv'
  BY <1>1, <1>2, <1>3 DEF TypeCharacter
<1>4. ASSUME PassKey(ok)
      PROVE  Inv'
  <2>1. /\ Shape(ConfirmFeedback(learn, ok))
        /\ Settled(ConfirmFeedback(learn, ok).feedback,
                   LogConfirm(learn, ok), Count)
    BY Confirmed DEF Inv
  <2>. QED
    BY <1>4, <2>1, SettledAgain DEF PassKey
<1>5. ASSUME ResetContext(ok)
      PROVE  Inv'
  BY <1>2, <1>5 DEF ResetContext
<1>. QED
  BY <1>3, <1>4, <1>5

\* A correction the user moves away from is compared with a later commit:
\* the session asks for a comparison and writes nothing yet.
LEMMA ComparingInv ==
  ASSUME Inv
  PROVE  /\ \A value, blocked : ZenzAnswers(value, blocked) => Inv'
         /\ \A value : ExplicitConversion(value) => Inv'
         /\ \A value : SelectSuggestion(value) => Inv'
         /\ SpaceRevertsZenz => Inv'
<1>0. Shape(learn) /\ Settled(learn.feedback, log, Count)
  BY DEF Inv
<1>1. ASSUME NEW value, NEW blocked, ZenzAnswers(value, blocked)
      PROVE  Inv'
  <2>1. log' = log /\ UNCHANGED commits
    BY <1>1 DEF ZenzAnswers
  <2>2. PICK yes : yes = TRUE
    OBVIOUS
  <2>3. \/ learn' = learn
        \/ learn' = SetComparison(learn, value, "auto_block_shadow_compare",
                                  yes)
    BY <1>1, <2>2, Zenon DEF ZenzAnswers
  <2>4. CASE learn' = learn
    BY <1>0, <2>1, <2>4, SettledAgain
  <2>5. ASSUME NEW l, learn' = l,
               l = SetComparison(learn, value, "auto_block_shadow_compare",
                                 yes)
        PROVE  Inv'
    <3>1. Shape(l) /\ Settled(l.feedback, log, Count)
      BY <1>0, <2>5, Compared
    <3>. QED
      BY <2>1, <2>5, <3>1, SettledAgain
  <2>. QED
    BY <2>3, <2>4, <2>5
<1>2. ASSUME NEW value, ExplicitConversion(value)
      PROVE  Inv'
  <2>1. log' = log /\ UNCHANGED commits
    BY <1>2 DEF ExplicitConversion
  <2>2. \/ learn' = learn
        \/ learn' = SetRejected(learn, "explicit_conversion_after_zenz")
    BY <1>2 DEF ExplicitConversion
  <2>. QED
    BY <1>0, <2>1, <2>2, RejectionCompared, SettledAgain
<1>3. ASSUME NEW value, SelectSuggestion(value)
      PROVE  Inv'
  <2>. DEFINE r == SetRejected(learn, "candidate_selection_after_zenz")
              l == [r EXCEPT !.slot = 0]
  <2>1. log' = log /\ UNCHANGED commits /\ learn' = l
    BY <1>3 DEF SelectSuggestion
  <2>2. Shape(r) /\ Settled(r.feedback, log, Count)
    BY <1>0, RejectionCompared
  <2>. HIDE DEF r
  <2>3. Shape(l) /\ l.feedback = r.feedback
    BY <2>2 DEF Shape
  <2>. QED
    BY <2>1, <2>2, <2>3, SettledAgain
<1>4. ASSUME SpaceRevertsZenz
      PROVE  Inv'
  <2>1. /\ log' = log /\ UNCHANGED commits
        /\ learn' = SetRejected(learn, "space_revert_zenz_to_mozc")
    BY <1>4 DEF SpaceRevertsZenz
  <2>. QED
    BY <1>0, <2>1, RejectionCompared, SettledAgain
<1>. QED
  BY <1>1, <1>2, <1>3, <1>4

\* Keys that commit: what is committed is observed by a comparison before
\* the comparison is confirmed.
LEMMA CommittingInv ==
  ASSUME Inv, NEW ok \in BOOLEAN
  PROVE  /\ \A key : TypeAfterConversion(key, ok) => Inv'
         /\ \A key : TypeShiftAscii(key, ok) => Inv'
         /\ PunctuateComposition(ok) => Inv'
         /\ PunctuateConversion(ok) => Inv'
         /\ PunctuateLive(ok) => Inv'
         /\ Enter(ok) => Inv'
         /\ ImeOff(ok) => Inv'
         /\ \A rest, value : CommitSegment(rest, value) => Inv'
<1>. DEFINE old == ConfirmDirect(learn)
            l == OrdinaryCommit(old)
            n == OrdinaryCommit(learn)
<1>0. Shape(learn) /\ Settled(learn.feedback, log, Count) /\ IsSeq(commits)
  BY DEF Inv
<1>1. Shape(old) /\ old.feedback = learn.feedback
  BY <1>0, ConfirmedDirect
<1>. HIDE DEF old
<1>2. Shape(l) /\ Settled(l.feedback, log, Count + 1)
  BY <1>0, <1>1, CommittedOrdinarily
<1>3. Shape(n) /\ Settled(n.feedback, log, Count + 1)
  BY <1>0, CommittedOrdinarily
<1>4. /\ Shape(ConfirmFeedback(l, ok))
      /\ Settled(ConfirmFeedback(l, ok).feedback, LogConfirm(l, ok), Count + 1)
  BY <1>2, Confirmed
<1>5. \A key, value :
        LET o == Observe(old, key, value, NextCommit)
        IN  Shape(o) /\ Settled(o.feedback, log, Count + 1)
  BY <1>0, <1>1, Observed DEF NextCommit, Count
<1>. HIDE DEF l, n
<1>6. ASSUME NEW key, TypeAfterConversion(key, ok)
      PROVE  Inv'
  <2>1. /\ learn' = ConfirmFeedback(l, ok) /\ log' = LogConfirm(l, ok)
        /\ Committed(shown, "normal")
    BY <1>6 DEF TypeAfterConversion, l, old
  <2>. QED
    BY <1>4, <2>1, SettledByCommit
<1>7. ASSUME NEW key, TypeShiftAscii(key, ok)
      PROVE  Inv'
  <2>1. CASE AcceptVisible(old, FALSE, ok)
    <3>1. PICK no : no = FALSE
      OBVIOUS
    <3>2. AcceptVisible(old, no, ok)
      BY <2>1, <3>1, Zenon
    <3>. QED
      BY <1>1, <3>2, VisibleAccepted
  <2>2. CASE /\ learn' = Observe(old, reading, shown, NextCommit)
             /\ Committed(shown, "direct") /\ log' = log
    BY <1>5, <2>2, SettledByCommit
  <2>. QED
    BY <1>7, <2>1, <2>2, Zenon DEF TypeShiftAscii, old
<1>8. ASSUME PunctuateComposition(ok)
      PROVE  Inv'
  <2>1. Committed(shown, "direct")
    BY <1>8 DEF PunctuateComposition
  <2>2. CASE /\ learn' = Observe(old, reading, shown, NextCommit)
             /\ log' = log
    BY <1>5, <2>1, <2>2, SettledByCommit
  <2>3. CASE /\ learn' = ConfirmFeedback(old, ok)
             /\ log' = LogConfirm(old, ok)
    <3>1. Settled(old.feedback, log, Count + 1)
      BY <1>0, <1>1, LaterCommit
    <3>2. /\ Shape(ConfirmFeedback(old, ok))
          /\ Settled(ConfirmFeedback(old, ok).feedback, LogConfirm(old, ok),
                     Count + 1)
      BY <1>1, <3>1, Confirmed
    <3>. QED
      BY <2>1, <2>3, <3>2, SettledByCommit
  <2>. QED
    BY <1>8, <2>2, <2>3 DEF PunctuateComposition, old
<1>9. ASSUME PunctuateConversion(ok)
      PROVE  Inv'
  <2>1. Committed(shown, "normal")
    BY <1>9 DEF PunctuateConversion
  <2>2. \/ learn' = [l EXCEPT !.direct = NextCommit] /\ log' = log
        \/ /\ learn' = [ConfirmFeedback(l, ok) EXCEPT !.direct = NextCommit]
           /\ log' = LogConfirm(l, ok)
    BY <1>9 DEF PunctuateConversion, l, old
  <2>3. ASSUME NEW m, Shape(m)
        PROVE  LET q == [m EXCEPT !.direct = NextCommit]
               IN  Shape(q) /\ q.feedback = m.feedback
    BY <2>3 DEF Shape
  <2>. QED
    BY <1>2, <1>4, <2>1, <2>2, <2>3, SettledByCommit
<1>10. ASSUME PunctuateLive(ok)
       PROVE  Inv'
  <2>1. CASE AcceptVisible(old, TRUE, ok)
    <3>1. PICK yes : yes = TRUE
      OBVIOUS
    <3>2. AcceptVisible(old, yes, ok)
      BY <2>1, <3>1, Zenon
    <3>. QED
      BY <1>1, <3>2, VisibleAccepted
  <2>2. CASE /\ learn' = Observe(old, Suffixed, Suffixed, NextCommit)
             /\ Committed(shown, "marked") /\ log' = log
    BY <1>5, <2>2, SettledByCommit
  <2>. QED
    BY <1>10, <2>1, <2>2, Zenon DEF PunctuateLive, old
<1>11. ASSUME Enter(ok)
       PROVE  Inv'
  <2>1. CASE AcceptVisible(learn, FALSE, ok)
    <3>1. PICK no : no = FALSE
      OBVIOUS
    <3>2. AcceptVisible(learn, no, ok)
      BY <2>1, <3>1, Zenon
    <3>. QED
      BY <1>0, <3>2, VisibleAccepted
  <2>2. CASE learn' = n /\ Committed(shown, "normal") /\ log' = log
    BY <1>3, <2>2, SettledByCommit
  <2>. QED
    BY <1>11, <2>1, <2>2, Zenon DEF Enter, n
<1>12. ASSUME ImeOff(ok)
       PROVE  Inv'
  <2>1. CASE ~Composing
    <3>1. /\ learn' = ConfirmFeedback(old, ok)
          /\ log' = LogConfirm(old, ok) /\ UNCHANGED commits
      BY <1>12, <2>1 DEF ImeOff, old
    <3>2. /\ Shape(ConfirmFeedback(old, ok))
          /\ Settled(ConfirmFeedback(old, ok).feedback, LogConfirm(old, ok),
                     Count)
      BY <1>0, <1>1, Confirmed
    <3>. QED
      BY <3>1, <3>2, SettledAgain
  <2>2. CASE Composing /\ visible = None
    <3>1. /\ learn' = ConfirmFeedback(l, ok) /\ log' = LogConfirm(l, ok)
          /\ Committed(shown, "normal")
      BY <1>12, <2>2 DEF ImeOff, l, old
    <3>. QED
      BY <1>4, <3>1, SettledByCommit
  <2>3. CASE Composing /\ visible # None
    <3>. DEFINE a == ApplyHistory(Observe(SetAccepted(old, ok), reading,
                                          visible, NextCommit), ok)
    <3>1. /\ learn' = ConfirmFeedback(a, ok) /\ log' = LogAccepted(ok)
          /\ Committed(visible, "zenz")
      BY <1>12, <2>3 DEF ImeOff, old
    <3>2. Shape(a) /\ Settled(a.feedback, LogAccepted(ok), Count + 1)
      BY <1>0, <1>1, AcceptedCommit
    <3>. HIDE DEF a
    <3>3. /\ Shape(ConfirmFeedback(a, ok))
          /\ ConfirmFeedback(a, ok).feedback = NoFeedback
      BY <3>2 DEF ConfirmFeedback, Released, Shape
    <3>4. Settled(NoFeedback, LogAccepted(ok), Count + 1)
      BY <3>2, NothingPending DEF Settled
    <3>. QED
      BY <3>1, <3>3, <3>4, SettledByCommit
  <2>. QED
    BY <2>1, <2>2, <2>3
<1>13. ASSUME NEW rest, NEW value, CommitSegment(rest, value)
       PROVE  Inv'
  <2>1. /\ learn' = LearnCommit(learn, NextCommit) /\ log' = log
        /\ Committed(value, "segment")
    BY <1>13 DEF CommitSegment
  <2>2. /\ Shape(LearnCommit(learn, NextCommit))
        /\ LearnCommit(learn, NextCommit).feedback = learn.feedback
        /\ Settled(learn.feedback, log, Count + 1)
    BY <1>0, LearnedCommit, LaterCommit
  <2>. QED
    BY <2>1, <2>2, SettledByCommit
<1>. QED
  BY <1>6, <1>7, <1>8, <1>9, <1>10, <1>11, <1>12, <1>13

\* Every step keeps the log and what is pending settled with each other.
LEMMA NextInv ==
  Inv /\ [Next]_vars => Inv'
<1>. SUFFICES ASSUME Inv, [Next]_vars PROVE Inv'
  OBVIOUS
<1>1. CASE UNCHANGED vars
  BY <1>1, Unlearned DEF vars
<1>2. CASE Typing
  BY <1>2, UndoingInv, ConfirmingInv, CommittingInv DEF Typing
<1>3. CASE Converting
  <2>1. ASSUME NEW value \in Values, NEW flag \in BOOLEAN,
               Convert(value, flag) \/ ForceZenz(value, flag)
        PROVE  Inv'
    BY <2>1, Unlearned DEF Convert, ForceZenz
  <2>. QED
    BY <1>3, <2>1, ComparingInv DEF Converting
<1>4. CASE Committing
  BY <1>4, CommittingInv DEF Committing
<1>5. CASE Undoing
  BY <1>5, UndoingInv, ConfirmingInv DEF Undoing
<1>6. CASE Others
  <2>1. ASSUME ImeOn \/ ToggleIncognito
               \/ \E key \in Readings, value \in Values :
                    Reconvert(key, value)
        PROVE  Inv'
    BY <2>1, Unlearned DEF ImeOn, ToggleIncognito, Reconvert
  <2>. QED
    BY <1>6, <2>1, ComparingInv DEF Others
<1>. QED
  BY <1>1, <1>2, <1>3, <1>4, <1>5, <1>6 DEF Next

\* What is pending agrees with the log in every reachable state.
THEOREM AlwaysSettled ==
  Spec => []Inv
BY InitInv, NextInv, PTL DEF Spec

\* "One user decision contributes at most one accepted/rejected event"
\* (session.h:530), whatever the Set..., Confirm... and Discard... functions
\* of the pending feedback are called on in between.
THEOREM OneEvent ==
  Spec => []OneEventPerDecision
<1>1. ASSUME Inv
      PROVE  OneEventPerDecision
  <2>. SUFFICES
         ASSUME NEW n \in CommitIds
         PROVE  Cardinality(Logged("accepted", n) \cup Logged("rejected", n))
                  <= 1
    BY DEF OneEventPerDecision
  <2>. DEFINE E == Logged("accepted", n) \cup Logged("rejected", n)
  <2>1. \A i, j \in E : i = j
    BY <1>1 DEF Inv, Settled, LogInv, DecidedOnce, IsDecision, Logged
  <2>. HIDE DEF E
  <2>2. CASE E = {}
    BY <2>2, FS_EmptySet DEF E
  <2>3. CASE E # {}
    <3>1. PICK i : i \in E
      BY <2>3
    <3>2. E = {i}
      BY <2>1, <3>1
    <3>. QED
      BY <3>2, FS_Singleton DEF E
  <2>. QED
    BY <2>2, <2>3
<1>. QED
  BY <1>1, AlwaysSettled, PTL

\* DiscardPendingZenzFeedback() compensates "only ... an acceptance
\* successfully appended" (session.cc:6476): the acceptance is in the log
\* before its rollback, and nothing takes it back twice.
THEOREM RollbackFollows ==
  Spec => []RollbackFollowsItsAcceptance
<1>1. ASSUME Inv
      PROVE  RollbackFollowsItsAcceptance
  <2>. SUFFICES
         ASSUME NEW n \in CommitIds, NEW i \in Logged("accepted_rollback", n)
         PROVE  /\ Logged("accepted_rollback", n) = {i}
                /\ \E j \in Logged("accepted", n) :
                     /\ j < i
                     /\ log[j][1].key = log[i][1].key
                     /\ log[j][1].value = log[i][1].value
    BY DEF RollbackFollowsItsAcceptance
  <2>1. i \in DOMAIN log /\ IsRollback(log[i]) /\ log[i][2] = n
    BY DEF Logged, IsRollback
  <2>2. \A j \in Logged("accepted_rollback", n) : j = i
    BY <1>1, <2>1
       DEF Inv, Settled, LogInv, RolledBackOnce, IsRollback, Logged
  <2>3. PICK j \in DOMAIN log : j < i /\ Accepts(log[j], log[i][1], log[i][2])
    BY <1>1, <2>1 DEF Inv, Settled, LogInv, RollbacksFollow
  <2>4. j \in Logged("accepted", n)
    BY <2>1, <2>3 DEF Accepts, Logged
  <2>. QED
    BY <2>2, <2>3, <2>4 DEF Accepts, SameText
<1>. QED
  BY <1>1, AlwaysSettled, PTL
-----------------------------------------------------------------------------
(***************************************************************************)
(* Private fields                                                          *)
(***************************************************************************)

\* The history k knows nothing that h does not.
LearnsNothing(h, k) ==
  \A n \in CommitIds : k[n] = "learned" => h[n] = "learned"

\* No operator learns or writes in a private field.
LEMMA PrivateOperators ==
  ASSUME incognito, NEW l, Shape(l)
  PROVE  /\ \A ok : LogConfirm(l, ok) = log /\ LogDiscard(l, ok) = log
         /\ \A ok : LogAccepted(ok) = log /\ SetAccepted(l, ok) = l
         /\ \A n : LearnCommit(l, n) = l
         /\ \A value, reason, needsKey :
              SetComparison(l, value, reason, needsKey) = l
         /\ \A reason : SetRejected(l, reason) = l
<1>. QED
  BY Zenon DEF LogConfirm, LogDiscard, LogAccepted, SetAccepted, LearnCommit,
       SetComparison, SetRejected, WritesComparison, WritesRollback,
       CanRecordZenzFeedback, CanLearnZenzToMozcHistory

\* An observation learns nothing...
LEMMA PrivateObserve ==
  ASSUME NEW l, Shape(l), NEW key, NEW value, NEW n
  PROVE  /\ Shape(Observe(l, key, value, n))
         /\ Observe(l, key, value, n).history = l.history
<1>1. CASE Observe(l, key, value, n) = l
  BY <1>1
<1>2. CASE Observe(l, key, value, n)
             = [l EXCEPT !.feedback.finalKey = key,
                         !.feedback.finalValue = value,
                         !.feedback.commit = n]
  <2>. DEFINE p == [l EXCEPT !.feedback.finalKey = key]
              q == [p EXCEPT !.feedback.finalValue = value]
              m == [q EXCEPT !.feedback.commit = n]
  <2>1. Shape(p) /\ p.history = l.history
    BY DEF Shape, NoFeedback
  <2>. HIDE DEF p
  <2>2. Shape(q) /\ q.history = l.history
    BY <2>1 DEF Shape, NoFeedback
  <2>. HIDE DEF q
  <2>3. Shape(m) /\ m.history = l.history
    BY <2>2 DEF Shape, NoFeedback
  <2>4. Observe(l, key, value, n) = m
    BY <1>2 DEF p, q
  <2>. QED
    BY <2>3, <2>4
<1>. QED
  BY <1>1, <1>2 DEF Observe

\* ...and in private neither does an acceptance.
LEMMA PrivateHistory ==
  ASSUME incognito, NEW l, Shape(l), NEW ok
  PROVE  ApplyHistory(l, ok).history = l.history
<1>1. CASE ApplyHistory(l, ok) = l
  BY <1>1
<1>2. CASE ApplyHistory(l, ok) = [l EXCEPT !.feedback.applied = TRUE]
  BY <1>2 DEF Shape
<1>. QED
  BY <1>1, <1>2 DEF ApplyHistory, CanLearnZenzToMozcHistory

\* Taking back is no learning.
LEMMA TakenBack ==
  ASSUME NEW l, Shape(l), NEW n, NEW ok
  PROVE  /\ LearnsNothing(l.history, RevertCommit(l, n).history)
         /\ LearnsNothing(l.history, DiscardFeedback(l, ok).history)
         /\ LearnsNothing(l.history, DiscardBoth(l, ok).history)
         /\ Shape(DiscardBoth(l, ok))
<1>1. ASSUME NEW m, Shape(m), NEW k
      PROVE  LearnsNothing(m.history, RevertCommit(m, k).history)
  <2>1. CASE RevertCommit(m, k) = m
    BY <2>1 DEF LearnsNothing
  <2>2. CASE RevertCommit(m, k) = [m EXCEPT !.history[k] = "reverted"]
    BY <2>2 DEF LearnsNothing, Shape
  <2>. QED
    BY <2>1, <2>2 DEF RevertCommit
<1>2. ASSUME NEW m, Shape(m)
      PROVE  LearnsNothing(m.history, DiscardFeedback(m, ok).history)
  <2>1. \/ DiscardFeedback(m, ok).history = m.history
        \/ DiscardFeedback(m, ok).history
             = [m.history EXCEPT ![m.feedback.handle] = "reverted"]
    BY <1>2 DEF DiscardFeedback, Released, Shape
  <2>. QED
    BY <1>2, <2>1 DEF LearnsNothing, Shape
<1>. DEFINE d == DiscardDirect(l)
<1>3. /\ Shape(d) /\ d.history = RevertCommit(l, l.direct).history
  BY DiscardedDirect, RevertedCommit DEF DiscardDirect, Shape
<1>. HIDE DEF d
<1>4. LearnsNothing(l.history, d.history)
  BY <1>1, <1>3
<1>5. LearnsNothing(d.history, DiscardFeedback(d, ok).history)
  BY <1>2, <1>3
<1>6. DiscardBoth(l, ok) = DiscardFeedback(d, ok)
  BY DEF DiscardBoth, d
<1>7. Shape(DiscardFeedback(d, ok))
  BY <1>3 DEF DiscardFeedback, Released, Shape
<1>. QED
  BY <1>1, <1>2, <1>4, <1>5, <1>6, <1>7 DEF LearnsNothing

\* Confirming is no learning either.
LEMMA ConfirmingLearnsNothing ==
  ASSUME NEW l, Shape(l), NEW ok
  PROVE  /\ Shape(ConfirmDirect(l)) /\ ConfirmDirect(l).history = l.history
         /\ Shape(ConfirmFeedback(l, ok))
         /\ ConfirmFeedback(l, ok).history = l.history
         /\ ConfirmBoth(l, ok).history = l.history
<1>1. ASSUME NEW m, Shape(m)
      PROVE  /\ Shape(ConfirmFeedback(m, ok))
             /\ ConfirmFeedback(m, ok).history = m.history
  BY <1>1 DEF ConfirmFeedback, Released, Shape
<1>. QED
  BY <1>1, ConfirmedDirect DEF ConfirmBoth

\* What a step that leaves the field alone may not do.
Private == log' = log /\ LearnsNothing(learn.history, learn'.history)

\* What takes something back learns and writes nothing in private...
LEMMA PrivateUndoing ==
  ASSUME Inv, incognito, NEW ok \in BOOLEAN
  PROVE  /\ CancelConversion(ok) => Private
         /\ CancelComposition(ok) => Private
         /\ RollbackKey(ok) => Private
         /\ CancelKey(ok) => Private
         /\ Undo(ok) => Private
         /\ \A key : EraseCharacter(key, ok) => Private
<1>. DEFINE d == DiscardBoth(learn, ok)
<1>0. Shape(learn)
  BY DEF Inv
<1>1. Shape(d) /\ LearnsNothing(learn.history, d.history)
  BY <1>0, TakenBack
<1>2. LogDiscard(learn, ok) = log
  BY <1>0, PrivateOperators
<1>. HIDE DEF d
<1>3. CancelConversion(ok) => Private
  <2>1. PICK yes : yes = TRUE
    OBVIOUS
  <2>2. SetComparison(d, visible, "cancel_visible_zenz_to_composition", yes)
          = d
    BY <1>1, PrivateOperators
  <2>3. CancelConversion(ok) => learn' = d
    BY <2>1, <2>2, Zenon DEF CancelConversion, d
  <2>4. CancelConversion(ok) => log' = log
    BY <1>2 DEF CancelConversion
  <2>. QED
    BY <1>1, <2>3, <2>4 DEF Private
<1>4. UndoneLearning(d) = d \/ \E n : UndoneLearning(d) = RevertCommit(d, n)
  BY DEF UndoneLearning
<1>5. \A n : LearnsNothing(d.history, RevertCommit(d, n).history)
  BY <1>1, TakenBack
<1>6. /\ LearnsNothing(learn.history, UndoneLearning(d).history)
      /\ Shape(UndoneLearning(d))
  BY <1>1, <1>4, <1>5, RevertedCommit DEF LearnsNothing
<1>7. [UndoneLearning(d) EXCEPT !.slot = 0].history
        = UndoneLearning(d).history
  BY <1>6 DEF Shape
<1>8. CancelKey(ok) => Private
  BY <1>2, <1>6 DEF CancelKey, Private, d
<1>9. Undo(ok) => Private
  <2>1. Undo(ok) => \/ learn' = d
                    \/ learn' = [UndoneLearning(d) EXCEPT !.slot = 0]
    BY DEF Undo, d
  <2>2. Undo(ok) => log' = log
    BY <1>2 DEF Undo
  <2>. QED
    BY <1>1, <1>6, <1>7, <2>1, <2>2 DEF Private
<1>. QED
  BY <1>1, <1>2, <1>3, <1>8, <1>9
     DEF CancelComposition, RollbackKey, EraseCharacter, Private, d

\* ...nor does what only confirms...
LEMMA PrivateConfirming ==
  ASSUME Inv, incognito, NEW ok \in BOOLEAN
  PROVE  /\ \A key : TypeCharacter(key, ok) => Private
         /\ PassKey(ok) => Private
         /\ ResetContext(ok) => Private
<1>0. Shape(learn) /\ LogConfirm(learn, ok) = log
  BY PrivateOperators DEF Inv
<1>1. /\ ConfirmDirect(learn).history = learn.history
      /\ ConfirmFeedback(learn, ok).history = learn.history
      /\ ConfirmBoth(learn, ok).history = learn.history
  BY <1>0, ConfirmingLearnsNothing
<1>2. LearnsNothing(learn.history, learn.history)
  BY DEF LearnsNothing
<1>. QED
  BY <1>0, <1>1, <1>2 DEF TypeCharacter, PassKey, ResetContext, Private

\* ...nor what compares...
LEMMA PrivateComparing ==
  ASSUME Inv, incognito
  PROVE  /\ \A value : \A blocked \in BOOLEAN :
              ZenzAnswers(value, blocked) => Private
         /\ \A value : ExplicitConversion(value) => Private
         /\ \A value : SelectSuggestion(value) => Private
         /\ SpaceRevertsZenz => Private
<1>0. Shape(learn) /\ LearnsNothing(learn.history, learn.history)
  BY DEF Inv, LearnsNothing
<1>1. \A reason : SetRejected(learn, reason) = learn
  BY <1>0, PrivateOperators
<1>2. [learn EXCEPT !.slot = 0].history = learn.history
  BY <1>0 DEF Shape
<1>3. ASSUME NEW value, NEW blocked \in BOOLEAN, ZenzAnswers(value, blocked)
      PROVE  Private
  <2>1. ~blocked
    BY <1>3 DEF ZenzAnswers
  <2>2. learn' = learn /\ log' = log
    BY <1>3, <2>1, Zenon DEF ZenzAnswers
  <2>. QED
    BY <1>0, <2>2 DEF Private
<1>4. ASSUME NEW value, SelectSuggestion(value)
      PROVE  Private
  <2>1. learn' = [learn EXCEPT !.slot = 0] /\ log' = log
    BY <1>1, <1>4 DEF SelectSuggestion
  <2>. QED
    BY <1>0, <1>2, <2>1 DEF Private
<1>. QED
  BY <1>0, <1>1, <1>3, <1>4 DEF ExplicitConversion, SpaceRevertsZenz, Private

\* ...nor the acceptance of the correction on the screen...
LEMMA PrivateAcceptance ==
  ASSUME Inv, incognito, NEW l, Shape(l), l.history = learn.history,
         NEW suffix, NEW ok, AcceptVisible(l, suffix, ok)
  PROVE  Private
<1>1. PICK emitted :
        learn' = ApplyHistory(Observe(SetAccepted(l, ok), emitted[1],
                                      emitted[2], NextCommit), ok)
  BY Zenon DEF AcceptVisible
<1>2. log' = log
  BY PrivateOperators DEF AcceptVisible
<1>. DEFINE o == Observe(l, emitted[1], emitted[2], NextCommit)
<1>3. SetAccepted(l, ok) = l
  BY PrivateOperators
<1>4. Shape(o) /\ o.history = l.history
  BY PrivateObserve
<1>5. learn' = ApplyHistory(o, ok)
  BY <1>1, <1>3
<1>. HIDE DEF o
<1>6. learn'.history = learn.history
  BY <1>4, <1>5, PrivateHistory
<1>. QED
  BY <1>2, <1>6 DEF Private, LearnsNothing

\* ...nor any commit.
LEMMA PrivateCommitting ==
  ASSUME Inv, incognito, NEW ok \in BOOLEAN
  PROVE  /\ \A key : TypeAfterConversion(key, ok) => Private
         /\ \A key : TypeShiftAscii(key, ok) => Private
         /\ PunctuateComposition(ok) => Private
         /\ PunctuateConversion(ok) => Private
         /\ PunctuateLive(ok) => Private
         /\ Enter(ok) => Private
         /\ ImeOff(ok) => Private
         /\ \A rest, value : CommitSegment(rest, value) => Private
<1>. DEFINE old == ConfirmDirect(learn)
            l == OrdinaryCommit(old)
            n == OrdinaryCommit(learn)
            Same(m) == Shape(m) /\ m.history = learn.history
<1>0. Same(learn) /\ Same(old)
  BY ConfirmingLearnsNothing DEF Inv
<1>1. \A m, key, value, k : Same(m) => Same(Observe(m, key, value, k))
  BY PrivateObserve
<1>2. \A m : Same(m) => Same(OrdinaryCommit(m))
  BY <1>1, PrivateOperators DEF OrdinaryCommit
<1>3. \A m : Same(m) => Same(ConfirmFeedback(m, ok)) /\ LogConfirm(m, ok) = log
  BY ConfirmingLearnsNothing, PrivateOperators
<1>. HIDE DEF old
<1>4. Same(l) /\ Same(n)
  BY <1>0, <1>2
<1>. HIDE DEF l, n
<1>5. ASSUME NEW m, Same(m), learn' = m, log' = log
      PROVE  Private
  BY <1>5 DEF Private, LearnsNothing
<1>6. ASSUME NEW key, TypeAfterConversion(key, ok)
      PROVE  Private
  <2>1. learn' = ConfirmFeedback(l, ok) /\ log' = LogConfirm(l, ok)
    BY <1>6 DEF TypeAfterConversion, l, old
  <2>. QED
    BY <1>3, <1>4, <1>5, <2>1
<1>7. ASSUME NEW key, TypeShiftAscii(key, ok)
      PROVE  Private
  <2>1. CASE AcceptVisible(old, FALSE, ok)
    <3>1. PICK no : no = FALSE
      OBVIOUS
    <3>2. AcceptVisible(old, no, ok)
      BY <2>1, <3>1, Zenon
    <3>. QED
      BY <1>0, <3>2, PrivateAcceptance
  <2>2. CASE learn' = Observe(old, reading, shown, NextCommit) /\ log' = log
    BY <1>0, <1>1, <1>5, <2>2
  <2>. QED
    BY <1>7, <2>1, <2>2, Zenon DEF TypeShiftAscii, old
<1>8. ASSUME PunctuateComposition(ok)
      PROVE  Private
  <2>1. \/ /\ learn' = Observe(old, reading, shown, NextCommit)
           /\ log' = log
        \/ learn' = ConfirmFeedback(old, ok) /\ log' = LogConfirm(old, ok)
    BY <1>8 DEF PunctuateComposition, old
  <2>. QED
    BY <1>0, <1>1, <1>3, <1>5, <2>1
<1>9. ASSUME PunctuateConversion(ok)
      PROVE  Private
  <2>1. \/ learn' = [l EXCEPT !.direct = NextCommit] /\ log' = log
        \/ /\ learn' = [ConfirmFeedback(l, ok) EXCEPT !.direct = NextCommit]
           /\ log' = LogConfirm(l, ok)
    BY <1>9 DEF PunctuateConversion, l, old
  <2>2. \A m : Same(m) => Same([m EXCEPT !.direct = NextCommit])
    BY DEF Shape
  <2>. QED
    BY <1>3, <1>4, <1>5, <2>1, <2>2
<1>10. ASSUME PunctuateLive(ok)
       PROVE  Private
  <2>1. CASE AcceptVisible(old, TRUE, ok)
    <3>1. PICK yes : yes = TRUE
      OBVIOUS
    <3>2. AcceptVisible(old, yes, ok)
      BY <2>1, <3>1, Zenon
    <3>. QED
      BY <1>0, <3>2, PrivateAcceptance
  <2>2. CASE /\ learn' = Observe(old, Suffixed, Suffixed, NextCommit)
             /\ log' = log
    BY <1>0, <1>1, <1>5, <2>2
  <2>. QED
    BY <1>10, <2>1, <2>2, Zenon DEF PunctuateLive, old
<1>11. ASSUME Enter(ok)
       PROVE  Private
  <2>1. CASE AcceptVisible(learn, FALSE, ok)
    <3>1. PICK no : no = FALSE
      OBVIOUS
    <3>2. AcceptVisible(learn, no, ok)
      BY <2>1, <3>1, Zenon
    <3>. QED
      BY <1>0, <3>2, PrivateAcceptance
  <2>2. CASE learn' = n /\ log' = log
    BY <1>4, <1>5, <2>2
  <2>. QED
    BY <1>11, <2>1, <2>2, Zenon DEF Enter, n
<1>12. ASSUME ImeOff(ok)
       PROVE  Private
  <2>1. CASE ~Composing
    <3>1. learn' = ConfirmFeedback(old, ok) /\ log' = LogConfirm(old, ok)
      BY <1>12, <2>1 DEF ImeOff, old
    <3>. QED
      BY <1>0, <1>3, <1>5, <3>1
  <2>2. CASE Composing /\ visible = None
    <3>1. learn' = ConfirmFeedback(l, ok) /\ log' = LogConfirm(l, ok)
      BY <1>12, <2>2 DEF ImeOff, l, old
    <3>. QED
      BY <1>3, <1>4, <1>5, <3>1
  <2>3. CASE Composing /\ visible # None
    <3>. DEFINE o == Observe(old, reading, visible, NextCommit)
                a == ApplyHistory(o, ok)
    <3>1. SetAccepted(old, ok) = old /\ LogAccepted(ok) = log
      BY <1>0, PrivateOperators
    <3>2. learn' = ConfirmFeedback(a, ok) /\ log' = log
      BY <1>12, <2>3, <3>1 DEF ImeOff, old
    <3>3. Same(o)
      BY <1>0, <1>1
    <3>. HIDE DEF o
    <3>4. Same(a)
      BY <3>3, AppliedHistory, PrivateHistory
    <3>. HIDE DEF a
    <3>. QED
      BY <1>3, <1>5, <3>2, <3>4
  <2>. QED
    BY <2>1, <2>2, <2>3
<1>13. ASSUME NEW rest, NEW value, CommitSegment(rest, value)
       PROVE  Private
  <2>1. learn' = learn /\ log' = log
    BY <1>0, <1>13, PrivateOperators DEF CommitSegment
  <2>. QED
    BY <1>0, <1>5, <2>1
<1>. QED
  BY <1>6, <1>7, <1>8, <1>9, <1>10, <1>11, <1>12, <1>13

\* "Incognito prevents reading as well as writing persistent Zenz
\* observations" (session.cc:1175): whatever was pending when the field became
\* private, SetPendingZenzFeedbackAccepted(), ConfirmPendingZenzFeedback() and
\* DiscardPendingZenzFeedback() write nothing in it, and Mozc learns nothing.
THEOREM PrivateFields ==
  Spec => PrivateWritesNothing
<1>1. ASSUME Inv, [Next]_vars
      PROVE  [incognito /\ incognito' =>
                /\ log' = log
                /\ \A n \in CommitIds :
                     learn'.history[n] = "learned"
                       => learn.history[n] = "learned"]_vars
  <2>. SUFFICES ASSUME Next, incognito, incognito' PROVE Private
    BY <1>1 DEF Private, LearnsNothing
  <2>1. CASE Typing
    BY <1>1, <2>1, PrivateUndoing, PrivateConfirming, PrivateCommitting
       DEF Typing
  <2>2. ASSUME learn' = learn, log' = log
        PROVE  Private
    BY <2>2 DEF Private, LearnsNothing
  <2>3. CASE Converting
    <3>1. ASSUME NEW value \in Values, NEW flag \in BOOLEAN,
                 Convert(value, flag) \/ ForceZenz(value, flag)
          PROVE  Private
      <4>1. learn' = learn /\ log' = log
        BY <3>1 DEF Convert, ForceZenz
      <4>. QED
        BY <2>2, <4>1
    <3>2. PICK value \in Values, flag \in BOOLEAN :
            \/ Convert(value, flag) \/ ZenzAnswers(value, flag)
            \/ ForceZenz(value, flag) \/ ExplicitConversion(value)
            \/ SelectSuggestion(value)
      BY <2>3 DEF Converting
    <3>3. ZenzAnswers(value, flag) => Private
      BY <1>1, PrivateComparing, Zenon
    <3>4. ExplicitConversion(value) \/ SelectSuggestion(value) => Private
      BY <1>1, PrivateComparing, Zenon
    <3>. QED
      BY <3>1, <3>2, <3>3, <3>4, Zenon
  <2>4. CASE Committing
    BY <1>1, <2>4, PrivateCommitting DEF Committing
  <2>5. CASE Undoing
    BY <1>1, <2>5, PrivateUndoing, PrivateConfirming DEF Undoing
  <2>6. CASE Others
    <3>1. ASSUME ImeOn \/ ToggleIncognito
                 \/ \E key \in Readings, value \in Values :
                      Reconvert(key, value)
          PROVE  Private
      BY <2>2, <3>1 DEF ImeOn, ToggleIncognito, Reconvert
    <3>. QED
      BY <1>1, <2>6, <3>1, PrivateComparing DEF Others
  <2>. QED
    BY <2>1, <2>3, <2>4, <2>5, <2>6 DEF Next
<1>. QED
  BY <1>1, AlwaysSettled, PTL DEF Spec, PrivateWritesNothing
-----------------------------------------------------------------------------
(***************************************************************************)
(* What a rejection tells                                                  *)
(***************************************************************************)

\* The reasons of the comparisons that also compare the reading.
KeyReasons ==
  {"auto_block_shadow_compare", "cancel_visible_zenz_to_composition"}

\* What was observed is what was committed, except for a mark.
Told(f, C) ==
  f.action = "compare" =>
    /\ f.key # Suffixed
    /\ f.reason \in KeyReasons => f.needsKey
    /\ f.finalValue # None =>
         /\ f.commit \in DOMAIN C
         /\ C[f.commit].kind # "marked" => C[f.commit].value = f.finalValue
         /\ f.finalKey = C[f.commit].key \/ f.finalKey = Suffixed

\* The entry e tells the truth of the commits C.
Truthful(e, C) ==
  e[1].action = "rejected" =>
    /\ e[2] \in DOMAIN C
    /\ C[e[2]].kind # "marked" => C[e[2]].value # e[1].value
    /\ e[1].reason \in KeyReasons => C[e[2]].key = e[1].key

TruthfulLog(g, C) == \A i \in DOMAIN g : Truthful(g[i], C)

Texts(f, g, C) ==
  IsSeq(g) /\ IsSeq(C) /\ Told(f, C) /\ TruthfulLog(g, C)

\* A composition that comes back when it is undone has a reading, too.
PlainEntries(u) ==
  \E S : u \in Seq(S) /\ \A entry \in S : entry.key # Suffixed

PlainKeys == reading # Suffixed /\ PlainEntries(undos)

TextInv == Inv /\ Texts(learn.feedback, log, commits) /\ PlainKeys
-----------------------------------------------------------------------------
\* A commit that is made changes nothing of the earlier ones.
LEMMA TextsLater ==
  ASSUME NEW f, NEW g, NEW C, Texts(f, g, C), NEW e
  PROVE  Texts(f, g, Append(C, e))
<1>. DEFINE D == Append(C, e)
<1>1. IsSeq(D) /\ \A i \in DOMAIN C : i \in DOMAIN D /\ D[i] = C[i]
  BY Appended DEF Texts
<1>. HIDE DEF D
<1>2. Told(f, D)
  BY <1>1 DEF Texts, Told
<1>3. TruthfulLog(g, D)
  BY <1>1 DEF Texts, TruthfulLog, Truthful
<1>. QED
  BY <1>1, <1>2, <1>3 DEF Texts, D

\* One more entry that tells the truth.
LEMMA OneMoreTruth ==
  ASSUME NEW g, NEW C, IsSeq(g), TruthfulLog(g, C), NEW e, Truthful(e, C)
  PROVE  IsSeq(Append(g, e)) /\ TruthfulLog(Append(g, e), C)
<1>. DEFINE h == Append(g, e)
<1>1. /\ IsSeq(h) /\ Len(g) \in Nat /\ DOMAIN g = 1 .. Len(g)
      /\ DOMAIN h = 1 .. Len(g) + 1
      /\ h[Len(g) + 1] = e
      /\ \A i \in DOMAIN g : h[i] = g[i]
  BY Appended
<1>2. \A i \in DOMAIN h : i \in DOMAIN g \/ i = Len(g) + 1
  BY <1>1
<1>. HIDE DEF h
<1>3. TruthfulLog(h, C)
  BY <1>1, <1>2 DEF TruthfulLog
<1>. QED
  BY <1>1, <1>3 DEF h

\* Where nothing is pending nothing is told.
LEMMA NothingTold ==
  ASSUME NEW f, NEW g, NEW C, Texts(f, g, C)
  PROVE  Texts(NoFeedback, g, C)
BY DEF Texts, Told, NoFeedback

\* ConfirmPendingZenzFeedback() records a rejection of what was observed to
\* be another text.
LEMMA ConfirmedTexts ==
  ASSUME NEW l, Shape(l), NEW C, Texts(l.feedback, log, C), NEW ok
  PROVE  /\ Shape(ConfirmFeedback(l, ok))
         /\ Texts(ConfirmFeedback(l, ok).feedback, LogConfirm(l, ok), C)
<1>1. /\ Shape(ConfirmFeedback(l, ok))
      /\ ConfirmFeedback(l, ok).feedback = NoFeedback
  BY DEF ConfirmFeedback, Released, Shape
<1>. DEFINE f == l.feedback
            e == <<ComparisonRecord(f), f.commit>>
<1>2. CASE WritesComparison(f) /\ ok
  <2>1. LogConfirm(l, ok) = Append(log, e)
    BY <1>2 DEF LogConfirm
  <2>2. /\ f.action = "compare" /\ f.finalValue # None
        /\ f.needsKey => f.finalKey = f.key
    BY <1>2 DEF WritesComparison, Neutral
  <2>3. Told(f, C)
    BY DEF Texts
  <2>4. e[2] = f.commit
    OBVIOUS
  <2>5. e[1].action = "rejected" =>
          /\ f.finalValue # f.value /\ e[1].value = f.value
          /\ e[1].reason = f.reason /\ e[1].key = f.key
    BY DEF ComparisonRecord, Record
  <2>. HIDE DEF e
  <2>6. Truthful(e, C)
    BY <2>2, <2>3, <2>4, <2>5 DEF Truthful, Told
  <2>7. Texts(f, Append(log, e), C)
    BY <2>6, OneMoreTruth DEF Texts
  <2>. QED
    BY <1>1, <2>1, <2>7, NothingTold
<1>3. CASE ~ (WritesComparison(f) /\ ok)
  <2>1. LogConfirm(l, ok) = log
    BY <1>3 DEF LogConfirm
  <2>. QED
    BY <1>1, <2>1, NothingTold
<1>. QED
  BY <1>2, <1>3

\* DiscardPendingZenzFeedback() records no rejection.
LEMMA DiscardedTexts ==
  ASSUME NEW l, Shape(l), NEW C, Texts(l.feedback, log, C), NEW ok
  PROVE  /\ Shape(DiscardBoth(l, ok))
         /\ Texts(DiscardBoth(l, ok).feedback, LogDiscard(l, ok), C)
<1>. DEFINE d == DiscardDirect(l)
            f == l.feedback
            e == <<RollbackRecord(f), f.commit>>
<1>1. Shape(d)
  BY DiscardedDirect
<1>2. DiscardBoth(l, ok) = DiscardFeedback(d, ok)
  BY DEF DiscardBoth
<1>. HIDE DEF d
<1>3. /\ Shape(DiscardFeedback(d, ok))
      /\ DiscardFeedback(d, ok).feedback = NoFeedback
  BY <1>1 DEF DiscardFeedback, Released, Shape
<1>4. Truthful(e, C)
  BY DEF Truthful, RollbackRecord, Record
<1>. HIDE DEF e
<1>5. Texts(f, Append(log, e), C)
  BY <1>4, OneMoreTruth DEF Texts
<1>6. LogDiscard(l, ok) = Append(log, e) \/ LogDiscard(l, ok) = log
  BY DEF LogDiscard, e
<1>. QED
  BY <1>2, <1>3, <1>5, <1>6, NothingTold

\* SetPendingZenzFeedbackComparison() says when the reading matters.
LEMMA ComparedTexts ==
  ASSUME NEW l, Shape(l), NEW g, NEW C, Texts(l.feedback, g, C),
         reading # Suffixed, NEW value, NEW reason, NEW needsKey,
         reason \in KeyReasons => needsKey
  PROVE  LET m == SetComparison(l, value, reason, needsKey)
         IN  Shape(m) /\ Texts(m.feedback, g, C)
<1>. DEFINE m == SetComparison(l, value, reason, needsKey)
<1>1. CASE ~ CanRecordZenzFeedback
  BY <1>1 DEF SetComparison
<1>2. CASE CanRecordZenzFeedback
  <2>1. /\ Shape(m)
        /\ m.feedback.action = "compare" /\ m.feedback.finalValue = None
        /\ m.feedback.key = reading /\ m.feedback.reason = reason
        /\ m.feedback.needsKey = needsKey
    BY <1>2 DEF SetComparison, Shape, NoFeedback
  <2>. HIDE DEF m
  <2>2. Told(m.feedback, C)
    BY <2>1 DEF Told
  <2>. QED
    BY <2>1, <2>2 DEF Texts, m
<1>. QED
  BY <1>1, <1>2

\* ...or with the correction that was on the screen.
LEMMA RejectionTexts ==
  ASSUME NEW l, Shape(l), NEW g, NEW C, Texts(l.feedback, g, C),
         reading # Suffixed, NEW reason, reason \notin KeyReasons
  PROVE  LET m == SetRejected(l, reason)
         IN  Shape(m) /\ Texts(m.feedback, g, C)
<1>1. CASE visible = None
  BY <1>1 DEF SetRejected
<1>2. CASE visible # None
  <2>1. PICK no : no = FALSE
    OBVIOUS
  <2>2. SetRejected(l, reason) = SetComparison(l, visible, reason, no)
    BY <1>2, <2>1, Zenon DEF SetRejected
  <2>. QED
    BY <2>2, ComparedTexts
<1>. QED
  BY <1>1, <1>2

\* The commit e is what an output of key and value puts into the text.
Emits(e, key, value) ==
  /\ e.kind # "marked" => e.value = value
  /\ key = e.key \/ key = Suffixed

\* The comparison sees the commit that is being made.
LEMMA ObservedTexts ==
  ASSUME NEW l, Shape(l), NEW g, NEW C, Texts(l.feedback, g, C),
         NEW key, NEW value, NEW e, Emits(e, key, value)
  PROVE  LET m == Observe(l, key, value, Len(C) + 1)
         IN  Shape(m) /\ Texts(m.feedback, g, Append(C, e))
<1>. DEFINE m == Observe(l, key, value, Len(C) + 1)
            D == Append(C, e)
<1>1. Texts(l.feedback, g, D)
  BY TextsLater
<1>2. Len(C) + 1 \in DOMAIN D /\ D[Len(C) + 1] = e
  BY Appended DEF Texts
<1>. HIDE DEF D
<1>3. CASE m = l
  BY <1>1, <1>3 DEF D
<1>4. CASE /\ l.feedback.action = "compare"
           /\ m = [l EXCEPT !.feedback.finalKey = key,
                            !.feedback.finalValue = value,
                            !.feedback.commit = Len(C) + 1]
  <2>. DEFINE p == [l EXCEPT !.feedback.finalKey = key]
              q == [p EXCEPT !.feedback.finalValue = value]
              Same(f) == /\ f.action = "compare" /\ f.finalKey = key
                         /\ f.key = l.feedback.key
                         /\ f.reason = l.feedback.reason
                         /\ f.needsKey = l.feedback.needsKey
  <2>1. Shape(p) /\ Same(p.feedback)
    BY <1>4 DEF Shape, NoFeedback
  <2>. HIDE DEF p
  <2>2. Shape(q) /\ Same(q.feedback) /\ q.feedback.finalValue = value
    BY <2>1 DEF Shape, NoFeedback
  <2>. HIDE DEF q
  <2>3. m = [q EXCEPT !.feedback.commit = Len(C) + 1]
    BY <1>4 DEF p, q
  <2>. HIDE DEF m
  <2>4. /\ Shape(m) /\ Same(m.feedback) /\ m.feedback.finalValue = value
        /\ m.feedback.commit = Len(C) + 1
    BY <2>2, <2>3 DEF Shape, NoFeedback
  <2>5. Told(m.feedback, D)
    BY <1>1, <1>2, <1>4, <2>4 DEF Told, Texts, Emits
  <2>. QED
    BY <1>1, <2>4, <2>5 DEF Texts, D, m
<1>. QED
  BY <1>3, <1>4 DEF Observe

\* An observed commit is the one that is made.
LEMMA ObservedCommit ==
  ASSUME NEW l, Shape(l), Texts(l.feedback, log, commits),
         NEW key, NEW value, NEW e, Emits(e, key, value)
  PROVE  LET m == Observe(l, key, value, NextCommit)
         IN  Shape(m) /\ Texts(m.feedback, log, Append(commits, e))
BY ObservedTexts DEF NextCommit

\* What is accepted at the commit is no comparison any more.
LEMMA AcceptedTexts ==
  ASSUME NEW l, Shape(l), Texts(l.feedback, log, commits), NEW ok,
         NEW key, NEW value, NEW e, Emits(e, key, value)
  PROVE  LET m == ApplyHistory(Observe(SetAccepted(l, ok), key, value,
                                       NextCommit), ok)
         IN  Shape(m) /\ Texts(m.feedback, LogAccepted(ok), Append(commits, e))
<1>. DEFINE a == SetAccepted(l, ok)
            o == Observe(a, key, value, NextCommit)
            m == ApplyHistory(o, ok)
            D == Append(commits, e)
            r == <<Record("accepted", reading, Class, visible, ""),
                   NextCommit>>
<1>1. Texts(l.feedback, log, D)
  BY TextsLater
<1>2. Truthful(r, D)
  BY DEF Truthful, Record
<1>3. LogAccepted(ok) = Append(log, r) \/ LogAccepted(ok) = log
  BY DEF LogAccepted
<1>. HIDE DEF r
<1>4. Texts(l.feedback, LogAccepted(ok), D)
  BY <1>1, <1>2, <1>3, OneMoreTruth DEF Texts
<1>5. CASE ~ CanRecordZenzFeedback /\ ~ CanLearnZenzToMozcHistory
  <2>1. a = l /\ LogAccepted(ok) = log
    BY <1>5 DEF SetAccepted, LogAccepted
  <2>2. Shape(o) /\ Texts(o.feedback, log, D)
    BY <2>1, ObservedCommit
  <2>3. m = [o EXCEPT !.feedback.applied = TRUE] \/ m = o
    BY <1>5 DEF ApplyHistory
  <2>4. Shape(m) /\ SameDecision(o.feedback, m.feedback)
    BY <2>2, AppliedHistory
  <2>. HIDE DEF o
  <2>5. m = o \/ o.feedback.action = "accepted"
    BY DEF ApplyHistory
  <2>. HIDE DEF m
  <2>6. CASE o.feedback.action = "accepted"
    <3>1. Told(m.feedback, D)
      BY <2>4, <2>6 DEF Told, SameDecision
    <3>. QED
      BY <2>1, <2>2, <2>4, <3>1 DEF Texts, m, o
  <2>. QED
    BY <2>1, <2>2, <2>5, <2>6 DEF m, o
<1>6. CASE CanRecordZenzFeedback \/ CanLearnZenzToMozcHistory
  <2>1. Shape(a) /\ a.feedback.action = "accepted"
    BY <1>6 DEF SetAccepted, Shape, NoFeedback
  <2>2. o = a
    BY <2>1 DEF Observe
  <2>3. Shape(m) /\ m.feedback.action = "accepted"
    BY <2>1, <2>2, AppliedHistory DEF SameDecision
  <2>4. Told(m.feedback, D)
    BY <2>3 DEF Told
  <2>. HIDE DEF m, D
  <2>. QED
    BY <1>4, <2>3, <2>4 DEF Texts, m, D
<1>. QED
  BY <1>5, <1>6
-----------------------------------------------------------------------------
\* What is pending and logged agrees with the commits at first.
LEMMA InitTexts ==
  Init => TextInv
<1>. SUFFICES ASSUME Init PROVE TextInv
  OBVIOUS
<1>1. /\ learn.feedback = NoFeedback /\ log = <<>> /\ commits = <<>>
      /\ undos = <<>> /\ reading = None
  BY DEF Init
<1>2. IsSeq(log) /\ IsSeq(commits)
  BY <1>1 DEF IsSeq
<1>3. Told(NoFeedback, commits)
  BY DEF Told, NoFeedback
<1>4. TruthfulLog(log, commits)
  BY <1>1 DEF TruthfulLog
<1>5. PlainEntries(undos)
  <2>1. <<>> \in Seq({}) /\ \A entry \in {} : entry.key # Suffixed
    OBVIOUS
  <2>. QED
    BY <1>1, <2>1 DEF PlainEntries
<1>. QED
  BY <1>1, <1>2, <1>3, <1>4, <1>5, InitInv, FeedbackAssumption
     DEF TextInv, Texts, PlainKeys

\* The compositions that can come back: one more, or one less.
LEMMA EntryPushed ==
  ASSUME NEW u, PlainEntries(u), NEW entry, entry.key # Suffixed
  PROVE  PlainEntries(Append(u, entry)) /\ PlainEntries(<<entry>>)
         /\ PlainEntries(<<>>)
<1>1. PICK S : u \in Seq(S) /\ \A x \in S : x.key # Suffixed
  BY DEF PlainEntries
<1>. DEFINE T == S \cup {entry}
<1>2. u \in Seq(T) /\ entry \in T /\ \A x \in T : x.key # Suffixed
  BY <1>1
<1>. HIDE DEF T
<1>3. Append(u, entry) \in Seq(T) /\ <<entry>> \in Seq(T) /\ <<>> \in Seq(T)
  BY <1>2
<1>. QED
  BY <1>2, <1>3 DEF PlainEntries

\* ...and one of them may be taken back.
LEMMA EntryPopped ==
  ASSUME NEW u, PlainEntries(u), u # <<>>
  PROVE  PlainEntries(Front(u)) /\ Last(u).key # Suffixed
<1>1. PICK S : u \in Seq(S) /\ \A x \in S : x.key # Suffixed
  BY DEF PlainEntries
<1>2. Len(u) \in Nat /\ Len(u) \in DOMAIN u /\ Last(u) = u[Len(u)]
  BY <1>1 DEF Last
<1>3. Front(u) \in Seq(S) /\ Last(u) \in S
  BY <1>1, <1>2 DEF Front
<1>. QED
  BY <1>1, <1>3 DEF PlainEntries

\* What is composed afterwards is a reading, or nothing.
LEMMA KeysKept ==
  ASSUME PlainKeys, reading' \in {reading, None} \cup Readings,
         undos' \in {undos, <<>>, Append(undos, UndoEntry), <<UndoEntry>>}
  PROVE  PlainKeys'
<1>1. reading' # Suffixed
  BY FeedbackAssumption DEF PlainKeys
<1>2. UndoEntry.key # Suffixed
  BY DEF UndoEntry, PlainKeys
<1>3. /\ PlainEntries(Append(undos, UndoEntry)) /\ PlainEntries(<<UndoEntry>>)
      /\ PlainEntries(<<>>) /\ PlainEntries(undos)
  BY <1>2, EntryPushed DEF PlainKeys
<1>4. PlainEntries(undos')
  BY <1>3
<1>. QED
  BY <1>1, <1>4 DEF PlainKeys, PlainEntries

\* No step composes a mark.
LEMMA KeysNext ==
  ASSUME PlainKeys, [Next]_vars
  PROVE  PlainKeys'
<1>. DEFINE Keeps == /\ reading' \in {reading, None} \cup Readings
                     /\ undos' \in {undos, <<>>, Append(undos, UndoEntry),
                                    <<UndoEntry>>}
<1>1. CASE UNCHANGED vars
  BY <1>1, KeysKept DEF vars
<1>2. CASE Typing
  <2>1. PICK ok \in BOOLEAN, key \in Readings \cup {None} :
          \/ TypeCharacter(key, ok) /\ key \in Readings
          \/ TypeAfterConversion(key, ok) /\ key \in Readings
          \/ TypeShiftAscii(key, ok) /\ key \in Readings
          \/ EraseCharacter(key, ok)
    BY <1>2 DEF Typing
  <2>2. Keeps
    BY <2>1 DEF TypeCharacter, TypeAfterConversion, TypeShiftAscii,
                EraseCharacter, Compose, LeaveComposition, LeaveFor
  <2>. QED
    BY <2>2, KeysKept
<1>3. CASE Converting
  <2>1. Keeps
    BY <1>3 DEF Converting, Convert, ZenzAnswers, ForceZenz,
       ExplicitConversion, SelectSuggestion, Converted
  <2>. QED
    BY <2>1, KeysKept
<1>4. CASE Committing
  <2>1. ASSUME NEW ok \in BOOLEAN, Enter(ok)
        PROVE  Keeps
    BY <2>1 DEF Enter, PushUndo, LeaveComposition, LeaveFor
  <2>2. ASSUME NEW ok \in BOOLEAN, ImeOff(ok)
        PROVE  Keeps
    BY <2>2 DEF ImeOff, LeaveFor
  <2>3. ASSUME NEW ok \in BOOLEAN,
               \/ PunctuateComposition(ok) \/ PunctuateConversion(ok)
               \/ PunctuateLive(ok)
        PROVE  Keeps
    BY <2>3 DEF PunctuateComposition, PunctuateConversion, PunctuateLive,
       LeaveComposition, LeaveFor
  <2>4. ASSUME NEW rest \in Readings, NEW value, CommitSegment(rest, value)
        PROVE  Keeps
    BY <2>4 DEF CommitSegment, PushUndo, Converted
  <2>. QED
    BY <1>4, <2>1, <2>2, <2>3, <2>4, KeysKept DEF Committing
<1>5. CASE Undoing
  <2>1. PICK ok \in BOOLEAN :
          \/ CancelConversion(ok) \/ CancelComposition(ok) \/ RollbackKey(ok)
          \/ CancelKey(ok) \/ Undo(ok) \/ PassKey(ok) \/ ResetContext(ok)
    BY <1>5 DEF Undoing
  <2>2. CASE Undo(ok) /\ undos # <<>>
    <3>1. reading' = Last(undos).key /\ undos' = Front(undos)
      BY <2>2 DEF Undo
    <3>. QED
      BY <2>2, <3>1, EntryPopped DEF PlainKeys, PlainEntries
  <2>3. CASE ~ (Undo(ok) /\ undos # <<>>)
    <3>1. Keeps
      BY <2>1, <2>3 DEF CancelConversion, CancelComposition, RollbackKey,
         CancelKey, Undo, PassKey, ResetContext, Compose, LeaveComposition,
         LeaveFor, SameComposition
    <3>. QED
      BY <3>1, KeysKept
  <2>. QED
    BY <2>2, <2>3
<1>6. CASE Others
  <2>1. Keeps
    BY <1>6 DEF Others, SpaceRevertsZenz, ImeOn, ToggleIncognito, Reconvert,
       SameComposition, LeaveComposition, LeaveFor, Converted
  <2>. QED
    BY <2>1, KeysKept
<1>. QED
  BY <1>1, <1>2, <1>3, <1>4, <1>5, <1>6 DEF Next
-----------------------------------------------------------------------------
TextsNow == Texts(learn.feedback, log, commits)

\* A step after which l is pending, without a commit.
LEMMA TextsSettled ==
  ASSUME UNCHANGED commits, NEW l, Texts(l.feedback, log', commits), learn' = l
  PROVE  TextsNow'
BY DEF TextsNow, Texts, Told, TruthfulLog, Truthful

CommitOf(value, kind) == [key |-> reading, value |-> value, kind |-> kind]

\* A step after which l is pending, with a commit.
LEMMA TextsCommitted ==
  ASSUME NEW value, NEW kind, Committed(value, kind), NEW l,
         Texts(l.feedback, log', Append(commits, CommitOf(value, kind))),
         learn' = l
  PROVE  TextsNow'
<1>1. commits' = Append(commits, CommitOf(value, kind))
  BY DEF Committed, CommitOf
<1>. QED
  BY <1>1 DEF TextsNow, Texts, Told, TruthfulLog, Truthful

\* What is committed without a mark is emitted as it is.
LEMMA CommitEmits ==
  ASSUME NEW value, NEW kind
  PROVE  /\ Emits(CommitOf(value, kind), reading, value)
         /\ Emits(CommitOf(value, "marked"), Suffixed, Suffixed)
BY DEF Emits, CommitOf

\* An accepted correction is told truthfully.
LEMMA VisibleTexts ==
  ASSUME Inv, TextsNow, NEW l, Shape(l), l.feedback = learn.feedback,
         NEW suffix, NEW ok, AcceptVisible(l, suffix, ok)
  PROVE  TextsNow'
<1>1. Texts(l.feedback, log, commits)
  BY DEF TextsNow
<1>2. log' = LogAccepted(ok)
  BY DEF AcceptVisible
<1>3. PICK key, value, kind :
        /\ learn' = ApplyHistory(Observe(SetAccepted(l, ok), key, value,
                                         NextCommit), ok)
        /\ Committed(visible, kind)
        /\ Emits(CommitOf(visible, kind), key, value)
  <2>1. CASE suffix
    <3>1. /\ learn' = ApplyHistory(Observe(SetAccepted(l, ok), Suffixed,
                                           Suffixed, NextCommit), ok)
          /\ Committed(visible, "marked")
      BY <2>1 DEF AcceptVisible
    <3>. QED
      BY <3>1, CommitEmits
  <2>2. CASE ~suffix
    <3>1. /\ learn' = ApplyHistory(Observe(SetAccepted(l, ok), reading,
                                           visible, NextCommit), ok)
          /\ Committed(visible, "zenz")
      BY <2>2 DEF AcceptVisible
    <3>. QED
      BY <3>1, CommitEmits
  <2>. QED
    BY <2>1, <2>2
<1>. QED
  BY <1>1, <1>2, <1>3, AcceptedTexts, TextsCommitted

\* Keys that take back what is pending.
LEMMA UndoingTexts ==
  ASSUME Inv, TextsNow, reading # Suffixed, NEW ok \in BOOLEAN
  PROVE  /\ CancelConversion(ok) => TextsNow'
         /\ CancelComposition(ok) => TextsNow'
         /\ RollbackKey(ok) => TextsNow'
         /\ CancelKey(ok) => TextsNow'
         /\ Undo(ok) => TextsNow'
         /\ \A key : EraseCharacter(key, ok) => TextsNow'
<1>. DEFINE d == DiscardBoth(learn, ok)
<1>1. Shape(d) /\ Texts(d.feedback, LogDiscard(learn, ok), commits)
  BY DiscardedTexts DEF Inv, TextsNow
<1>. HIDE DEF d
<1>2. ASSUME NEW l, l.feedback = d.feedback, learn' = l,
             log' = LogDiscard(learn, ok), UNCHANGED commits
      PROVE  TextsNow'
  BY <1>1, <1>2, TextsSettled
<1>3. ASSUME CancelConversion(ok)
      PROVE  TextsNow'
  <2>1. log' = LogDiscard(learn, ok) /\ UNCHANGED commits
    BY <1>3 DEF CancelConversion
  <2>2. CASE visible = None
    <3>1. learn' = d
      BY <1>3, <2>2, Zenon DEF CancelConversion, d
    <3>. QED
      BY <1>2, <2>1, <3>1
  <2>3. CASE visible # None
    <3>1. PICK yes : yes = TRUE
      OBVIOUS
    <3>2. learn' = SetComparison(d, visible,
                     "cancel_visible_zenz_to_composition", yes)
      BY <1>3, <2>3, <3>1, Zenon DEF CancelConversion, d
    <3>. QED
      BY <1>1, <2>1, <3>1, <3>2, ComparedTexts, TextsSettled
  <2>. QED
    BY <2>2, <2>3
<1>4. ASSUME CancelComposition(ok)
      PROVE  TextsNow'
  BY <1>2, <1>4 DEF CancelComposition, d
<1>5. ASSUME RollbackKey(ok)
      PROVE  TextsNow'
  BY <1>2, <1>5 DEF RollbackKey, d
<1>6. Shape(UndoneLearning(d)) /\ UndoneLearning(d).feedback = d.feedback
  BY <1>1, RevertedCommit DEF UndoneLearning
<1>7. ASSUME CancelKey(ok)
      PROVE  TextsNow'
  BY <1>2, <1>6, <1>7 DEF CancelKey, d
<1>8. ASSUME Undo(ok)
      PROVE  TextsNow'
  <2>1. log' = LogDiscard(learn, ok) /\ UNCHANGED commits
    BY <1>8 DEF Undo
  <2>2. learn' = d \/ learn' = [UndoneLearning(d) EXCEPT !.slot = 0]
    BY <1>8 DEF Undo, d
  <2>3. [UndoneLearning(d) EXCEPT !.slot = 0].feedback = d.feedback
    BY <1>6 DEF Shape
  <2>. QED
    BY <1>2, <2>1, <2>2, <2>3
<1>9. ASSUME NEW key, EraseCharacter(key, ok)
      PROVE  TextsNow'
  BY <1>2, <1>9 DEF EraseCharacter, d
<1>. QED
  BY <1>3, <1>4, <1>5, <1>7, <1>8, <1>9

\* Keys that confirm what is pending.
LEMMA ConfirmingTexts ==
  ASSUME Inv, TextsNow, NEW ok \in BOOLEAN
  PROVE  /\ \A key : TypeCharacter(key, ok) => TextsNow'
         /\ PassKey(ok) => TextsNow'
         /\ ResetContext(ok) => TextsNow'
<1>. DEFINE old == ConfirmDirect(learn)
<1>1. Shape(learn) /\ Texts(learn.feedback, log, commits)
  BY DEF Inv, TextsNow
<1>2. /\ Shape(old) /\ old.feedback = learn.feedback
      /\ LogConfirm(old, ok) = LogConfirm(learn, ok)
  BY <1>1, ConfirmedDirect DEF LogConfirm
<1>3. ConfirmBoth(learn, ok) = ConfirmFeedback(old, ok)
  BY DEF ConfirmBoth
<1>4. ASSUME NEW m, Shape(m), m.feedback = learn.feedback,
             learn' = ConfirmFeedback(m, ok), log' = LogConfirm(m, ok),
             UNCHANGED commits
      PROVE  TextsNow'
  BY <1>1, <1>4, ConfirmedTexts, TextsSettled
<1>. HIDE DEF old
<1>5. ASSUME NEW key, TypeCharacter(key, ok)
      PROVE  TextsNow'
  <2>1. CASE learn' = old /\ log' = log /\ UNCHANGED commits
    BY <1>1, <1>2, <2>1, TextsSettled
  <2>2. CASE /\ learn' = ConfirmBoth(learn, ok)
             /\ log' = LogConfirm(learn, ok) /\ UNCHANGED commits
    BY <1>2, <1>3, <1>4, <2>2
  <2>. QED
    BY <1>5, <2>1, <2>2 DEF TypeCharacter, old
<1>6. ASSUME PassKey(ok)
      PROVE  TextsNow'
  BY <1>1, <1>4, <1>6 DEF PassKey
<1>7. ASSUME ResetContext(ok)
      PROVE  TextsNow'
  BY <1>2, <1>3, <1>4, <1>7 DEF ResetContext
<1>. QED
  BY <1>5, <1>6, <1>7

\* A correction the user moves away from.
LEMMA ComparingTexts ==
  ASSUME Inv, TextsNow, reading # Suffixed
  PROVE  /\ \A value, blocked : ZenzAnswers(value, blocked) => TextsNow'
         /\ \A value : ExplicitConversion(value) => TextsNow'
         /\ \A value : SelectSuggestion(value) => TextsNow'
         /\ SpaceRevertsZenz => TextsNow'
<1>1. Shape(learn) /\ Texts(learn.feedback, log, commits)
  BY DEF Inv, TextsNow
<1>2. ASSUME NEW reason, reason \notin KeyReasons
      PROVE  LET m == SetRejected(learn, reason)
             IN  Shape(m) /\ Texts(m.feedback, log, commits)
  BY <1>1, <1>2, RejectionTexts
<1>3. ASSUME NEW value, NEW blocked, ZenzAnswers(value, blocked)
      PROVE  TextsNow'
  <2>1. log' = log /\ UNCHANGED commits
    BY <1>3 DEF ZenzAnswers
  <2>2. PICK yes : yes = TRUE
    OBVIOUS
  <2>3. \/ learn' = learn
        \/ learn' = SetComparison(learn, value, "auto_block_shadow_compare",
                                  yes)
    BY <1>3, <2>2, Zenon DEF ZenzAnswers
  <2>4. CASE learn' = learn
    BY <1>1, <2>1, <2>4, TextsSettled
  <2>5. ASSUME NEW l, learn' = l,
               l = SetComparison(learn, value, "auto_block_shadow_compare",
                                 yes)
        PROVE  TextsNow'
    <3>1. Texts(l.feedback, log, commits)
      BY <1>1, <2>2, <2>5, ComparedTexts
    <3>. QED
      BY <2>1, <2>5, <3>1, TextsSettled
  <2>. QED
    BY <2>3, <2>4, <2>5
<1>4. ASSUME NEW value, ExplicitConversion(value)
      PROVE  TextsNow'
  <2>1. log' = log /\ UNCHANGED commits
    BY <1>4 DEF ExplicitConversion
  <2>2. \/ learn' = learn
        \/ learn' = SetRejected(learn, "explicit_conversion_after_zenz")
    BY <1>4 DEF ExplicitConversion
  <2>3. "explicit_conversion_after_zenz" \notin KeyReasons
    BY DEF KeyReasons
  <2>. QED
    BY <1>1, <1>2, <2>1, <2>2, <2>3, TextsSettled
<1>5. ASSUME NEW value, SelectSuggestion(value)
      PROVE  TextsNow'
  <2>. DEFINE r == SetRejected(learn, "candidate_selection_after_zenz")
              l == [r EXCEPT !.slot = 0]
  <2>1. log' = log /\ UNCHANGED commits /\ learn' = l
    BY <1>5 DEF SelectSuggestion
  <2>2. "candidate_selection_after_zenz" \notin KeyReasons
    BY DEF KeyReasons
  <2>3. Shape(r) /\ Texts(r.feedback, log, commits)
    BY <1>2, <2>2
  <2>. HIDE DEF r
  <2>4. l.feedback = r.feedback
    BY <2>3 DEF Shape
  <2>. QED
    BY <2>1, <2>3, <2>4, TextsSettled
<1>6. ASSUME SpaceRevertsZenz
      PROVE  TextsNow'
  <2>1. /\ log' = log /\ UNCHANGED commits
        /\ learn' = SetRejected(learn, "space_revert_zenz_to_mozc")
    BY <1>6 DEF SpaceRevertsZenz
  <2>2. "space_revert_zenz_to_mozc" \notin KeyReasons
    BY DEF KeyReasons
  <2>. QED
    BY <1>2, <2>1, <2>2, TextsSettled
<1>. QED
  BY <1>3, <1>4, <1>5, <1>6

\* Keys that commit: what a comparison observes is what is committed.
LEMMA CommittingTexts ==
  ASSUME Inv, TextsNow, NEW ok \in BOOLEAN
  PROVE  /\ \A key : TypeAfterConversion(key, ok) => TextsNow'
         /\ \A key : TypeShiftAscii(key, ok) => TextsNow'
         /\ PunctuateComposition(ok) => TextsNow'
         /\ PunctuateConversion(ok) => TextsNow'
         /\ PunctuateLive(ok) => TextsNow'
         /\ Enter(ok) => TextsNow'
         /\ ImeOff(ok) => TextsNow'
         /\ \A rest, value : CommitSegment(rest, value) => TextsNow'
<1>. DEFINE old == ConfirmDirect(learn)
            l == OrdinaryCommit(old)
            n == OrdinaryCommit(learn)
            With(value, kind) == Append(commits, CommitOf(value, kind))
            Fits(m, g, value, kind) ==
              Shape(m) /\ Texts(m.feedback, g, With(value, kind))
<1>0. Shape(learn) /\ Texts(learn.feedback, log, commits)
  BY DEF Inv, TextsNow
<1>1. Shape(old) /\ old.feedback = learn.feedback
  BY <1>0, ConfirmedDirect
<1>. HIDE DEF old
<1>2. \A kind : /\ Fits(learn, log, shown, kind)
                /\ Fits(old, log, shown, kind)
  BY <1>0, <1>1, TextsLater
<1>3. \A kind :
        LET o == Observe(old, reading, shown, NextCommit)
        IN  Fits(o, log, shown, kind)
  BY <1>0, <1>1, CommitEmits, ObservedCommit
<1>4. ASSUME NEW m, Shape(m), m.feedback = learn.feedback, NEW kind
      PROVE  Fits(OrdinaryCommit(m), log, shown, kind)
  <2>1. /\ Shape(LearnCommit(m, NextCommit))
        /\ LearnCommit(m, NextCommit).feedback = learn.feedback
    BY <1>4, LearnedCommit
  <2>. QED
    BY <1>0, <2>1, CommitEmits, ObservedCommit DEF OrdinaryCommit
<1>5. \A kind : Fits(l, log, shown, kind) /\ Fits(n, log, shown, kind)
  BY <1>0, <1>1, <1>4
<1>. HIDE DEF l, n
<1>6. ASSUME NEW m, NEW kind, Fits(m, log, shown, kind)
      PROVE  Fits(ConfirmFeedback(m, ok), LogConfirm(m, ok), shown, kind)
  BY <1>6, ConfirmedTexts
<1>7. ASSUME NEW m, NEW value, NEW kind, Fits(m, log', value, kind),
             learn' = m, Committed(value, kind)
      PROVE  TextsNow'
  BY <1>7, TextsCommitted
<1>. HIDE DEF Fits
<1>8. ASSUME NEW key, TypeAfterConversion(key, ok)
      PROVE  TextsNow'
  <2>1. /\ learn' = ConfirmFeedback(l, ok) /\ log' = LogConfirm(l, ok)
        /\ Committed(shown, "normal")
    BY <1>8 DEF TypeAfterConversion, l, old
  <2>. QED
    BY <1>5, <1>6, <1>7, <2>1
<1>9. ASSUME NEW key, TypeShiftAscii(key, ok)
      PROVE  TextsNow'
  <2>1. CASE AcceptVisible(old, FALSE, ok)
    <3>1. PICK no : no = FALSE
      OBVIOUS
    <3>2. AcceptVisible(old, no, ok)
      BY <2>1, <3>1, Zenon
    <3>. QED
      BY <1>1, <3>2, VisibleTexts
  <2>2. CASE /\ learn' = Observe(old, reading, shown, NextCommit)
             /\ Committed(shown, "direct") /\ log' = log
    BY <1>3, <1>7, <2>2
  <2>. QED
    BY <1>9, <2>1, <2>2, Zenon DEF TypeShiftAscii, old
<1>10. ASSUME PunctuateComposition(ok)
       PROVE  TextsNow'
  <2>1. Committed(shown, "direct")
    BY <1>10 DEF PunctuateComposition
  <2>2. CASE /\ learn' = Observe(old, reading, shown, NextCommit)
             /\ log' = log
    BY <1>3, <1>7, <2>1, <2>2
  <2>3. CASE /\ learn' = ConfirmFeedback(old, ok)
             /\ log' = LogConfirm(old, ok)
    BY <1>2, <1>6, <1>7, <2>1, <2>3
  <2>. QED
    BY <1>10, <2>2, <2>3 DEF PunctuateComposition, old
<1>11. ASSUME PunctuateConversion(ok)
       PROVE  TextsNow'
  <2>1. Committed(shown, "normal")
    BY <1>11 DEF PunctuateConversion
  <2>2. \/ learn' = [l EXCEPT !.direct = NextCommit] /\ log' = log
        \/ /\ learn' = [ConfirmFeedback(l, ok) EXCEPT !.direct = NextCommit]
           /\ log' = LogConfirm(l, ok)
    BY <1>11 DEF PunctuateConversion, l, old
  <2>3. ASSUME NEW m, NEW g, Fits(m, g, shown, "normal")
        PROVE  Fits([m EXCEPT !.direct = NextCommit], g, shown, "normal")
    BY <2>3 DEF Shape, Fits
  <2>4. Fits(l, log, shown, "normal")
        /\ Fits(ConfirmFeedback(l, ok), LogConfirm(l, ok), shown, "normal")
    BY <1>5, <1>6
  <2>. QED
    BY <1>7, <2>1, <2>2, <2>3, <2>4
<1>12. ASSUME PunctuateLive(ok)
       PROVE  TextsNow'
  <2>1. CASE AcceptVisible(old, TRUE, ok)
    <3>1. PICK yes : yes = TRUE
      OBVIOUS
    <3>2. AcceptVisible(old, yes, ok)
      BY <2>1, <3>1, Zenon
    <3>. QED
      BY <1>1, <3>2, VisibleTexts
  <2>2. CASE /\ learn' = Observe(old, Suffixed, Suffixed, NextCommit)
             /\ Committed(shown, "marked") /\ log' = log
    <3>1. Fits(Observe(old, Suffixed, Suffixed, NextCommit), log, shown,
               "marked")
      BY <1>0, <1>1, CommitEmits, ObservedCommit DEF Fits
    <3>. QED
      BY <1>7, <2>2, <3>1
  <2>. QED
    BY <1>12, <2>1, <2>2, Zenon DEF PunctuateLive, old
<1>13. ASSUME Enter(ok)
       PROVE  TextsNow'
  <2>1. CASE AcceptVisible(learn, FALSE, ok)
    <3>1. PICK no : no = FALSE
      OBVIOUS
    <3>2. AcceptVisible(learn, no, ok)
      BY <2>1, <3>1, Zenon
    <3>. QED
      BY <1>0, <3>2, VisibleTexts
  <2>2. CASE learn' = n /\ Committed(shown, "normal") /\ log' = log
    BY <1>5, <1>7, <2>2
  <2>. QED
    BY <1>13, <2>1, <2>2, Zenon DEF Enter, n
<1>14. ASSUME ImeOff(ok)
       PROVE  TextsNow'
  <2>1. CASE ~Composing
    <3>1. /\ learn' = ConfirmFeedback(old, ok)
          /\ log' = LogConfirm(old, ok) /\ UNCHANGED commits
      BY <1>14, <2>1 DEF ImeOff, old
    <3>2. Texts(ConfirmFeedback(old, ok).feedback, LogConfirm(old, ok),
                commits)
      BY <1>0, <1>1, ConfirmedTexts
    <3>. QED
      BY <3>1, <3>2, TextsSettled
  <2>2. CASE Composing /\ visible = None
    <3>1. /\ learn' = ConfirmFeedback(l, ok) /\ log' = LogConfirm(l, ok)
          /\ Committed(shown, "normal")
      BY <1>14, <2>2 DEF ImeOff, l, old
    <3>. QED
      BY <1>5, <1>6, <1>7, <3>1
  <2>3. CASE Composing /\ visible # None
    <3>. DEFINE a == ApplyHistory(Observe(SetAccepted(old, ok), reading,
                                          visible, NextCommit), ok)
    <3>1. /\ learn' = ConfirmFeedback(a, ok) /\ log' = LogAccepted(ok)
          /\ Committed(visible, "zenz")
      BY <1>14, <2>3 DEF ImeOff, old
    <3>2. Shape(a) /\ Texts(a.feedback, LogAccepted(ok), With(visible, "zenz"))
      BY <1>0, <1>1, CommitEmits, AcceptedTexts
    <3>. HIDE DEF a
    <3>3. /\ Shape(ConfirmFeedback(a, ok))
          /\ ConfirmFeedback(a, ok).feedback = NoFeedback
      BY <3>2 DEF ConfirmFeedback, Released, Shape
    <3>4. Fits(ConfirmFeedback(a, ok), LogAccepted(ok), visible, "zenz")
      BY <3>2, <3>3, NothingTold DEF Fits
    <3>. QED
      BY <1>7, <3>1, <3>4
  <2>. QED
    BY <2>1, <2>2, <2>3
<1>15. ASSUME NEW rest, NEW value, CommitSegment(rest, value)
       PROVE  TextsNow'
  <2>1. /\ learn' = LearnCommit(learn, NextCommit) /\ log' = log
        /\ Committed(value, "segment")
    BY <1>15 DEF CommitSegment
  <2>2. Fits(LearnCommit(learn, NextCommit), log, value, "segment")
    BY <1>0, LearnedCommit, TextsLater DEF Fits
  <2>. QED
    BY <1>7, <2>1, <2>2
<1>. QED
  BY <1>8, <1>9, <1>10, <1>11, <1>12, <1>13, <1>14, <1>15

\* Every step keeps what is pending and logged in agreement with the commits.
LEMMA NextTexts ==
  TextInv /\ [Next]_vars => TextInv'
<1>. SUFFICES ASSUME TextInv, [Next]_vars PROVE TextInv'
  OBVIOUS
<1>0. Inv /\ TextsNow /\ PlainKeys /\ reading # Suffixed
  BY DEF TextInv, TextsNow, PlainKeys
<1>1. Inv' /\ PlainKeys'
  BY <1>0, NextInv, KeysNext
<1>2. ASSUME UNCHANGED <<learn, commits, log>>
      PROVE  TextsNow'
  BY <1>0, <1>2, TextsSettled DEF TextsNow
<1>3. TextsNow'
  <2>1. CASE UNCHANGED vars
    BY <1>2, <2>1 DEF vars
  <2>2. CASE Typing
    BY <1>0, <2>2, UndoingTexts, ConfirmingTexts, CommittingTexts DEF Typing
  <2>3. CASE Converting
    <3>1. ASSUME NEW value \in Values, NEW flag \in BOOLEAN,
                 Convert(value, flag) \/ ForceZenz(value, flag)
          PROVE  TextsNow'
      BY <1>2, <3>1 DEF Convert, ForceZenz
    <3>. QED
      BY <1>0, <2>3, <3>1, ComparingTexts DEF Converting
  <2>4. CASE Committing
    BY <1>0, <2>4, CommittingTexts DEF Committing
  <2>5. CASE Undoing
    BY <1>0, <2>5, UndoingTexts, ConfirmingTexts DEF Undoing
  <2>6. CASE Others
    <3>1. ASSUME ImeOn \/ ToggleIncognito
                 \/ \E key \in Readings, value \in Values :
                      Reconvert(key, value)
          PROVE  TextsNow'
      BY <1>2, <3>1 DEF ImeOn, ToggleIncognito, Reconvert
    <3>. QED
      BY <1>0, <2>6, <3>1, ComparingTexts DEF Others
  <2>. QED
    BY <2>1, <2>2, <2>3, <2>4, <2>5, <2>6 DEF Next
<1>. QED
  BY <1>1, <1>3 DEF TextInv, TextsNow

\* ConfirmPendingZenzFeedback() rejects a correction only where another text
\* was committed, and "continued typing is never miscounted as a reject"
\* (session.h:538): where the reading matters it was committed.
THEOREM RejectionsAreReal ==
  Spec => []RejectedIsAnotherText
<1>1. ASSUME TextInv
      PROVE  RejectedIsAnotherText
  BY <1>1 DEF TextInv, Texts, TruthfulLog, Truthful, KeyReasons, Logged,
     RejectedIsAnotherText
<1>. QED
  BY <1>1, InitTexts, NextTexts, PTL DEF Spec
-----------------------------------------------------------------------------
(***************************************************************************)
(* Types                                                                   *)
(***************************************************************************)

GivenReasons == Reasons \cup {"candidate_selection_after_zenz"}

Histories == [CommitIds -> {"unlearned", "learned", "reverted"}]

\* What is learned, field by field.
Learnt ==
  [feedback : Feedbacks, direct : 0 .. MaxCommits, slot : 0 .. MaxCommits,
   history : Histories, file : Seq(Records)]

\* What is pending has a reading and a text, and the commit it is about once
\* there is one.
Named(f) ==
  /\ f.action # "none" => f.key \in Readings /\ f.value \in Values
  /\ f.action = "accepted" \/ f.finalValue # None => f.commit \in CommitIds

LearntWell(l) == l \in Learnt /\ Named(l.feedback)

\* The records a session writes, and the entries of the log.
SessionRecords == {r \in Records : r.class = Class}

Entries == SessionRecords \X CommitIds

\* A record of a reading and a text.
LEMMA RecordType ==
  ASSUME NEW action \in Actions, NEW key \in Readings, NEW value \in Values,
         NEW reason \in GivenReasons
  PROVE  Record(action, key, Class, value, reason) \in SessionRecords
BY DEF Record, Records, SessionRecords, Class, Classes, GivenReasons

\* A record may be appended to a file, or fail to be.
LEMMA AppendRecordType ==
  ASSUME NEW file \in Seq(Records), NEW record, NEW written \in BOOLEAN,
         written => record \in Records
  PROVE  AppendRecord(file, record, written) \in Seq(Records)
BY DEF AppendRecord

\* Nothing pending.
LEMMA NoFeedbackType ==
  NoFeedback \in Feedbacks /\ Named(NoFeedback)
BY FeedbackAssumption DEF NoFeedback, Feedbacks, Named, Reasons

\* An update of the fields of what is learned.
LEMMA LearntFields ==
  ASSUME NEW l \in Learnt, NEW f \in Feedbacks, NEW n \in 0 .. MaxCommits,
         NEW h \in Histories, NEW s \in Seq(Records)
  PROVE  /\ [l EXCEPT !.feedback = f] \in Learnt
         /\ [l EXCEPT !.direct = n] \in Learnt
         /\ [l EXCEPT !.slot = n] \in Learnt
         /\ [l EXCEPT !.history = h] \in Learnt
         /\ [l EXCEPT !.file = s] \in Learnt
BY DEF Learnt

\* SetPendingZenzFeedbackAccepted().
LEMMA SetAcceptedType ==
  ASSUME NEW l, LearntWell(l), NEW ok \in BOOLEAN,
         reading \in Readings, visible \in Values, NextCommit \in CommitIds,
         {recording, learning, incognito} \subseteq BOOLEAN
  PROVE  LearntWell(SetAccepted(l, ok))
<1>. DEFINE written == CanRecordZenzFeedback /\ ok
            f1 == [NoFeedback EXCEPT !.action = "accepted"]
            f2 == [f1 EXCEPT !.key = reading]
            f3 == [f2 EXCEPT !.value = visible]
            f4 == [f3 EXCEPT !.written = written]
            f5 == [f4 EXCEPT !.requested = CanLearnZenzToMozcHistory]
            f == [f5 EXCEPT !.commit = NextCommit]
            s == AppendRecord(l.file,
                   Record("accepted", reading, Class, visible, ""), written)
            m == [l EXCEPT !.feedback = f, !.file = s]
<1>1. written \in BOOLEAN /\ CanLearnZenzToMozcHistory \in BOOLEAN
  BY DEF CanRecordZenzFeedback, CanLearnZenzToMozcHistory
<1>. HIDE DEF written
<1>2. f1 \in Feedbacks
  BY NoFeedbackType DEF Feedbacks
<1>. HIDE DEF f1
<1>3. f2 \in Feedbacks /\ f2.key = reading /\ f2.action = f1.action
  BY <1>2 DEF Feedbacks
<1>. HIDE DEF f2
<1>4. f3 \in Feedbacks /\ f3.key = reading /\ f3.value = visible
  BY <1>3 DEF Feedbacks
<1>. HIDE DEF f3
<1>5. f4 \in Feedbacks /\ f4.key = reading /\ f4.value = visible
  BY <1>1, <1>4 DEF Feedbacks
<1>. HIDE DEF f4
<1>6. f5 \in Feedbacks /\ f5.key = reading /\ f5.value = visible
  BY <1>1, <1>5 DEF Feedbacks
<1>. HIDE DEF f5
<1>7. /\ f \in Feedbacks /\ f.key = reading /\ f.value = visible
      /\ f.commit = NextCommit
  BY <1>6 DEF Feedbacks, CommitIds
<1>8. f = [NoFeedback EXCEPT
             !.action = "accepted", !.key = reading, !.value = visible,
             !.written = written, !.requested = CanLearnZenzToMozcHistory,
             !.commit = NextCommit]
  BY DEF f, f5, f4, f3, f2, f1
<1>. HIDE DEF f
<1>9. s \in Seq(Records)
  <2>1. Record("accepted", reading, Class, visible, "") \in SessionRecords
    BY RecordType DEF Actions, GivenReasons, Reasons
  <2>2. l.file \in Seq(Records)
    BY DEF LearntWell, Learnt
  <2>. QED
    BY <1>1, <2>1, <2>2, AppendRecordType DEF SessionRecords
<1>10. SetAccepted(l, ok) \in {l, m}
  BY <1>8 DEF SetAccepted, written
<1>. HIDE DEF s
<1>11. m \in Learnt /\ m.feedback = f
  BY <1>7, <1>9 DEF LearntWell, Learnt
<1>. HIDE DEF m
<1>12. LearntWell(m)
  BY <1>7, <1>11 DEF LearntWell, Named
<1>. QED
  BY <1>10, <1>12

\* ApplyPendingZenzMozcHistoryLearning().
LEMMA ApplyHistoryType ==
  ASSUME NEW l, LearntWell(l), NEW ok
  PROVE  LearntWell(ApplyHistory(l, ok))
<1>. DEFINE n == l.feedback.commit
            g == [l.feedback EXCEPT !.applied = TRUE]
            f == [g EXCEPT !.handle = n]
            h == [l.history EXCEPT ![n] = "learned"]
            p == [l EXCEPT !.feedback = g]
            q == [l EXCEPT !.feedback = f, !.slot = n, !.history = h]
<1>1. l \in Learnt /\ l.feedback \in Feedbacks /\ Named(l.feedback)
      /\ l.history \in Histories
  BY DEF LearntWell, Learnt
<1>2. g \in Feedbacks /\ Named(g) /\ g.commit = n
      /\ g.action = l.feedback.action
  BY <1>1 DEF Feedbacks, Named
<1>3. ApplyHistory(l, ok) \in {l, p} \/
        (l.feedback.action = "accepted" /\ ApplyHistory(l, ok) = q)
  BY DEF ApplyHistory
<1>. HIDE DEF g
<1>4. LearntWell(p)
  <2>1. p \in Learnt /\ p.feedback = g
    BY <1>1, <1>2 DEF Learnt
  <2>. QED
    BY <1>2, <2>1 DEF LearntWell
<1>5. CASE l.feedback.action = "accepted"
  <2>1. n \in CommitIds /\ n \in 0 .. MaxCommits
    BY <1>1, <1>5 DEF Named, CommitIds
  <2>2. f \in Feedbacks /\ Named(f)
    BY <1>2, <1>5, <2>1 DEF Feedbacks, Named, CommitIds
  <2>3. h \in Histories
    BY <1>1, <2>1 DEF Histories
  <2>. HIDE DEF f, h, n
  <2>4. q \in Learnt /\ q.feedback = f
    BY <1>1, <2>1, <2>2, <2>3 DEF Learnt
  <2>5. LearntWell(q)
    BY <2>2, <2>4 DEF LearntWell
  <2>. QED
    BY <1>3, <1>4, <2>5
<1>6. CASE l.feedback.action # "accepted"
  BY <1>3, <1>4, <1>6
<1>. QED
  BY <1>5, <1>6

\* SetPendingZenzFeedbackComparison().
LEMMA SetComparisonType ==
  ASSUME NEW l, LearntWell(l), reading \in Readings, NEW v \in Values,
         NEW reason \in GivenReasons, NEW needsKey \in BOOLEAN
  PROVE  LearntWell(SetComparison(l, v, reason, needsKey))
<1>. DEFINE f1 == [NoFeedback EXCEPT !.action = "compare"]
            f2 == [f1 EXCEPT !.key = reading]
            f3 == [f2 EXCEPT !.value = v]
            f4 == [f3 EXCEPT !.reason = reason]
            f == [f4 EXCEPT !.needsKey = needsKey]
            m == [l EXCEPT !.feedback = f]
<1>1. f1 \in Feedbacks /\ f1.action = "compare" /\ f1.finalValue = None
  BY NoFeedbackType DEF Feedbacks, NoFeedback
<1>2. f = [NoFeedback EXCEPT
             !.action = "compare", !.key = reading, !.value = v,
             !.reason = reason, !.needsKey = needsKey]
  BY DEF f, f4, f3, f2, f1
<1>. HIDE DEF f1
<1>3. f2 \in Feedbacks /\ f2.action = "compare" /\ f2.finalValue = None
      /\ f2.key = reading
  BY <1>1 DEF Feedbacks
<1>. HIDE DEF f2
<1>4. f3 \in Feedbacks /\ f3.action = "compare" /\ f3.finalValue = None
      /\ f3.key = reading /\ f3.value = v
  BY <1>3 DEF Feedbacks
<1>. HIDE DEF f3
<1>5. f4 \in Feedbacks /\ f4.action = "compare" /\ f4.finalValue = None
      /\ f4.key = reading /\ f4.value = v
  BY <1>4 DEF Feedbacks, GivenReasons
<1>. HIDE DEF f4
<1>6. f \in Feedbacks /\ f.action = "compare" /\ f.finalValue = None
      /\ f.key = reading /\ f.value = v
  BY <1>5 DEF Feedbacks
<1>. HIDE DEF f
<1>7. SetComparison(l, v, reason, needsKey) \in {l, m}
  BY <1>2 DEF SetComparison
<1>8. m \in Learnt /\ m.feedback = f
  BY <1>6 DEF LearntWell, Learnt
<1>. HIDE DEF m
<1>9. LearntWell(m)
  BY <1>6, <1>8 DEF LearntWell, Named
<1>. QED
  BY <1>7, <1>9

\* A rejection on the screen.
LEMMA SetRejectedType ==
  ASSUME NEW l, LearntWell(l), reading \in Readings,
         visible \in Values \cup {None}, NEW reason \in GivenReasons
  PROVE  LearntWell(SetRejected(l, reason))
<1>1. CASE visible = None
  BY <1>1 DEF SetRejected
<1>2. CASE visible # None
  <2>1. LearntWell(SetComparison(l, visible, reason, FALSE))
    BY <1>2, SetComparisonType
  <2>. QED
    BY <1>2, <2>1 DEF SetRejected
<1>. QED
  BY <1>1, <1>2

\* ObserveZenzFeedbackCommit().
LEMMA ObserveType ==
  ASSUME NEW l, LearntWell(l), NEW key \in Readings \cup {Suffixed},
         NEW v \in Values \cup Readings \cup {Suffixed}, NEW n \in CommitIds
  PROVE  LearntWell(Observe(l, key, v, n))
<1>. DEFINE f1 == [l.feedback EXCEPT !.finalKey = key]
            f2 == [f1 EXCEPT !.finalValue = v]
            f == [f2 EXCEPT !.commit = n]
            m == [l EXCEPT !.feedback = f]
<1>1. l \in Learnt /\ l.feedback \in Feedbacks /\ Named(l.feedback)
  BY DEF LearntWell, Learnt
<1>2. m = [l EXCEPT !.feedback.finalKey = key, !.feedback.finalValue = v,
                    !.feedback.commit = n]
  BY DEF m, f, f2, f1
<1>3. f1 \in Feedbacks /\ Named(f1)
  BY <1>1 DEF Feedbacks, Named
<1>. HIDE DEF f1
<1>4. /\ f2 \in Feedbacks
      /\ f2.action # "none" => f2.key \in Readings /\ f2.value \in Values
  BY <1>3 DEF Feedbacks, Named
<1>. HIDE DEF f2
<1>5. f \in Feedbacks /\ Named(f)
  BY <1>4 DEF Feedbacks, Named, CommitIds
<1>. HIDE DEF f
<1>6. m \in Learnt /\ m.feedback = f
  BY <1>1, <1>5 DEF Learnt
<1>. HIDE DEF m
<1>7. LearntWell(m)
  BY <1>5, <1>6 DEF LearntWell
<1>8. Observe(l, key, v, n) \in {l, m}
  BY <1>2 DEF Observe
<1>. QED
  BY <1>7, <1>8

\* What a pending feedback writes is a record of a commit.
LEMMA PendingRecordType ==
  ASSUME NEW f \in Feedbacks, Named(f)
  PROVE  /\ WritesComparison(f) => /\ ComparisonRecord(f) \in SessionRecords
                                   /\ f.commit \in CommitIds
         /\ WritesRollback(f) => /\ RollbackRecord(f) \in SessionRecords
                                 /\ f.commit \in CommitIds
<1>1. f.action # "none" => f.key \in Readings /\ f.value \in Values
      /\ f.reason \in GivenReasons /\ "" \in GivenReasons
  BY DEF Named, Feedbacks, GivenReasons, Reasons
<1>2. f.action # "none" => ComparisonRecord(f) \in SessionRecords
      /\ RollbackRecord(f) \in SessionRecords
  BY <1>1, RecordType DEF ComparisonRecord, RollbackRecord, Actions
<1>. QED
  BY <1>2 DEF WritesComparison, WritesRollback, Neutral, Named

\* ConfirmPendingZenzFeedback().
LEMMA ConfirmFeedbackType ==
  ASSUME NEW l, LearntWell(l), NEW ok \in BOOLEAN
  PROVE  LearntWell(ConfirmFeedback(l, ok))
<1>. DEFINE f == l.feedback
            slot == IF l.slot = f.handle THEN 0 ELSE l.slot
            written == WritesComparison(f) /\ ok
            s == AppendRecord(l.file, ComparisonRecord(f), written)
            m == [l EXCEPT !.feedback = NoFeedback, !.slot = slot, !.file = s]
<1>1. l \in Learnt /\ f \in Feedbacks /\ Named(f) /\ l.file \in Seq(Records)
      /\ l.slot \in 0 .. MaxCommits
  BY DEF LearntWell, Learnt
<1>2. ConfirmFeedback(l, ok) = m
  BY DEF ConfirmFeedback, Released
<1>3. written \in BOOLEAN /\ (written => ComparisonRecord(f) \in Records)
  <2>1. written \in BOOLEAN
    OBVIOUS
  <2>. QED
    BY <1>1, <2>1, PendingRecordType DEF SessionRecords
<1>4. s \in Seq(Records)
  BY <1>1, <1>3, AppendRecordType
<1>5. slot \in 0 .. MaxCommits
  BY <1>1, FeedbackAssumption
<1>. HIDE DEF s, slot
<1>6. m \in Learnt /\ m.feedback = NoFeedback
  BY <1>1, <1>4, <1>5, NoFeedbackType DEF Learnt
<1>. HIDE DEF m
<1>. QED
  BY <1>2, <1>6, NoFeedbackType DEF LearntWell

\* DiscardPendingZenzFeedback().
LEMMA DiscardFeedbackType ==
  ASSUME NEW l, LearntWell(l), NEW ok \in BOOLEAN
  PROVE  LearntWell(DiscardFeedback(l, ok))
<1>. DEFINE f == l.feedback
            slot == IF f.action = "accepted" /\ l.slot = f.handle THEN 0
                    ELSE l.slot
            written == WritesRollback(f) /\ ok
            s == AppendRecord(l.file, RollbackRecord(f), written)
            h == IF RevertsHandle(l)
                 THEN [l.history EXCEPT ![f.handle] = "reverted"]
                 ELSE l.history
            m == [l EXCEPT !.feedback = NoFeedback, !.slot = slot, !.file = s,
                           !.history = h]
<1>1. l \in Learnt /\ f \in Feedbacks /\ Named(f) /\ l.file \in Seq(Records)
      /\ l.slot \in 0 .. MaxCommits /\ l.history \in Histories
  BY DEF LearntWell, Learnt
<1>2. DiscardFeedback(l, ok) = m
  <2>1. CASE f.action = "accepted"
    BY <2>1 DEF DiscardFeedback, Released
  <2>2. CASE f.action # "accepted"
    <3>1. slot = l.slot
      BY <2>2
    <3>2. [l EXCEPT !.slot = slot] = l
      BY <1>1, <3>1 DEF Learnt
    <3>. QED
      BY <1>1, <2>2, <3>1, <3>2 DEF DiscardFeedback, Learnt
  <2>. QED
    BY <2>1, <2>2
<1>3. written \in BOOLEAN /\ (written => RollbackRecord(f) \in Records)
  <2>1. written \in BOOLEAN
    OBVIOUS
  <2>. QED
    BY <1>1, <2>1, PendingRecordType DEF SessionRecords
<1>4. s \in Seq(Records)
  BY <1>1, <1>3, AppendRecordType
<1>5. slot \in 0 .. MaxCommits
  BY <1>1, FeedbackAssumption
<1>6. h \in Histories
  BY <1>1 DEF Histories, RevertsHandle
<1>. HIDE DEF s, slot, h
<1>7. m \in Learnt /\ m.feedback = NoFeedback
  BY <1>1, <1>4, <1>5, <1>6, NoFeedbackType DEF Learnt
<1>. HIDE DEF m
<1>. QED
  BY <1>2, <1>7, NoFeedbackType DEF LearntWell

\* The learning of a commit is taken back or given.
LEMMA HistoryType ==
  ASSUME NEW l, LearntWell(l), NEW n
  PROVE  /\ n \in 0 .. MaxCommits => LearntWell(RevertCommit(l, n))
         /\ n \in CommitIds => LearntWell(LearnCommit(l, n))
<1>. DEFINE H(x) == [l.history EXCEPT ![n] = x]
            M(x) == [l EXCEPT !.history = H(x)]
<1>1. l \in Learnt /\ l.feedback \in Feedbacks /\ Named(l.feedback)
      /\ l.history \in Histories
  BY DEF LearntWell, Learnt
<1>2. ASSUME NEW x \in {"learned", "reverted"}
      PROVE  LearntWell(M(x))
  <2>1. H(x) \in Histories
    BY <1>1 DEF Histories
  <2>. HIDE DEF H
  <2>2. M(x) \in Learnt /\ M(x).feedback = l.feedback
    BY <1>1, <2>1 DEF Learnt
  <2>. HIDE DEF M
  <2>. QED
    BY <1>1, <2>2 DEF LearntWell
<1>3. RevertCommit(l, n) \in {l, M("reverted")}
  BY DEF RevertCommit
<1>4. LearnCommit(l, n) \in {l, M("learned")}
  BY DEF LearnCommit
<1>. HIDE DEF M
<1>. QED
  BY <1>2, <1>3, <1>4

\* The commit whose learning may still be taken back, and the one reversible
\* learning.
LEMMA DirectType ==
  ASSUME NEW l, LearntWell(l), NEW n \in 0 .. MaxCommits
  PROVE  /\ LearntWell([l EXCEPT !.direct = n])
         /\ LearntWell([l EXCEPT !.slot = n])
BY DEF LearntWell, Learnt

\* The reversible learning is gone with the converter that owned it.
LEMMA SlotFreed ==
  ASSUME NEW l, LearntWell(l)
  PROVE  LearntWell([l EXCEPT !.slot = 0])
<1>1. 0 \in 0 .. MaxCommits
  BY FeedbackAssumption
<1>. QED
  BY <1>1, DirectType

\* Both kinds of what is pending.
LEMMA BothTypes ==
  ASSUME NEW l, LearntWell(l), NEW ok \in BOOLEAN
  PROVE  /\ LearntWell(ConfirmDirect(l)) /\ LearntWell(DiscardDirect(l))
         /\ LearntWell(ConfirmBoth(l, ok)) /\ LearntWell(DiscardBoth(l, ok))
<1>1. 0 \in 0 .. MaxCommits
  BY FeedbackAssumption
<1>2. l.direct \in 0 .. MaxCommits
  BY DEF LearntWell, Learnt
<1>3. LearntWell(ConfirmDirect(l))
  BY <1>1, DirectType DEF ConfirmDirect
<1>4. LearntWell(DiscardDirect(l))
  BY <1>1, <1>2, HistoryType, DirectType DEF DiscardDirect
<1>. QED
  BY <1>3, <1>4, ConfirmFeedbackType, DiscardFeedbackType
     DEF ConfirmBoth, DiscardBoth

(***************************************************************************)
(* The types of a step                                                     *)
(***************************************************************************)

\* The composition.
Screen ==
  /\ state \in States
  /\ reading \in Readings \cup {None} /\ (reading # None <=> Composing)
  /\ shown \in Values \cup Readings \cup {None}
  /\ (Composing => shown \in Values \cup Readings)
  /\ visible \in Values \cup {None}
  /\ live \in BOOLEAN
  /\ (visible # None => live) /\ (live => state = "CONVERSION")

Options == {recording, learning, incognito} \subseteq BOOLEAN

\* What Undo may bring back.
UndoTypes ==
  [commit : CommitIds, state : {"COMPOSITION", "CONVERSION"}, key : Readings,
   shown : Values \cup Readings]

Booked == commits \in Seq(Commits) /\ Len(commits) <= MaxCommits

TypeInv ==
  /\ Screen /\ Options /\ Booked
  /\ LearntWell(learn)
  /\ log \in Seq(Entries)
  /\ undos \in Seq(UndoTypes)

\* The invariant says what the type invariant says.
LEMMA TypeInvIsTypeOK == TypeInv => TypeOK
<1>1. ASSUME NEW S, NEW s \in Seq(S) PROVE Range(s) \subseteq S
  BY DEF Range
<1>. SUFFICES ASSUME TypeInv PROVE TypeOK
  OBVIOUS
<1>2. /\ learn.file \in Seq(Records) /\ commits \in Seq(Commits)
      /\ log \in Seq(Entries)
  BY DEF TypeInv, Booked, LearntWell, Learnt
<1>3. /\ Range(learn.file) \subseteq Records
      /\ Range(commits) \subseteq Commits
      /\ Range(log) \subseteq Entries
  BY <1>1, <1>2
<1>4. Entries \subseteq Records \X CommitIds
  BY DEF Entries, SessionRecords
<1>. QED
  BY <1>3, <1>4 DEF TypeInv, Screen, Options, LearntWell, Learnt, Histories,
     TypeOK

\* Where nothing or something is composed.
LEMMA ScreenChanged ==
  ASSUME Screen
  PROVE  /\ LeaveComposition \/ LeaveFor("DIRECT") => Screen'
         /\ \A key \in Readings : Compose(key) => Screen'
         /\ \A key \in Readings, v \in Values, isLive \in BOOLEAN :
              Converted(key, v, isLive) => Screen'
         /\ SameComposition => Screen'
<1>1. LeaveComposition \/ LeaveFor("DIRECT") => Screen'
  BY FeedbackAssumption DEF LeaveComposition, LeaveFor, Screen, Composing,
     States
<1>2. \A key \in Readings : Compose(key) => Screen'
  BY FeedbackAssumption DEF Compose, Screen, Composing, States
<1>3. \A key \in Readings, v \in Values, isLive \in BOOLEAN :
        Converted(key, v, isLive) => Screen'
  BY FeedbackAssumption DEF Converted, Screen, Composing, States
<1>4. SameComposition => Screen'
  BY DEF SameComposition, Screen, Composing
<1>. QED
  BY <1>1, <1>2, <1>3, <1>4

\* While something is composed there is a reading and a text.
LEMMA ComposedText ==
  ASSUME Screen, Composing
  PROVE  /\ reading \in Readings /\ shown \in Values \cup Readings
         /\ visible # None => visible \in Values
BY DEF Screen

\* One more commit is a commit.
LEMMA NextCommitType ==
  ASSUME Booked, MayCommit
  PROVE  NextCommit \in CommitIds
BY FeedbackAssumption DEF Booked, MayCommit, NextCommit, CommitIds

\* What is committed is counted.
LEMMA BookedNext ==
  ASSUME Booked, MayCommit, reading \in Readings,
         NEW v \in Values \cup Readings,
         NEW kind \in {"normal", "direct", "marked", "zenz", "segment"},
         Committed(v, kind)
  PROVE  Booked'
<1>1. [key |-> reading, value |-> v, kind |-> kind] \in Commits
  BY DEF Commits
<1>. QED
  BY <1>1, FeedbackAssumption DEF Booked, MayCommit, Committed

\* A record joins the log.
LEMMA LogTypes ==
  ASSUME Screen, Options, log \in Seq(Entries),
         NEW l, LearntWell(l), NEW ok
  PROVE  /\ LogConfirm(l, ok) \in Seq(Entries)
         /\ LogDiscard(l, ok) \in Seq(Entries)
         /\ visible # None /\ NextCommit \in CommitIds =>
              LogAccepted(ok) \in Seq(Entries)
<1>1. l.feedback \in Feedbacks /\ Named(l.feedback)
  BY DEF LearntWell, Learnt
<1>2. ASSUME NEW r \in SessionRecords, NEW n \in CommitIds
      PROVE  Append(log, <<r, n>>) \in Seq(Entries)
  BY DEF Entries
<1>3. LogConfirm(l, ok) \in Seq(Entries)
  BY <1>1, <1>2, PendingRecordType DEF LogConfirm
<1>4. LogDiscard(l, ok) \in Seq(Entries)
  BY <1>1, <1>2, PendingRecordType DEF LogDiscard
<1>5. ASSUME visible # None, NextCommit \in CommitIds
      PROVE  LogAccepted(ok) \in Seq(Entries)
  <2>1. reading \in Readings /\ visible \in Values
    BY <1>5 DEF Screen, Composing
  <2>2. Record("accepted", reading, Class, visible, "") \in SessionRecords
    BY <2>1, RecordType DEF Actions, GivenReasons, Reasons
  <2>. QED
    BY <1>2, <1>5, <2>2 DEF LogAccepted
<1>. QED
  BY <1>3, <1>4, <1>5

\* An ordinary commit is learned and observed.
LEMMA OrdinaryCommitType ==
  ASSUME Screen, Booked, MayCommit, Composing, NEW l, LearntWell(l)
  PROVE  LearntWell(OrdinaryCommit(l))
BY ComposedText, NextCommitType, HistoryType, ObserveType DEF OrdinaryCommit

\* A correction is accepted, observed and learned.
LEMMA AcceptedType ==
  ASSUME Screen, Options, Booked, MayCommit, visible # None,
         NEW l, LearntWell(l), NEW ok \in BOOLEAN,
         NEW key \in {reading, Suffixed}, NEW v \in {visible, Suffixed}
  PROVE  LearntWell(ApplyHistory(Observe(SetAccepted(l, ok), key, v,
                                         NextCommit), ok))
<1>1. reading \in Readings /\ visible \in Values /\ NextCommit \in CommitIds
  BY ComposedText, NextCommitType DEF Screen, Composing
<1>2. LearntWell(SetAccepted(l, ok))
  BY <1>1, SetAcceptedType DEF Options
<1>3. LearntWell(Observe(SetAccepted(l, ok), key, v, NextCommit))
  BY <1>1, <1>2, ObserveType
<1>. QED
  BY <1>3, ApplyHistoryType

\* ...by the operator all acceptances share.
LEMMA AcceptVisibleType ==
  ASSUME TypeInv, visible # None, NEW l, LearntWell(l), NEW suffix \in BOOLEAN,
         NEW ok \in BOOLEAN, AcceptVisible(l, suffix, ok)
  PROVE  LearntWell(learn') /\ log' \in Seq(Entries) /\ Booked'
<1>1. /\ Screen /\ Options /\ Booked /\ MayCommit
      /\ log \in Seq(Entries)
  BY DEF TypeInv, AcceptVisible
<1>2. reading \in Readings /\ visible \in Values /\ NextCommit \in CommitIds
  BY <1>1, ComposedText, NextCommitType DEF Screen, Composing
<1>3. PICK key \in {reading, Suffixed}, v \in {visible, Suffixed} :
        learn' = ApplyHistory(Observe(SetAccepted(l, ok), key, v, NextCommit),
                              ok)
  <2>1. CASE suffix
    BY <2>1 DEF AcceptVisible
  <2>2. CASE ~suffix
    BY <2>2 DEF AcceptVisible
  <2>. QED
    BY <2>1, <2>2
<1>4. LearntWell(learn')
  BY <1>1, <1>3, AcceptedType
<1>5. log' \in Seq(Entries)
  BY <1>1, <1>2, LogTypes DEF AcceptVisible
<1>6. Booked'
  <2>1. PICK kind \in {"marked", "zenz"} : Committed(visible, kind)
    BY DEF AcceptVisible
  <2>. QED
    BY <1>1, <1>2, <2>1, BookedNext
<1>. QED
  BY <1>4, <1>5, <1>6

\* What an action leaves of the composition and of the options.
LEMMA ScreenNext ==
  ASSUME TypeInv, [Next]_vars
  PROVE  Screen' /\ Options'
<1>1. Screen /\ Options /\ undos \in Seq(UndoTypes)
  BY DEF TypeInv
<1>2. CASE UNCHANGED vars
  BY <1>1, <1>2, ScreenChanged DEF vars, SameComposition, Options
<1>3. CASE Typing
  <2>1. PICK ok \in BOOLEAN, key \in Readings :
          \/ TypeCharacter(key, ok) \/ TypeAfterConversion(key, ok)
          \/ TypeShiftAscii(key, ok) \/ EraseCharacter(key, ok)
          \/ EraseCharacter(None, ok)
    BY <1>3 DEF Typing
  <2>2. (Compose(key) \/ LeaveComposition) /\ SameOptions
    BY <2>1, FeedbackAssumption DEF TypeCharacter, TypeAfterConversion,
       TypeShiftAscii, EraseCharacter
  <2>. QED
    BY <1>1, <2>2, ScreenChanged DEF SameOptions, Options
<1>4. CASE Converting
  <2>1. PICK v \in Values, flag \in BOOLEAN :
          \/ Convert(v, flag) \/ ZenzAnswers(v, flag) \/ ForceZenz(v, flag)
          \/ ExplicitConversion(v) \/ SelectSuggestion(v)
    BY <1>4 DEF Converting
  <2>2. CASE ZenzAnswers(v, flag)
    <3>1. visible' \in {None, v} /\ live
          /\ UNCHANGED <<state, reading, shown, live>> /\ SameOptions
      BY <2>2 DEF ZenzAnswers
    <3>. QED
      BY <1>1, <3>1 DEF Screen, Composing, Options, SameOptions
  <2>3. CASE ~ ZenzAnswers(v, flag)
    <3>1. /\ \E isLive \in BOOLEAN : Converted(reading, v, isLive)
          /\ Composing /\ SameOptions
      BY <2>1, <2>3 DEF Convert, ForceZenz, ExplicitConversion,
         SelectSuggestion, Composing
    <3>. QED
      BY <1>1, <3>1, ComposedText, ScreenChanged DEF SameOptions, Options
  <2>. QED
    BY <2>2, <2>3
<1>5. CASE Committing
  <2>1. ASSUME NEW ok \in BOOLEAN,
               \/ Enter(ok) \/ PunctuateComposition(ok)
               \/ PunctuateConversion(ok) \/ PunctuateLive(ok) \/ ImeOff(ok)
        PROVE  (LeaveComposition \/ LeaveFor("DIRECT")) /\ SameOptions
    BY <2>1 DEF Enter, PunctuateComposition, PunctuateConversion,
       PunctuateLive, ImeOff
  <2>2. ASSUME NEW rest \in Readings, NEW v \in Values, CommitSegment(rest, v)
        PROVE  Converted(rest, v, FALSE) /\ SameOptions
    BY <2>2 DEF CommitSegment
  <2>. QED
    BY <1>1, <1>5, <2>1, <2>2, ScreenChanged
       DEF Committing, SameOptions, Options
<1>6. CASE Undoing
  <2>1. PICK ok \in BOOLEAN :
          \/ CancelConversion(ok) \/ CancelComposition(ok) \/ RollbackKey(ok)
          \/ CancelKey(ok) \/ Undo(ok) \/ PassKey(ok) \/ ResetContext(ok)
    BY <1>6 DEF Undoing
  <2>2. CASE Undo(ok) /\ undos # <<>>
    <3>1. Last(undos) \in UndoTypes
      BY <1>1, <2>2 DEF Last
    <3>2. /\ state' = Last(undos).state /\ reading' = Last(undos).key
          /\ shown' = Last(undos).shown /\ live' = FALSE /\ visible' = None
          /\ SameOptions
      BY <2>2 DEF Undo
    <3>. QED
      BY <1>1, <3>1, <3>2, FeedbackAssumption DEF UndoTypes, Screen,
         Composing, States, Options, SameOptions
  <2>3. CASE CancelConversion(ok)
    <3>1. Compose(reading) /\ Composing /\ SameOptions
      BY <2>3 DEF CancelConversion, Composing
    <3>. QED
      BY <1>1, <3>1, ComposedText, ScreenChanged DEF SameOptions, Options
  <2>4. CASE ~ (Undo(ok) /\ undos # <<>>) /\ ~ CancelConversion(ok)
    <3>1. (LeaveComposition \/ SameComposition) /\ SameOptions
      BY <2>1, <2>4 DEF CancelComposition, RollbackKey, CancelKey, Undo,
         PassKey, ResetContext
    <3>. QED
      BY <1>1, <3>1, ScreenChanged DEF SameOptions, Options
  <2>. QED
    BY <2>2, <2>3, <2>4
<1>7. CASE Others
  <2>1. CASE SpaceRevertsZenz
    <3>1. visible' = None /\ UNCHANGED <<state, reading, shown, live>>
          /\ SameOptions
      BY <2>1 DEF SpaceRevertsZenz
    <3>. QED
      BY <1>1, <3>1 DEF Screen, Composing, Options, SameOptions
  <2>2. CASE ImeOn
    BY <1>1, <2>2, ScreenChanged DEF ImeOn, SameOptions, Options
  <2>3. CASE ToggleIncognito
    BY <1>1, <2>3, ScreenChanged DEF ToggleIncognito, Options
  <2>4. ASSUME NEW key \in Readings, NEW v \in Values, Reconvert(key, v)
        PROVE  Screen' /\ Options'
    BY <1>1, <2>4, ScreenChanged DEF Reconvert, SameOptions, Options
  <2>. QED
    BY <1>7, <2>1, <2>2, <2>3, <2>4 DEF Others
<1>. QED
  BY <1>2, <1>3, <1>4, <1>5, <1>6, <1>7 DEF Next

\* What an action may leave to be undone.
LEMMA UndosKept ==
  ASSUME TypeInv,
         \/ undos' \in {undos, <<>>}
         \/ /\ undos' \in {Append(undos, UndoEntry), <<UndoEntry>>}
            /\ Composing /\ MayCommit
         \/ undos # <<>> /\ undos' = Front(undos)
  PROVE  undos' \in Seq(UndoTypes)
<1>1. undos \in Seq(UndoTypes)
  BY DEF TypeInv
<1>2. ASSUME Composing, MayCommit PROVE UndoEntry \in UndoTypes
  <2>1. /\ reading \in Readings /\ shown \in Values \cup Readings
        /\ NextCommit \in CommitIds
    BY <1>2, ComposedText, NextCommitType DEF TypeInv
  <2>. QED
    BY <1>2, <2>1 DEF UndoEntry, UndoTypes, Composing
<1>3. undos # <<>> => Front(undos) \in Seq(UndoTypes)
  BY <1>1 DEF Front
<1>4. ASSUME NEW entry \in UndoTypes
      PROVE  Append(undos, entry) \in Seq(UndoTypes)
             /\ <<entry>> \in Seq(UndoTypes)
  BY <1>1
<1>5. <<>> \in Seq(UndoTypes)
  OBVIOUS
<1>. QED
  BY <1>1, <1>2, <1>3, <1>4, <1>5

\* The commits that can be taken back keep their type.
LEMMA UndosNext ==
  ASSUME TypeInv, [Next]_vars
  PROVE  undos' \in Seq(UndoTypes)
<1>. DEFINE Keeps ==
       \/ undos' \in {undos, <<>>}
       \/ /\ undos' \in {Append(undos, UndoEntry), <<UndoEntry>>}
          /\ Composing /\ MayCommit
       \/ undos # <<>> /\ undos' = Front(undos)
<1>1. CASE UNCHANGED vars
  BY <1>1, UndosKept DEF vars
<1>2. CASE Typing
  <2>1. Keeps
    BY <1>2 DEF Typing, TypeCharacter, TypeAfterConversion, TypeShiftAscii,
       EraseCharacter
  <2>. QED
    BY <2>1, UndosKept
<1>3. CASE Converting
  <2>1. Keeps
    BY <1>3 DEF Converting, Convert, ZenzAnswers, ForceZenz,
       ExplicitConversion, SelectSuggestion
  <2>. QED
    BY <2>1, UndosKept
<1>4. CASE Committing
  <2>1. ASSUME NEW ok \in BOOLEAN, Enter(ok)
        PROVE  Keeps
    BY <2>1 DEF Enter, PushUndo
  <2>2. ASSUME NEW ok \in BOOLEAN, ImeOff(ok)
        PROVE  Keeps
    <3>1. CASE Composing /\ visible = None
      BY <2>2, <3>1 DEF ImeOff
    <3>2. CASE ~ (Composing /\ visible = None)
      BY <2>2, <3>2 DEF ImeOff
    <3>. QED
      BY <3>1, <3>2
  <2>3. ASSUME NEW ok \in BOOLEAN,
               \/ PunctuateComposition(ok) \/ PunctuateConversion(ok)
               \/ PunctuateLive(ok)
        PROVE  Keeps
    BY <2>3 DEF PunctuateComposition, PunctuateConversion, PunctuateLive
  <2>4. ASSUME NEW rest \in Readings, NEW v, CommitSegment(rest, v)
        PROVE  Keeps
    BY <2>4 DEF CommitSegment, PushUndo, Composing
  <2>. QED
    BY <1>4, <2>1, <2>2, <2>3, <2>4, UndosKept DEF Committing
<1>5. CASE Undoing
  <2>1. Keeps
    BY <1>5 DEF Undoing, CancelConversion, CancelComposition, RollbackKey,
       CancelKey, Undo, PassKey, ResetContext
  <2>. QED
    BY <2>1, UndosKept
<1>6. CASE Others
  <2>1. Keeps
    BY <1>6 DEF Others, SpaceRevertsZenz, ImeOn, ToggleIncognito, Reconvert
  <2>. QED
    BY <2>1, UndosKept
<1>. QED
  BY <1>1, <1>2, <1>3, <1>4, <1>5, <1>6 DEF Next

\* What an action learns, writes and commits.
LearnsWell ==
  LearntWell(learn') /\ log' \in Seq(Entries) /\ Booked'

\* Nothing is committed.
LEMMA LearnsWithoutCommit ==
  ASSUME TypeInv, UNCHANGED commits, LearntWell(learn'),
         log' \in Seq(Entries)
  PROVE  LearnsWell
BY DEF TypeInv, Booked, LearnsWell

\* What typing a key learns, writes and commits...
LEMMA TypingTypes ==
  ASSUME TypeInv, Typing
  PROVE  LearnsWell
<1>1. /\ Screen /\ Options /\ Booked /\ LearntWell(learn)
      /\ log \in Seq(Entries)
  BY DEF TypeInv
<1>. DEFINE d == ConfirmDirect(learn)
<1>2. LearntWell(d)
  BY <1>1, BothTypes
<1>3. PICK ok \in BOOLEAN, key \in Readings \cup {None} :
        \/ TypeCharacter(key, ok) \/ TypeAfterConversion(key, ok)
        \/ TypeShiftAscii(key, ok) \/ EraseCharacter(key, ok)
  BY DEF Typing
<1>4. CASE TypeCharacter(key, ok)
  <2>1. /\ learn' \in {d, ConfirmBoth(learn, ok)}
        /\ log' \in {log, LogConfirm(learn, ok)} /\ UNCHANGED commits
    BY <1>4 DEF TypeCharacter
  <2>. QED
    BY <1>1, <1>2, <2>1, BothTypes, LogTypes, LearnsWithoutCommit
<1>5. CASE TypeAfterConversion(key, ok)
  <2>1. /\ learn' = ConfirmFeedback(OrdinaryCommit(d), ok)
        /\ log' = LogConfirm(OrdinaryCommit(d), ok)
        /\ Committed(shown, "normal") /\ MayCommit /\ Composing
    BY <1>5 DEF TypeAfterConversion, Composing
  <2>2. reading \in Readings /\ shown \in Values \cup Readings
    BY <1>1, <2>1, ComposedText
  <2>3. LearntWell(OrdinaryCommit(d))
    BY <1>1, <1>2, <2>1, OrdinaryCommitType
  <2>4. Booked'
    BY <1>1, <2>1, <2>2, BookedNext
  <2>. QED
    BY <1>1, <2>1, <2>3, <2>4, ConfirmFeedbackType, LogTypes DEF LearnsWell
<1>6. CASE TypeShiftAscii(key, ok)
  <2>1. CASE visible # None /\ AcceptVisible(d, FALSE, ok)
    BY <1>2, <2>1, AcceptVisibleType DEF LearnsWell
  <2>2. CASE /\ MayCommit /\ Composing
             /\ learn' = Observe(d, reading, shown, NextCommit)
             /\ Committed(shown, "direct") /\ UNCHANGED log
    <3>1. reading \in Readings /\ shown \in Values \cup Readings
          /\ NextCommit \in CommitIds
      BY <1>1, <2>2, ComposedText, NextCommitType
    <3>2. Booked'
      BY <1>1, <2>2, <3>1, BookedNext
    <3>. QED
      BY <1>1, <1>2, <2>2, <3>1, <3>2, ObserveType DEF LearnsWell
  <2>. QED
    BY <1>6, <2>1, <2>2 DEF TypeShiftAscii, Composing
<1>7. CASE EraseCharacter(key, ok)
  <2>1. /\ learn' = DiscardBoth(learn, ok) /\ log' = LogDiscard(learn, ok)
        /\ UNCHANGED commits
    BY <1>7 DEF EraseCharacter
  <2>. QED
    BY <1>1, <2>1, BothTypes, LogTypes, LearnsWithoutCommit
<1>. QED
  BY <1>3, <1>4, <1>5, <1>6, <1>7

\* ...what a conversion does...
LEMMA ConvertingTypes ==
  ASSUME TypeInv, Converting
  PROVE  LearnsWell
<1>1. /\ Screen /\ Options /\ Booked /\ LearntWell(learn)
      /\ log \in Seq(Entries)
  BY DEF TypeInv
<1>2. visible \in Values \cup {None}
  BY <1>1 DEF Screen
<1>3. PICK v \in Values, flag \in BOOLEAN :
        \/ Convert(v, flag) \/ ZenzAnswers(v, flag) \/ ForceZenz(v, flag)
        \/ ExplicitConversion(v) \/ SelectSuggestion(v)
  BY DEF Converting
<1>4. UNCHANGED <<commits, log>>
  BY <1>3 DEF Convert, ZenzAnswers, ForceZenz, ExplicitConversion,
     SelectSuggestion
<1>5. CASE Convert(v, flag) \/ ForceZenz(v, flag)
  <2>1. UNCHANGED learn
    BY <1>5 DEF Convert, ForceZenz
  <2>. QED
    BY <1>1, <1>4, <2>1, LearnsWithoutCommit
<1>6. CASE ZenzAnswers(v, flag) \/ ExplicitConversion(v)
           \/ SelectSuggestion(v)
  <2>1. Composing
    BY <1>6 DEF ZenzAnswers, ExplicitConversion, SelectSuggestion, Composing
  <2>2. reading \in Readings
    BY <1>1, <2>1, ComposedText
  <2>3. LearntWell(SetComparison(learn, v, "auto_block_shadow_compare", TRUE))
    BY <1>1, <2>2, SetComparisonType DEF GivenReasons, Reasons
  <2>4. /\ LearntWell(SetRejected(learn, "explicit_conversion_after_zenz"))
        /\ LearntWell(SetRejected(learn, "candidate_selection_after_zenz"))
    BY <1>1, <1>2, <2>2, SetRejectedType DEF GivenReasons, Reasons
  <2>5. LearntWell([SetRejected(learn, "candidate_selection_after_zenz")
                      EXCEPT !.slot = 0])
    BY <2>4, SlotFreed, Zenon
  <2>6. LearntWell(learn')
    <3>1. CASE ZenzAnswers(v, flag)
      BY <1>1, <2>3, <3>1 DEF ZenzAnswers
    <3>2. CASE ExplicitConversion(v)
      BY <1>1, <2>4, <3>2 DEF ExplicitConversion
    <3>3. CASE SelectSuggestion(v)
      BY <2>5, <3>3 DEF SelectSuggestion
    <3>. QED
      BY <1>6, <3>1, <3>2, <3>3
  <2>. QED
    BY <1>1, <1>4, <2>6, LearnsWithoutCommit
<1>. QED
  BY <1>3, <1>5, <1>6

\* ...what a commit does...
LEMMA CommittingTypes ==
  ASSUME TypeInv, Committing
  PROVE  LearnsWell
<1>1. /\ Screen /\ Options /\ Booked /\ LearntWell(learn)
      /\ log \in Seq(Entries)
  BY DEF TypeInv
<1>. DEFINE d == ConfirmDirect(learn)
<1>2. LearntWell(d)
  BY <1>1, BothTypes
<1>3. ASSUME Composing, MayCommit,
             NEW v \in Values \cup Readings,
             NEW kind \in {"normal", "direct", "marked", "zenz", "segment"},
             Committed(v, kind)
      PROVE  Booked'
  BY <1>1, <1>3, ComposedText, BookedNext
<1>4. ASSUME Composing
      PROVE  reading \in Readings /\ shown \in Values \cup Readings
  BY <1>1, <1>4, ComposedText
<1>5. MayCommit => NextCommit \in CommitIds
  BY <1>1, NextCommitType
<1>6. ASSUME NEW ok \in BOOLEAN, Enter(ok)
      PROVE  LearnsWell
  <2>1. CASE visible # None /\ AcceptVisible(learn, FALSE, ok)
    BY <1>1, <2>1, AcceptVisibleType DEF LearnsWell
  <2>2. CASE ~ (visible # None /\ AcceptVisible(learn, FALSE, ok))
    <3>1. /\ Composing /\ MayCommit /\ learn' = OrdinaryCommit(learn)
          /\ Committed(shown, "normal") /\ UNCHANGED log
      BY <1>6, <2>2 DEF Enter
    <3>. QED
      BY <1>1, <1>3, <1>4, <3>1, OrdinaryCommitType DEF LearnsWell
  <2>. QED
    BY <2>1, <2>2
<1>7. ASSUME NEW ok \in BOOLEAN, PunctuateComposition(ok)
      PROVE  LearnsWell
  <2>1. /\ Composing /\ MayCommit /\ Committed(shown, "direct")
        /\ learn' \in {Observe(d, reading, shown, NextCommit),
                       ConfirmFeedback(d, ok)}
        /\ log' \in {log, LogConfirm(d, ok)}
    BY <1>7 DEF PunctuateComposition, Composing
  <2>2. LearntWell(Observe(d, reading, shown, NextCommit))
    BY <1>2, <1>4, <1>5, <2>1, ObserveType
  <2>. QED
    BY <1>1, <1>2, <1>3, <1>4, <2>1, <2>2, ConfirmFeedbackType, LogTypes
       DEF LearnsWell
<1>8. ASSUME NEW ok \in BOOLEAN, PunctuateConversion(ok)
      PROVE  LearnsWell
  <2>. DEFINE o == OrdinaryCommit(d)
  <2>1. /\ Composing /\ MayCommit /\ Committed(shown, "normal")
        /\ learn' \in {[o EXCEPT !.direct = NextCommit],
                       [ConfirmFeedback(o, ok) EXCEPT !.direct = NextCommit]}
        /\ log' \in {log, LogConfirm(o, ok)}
    BY <1>8 DEF PunctuateConversion, Composing
  <2>2. LearntWell(o)
    BY <1>1, <1>2, <2>1, OrdinaryCommitType
  <2>. HIDE DEF o
  <2>3. NextCommit \in 0 .. MaxCommits
    BY <1>5, <2>1 DEF CommitIds
  <2>4. LearntWell(learn')
    <3>. DEFINE c == ConfirmFeedback(o, ok)
    <3>1. LearntWell(c)
      BY <2>2, ConfirmFeedbackType
    <3>2. learn' = [o EXCEPT !.direct = NextCommit]
          \/ learn' = [c EXCEPT !.direct = NextCommit]
      BY <2>1
    <3>. HIDE DEF c
    <3>. QED
      BY <2>2, <2>3, <3>1, <3>2, DirectType
  <2>. QED
    BY <1>1, <1>3, <1>4, <2>1, <2>2, <2>4, LogTypes DEF LearnsWell
<1>9. ASSUME NEW ok \in BOOLEAN, PunctuateLive(ok)
      PROVE  LearnsWell
  <2>1. CASE visible # None /\ AcceptVisible(d, TRUE, ok)
    BY <1>2, <2>1, AcceptVisibleType DEF LearnsWell
  <2>2. CASE ~ (visible # None /\ AcceptVisible(d, TRUE, ok))
    <3>1. /\ Composing /\ MayCommit /\ Committed(shown, "marked")
          /\ learn' = Observe(d, Suffixed, Suffixed, NextCommit)
          /\ UNCHANGED log
      BY <1>9, <2>2 DEF PunctuateLive, Composing
    <3>. QED
      BY <1>1, <1>2, <1>3, <1>4, <1>5, <3>1, ObserveType DEF LearnsWell
  <2>. QED
    BY <2>1, <2>2
<1>10. ASSUME NEW ok \in BOOLEAN, ImeOff(ok)
       PROVE  LearnsWell
  <2>1. CASE ~ Composing
    <3>1. learn' = ConfirmFeedback(d, ok) /\ log' = LogConfirm(d, ok)
          /\ UNCHANGED commits
      BY <1>10, <2>1 DEF ImeOff
    <3>. QED
      BY <1>1, <1>2, <3>1, ConfirmFeedbackType, LogTypes, LearnsWithoutCommit
  <2>2. CASE Composing /\ visible = None
    <3>. DEFINE o == OrdinaryCommit(d)
    <3>1. /\ MayCommit /\ Committed(shown, "normal")
          /\ learn' = ConfirmFeedback(o, ok) /\ log' = LogConfirm(o, ok)
      BY <1>10, <2>2 DEF ImeOff
    <3>2. LearntWell(o)
      BY <1>1, <1>2, <2>2, <3>1, OrdinaryCommitType
    <3>. HIDE DEF o
    <3>. QED
      BY <1>1, <1>3, <1>4, <2>2, <3>1, <3>2, ConfirmFeedbackType, LogTypes
         DEF LearnsWell
  <2>3. CASE Composing /\ visible # None
    <3>. DEFINE a == ApplyHistory(Observe(SetAccepted(d, ok), reading,
                                          visible, NextCommit), ok)
    <3>1. /\ MayCommit /\ Committed(visible, "zenz")
          /\ learn' = ConfirmFeedback(a, ok) /\ log' = LogAccepted(ok)
      BY <1>10, <2>3 DEF ImeOff
    <3>2. LearntWell(a)
      BY <1>1, <1>2, <2>3, <3>1, AcceptedType
    <3>. HIDE DEF a
    <3>3. visible \in Values
      BY <1>1, <2>3 DEF Screen
    <3>. QED
      BY <1>1, <1>2, <1>3, <1>5, <2>3, <3>1, <3>2, <3>3,
         ConfirmFeedbackType, LogTypes DEF LearnsWell
  <2>. QED
    BY <2>1, <2>2, <2>3
<1>11. ASSUME NEW rest \in Readings, NEW v \in Values, CommitSegment(rest, v)
       PROVE  LearnsWell
  <2>1. /\ Composing /\ MayCommit /\ Committed(v, "segment")
        /\ learn' = LearnCommit(learn, NextCommit) /\ UNCHANGED log
    BY <1>11 DEF CommitSegment, Composing
  <2>. QED
    BY <1>1, <1>3, <1>5, <2>1, HistoryType DEF LearnsWell
<1>. QED
  BY <1>6, <1>7, <1>8, <1>9, <1>10, <1>11 DEF Committing

\* The commit Undo takes back is one that was made.
LEMMA UndoneLearningType ==
  ASSUME undos \in Seq(UndoTypes), NEW l, LearntWell(l)
  PROVE  LearntWell(UndoneLearning(l))
<1>1. CASE undos = <<>>
  BY <1>1 DEF UndoneLearning
<1>2. CASE undos # <<>>
  <2>1. Last(undos) \in UndoTypes
    BY <1>2 DEF Last
  <2>2. Last(undos).commit \in 0 .. MaxCommits
    BY <2>1 DEF UndoTypes, CommitIds
  <2>. QED
    BY <1>2, <2>2, HistoryType DEF UndoneLearning
<1>. QED
  BY <1>1, <1>2

\* What taking something back learns and writes...
LEMMA UndoingTypes ==
  ASSUME TypeInv, Undoing
  PROVE  LearnsWell
<1>1. /\ Screen /\ Options /\ Booked /\ LearntWell(learn)
      /\ log \in Seq(Entries) /\ undos \in Seq(UndoTypes)
  BY DEF TypeInv
<1>2. PICK ok \in BOOLEAN :
        \/ CancelConversion(ok) \/ CancelComposition(ok) \/ RollbackKey(ok)
        \/ CancelKey(ok) \/ Undo(ok) \/ PassKey(ok) \/ ResetContext(ok)
  BY DEF Undoing
<1>3. /\ UNCHANGED commits
      /\ log' \in {LogDiscard(learn, ok), LogConfirm(learn, ok)}
  BY <1>2 DEF CancelConversion, CancelComposition, RollbackKey, CancelKey,
     Undo, PassKey, ResetContext
<1>. DEFINE b == DiscardBoth(learn, ok)
<1>4. LearntWell(b)
  BY <1>1, BothTypes
<1>5. LearntWell(learn')
  <2>1. CASE CancelConversion(ok)
    <3>1. reading \in Readings /\ (visible # None => visible \in Values)
      BY <1>1, <2>1, ComposedText DEF CancelConversion, Composing
    <3>2. visible # None =>
            LearntWell(SetComparison(b, visible,
                         "cancel_visible_zenz_to_composition", TRUE))
      BY <1>4, <3>1, SetComparisonType DEF GivenReasons, Reasons
    <3>. QED
      BY <1>4, <2>1, <3>2 DEF CancelConversion
  <2>2. CASE CancelComposition(ok) \/ RollbackKey(ok)
    BY <1>4, <2>2 DEF CancelComposition, RollbackKey
  <2>3. LearntWell(UndoneLearning(b))
    BY <1>1, <1>4, UndoneLearningType
  <2>4. CASE CancelKey(ok)
    BY <2>3, <2>4 DEF CancelKey
  <2>5. CASE Undo(ok)
    <3>1. LearntWell([UndoneLearning(b) EXCEPT !.slot = 0])
      BY <2>3, SlotFreed, Zenon
    <3>. QED
      BY <1>4, <2>5, <3>1 DEF Undo
  <2>6. CASE PassKey(ok) \/ ResetContext(ok)
    BY <1>1, <2>6, BothTypes, ConfirmFeedbackType DEF PassKey, ResetContext
  <2>. QED
    BY <1>2, <2>1, <2>2, <2>4, <2>5, <2>6
<1>. QED
  BY <1>1, <1>3, <1>5, LogTypes, LearnsWithoutCommit

\* ...and what the other commands do.
LEMMA OtherTypes ==
  ASSUME TypeInv, Others \/ UNCHANGED vars
  PROVE  LearnsWell
<1>1. /\ Screen /\ LearntWell(learn) /\ log \in Seq(Entries)
  BY DEF TypeInv
<1>2. UNCHANGED <<commits, log>>
  BY DEF Others, SpaceRevertsZenz, ImeOn, ToggleIncognito, Reconvert, vars
<1>3. LearntWell(learn')
  <2>1. CASE SpaceRevertsZenz
    <3>1. reading \in Readings /\ visible \in Values \cup {None}
      BY <1>1, <2>1 DEF SpaceRevertsZenz, Screen, Composing
    <3>2. LearntWell(SetRejected(learn, "space_revert_zenz_to_mozc"))
      BY <1>1, <3>1, SetRejectedType DEF GivenReasons, Reasons
    <3>. QED
      BY <2>1, <3>2 DEF SpaceRevertsZenz
  <2>2. CASE ~ SpaceRevertsZenz
    <3>1. UNCHANGED learn
      BY <2>2 DEF Others, ImeOn, ToggleIncognito, Reconvert, vars
    <3>. QED
      BY <1>1, <3>1
  <2>. QED
    BY <2>1, <2>2
<1>. QED
  BY <1>1, <1>2, <1>3, LearnsWithoutCommit

\* The session starts with nothing pending.
LEMMA InitTypes == Init => TypeInv
<1>. SUFFICES ASSUME Init PROVE TypeInv
  OBVIOUS
<1>1. undos \in Seq(UndoTypes) /\ log \in Seq(Entries)
  BY DEF Init
<1>0. Screen /\ Options
  BY FeedbackAssumption DEF Init, Screen, Composing, States, Options
<1>2. Booked
  BY FeedbackAssumption DEF Init, Booked
<1>3. LearntWell(learn)
  <2>1. [n \in CommitIds |-> "unlearned"] \in Histories
    BY DEF Histories
  <2>2. learn \in Learnt /\ learn.feedback = NoFeedback
    <3>1. learn \in [feedback : {NoFeedback}, direct : {0}, slot : {0},
                     history : {[n \in CommitIds |-> "unlearned"]},
                     file : Earlier]
      BY DEF Init
    <3>2. 0 \in 0 .. MaxCommits
      BY FeedbackAssumption
    <3>. QED
      BY <2>1, <3>1, <3>2, NoFeedbackType, EarlierAssumption DEF Learnt
  <2>. QED
    BY <2>2, NoFeedbackType DEF LearntWell
<1>. QED
  BY <1>0, <1>1, <1>2, <1>3 DEF TypeInv

\* Every step keeps the types.
LEMMA NextTypes == TypeInv /\ [Next]_vars => TypeInv'
<1>. SUFFICES ASSUME TypeInv, [Next]_vars PROVE TypeInv'
  OBVIOUS
<1>1. LearnsWell
  BY TypingTypes, ConvertingTypes, CommittingTypes, UndoingTypes, OtherTypes
     DEF Next
<1>. QED
  BY <1>1, ScreenNext, UndosNext DEF TypeInv, LearnsWell

\* What is composed, pending, committed and written has its type, whatever
\* is typed, answered, undone and fails to be written (session.cc:
\* PendingZenzFeedback; zenz_feedback_store.cc: Record).
THEOREM FeedbackIsTyped == Spec => []TypeOK
BY InitTypes, NextTypes, TypeInvIsTypeOK, PTL DEF Spec
-----------------------------------------------------------------------------
(***************************************************************************)
(* The file and its readers.                                               *)
(***************************************************************************)
Counts == [accepted : Nat, rejected : Nat, autoBlockRejected : Nat,
           positive : Nat, negative : Nat, hard : BOOLEAN]

\* A rejection always weighs something.
LEMMA RejectWeightType ==
  ASSUME NEW reason
  PROVE  RejectWeightForReason(reason) \in Nat \ {0}
BY DEF RejectWeightForReason, IsHardRejectReason

\* An acceptance is counted and weighed.
LEMMA AddAcceptedType ==
  ASSUME NEW c \in Counts
  PROVE  AddAccepted(c) \in Counts
<1>1. /\ c.accepted + 1 \in Nat
      /\ c.positive + kAcceptedFeedbackWeight \in Nat
  BY DEF Counts, kAcceptedFeedbackWeight
<1>. QED
  BY <1>1 DEF AddAccepted, Counts

\* A rollback never takes back more than was accepted (RollbackAccepted).
LEMMA RollbackAcceptedType ==
  ASSUME NEW c \in Counts
  PROVE  RollbackAccepted(c) \in Counts
<1>1. CASE c.accepted <= 0
  BY <1>1 DEF RollbackAccepted
<1>2. CASE ~ (c.accepted <= 0)
  <2>1. c.accepted - 1 \in Nat
    BY <1>2 DEF Counts
  <2>2. (IF c.positive < kAcceptedFeedbackWeight THEN 0
         ELSE c.positive - kAcceptedFeedbackWeight) \in Nat
    BY DEF Counts, kAcceptedFeedbackWeight
  <2>. QED
    BY <1>2, <2>1, <2>2 DEF RollbackAccepted, Counts
<1>. QED
  BY <1>1, <1>2

\* A rejection blocks for good or counts towards the automatic block.
LEMMA AddRejectedType ==
  ASSUME NEW c \in Counts, NEW reason
  PROVE  AddRejected(c, reason) \in Counts
<1>1. /\ c.rejected + 1 \in Nat
      /\ c.negative + RejectWeightForReason(reason) \in Nat
      /\ (IF IsHardRejectReason(reason) THEN c.autoBlockRejected
          ELSE c.autoBlockRejected + 1) \in Nat
  BY RejectWeightType DEF Counts
<1>2. (c.hard \/ IsHardRejectReason(reason)) \in BOOLEAN
  OBVIOUS
<1>. QED
  BY <1>1, <1>2 DEF AddRejected, Counts

\* Every record of the file keeps the counts natural numbers
\* (ZenzFeedbackStore::LoadEntries), so that no rollback makes them negative.
THEOREM AddRecordType ==
  ASSUME NEW c \in Counts, NEW r, r.action \in Actions
  PROVE  AddRecord(c, r) \in Counts
<1>1. CASE r.action = "accepted"
  BY <1>1, AddAcceptedType DEF AddRecord
<1>2. CASE r.action = "accepted_rollback"
  BY <1>2, RollbackAcceptedType DEF AddRecord
<1>3. CASE r.action = "rejected"
  BY <1>3, AddRejectedType DEF AddRecord
<1>. QED
  BY <1>1, <1>2, <1>3 DEF Actions

\* An acceptance that is rolled back at once leaves the counts as they were
\* (RollbackAccepted after AddAccepted).
THEOREM RollbackUndoesAcceptance ==
  ASSUME NEW c \in Counts
  PROVE  RollbackAccepted(AddAccepted(c)) = c
<1>. DEFINE d == AddAccepted(c)
<1>1. /\ d.accepted = c.accepted + 1
      /\ d.positive = c.positive + kAcceptedFeedbackWeight
      /\ d = [c EXCEPT !.accepted = c.accepted + 1,
                       !.positive = c.positive + kAcceptedFeedbackWeight]
  BY DEF AddAccepted, Counts
<1>2. ~ (d.accepted <= 0) /\ ~ (d.positive < kAcceptedFeedbackWeight)
  BY <1>1 DEF Counts, kAcceptedFeedbackWeight
<1>3. d.accepted - 1 = c.accepted
      /\ d.positive - kAcceptedFeedbackWeight = c.positive
  BY <1>1 DEF Counts, kAcceptedFeedbackWeight
<1>4. RollbackAccepted(d)
        = [d EXCEPT !.accepted = c.accepted, !.positive = c.positive]
  BY <1>1, <1>2, <1>3 DEF RollbackAccepted
<1>. QED
  BY <1>1, <1>4 DEF Counts

\* The values offered in a conversion (GetRankedCandidates) are those that a
\* decision (Decide) prefers, whatever the file holds.
THEOREM ReadersAgree ==
  ASSUME NEW file, NEW key, NEW class, NEW values, NEW policy,
         NEW excluded \in BOOLEAN
  PROVE  RankedIffPreferred(file, key, class, values, policy, excluded)
<1>. SUFFICES ASSUME NEW value \in values
              PROVE  value \in GetRankedCandidates(file, key, class, values,
                                                   policy, excluded)
                       <=> Decide(file, key, class, value, policy, excluded)
                             = "prefer"
  BY DEF RankedIffPreferred, GetRankedCandidates
<1>. DEFINE all == AggregatedCounts(file, key, class, value)
            exact == LoadCounts(file, key, class, value)
            Offered == /\ ~excluded
                       /\ ~all.hard
                       /\ ~IsAutoBlockedByPolicy(exact, policy)
                       /\ ~IsRejectCountDominant(exact)
                       /\ all.accepted >= kAcceptThreshold
                       /\ TotalScore(all) > 0
<1>1. value \in GetRankedCandidates(file, key, class, values, policy,
                                    excluded) <=> Offered
  BY DEF GetRankedCandidates
<1>2. BuildDecisionFromCounts(all) = "prefer"
        <=> /\ ~all.hard
            /\ all.accepted >= kAcceptThreshold /\ TotalScore(all) > 0
  BY Zenon DEF BuildDecisionFromCounts
<1>3. Decide(file, key, class, value, policy, excluded) = "prefer"
        <=> /\ ~all.hard /\ ~excluded
            /\ ~IsAutoBlockedByPolicy(exact, policy)
            /\ BuildDecisionFromCounts(all) = "prefer"
            /\ ~IsRejectCountDominant(exact)
  BY DEF Decide
<1>. QED
  BY <1>1, <1>2, <1>3
-----------------------------------------------------------------------------
(***************************************************************************)
(* The counts of a whole file                                              *)
(***************************************************************************)

\* UpTo and Recursion, which are about numbers and functions only.
Induction == INSTANCE LruCache_proofs WITH Nil <- None

\* What the first records say, one after the other.
Counting(f, file, key, class, value) ==
  /\ f \in [0 .. Len(file) -> Counts]
  /\ f[0] = NoCounts
  /\ \A i \in 1 .. Len(file) :
       f[i] = IF SameEntry(file[i], key, class, value)
              THEN AddRecord(f[i - 1], file[i]) ELSE f[i - 1]

\* LoadCounts() counts one record after the other.
LEMMA LoadCountsCounts ==
  ASSUME NEW S, NEW file \in Seq(S), \A r \in S : r.action \in Actions,
         NEW key, NEW class, NEW value
  PROVE  \E f : /\ Counting(f, file, key, class, value)
                /\ LoadCounts(file, key, class, value) =
                     IF f[Len(file)].accepted = 0 /\ f[Len(file)].rejected = 0
                     THEN NoCounts ELSE f[Len(file)]
<1>. DEFINE l == Len(file)
            Step(f) == [n \in 0 .. l |->
                          IF n = 0 THEN NoCounts
                          ELSE IF SameEntry(file[n], key, class, value)
                               THEN AddRecord(f[n - 1], file[n])
                               ELSE f[n - 1]]
            counts == CHOOSE f : f = Step(f)
            G == [i \in 1 .. l |-> [c \in Counts |->
                    IF SameEntry(file[i], key, class, value)
                    THEN AddRecord(c, file[i]) ELSE c]]
<1>1. l \in Nat /\ \A i \in 1 .. l : file[i].action \in Actions
  OBVIOUS
<1>2. NoCounts \in Counts
  BY DEF NoCounts, Counts
<1>3. G \in Induction!Steps(l, Counts)
  <2>1. ASSUME NEW i \in 1 .. l, NEW c \in Counts
        PROVE  (IF SameEntry(file[i], key, class, value)
                THEN AddRecord(c, file[i]) ELSE c) \in Counts
    BY <1>1, AddRecordType
  <2>. QED
    BY <2>1 DEF Induction!Steps
<1>. HIDE DEF l
<1>4. PICK g : Induction!Takes(g, l, Counts, NoCounts, G)
  <2>. HIDE DEF G
  <2>. QED
    BY <1>1, <1>2, <1>3, Induction!Recursion
<1>5. /\ g \in [0 .. l -> Counts] /\ g[0] = NoCounts
      /\ \A i \in 1 .. l : g[i] = G[i][g[i - 1]]
  BY <1>4 DEF Induction!Takes
<1>6. ASSUME NEW i \in 1 .. l
      PROVE  g[i] = IF SameEntry(file[i], key, class, value)
                    THEN AddRecord(g[i - 1], file[i]) ELSE g[i - 1]
  <2>1. i - 1 \in 0 .. l /\ g[i - 1] \in Counts
    BY <1>1, <1>5
  <2>. QED
    BY <1>5, <2>1
<1>7. Counting(g, file, key, class, value)
  BY <1>5, <1>6 DEF Counting, l
<1>. HIDE DEF G
<1>8. g = Step(g)
  <2>. SUFFICES ASSUME NEW i \in 0 .. l PROVE g[i] = Step(g)[i]
    BY <1>5
  <2>1. CASE i = 0
    BY <1>5, <2>1
  <2>2. CASE i # 0
    <3>1. i \in 1 .. l
      BY <1>1, <2>2
    <3>. QED
      BY <1>6, <2>2, <3>1
  <2>. QED
    BY <2>1, <2>2
<1>9. ASSUME NEW f, f = Step(f)
      PROVE  f[l] = g[l]
  <2>. DEFINE P == {i \in 0 .. l : f[i] = g[i]}
  <2>0. /\ f[0] = NoCounts
        /\ \A i \in 1 .. l : f[i] = IF SameEntry(file[i], key, class, value)
                                    THEN AddRecord(f[i - 1], file[i])
                                    ELSE f[i - 1]
    <3>1. f[0] = Step(f)[0] /\ \A i \in 1 .. l : f[i] = Step(f)[i]
      <4>. HIDE DEF Step
      <4>. QED
        BY <1>9
    <3>2. /\ Step(f)[0] = NoCounts
          /\ \A i \in 1 .. l :
               Step(f)[i] = IF SameEntry(file[i], key, class, value)
                            THEN AddRecord(f[i - 1], file[i]) ELSE f[i - 1]
      BY <1>1
    <3>. HIDE DEF Step
    <3>. QED
      BY <3>1, <3>2
  <2>1. 0 \in P
    BY <1>1, <1>5, <2>0
  <2>2. ASSUME NEW i \in 1 .. l, i - 1 \in P PROVE i \in P
    <3>1. f[i - 1] = g[i - 1] /\ i \in 0 .. l
      BY <1>1, <2>2
    <3>. QED
      BY <1>6, <2>0, <3>1
  <2>3. \A i \in 0 .. l : i \in P
    <3>. HIDE DEF P
    <3>. QED
      BY <1>1, <2>1, <2>2, Induction!UpTo
  <2>. QED
    BY <1>1, <2>3
<1>10. counts[l] = g[l]
  <2>1. counts = Step(counts)
    <3>. HIDE DEF Step
    <3>. QED
      BY <1>8
  <2>. HIDE DEF Step, counts
  <2>. QED
    BY <1>9, <2>1
<1>11. LoadCounts(file, key, class, value) =
         IF counts[l].accepted = 0 /\ counts[l].rejected = 0
         THEN NoCounts ELSE counts[l]
  BY DEF LoadCounts, l
<1>. HIDE DEF counts
<1>. QED
  BY <1>7, <1>10, <1>11 DEF l

\* Whatever the file holds, what is read of a reading, class and value are
\* counts: no rollback makes a number negative (LoadCounts).
THEOREM LoadCountsType ==
  ASSUME NEW file \in Seq(Records), NEW key, NEW class, NEW value
  PROVE  LoadCounts(file, key, class, value) \in Counts
<1>1. \A r \in Records : r.action \in Actions
  BY DEF Records
<1>2. PICK f : /\ Counting(f, file, key, class, value)
               /\ LoadCounts(file, key, class, value) =
                    IF f[Len(file)].accepted = 0 /\ f[Len(file)].rejected = 0
                    THEN NoCounts ELSE f[Len(file)]
  BY <1>1, LoadCountsCounts
<1>3. f[Len(file)] \in Counts
  BY <1>2 DEF Counting
<1>4. NoCounts \in Counts
  BY DEF NoCounts, Counts
<1>. QED
  BY <1>2, <1>3, <1>4

\* The commits that stand as accepted after the first entries of a log.
Stands(g, m, key, value) ==
  {n \in CommitIds :
     /\ \E i \in 1 .. m : /\ g[i][1].action = "accepted" /\ g[i][2] = n
                          /\ g[i][1].key = key /\ g[i][1].value = value
     /\ \A i \in 1 .. m : ~ (IsRollback(g[i]) /\ g[i][2] = n)}

\* What the next entry does to them.
LEMMA StandsNext ==
  ASSUME NEW g \in Seq(Entries), NEW c, LogInv(g, c), NEW m \in 1 .. Len(g),
         NEW key, NEW value
  PROVE  LET r == g[m][1]
             n == g[m][2]
             old == Stands(g, m - 1, key, value)
             new == Stands(g, m, key, value)
         IN  IF SameEntry(r, key, Class, value)
             THEN /\ r.action = "accepted" =>
                       n \notin old /\ new = old \cup {n}
                  /\ r.action = "accepted_rollback" =>
                       n \in old /\ new = old \ {n}
                  /\ r.action = "rejected" => new = old
             ELSE new = old
<1>. DEFINE r == g[m][1]
            n == g[m][2]
            old == Stands(g, m - 1, key, value)
            new == Stands(g, m, key, value)
            Match == r.key = key /\ r.value = value
            Is(i, k) == /\ g[i][1].action = "accepted" /\ g[i][2] = k
                        /\ g[i][1].key = key /\ g[i][1].value = value
            Back(i, k) == IsRollback(g[i]) /\ g[i][2] = k
<1>1. /\ m \in DOMAIN g /\ Len(g) \in Nat /\ DOMAIN g = 1 .. Len(g)
      /\ \A i \in DOMAIN g : g[i] \in Entries
  OBVIOUS
<1>2. /\ n \in CommitIds /\ r.class = Class /\ r.action \in Actions
      /\ (SameEntry(r, key, Class, value) <=> Match)
  BY <1>1 DEF Entries, SessionRecords, Records, SameEntry
<1>3. \A i : i \in 1 .. m <=> i \in 1 .. m - 1 \/ i = m
  BY <1>1
<1>4. /\ \A k : k \in old <=> /\ k \in CommitIds
                              /\ \E i \in 1 .. m - 1 : Is(i, k)
                              /\ \A i \in 1 .. m - 1 : ~ Back(i, k)
      /\ \A k : k \in new <=> /\ k \in CommitIds
                              /\ \E i \in 1 .. m : Is(i, k)
                              /\ \A i \in 1 .. m : ~ Back(i, k)
  BY DEF Stands
<1>5. \A i \in 1 .. m : i \in DOMAIN g
  BY <1>1
<1>6. ASSUME NEW i \in 1 .. m - 1, IsDecision(g[i]), g[i][2] = n,
             IsDecision(g[m])
      PROVE  FALSE
  BY <1>1, <1>3, <1>5, <1>6 DEF LogInv, DecidedOnce
<1>7. ASSUME NEW i \in 1 .. m, Back(i, n)
      PROVE  \E j \in 1 .. m - 1 : j < i /\ Accepts(g[j], g[i][1], n)
  <2>1. PICK j \in DOMAIN g : j < i /\ Accepts(g[j], g[i][1], g[i][2])
    BY <1>5, <1>7 DEF LogInv, RollbacksFollow
  <2>2. j \in 1 .. m - 1
    BY <1>1, <2>1
  <2>. QED
    BY <1>7, <2>1, <2>2
<1>8. ASSUME r.action = "accepted", Match
      PROVE  n \notin old /\ new = old \cup {n}
  <2>1. Is(m, n) /\ IsDecision(g[m]) /\ ~ IsRollback(g[m])
    BY <1>8 DEF IsDecision, IsRollback
  <2>2. \A i \in 1 .. m - 1 : ~ Is(i, n)
    BY <1>6, <2>1 DEF IsDecision
  <2>3. \A i \in 1 .. m : ~ Back(i, n)
    BY <1>6, <1>7, <2>1 DEF Accepts, IsDecision
  <2>4. \A k : k # n => ~ Is(m, k) /\ ~ Back(m, k)
    OBVIOUS
  <2>5. ~ Back(m, n) /\ \A k : ~ Back(m, k)
    BY <2>1
  <2>6. m \in 1 .. m
    BY <1>1
  <2>. HIDE DEF Is, Back, old, new, n
  <2>. QED
    BY <1>2, <1>3, <1>4, <2>1, <2>2, <2>3, <2>4, <2>5, <2>6
<1>9. ASSUME r.action = "accepted_rollback"
      PROVE  \E j \in 1 .. m - 1 :
               /\ Accepts(g[j], r, n)
               /\ \A i \in 1 .. m - 1 : ~ Back(i, n)
               /\ \A i \in 1 .. m - 1 : Is(i, n) => i = j
  <2>1. Back(m, n) /\ m \in 1 .. m
    BY <1>1, <1>9 DEF IsRollback
  <2>2. PICK j \in 1 .. m - 1 : Accepts(g[j], r, n)
    BY <1>7, <2>1
  <2>3. \A i \in 1 .. m - 1 : ~ Back(i, n)
    BY <1>1, <1>3, <1>5, <2>1 DEF LogInv, RolledBackOnce
  <2>4. \A i \in 1 .. m - 1 : Is(i, n) => i = j
    BY <1>3, <1>5, <2>2 DEF LogInv, DecidedOnce, IsDecision, Accepts
  <2>. QED
    BY <2>2, <2>3, <2>4
<1>10. ASSUME r.action = "accepted_rollback", Match
       PROVE  n \in old /\ new = old \ {n}
  <2>1. PICK j \in 1 .. m - 1 :
               /\ Accepts(g[j], r, n)
               /\ \A i \in 1 .. m - 1 : ~ Back(i, n)
    BY <1>9, <1>10
  <2>2. Is(j, n)
    BY <1>10, <2>1 DEF Accepts, SameText
  <2>3. Back(m, n) /\ (\A k : ~ Is(m, k)) /\ (\A k : Back(m, k) => k = n)
    BY <1>10 DEF IsRollback
  <2>4. m \in 1 .. m
    BY <1>1
  <2>. HIDE DEF Is, Back, old, new, n
  <2>. QED
    BY <1>2, <1>3, <1>4, <2>1, <2>2, <2>3, <2>4
<1>11. ASSUME r.action = "rejected" \/ (r.action = "accepted" /\ ~ Match)
       PROVE  new = old
  <2>1. \A k : ~ Is(m, k) /\ ~ Back(m, k)
    BY <1>11 DEF IsRollback
  <2>. HIDE DEF Is, Back, old, new, n
  <2>. QED
    BY <1>3, <1>4, <2>1
<1>12. ASSUME r.action = "accepted_rollback", ~ Match
       PROVE  new = old
  <2>1. PICK j \in 1 .. m - 1 :
               /\ Accepts(g[j], r, n)
               /\ \A i \in 1 .. m - 1 : Is(i, n) => i = j
    BY <1>9, <1>12
  <2>2. ~ Is(j, n)
    BY <1>12, <2>1 DEF Accepts, SameText
  <2>3. \A i \in 1 .. m - 1 : ~ Is(i, n)
    BY <2>1, <2>2
  <2>4. (\A k : ~ Is(m, k)) /\ (\A k : Back(m, k) => k = n)
    BY <1>12 DEF IsRollback
  <2>. HIDE DEF Is, Back, old, new, n
  <2>. QED
    BY <1>3, <1>4, <2>3, <2>4
<1>. QED
  BY <1>2, <1>8, <1>10, <1>11, <1>12 DEF Actions

\* The records of a log say how many commits stand.
LEMMA StandsCounted ==
  ASSUME NEW g \in Seq(Entries), NEW c, LogInv(g, c), NEW key, NEW value
  PROVE  LoadCounts([i \in DOMAIN g |-> g[i][1]], key, Class, value).accepted
           = Cardinality(Stands(g, Len(g), key, value))
<1>. DEFINE l == Len(g)
            file == [i \in DOMAIN g |-> g[i][1]]
            N(m) == Cardinality(Stands(g, m, key, value))
<1>1. /\ l \in Nat /\ DOMAIN g = 1 .. l
      /\ \A i \in 1 .. l : g[i] \in Entries
  OBVIOUS
<1>2. /\ file \in Seq(Records) /\ Len(file) = l
      /\ \A i \in 1 .. l : file[i] = g[i][1] /\ file[i].action \in Actions
  <2>1. \A i \in 1 .. l : g[i][1] \in Records
    BY <1>1 DEF Entries, SessionRecords
  <2>2. file \in [1 .. l -> Records]
    BY <1>1, <2>1
  <2>3. \A i \in 1 .. l : file[i] = g[i][1] /\ file[i].action \in Actions
    BY <1>1, <2>1 DEF Records
  <2>. HIDE DEF file
  <2>. QED
    BY <1>1, <2>2, <2>3, Induction!FunctionIsSeq
<1>3. \A r \in Records : r.action \in Actions
  BY DEF Records
<1>4. PICK f : /\ Counting(f, file, key, Class, value)
               /\ LoadCounts(file, key, Class, value) =
                    IF f[Len(file)].accepted = 0 /\ f[Len(file)].rejected = 0
                    THEN NoCounts ELSE f[Len(file)]
  <2>. HIDE DEF file
  <2>. QED
    BY <1>2, <1>3, LoadCountsCounts
<1>. HIDE DEF file, l
<1>5. /\ f \in [0 .. l -> Counts] /\ f[0] = NoCounts
      /\ \A i \in 1 .. l :
           f[i] = IF SameEntry(file[i], key, Class, value)
                  THEN AddRecord(f[i - 1], file[i]) ELSE f[i - 1]
  BY <1>2, <1>4 DEF Counting
<1>6. \A m : IsFiniteSet(Stands(g, m, key, value))
  <2>1. IsFiniteSet(CommitIds)
    BY FeedbackAssumption, FS_Interval DEF CommitIds
  <2>2. \A m : Stands(g, m, key, value) \subseteq CommitIds
    BY DEF Stands
  <2>. QED
    BY <2>1, <2>2, FS_Subset
<1>. DEFINE P == {i \in 0 .. l : f[i].accepted = N(i)}
<1>7. 0 \in P
  <2>1. Stands(g, 0, key, value) = {}
    BY DEF Stands
  <2>2. N(0) = 0
    BY <2>1, FS_EmptySet
  <2>. QED
    BY <1>1, <1>5, <2>2 DEF NoCounts
<1>8. ASSUME NEW m \in 1 .. l, m - 1 \in P PROVE m \in P
  <2>. DEFINE r == g[m][1]
              n == g[m][2]
              d == f[m - 1]
              old == Stands(g, m - 1, key, value)
              new == Stands(g, m, key, value)
  <2>1. /\ m - 1 \in 0 .. l /\ m \in 0 .. l /\ d \in Counts
        /\ d.accepted = Cardinality(old)
        /\ file[m] = r /\ r.action \in Actions
    BY <1>1, <1>2, <1>5, <1>8
  <2>2. IF SameEntry(r, key, Class, value)
        THEN /\ r.action = "accepted" => n \notin old /\ new = old \cup {n}
             /\ r.action = "accepted_rollback" => n \in old /\ new = old \ {n}
             /\ r.action = "rejected" => new = old
        ELSE new = old
    BY StandsNext DEF l
  <2>3. IsFiniteSet(old) /\ IsFiniteSet(new)
    BY <1>6
  <2>4. f[m] = IF SameEntry(r, key, Class, value) THEN AddRecord(d, r) ELSE d
    BY <1>5, <2>1
  <2>. HIDE DEF d, old, new, n, r
  <2>5. /\ AddAccepted(d).accepted = d.accepted + 1
        /\ d.accepted > 0 => RollbackAccepted(d).accepted = d.accepted - 1
        /\ \A reason : AddRejected(d, reason).accepted = d.accepted
    BY <2>1 DEF AddAccepted, RollbackAccepted, AddRejected, Counts
  <2>6. d.accepted \in Nat
    BY <2>1 DEF Counts
  <2>7. CASE ~ SameEntry(r, key, Class, value)
    BY <2>1, <2>2, <2>4, <2>7 DEF new, old
  <2>8. CASE SameEntry(r, key, Class, value) /\ r.action = "accepted"
    <3>1. Cardinality(new) = Cardinality(old) + 1
      BY <2>2, <2>3, <2>8, FS_AddElement
    <3>2. f[m] = AddAccepted(d)
      BY <2>4, <2>8 DEF AddRecord
    <3>. QED
      BY <2>1, <2>5, <3>1, <3>2 DEF new
  <2>9. CASE SameEntry(r, key, Class, value) /\ r.action = "accepted_rollback"
    <3>1. n \in old /\ new = old \ {n}
      BY <2>2, <2>9
    <3>2. Cardinality(new) = Cardinality(old) - 1
      BY <2>3, <3>1, FS_RemoveElement
    <3>3. d.accepted > 0
      <4>1. Cardinality(old) # 0
        BY <2>3, <3>1, FS_EmptySet
      <4>. QED
        BY <2>1, <2>6, <4>1
    <3>4. f[m] = RollbackAccepted(d)
      BY <2>4, <2>9 DEF AddRecord
    <3>. QED
      BY <2>1, <2>5, <3>2, <3>3, <3>4 DEF new
  <2>10. CASE SameEntry(r, key, Class, value) /\ r.action = "rejected"
    <3>1. f[m] = AddRejected(d, r.reason) /\ new = old
      BY <2>2, <2>4, <2>10 DEF AddRecord
    <3>. QED
      BY <2>1, <2>5, <3>1 DEF new, old
  <2>. QED
    BY <2>1, <2>7, <2>8, <2>9, <2>10 DEF Actions
<1>9. f[l].accepted = N(l)
  <2>1. \A i \in 0 .. l : i \in P
    <3>. HIDE DEF P
    <3>. QED
      BY <1>1, <1>7, <1>8, Induction!UpTo
  <2>. QED
    BY <1>1, <2>1
<1>10. LoadCounts(file, key, Class, value).accepted = f[l].accepted
  BY <1>2, <1>4 DEF NoCounts
<1>. QED
  BY <1>9, <1>10 DEF file, l

\* What the store counts from what a session wrote is what the user accepted
\* and did not take back, however acceptances, rejections, rollbacks and
\* failed writes followed each other (ZenzFeedbackStore::LoadCounts,
\* Session::DiscardPendingZenzFeedback).
THEOREM CountsAreTheDecisions == Spec => []CountsAreDecisions
<1>1. Inv /\ TypeInv => CountsAreDecisions
  <2>. SUFFICES ASSUME Inv, TypeInv,
                       NEW key \in Readings, NEW value \in Values
                PROVE  LoadCounts([i \in DOMAIN log |-> log[i][1]], key, Class,
                                  value).accepted
                         = Cardinality(Standing(key, value))
    BY DEF CountsAreDecisions
  <2>1. log \in Seq(Entries) /\ LogInv(log, Count)
    BY DEF Inv, Settled, TypeInv
  <2>2. DOMAIN log = 1 .. Len(log)
    BY <2>1
  <2>3. Standing(key, value) = Stands(log, Len(log), key, value)
    BY <2>2 DEF Standing, Stands, Logged, IsRollback
  <2>. QED
    BY <2>1, <2>3, StandsCounted
<1>. QED
  BY <1>1, InitInv, NextInv, InitTypes, NextTypes, PTL DEF Spec
=============================================================================
