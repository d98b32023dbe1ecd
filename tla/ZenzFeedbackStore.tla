------------------------- MODULE ZenzFeedbackStore -------------------------
(* The file in which Zenz feedback is kept (session/zenz_feedback_store.cc):*)
(* a sequence of records that is only appended to while typing, and what is *)
(* read from it.  A record is a whole reading, the coarse class of the      *)
(* context it was seen in, a whole correction and what became of it.  The   *)
(* escaping of the TSV lines, the legacy v1 lines and the read cache of the *)
(* file are left out; the weights of the scores are those of the code.      *)
EXTENDS Integers, Sequences, SequencesExt

Actions == {"accepted", "accepted_rollback", "rejected"}

\* The classes in which what was learned is shared, and the one that keeps
\* to itself; the remaining ones behave like one of these.
Classes == {"empty", "japanese_only", "sensitive_like"}

\* The four strings that make a rejection a hard one count as one.
Reasons == {"", "explicit_conversion_after_zenz",
            "space_revert_zenz_to_mozc", "auto_block_shadow_compare",
            "cancel_visible_zenz_to_composition",
            "predict_after_zenz", "hard_reject"}

kAcceptThreshold == 1
kAcceptedFeedbackWeight == 1000

IsHardRejectReason(reason) == reason = "hard_reject"

RejectWeightForReason(reason) ==
  CASE IsHardRejectReason(reason) -> 2000
    [] reason \in {"space_revert_zenz_to_mozc", "auto_block_shadow_compare"}
         -> 150
    [] reason = "predict_after_zenz" -> 200
    [] OTHER -> 400

(***************************************************************************)
(* What the records say of one reading, class and value, in their order.   *)
(***************************************************************************)
NoCounts == [accepted |-> 0, rejected |-> 0, autoBlockRejected |-> 0,
             positive |-> 0, negative |-> 0, hard |-> FALSE]

AddAccepted(c) ==
  [c EXCEPT !.accepted = @ + 1, !.positive = @ + kAcceptedFeedbackWeight]

\* Mutant: every acceptance is taken back at once.
RollbackAccepted_All(c) == [c EXCEPT !.accepted = 0, !.positive = 0]

RollbackAccepted(c) ==
  IF c.accepted <= 0 THEN c
  ELSE [c EXCEPT !.accepted = @ - 1,
                 !.positive = IF @ < kAcceptedFeedbackWeight THEN 0
                              ELSE @ - kAcceptedFeedbackWeight]

AddRejected(c, reason) ==
  [c EXCEPT !.rejected = @ + 1,
            !.negative = @ + RejectWeightForReason(reason),
            !.autoBlockRejected =
               IF IsHardRejectReason(reason) THEN @ ELSE @ + 1,
            !.hard = @ \/ IsHardRejectReason(reason)]

AddRecord(c, r) ==
  CASE r.action = "accepted" -> AddAccepted(c)
    [] r.action = "accepted_rollback" -> RollbackAccepted(c)
    [] r.action = "rejected" -> AddRejected(c, r.reason)

MergeCounts(c, d) ==
  [accepted |-> c.accepted + d.accepted,
   rejected |-> c.rejected + d.rejected,
   autoBlockRejected |-> c.autoBlockRejected + d.autoBlockRejected,
   positive |-> c.positive + d.positive,
   negative |-> c.negative + d.negative,
   hard |-> c.hard \/ d.hard]

SameEntry(r, key, class, value) ==
  r.key = key /\ r.class = class /\ r.value = value

\* counts[n] is what the first n records say.  Entries whose events cancel
\* out are dropped; they read as no entry.
LoadCounts(file, key, class, value) ==
  LET counts[n \in 0 .. Len(file)] ==
        IF n = 0 THEN NoCounts
        ELSE IF SameEntry(file[n], key, class, value)
             THEN AddRecord(counts[n - 1], file[n])
             ELSE counts[n - 1]
      c == counts[Len(file)]
  IN  IF c.accepted = 0 /\ c.rejected = 0 THEN NoCounts ELSE c

(***************************************************************************)
(* Which classes share their feedback.                                     *)
(***************************************************************************)
IsSensitiveFeedbackContextClass(class) == class = "sensitive_like"

IsCompatibleContextClass(requested, recorded) ==
  \/ requested = recorded
  \/ /\ ~IsSensitiveFeedbackContextClass(requested)
     /\ ~IsSensitiveFeedbackContextClass(recorded)

AggregatedCounts(file, key, class, value) ==
  LET compatible == {c \in Classes : IsCompatibleContextClass(class, c)}
      Merge(acc, c) == MergeCounts(acc, LoadCounts(file, key, c, value))
  IN  FoldLeft(Merge, NoCounts, SetToSeq(compatible))

(***************************************************************************)
(* The automatic block: a policy is the number of rejections and their     *)
(* share of the observations from which a value is no longer offered.      *)
(***************************************************************************)
PolicyEnabled(policy) ==
  policy.enabled /\ policy.minCount > 0 /\ policy.minPercentage > 0

IsAutoBlockedByPolicy(c, policy) ==
  LET percentage == IF policy.minPercentage > 100 THEN 100
                    ELSE policy.minPercentage
      observations == c.accepted + c.autoBlockRejected
  IN  /\ PolicyEnabled(policy)
      /\ c.autoBlockRejected >= policy.minCount
      /\ observations > 0
      /\ c.autoBlockRejected * 100 >= percentage * observations

IsRejectCountDominant(c) == c.autoBlockRejected > c.accepted

TotalScore(c) == c.positive - c.negative

BuildDecisionFromCounts(c) ==
  IF c.hard THEN "reject"
  ELSE IF c.accepted >= kAcceptThreshold /\ TotalScore(c) > 0 THEN "prefer"
  ELSE "neutral"

\* Excluded is that the reading is too short to be reused automatically.
Decide(file, key, class, value, policy, excluded) ==
  LET all == AggregatedCounts(file, key, class, value)
      exact == LoadCounts(file, key, class, value)
      plain == BuildDecisionFromCounts(all)
      settled == IF plain = "prefer" /\ IsRejectCountDominant(exact)
                 THEN "neutral" ELSE plain
  IN  IF all.hard THEN "reject"
      ELSE IF excluded THEN "neutral"
      ELSE IF IsAutoBlockedByPolicy(exact, policy) THEN "reject"
      ELSE settled

IsManuallyBlocked(file, key, class, value) ==
  \E c \in Classes : /\ IsCompatibleContextClass(class, c)
                     /\ LoadCounts(file, key, c, value).hard

\* The values offered in a normal conversion.
GetRankedCandidates(file, key, class, values, policy, excluded) ==
  {value \in values :
     LET all == AggregatedCounts(file, key, class, value)
         exact == LoadCounts(file, key, class, value)
     IN  /\ ~excluded
         /\ ~all.hard
         /\ ~IsAutoBlockedByPolicy(exact, policy)
         /\ ~IsRejectCountDominant(exact)
         /\ all.accepted >= kAcceptThreshold
         /\ TotalScore(all) > 0}

(***************************************************************************)
(* What changes the file.                                                  *)
(***************************************************************************)
Record(action, key, class, value, reason) ==
  [action |-> action, key |-> key, class |-> class, value |-> value,
   reason |-> reason]

\* The append of a record may fail, and says so.
AppendRecord(file, record, written) ==
  IF written THEN Append(file, record) ELSE file

(***************************************************************************)
(* What the readers of the file promise of any file.                       *)
(***************************************************************************)

\* Every reader of the file agrees: the values offered in a conversion
\* (GetRankedCandidates) are those a decision prefers (Decide).
RankedIffPreferred(file, key, class, values, policy, excluded) ==
  GetRankedCandidates(file, key, class, values, policy, excluded)
    = {value \in values :
         Decide(file, key, class, value, policy, excluded) = "prefer"}

\* A value blocked by hand stays blocked, whatever is accepted afterwards, in
\* every class that shares its feedback (IsManuallyBlocked, Decide).
ManualBlockWins(file, key, class, value, policy, excluded) ==
  IsManuallyBlocked(file, key, class, value)
    <=> Decide(file, key, class, value, policy, excluded) = "reject"
        /\ AggregatedCounts(file, key, class, value).hard
=============================================================================
