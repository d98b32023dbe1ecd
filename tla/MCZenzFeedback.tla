--------------------------- MODULE MCZenzFeedback ---------------------------
\* Small instances of ZenzFeedback.
EXTENDS ZenzFeedback

CONSTANTS r1, r2, v1, v2

On == {TRUE}
NewFile == {<<>>}

Symmetry == Permutations({r1, r2}) \cup Permutations({v1, v2})

\* Every file of up to three records of one value, in every class.
SmallRecords ==
  {Record(action, r1, class, v1, "") :
     action \in {"accepted", "accepted_rollback"}, class \in Classes}
  \cup {Record("rejected", r1, class, v1, reason) :
     class \in Classes, reason \in {"space_revert_zenz_to_mozc", "hard_reject"}}

SmallFiles == UNION {[1..n -> SmallRecords] : n \in 0..3}

Policies == {[enabled |-> e, minCount |-> 1, minPercentage |-> 60] :
               e \in BOOLEAN}

ASSUME ReadersAgree ==
  \A file \in SmallFiles, class \in Classes, policy \in Policies,
     excluded \in BOOLEAN :
    /\ RankedIffPreferred(file, r1, class, {v1}, policy, excluded)
    /\ ManualBlockWins(file, r1, class, v1, policy, excluded)
=============================================================================
