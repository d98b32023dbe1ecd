SPECIFICATION Spec
CONSTANTS
  r1 = r1
  r2 = r2
  v1 = v1
  v2 = v2
  None = None
  Suffixed = Suffixed
  Readings = {r1, r2}
  Values = {v1, v2}
  Recording <- On
  Learning <- On
  Earlier <- NewFile
  MaxCommits = 2
SYMMETRY Symmetry
INVARIANT TypeOK
INVARIANT OneEventPerDecision
INVARIANT RollbackFollowsItsAcceptance
INVARIANT CountsAreDecisions
INVARIANT RejectedIsAnotherText
PROPERTY PrivateWritesNothing
