SPECIFICATION Spec
CONSTANTS
  Keys = {k, j, p}
  Commands = {s}
  Poison = {p}
  None = None
  MaxHistory = 3
  MaxFaults = 2
INVARIANTS TypeOK SecondTrialContinues PoisonIsForgotten
PROPERTY CallReturns
