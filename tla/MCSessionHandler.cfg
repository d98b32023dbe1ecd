SPECIFICATION Spec
SYMMETRY Symmetry
CONSTANTS
  Nil = Nil
  Ids = {a, b, c}
  MaxSessions = 2
  Configs = {c1, c2}
  Requests = {r1}
  DefaultConfig = c1
  DefaultRequest = r1
  Interval = 1
  CreateTimeout = 1
  CommandTimeout = 2
  Timeout = 0
  MinCreateInterval = 1
  MaxTime = 2
  MaxReloads = 1
  MaxUndo = 1
CHECK_DEADLOCK FALSE
INVARIANTS TypeOK CacheIsLinked SettingsAreShared EngineIsShared IdleTimeIsKept
PROPERTY ImplementsTable
