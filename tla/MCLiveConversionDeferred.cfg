\* The Mozc result is hidden until Zenz answers.
SPECIFICATION Spec
CONSTANTS
  Alphabet <- Kana
  MaxLength = 3
  MaxTimers = 1
  MaxPolls = 1
  MaxUndo = 1
  MinKeyLength = 1
  ZenzMinKeyLength = 1
  UseLiveConversion = TRUE
  DelayLive = TRUE
  UseZenz = TRUE
  DelayZenz = TRUE
  DeferDisplay = TRUE
  ReuseFeedback = FALSE
  DeletePreceding = TRUE
INVARIANTS
  CorrectionIsLive
PROPERTIES
  EnterStaysInStep
  UndoRestoresTheScreen
