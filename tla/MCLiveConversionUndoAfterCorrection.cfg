\* Against session.cc:8383: what Undo deletes.
SPECIFICATION Spec
CONSTANTS
  Alphabet <- Kana
  MaxLength = 3
  MaxTimers = 1
  MaxPolls = 1
  MaxUndo = 2
  MinKeyLength = 1
  ZenzMinKeyLength = 1
  UseLiveConversion = TRUE
  DelayLive = TRUE
  UseZenz = TRUE
  DelayZenz = TRUE
  DeferDisplay = FALSE
  ReuseFeedback = FALSE
  DeletePreceding = TRUE
INVARIANTS
  UndoIsExact
