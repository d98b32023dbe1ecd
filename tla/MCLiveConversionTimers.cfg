\* A client that keeps two callbacks and fires them in any order; two undos.
SPECIFICATION Spec
CONSTANTS
  Alphabet <- Kana
  MaxLength = 2
  MaxTimers = 2
  MaxPolls = 2
  MaxUndo = 2
  MinKeyLength = 1
  ZenzMinKeyLength = 1
  UseLiveConversion = TRUE
  DelayLive = TRUE
  UseZenz = TRUE
  DelayZenz = TRUE
  DeferDisplay = FALSE
  ReuseFeedback = TRUE
  DeletePreceding = TRUE
INVARIANTS
  AwaitedCallbackIsOutstanding
  QuestionIsWaitedFor
PROPERTIES
  StaleCallbackChangesNothing
  OnlyCorrectionsEscapeUndo
  UndoRestoresTheScreen
