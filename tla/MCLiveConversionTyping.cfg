\* Romaji rewritten in place, insertions before the end: the screen and Enter.
SPECIFICATION Spec
CONSTANTS
  Alphabet <- Romaji
  MaxLength = 2
  MaxTimers = 1
  MaxPolls = 1
  MaxUndo = 0
  MinKeyLength = 1
  ZenzMinKeyLength = 1
  UseLiveConversion = TRUE
  DelayLive = TRUE
  UseZenz = TRUE
  DelayZenz = TRUE
  DeferDisplay = FALSE
  ReuseFeedback = FALSE
  DeletePreceding = TRUE
INVARIANTS
  TypeOK
  ScreenSpellsTheReading
PROPERTIES
  EnterStaysInStep
