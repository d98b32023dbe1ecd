\* A fair client and a user who stops.
SPECIFICATION FairSpec
CONSTANTS
  Alphabet <- Kana
  MaxLength = 2
  MaxTimers = 1
  MaxPolls = 2
  MaxUndo = 0
  MinKeyLength = 1
  ZenzMinKeyLength = 2
  UseLiveConversion = TRUE
  DelayLive = TRUE
  UseZenz = TRUE
  DelayZenz = TRUE
  DeferDisplay = TRUE
  ReuseFeedback = FALSE
  DeletePreceding = TRUE
PROPERTIES
  ComesToRest
