SPECIFICATION FairSpec
CONSTANTS
  Convs = {c1, c2}
  Threshold = 2
  DegradeAfter = 3
  StaleCache = TRUE
  MaxTrouble = 1
  MaxMessages = 3
  MaxOutages = 1
  MaxLosses = 1
PROPERTIES AnsweredOrHeld HeldWorkRetried
CHECK_DEADLOCK FALSE
