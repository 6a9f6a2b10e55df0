SPECIFICATION FairSpec
CONSTANTS
  MaxConvs = 3
  Cap = 1
  StaleCache = TRUE
  Stuck = {1}
  MaxMessages = 3
  MaxCloses = 1
INVARIANTS FirstComeFirstServed
PROPERTIES EveryoneIsServed
CHECK_DEADLOCK FALSE
