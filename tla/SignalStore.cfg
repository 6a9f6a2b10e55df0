SPECIFICATION FairSpec
CONSTANTS
  Handlers = {h1, h2}
  MaxSends = 2
  MaxIdentities = 2
  Attempts = 2
  MaxFaults = 1
PROPERTIES OnlyReleaseTakesLive StoredIsConsumed FinishedIsRemoved
CHECK_DEADLOCK FALSE
