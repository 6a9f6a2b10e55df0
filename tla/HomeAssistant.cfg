SPECIFICATION FairSpec
CONSTANTS
  Keys = {1, 2}
  Deferred = {2}
  MaxTime = 4
  MaxFaults = 1
INVARIANTS ReportedOnce
PROPERTIES EveryRecordIsTaken
CHECK_DEADLOCK FALSE
