SPECIFICATION Spec
CONSTANTS
  MaxInputs = 2
  InputType <- TaskThenReplies
  Pods = {p1, p2}
  Handlers = {h1}
  ProcessedBound = 5
  RunHistory = 3
  SubSecondRuns = FALSE
  Outage = FALSE
  StaleCache = TRUE
  AutoClose = FALSE
  MaxRuns = 2
  MaxCloses = 0
  MaxReleases = 1
  MaxFaults = 1
INVARIANTS RecordedBeforePruned AnsweredNeverRerun AnsweredInOrder RunRecordedOnce RunningIsInflight
SYMMETRY PodSymmetry
CHECK_DEADLOCK FALSE
