SPECIFICATION FairSpec
CONSTANTS
  MaxInputs = 2
  InputType <- TaskThenReplies
  Pods = {p1}
  Handlers = {h1}
  ProcessedBound = 5
  RunHistory = 1
  SubSecondRuns = FALSE
  Outage = FALSE
  StaleCache = FALSE
  AutoClose = TRUE
  MaxRuns = 5
  MaxCloses = 1
  MaxReleases = 0
  MaxFaults = 1
PROPERTIES EveryInputSettles PhaseSettles ClosedLetsGo ReportKeepsClosed
CHECK_DEADLOCK FALSE
