SPECIFICATION FairSpec
CONSTANTS
  Handlers = {1, 2}
  MaxTurns = 3
  ProcessedKept = 2
  MaxMessages = 1
  MaxResults = 1
  MaxRuns = 3
  MaxFaults = 1
INVARIANTS TurnsAreJudged BudgetEnds TakenInOnce
PROPERTIES ResultsReach
CHECK_DEADLOCK FALSE
