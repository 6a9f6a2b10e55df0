SPECIFICATION Spec
CONSTANTS
  Convs = {1, 2, 3}
  Coordinators = {1, 2}
  Entries = {e1}
  Callers = {r1, r2}
  MaxAgents = 1
  MaxReopens = 1
  MaxDeletes = 1
  MaxCloses = 2
  MaxFaults = 1
SYMMETRY CallerSymmetry
INVARIANTS NoOrphans WithinBudget
CHECK_DEADLOCK FALSE
