SPECIFICATION Spec
CONSTANTS
  Files = {f1, f2}
  Polls = {p1, p2}
  Reports = {d1, d2}
  Retain = 2
  MaxRuns = 2
  MaxPods = 2
  MaxFaults = 1
INVARIANTS RecordedIsKept RunsContinue BoundaryIsWhole
PROPERTIES EndKeepsWork
SYMMETRY RequestSymmetry
CHECK_DEADLOCK FALSE
