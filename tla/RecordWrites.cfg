SPECIFICATION Spec
CONSTANTS
  Writers = {w1, w2, w3}
  Runs = {r1, r2}
  SpecWriters = {w1}
  MutateAttempts = 2
  StatusAttempts = 2
INVARIANTS WrittenIsKept AppendedIsKept
PROPERTY ImplementsAtomicRecord
CHECK_DEADLOCK FALSE
