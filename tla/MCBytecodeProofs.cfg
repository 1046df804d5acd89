SPECIFICATION BoundedSpec
CONSTANTS
  Workers = {w1, w2}
  Tests = {t1, t2, t3}
  SizeKept = TRUE
  LeaseSeconds = 1
  None = None
  MaxSecond = 3
SYMMETRY WorkerSymmetry
INVARIANTS
  BytecodeInv
CHECK_DEADLOCK FALSE
