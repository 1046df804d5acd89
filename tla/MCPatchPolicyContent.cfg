SPECIFICATION Spec
CONSTANTS
  Paths = {"pkg/a.py", "pkg/b.py", "tests/t.py"}
  Protected = {"tests/t.py"}
  Lines <- MCLines
  Candidates <- MCCandidates
  DevNull = DevNull
  Invalid = Invalid
  MaxFiles = 1
  MaxSize = 4
  MaxLines = 4
INVARIANTS
  ActualPathsDecide
CHECK_DEADLOCK FALSE
