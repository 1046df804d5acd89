SPECIFICATION Spec
CONSTANTS
  Paths = {"pkg/a.py", "pkg/b.py", "tests/t.py"}
  Protected = {"tests/t.py"}
  Lines <- MCLines
  Candidates <- MCCandidates
  DevNull = DevNull
  Invalid = Invalid
  MaxFiles = 1
  MaxSize = 3
  MaxLines = 4
INVARIANTS
  AcceptedPathsDeclared
  PlainPatchInspected
CHECK_DEADLOCK FALSE
