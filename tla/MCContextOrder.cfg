SPECIFICATION Spec
CONSTANTS
  Files = {1, 2, 3}
  Checkouts <- MCCheckouts
  Withheld = {{}}
  Calls = {first, second}
  None = None
  MaxFiles = 2
  MaxBytes = 3
  MaxTrace = 1
INVARIANTS
  Reproducible
CHECK_DEADLOCK FALSE
