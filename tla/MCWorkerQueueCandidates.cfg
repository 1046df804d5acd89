SPECIFICATION Spec
CONSTANTS
  Runs = {1}
  Workers = {w1, w2}
  Gone = {}
  MaxCandidates = 3
  None = None
INVARIANTS
  CandidatesBounded
CHECK_DEADLOCK FALSE
