SPECIFICATION FairSpec
CONSTANTS
  Runs = {1, 2}
  Workers = {w1, w2}
  Gone = {1}
  MaxCandidates = 0
  None = None
PROPERTIES
  EveryRunSettled
CHECK_DEADLOCK FALSE
