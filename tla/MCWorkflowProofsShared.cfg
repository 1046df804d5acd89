SPECIFICATION BoundedSpec
CONSTANTS
  Runs = {1, 2}
  Owners = {o}
  Workers = {w1, w2}
  Worktrees = {t}
  Keys = {p}
  Requests = {p}
  Stages <- MCStages
  Evidence <- MCEvidence
  Errors <- MCErrors
  None = None
  OwnerOf <- MCOwnerOf
  KeyOf <- MCKeyOf
  Repo <- MCRepo
  Fixes <- MCFixes
  Accepts <- MCAccepts
  Guarded = {1}
  Applicable <- MCApplicable
  SameFiles <- MCSameFiles
  LeaseTicks = 1
  MaxClock = 0
  p = p
  q = q
  x = x
INVARIANTS
  WorkflowInv
VIEW Present
CHECK_DEADLOCK FALSE
