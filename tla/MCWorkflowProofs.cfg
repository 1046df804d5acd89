SPECIFICATION BoundedSpec
CONSTANTS
  Runs = {1}
  Owners = {o}
  Workers = {w1, w2}
  Worktrees = {t}
  Keys = {p, q, x}
  Requests = {p, q, x}
  Stages <- MCStages
  Evidence <- MCEvidence
  Errors <- MCErrors
  None = None
  OwnerOf <- MCOwnerOf
  KeyOf <- MCKeyOf
  Repo <- MCRepo
  Fixes <- MCFixes
  Accepts <- MCAccepts
  Guarded = {1}
  Applicable <- MCApplicable
  SameFiles <- MCSameFiles
  LeaseTicks = 1
  MaxClock = 1
  p = p
  q = q
  x = x
INVARIANTS
  WorkflowInv
  FindingsInv
  DomainInv
VIEW Present
CHECK_DEADLOCK FALSE
