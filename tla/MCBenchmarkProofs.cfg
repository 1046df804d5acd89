SPECIFICATION BoundedSpec
CONSTANTS
  Runs = {1, 2}
  Owners = {o}
  Workers = {d}
  Driver = d
  Worktrees = {1, 2}
  Keys <- MCKeys
  Requests = {p, q, x}
  Stages <- MCStages
  Evidence <- MCEvidence
  Errors <- MCErrors
  None = None
  NameOf <- MCNameOf
  Repo <- MCRepo
  Fixes <- MCFixes
  Accepts <- MCAccepts
  Guarded = {1, 2}
  Applicable = {p, q}
  SameFiles <- MCSameFiles
  CasePatch <- MCCasePatch
  First = q
  Second = p
  LeaseTicks = 1
  MaxClock = 3
  p = p
  q = q
  x = x
INVARIANTS
  PipelineInv
  SuiteInv
CHECK_DEADLOCK FALSE
