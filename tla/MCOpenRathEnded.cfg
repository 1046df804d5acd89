SPECIFICATION CalmSpec
CONSTANTS
  Runs = {1}
  Owners = {o}
  Workers = {w1}
  Worktrees = {t}
  Keys = {x}
  Requests = {x}
  Stages <- MCStages
  Evidence <- MCEvidence
  Errors <- MCErrors
  None = None
  OwnerOf <- MCOwnerOf
  KeyOf <- MCKeyOf
  Repo <- MCRepo
  Fixes <- MCFixes
  Accepts <- MCAccepts
  Guarded = {1}
  Applicable <- MCApplicable
  SameFiles <- MCSameFiles
  LeaseTicks = 1
  MaxClock = 0
  p = p
  q = q
  x = x
INVARIANTS
  EndedTogether
CHECK_DEADLOCK FALSE
