SPECIFICATION CrashingSpec
CONSTANTS
  Runs = {1}
  Owners = {o}
  Workers = {w1}
  Worktrees = {t}
  Keys = {p}
  Requests = {p}
  Stages <- MCStages
  Evidence <- MCEvidence
  Errors <- MCErrors
  None = None
  OwnerOf <- MCOwnerOf
  KeyOf <- MCKeyOf
  Repo <- MCRepo
  Fixes <- MCFixes
  Accepts <- MCAccepts
  Guarded = {1}
  Applicable <- MCApplicable
  SameFiles <- MCSameFiles
  LeaseTicks = 1
  MaxClock = 0
  p = p
  q = q
  x = x
INVARIANTS
  StoredSuccessReported
CHECK_DEADLOCK FALSE
