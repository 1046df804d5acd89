SPECIFICATION BoundedSpec
CONSTANTS
  Runs = {1, 2}
  Owners = {o}
  Workers = {w1, w2}
  Worktrees = {t}
  Keys <- MCKeys
  Requests = {p, no}
  Stages <- MCStages
  Evidence <- MCEvidence
  Errors <- MCErrors
  None = None
  NameOf <- MCNameOf
  Repo <- MCRepoEach
  Fixes <- MCFixes
  Accepts <- MCAccepts
  Guarded = {}
  Applicable <- MCApplicable
  SameFiles <- MCSameFiles
  LeaseTicks = 1
  MaxClock = 0
  p = p
  q = q
  no = no
  x = x
INVARIANTS
  SuccessIsItsOwn
CHECK_DEADLOCK FALSE
