SPECIFICATION BoundedSpec
CONSTANTS
  Runs = {1}
  Owners = {o}
  Workers = {w1, w2}
  Worktrees = {t}
  Keys <- MCKeys
  Requests = {p}
  Stages <- MCStages
  Evidence <- MCEvidence
  Errors <- MCErrors
  None = None
  NameOf <- MCNameOf
  Repo <- MCRepoEach
  Fixes <- MCFixes
  Accepts <- MCAccepts
  Guarded = {1}
  Applicable <- MCApplicable
  SameFiles <- MCSameFiles
  LeaseTicks = 1
  MaxClock = 2
  p = p
  q = q
  no = no
  x = x
INVARIANTS
  InterruptedPatchReconciled
CHECK_DEADLOCK FALSE
