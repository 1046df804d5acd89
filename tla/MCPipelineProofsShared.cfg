SPECIFICATION BoundedSpec
CONSTANTS
  Runs = {1, 2}
  Owners = {o}
  Workers = {w1, w2}
  Worktrees = {t}
  Keys <- MCKeys
  Requests = {p, no}
  Stages <- MCStages
  Evidence <- MCEvidence
  Errors <- MCErrors
  None = None
  NameOf <- MCNameOf
  Repo <- MCRepoEach
  Fixes <- MCFixes
  Accepts <- MCAccepts
  Guarded = {1}
  Applicable <- MCApplicable
  SameFiles <- MCSameFiles
  LeaseTicks = 1
  MaxClock = 1
  p = p
  q = q
  no = no
  x = x
INVARIANTS
  PipelineInv
CHECK_DEADLOCK FALSE
