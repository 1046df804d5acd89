SPECIFICATION BoundedSpec
CONSTANTS
  Runs = {1}
  Owners = {w1, w2}
  Keys = {k}
  Requests = {q1, q2}
  Stages = {"queued", "verify"}
  Evidence = {e1}
  Errors = {}
  None = None
  Reports = {page}
  LeaseTicks = 1
  MaxClock = 2
  MaxEvents = 6
  MaxShown = 4
SYMMETRY OwnerSymmetry
INVARIANTS
  ReportTypeOK
  EndedReportIsFinal
  TimelineReachesRow
  LatestCheckpointIsLatest
  TypeOK
  LeaseWellFormed
  AuditExplainsRun
  OneHolderPerToken
  FencedWrites
  AuditExplainsEffect
  TokenOrder
PROPERTIES
  TerminalFrozen
  NoPrematureTakeover
  EffectsFollowContract
CHECK_DEADLOCK FALSE
