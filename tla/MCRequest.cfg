SPECIFICATION BoundedSpec
CONSTANTS
  Files = {1, 2, 3}
  Checkouts <- RequestCheckouts
  Withheld = {{}, {1}, {2}}
  Patched <- MCPatched
  Answers <- MCAnswers
  MaxOutput = 1
  Calls = {once}
  None = None
  MaxFiles = 2
  MaxBytes = 3
  MaxTrace = 2
INVARIANTS
  ContextBounded
  TruncatedMeansLeftOut
  QuietSelectionFull
  QuietFailingFirst
  EvidenceNamesRequest
CHECK_DEADLOCK FALSE
