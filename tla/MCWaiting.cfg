SPECIFICATION FairSpec
CONSTANTS
  Runs = {1}
  Owners = {w1}
  Keys = {}
  Requests = {}
  Stages = {"queued"}
  Evidence = {}
  Errors = {}
  None = None
  LeaseTicks = 1
  MaxClock = 3
  MaxEvents = 6
PROPERTIES
  ExpiryRecovery
CHECK_DEADLOCK FALSE
