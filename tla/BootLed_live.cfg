SPECIFICATION LedSpec
CONSTANTS
  MAX_RETRIES = 1
  MaxQueue = 1
  POLLS = 1
  MaxTimers = 0
  Faults = {}
  Prompt = FALSE
INVARIANTS
  ProvisioningKeepsAp
PROPERTIES
  FirstAttemptEnds
  HttpServesAgain
  LedFollowsPhase
CHECK_DEADLOCK FALSE
