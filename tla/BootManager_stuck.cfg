SPECIFICATION Spec
CONSTANTS
  MAX_RETRIES = 1
  MaxQueue = 1
  POLLS = 2
  MaxTimers = 0
  Faults = {}
  Prompt = TRUE
INVARIANTS
  NoAttemptNoConnecting
CHECK_DEADLOCK FALSE
