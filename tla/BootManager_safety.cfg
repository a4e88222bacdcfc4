SPECIFICATION Spec
CONSTANTS
  MAX_RETRIES = 1
  MaxQueue = 1
  POLLS = 2
  MaxTimers = 1
  Faults = {"wifi_init", "nvs", "http", "portal", "dns", "set_boot"}
  Prompt = FALSE
INVARIANTS
  TypeOK
  HasIpIsCurrent
  OneAttempt
  ConnectingIsDriven
  ProvisioningIsServed
CHECK_DEADLOCK FALSE
