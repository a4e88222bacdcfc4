SPECIFICATION Spec
CONSTANTS
  THRESHOLD = 4
  MAX_COUNT = 6
  WINDOW_MS = 20
  TimeModulus = 1000
  FirstCallTimes = {3}
  SecondCallTimes = {8}
  MaxBoots = 8
INVARIANTS
  TriggerNeedsThresholdBoots
