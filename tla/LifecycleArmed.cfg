CONSTANTS
  MAX_REQUESTS = 2
  MAX_GESTURES = 0
  FAULTS = {}
  MAX_FAULTS = 0
SPECIFICATION Spec
INVARIANTS RemainsArmed
