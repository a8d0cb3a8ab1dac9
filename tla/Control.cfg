CONSTANTS
  SECRET <- ShortSecret
  TAPS = 3
  GAP = 1
  TOTAL = 3
  HOLD = 2
  COMMANDS = {0, 3, 4}
  MAX_TIME = 4
  MAX_EVENTS = 6
  MAX_REQUESTS = 1
SPECIFICATION Spec
INVARIANTS OneTransition MeltBehindMode CleanRecogniser TimesPast
PROPERTY OnlyGestures
