SPECIFICATION Spec
CONSTANTS
    CODES = {"ShiftLeft", "ShiftRight", "ArrowUp"}
    COMMANDS = {"stop", "up"}
    SLOTS = 2
    DEADMAN = 1
    TIMEOUT = 1
    DOUBLE_TAP = 0
    PASS = 1
    QUEUE = 2
INVARIANTS HeldReaches Guarded
PROPERTIES AllReleased
