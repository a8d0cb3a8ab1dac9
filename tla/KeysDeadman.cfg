SPECIFICATION Spec
CONSTANTS
    CODES = {"ShiftLeft"}
    COMMANDS = {"stop"}
    SLOTS = 2
    DEADMAN = 2
    TIMEOUT = 1
    DOUBLE_TAP = 0
    PASS = 1
    QUEUE = 1
PROPERTIES DeadmanOnlyWhenSilent
