SPECIFICATION Spec
CONSTANTS
    palette = palette
    points = points
    CELLS = {palette, points}
    MAX_FRAMES = 3
    COLUMNS = 2
    ROWS = 2
    DELAY = 1
    KNEE = 1
    FAST = 1
    RATE = 35
    SECOND = 1000
    MAX_TICKS = 200
    TICKS = {1}
    ATTEMPTS = 2
    MAX_SESSIONS = 2
INVARIANTS GameUntorn PathHasMemory ExitedClean CameraClear
PROPERTIES NeverBack MeltEnds
