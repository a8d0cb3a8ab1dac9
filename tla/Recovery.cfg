SPECIFICATION Spec
CONSTANTS
    SITES = {"ptz", "audio"}
    PROMPT = TRUE
    MAX_FAULTS = 1
INVARIANTS UnloadSafe RecordHonest
PROPERTIES Restores
CHECK_DEADLOCK FALSE
