\* Free-running producer: it laps the callback.
CONSTANTS
    SLOTS = 3
    PREBUFFER = 1
    FREE_RUN = TRUE
    MAX_FRAMES = 7
    MAX_ATTACH = 1
SPECIFICATION Spec
INVARIANTS UntornRead SkipsOnlyOverwritten
PROPERTIES StreamSpec
