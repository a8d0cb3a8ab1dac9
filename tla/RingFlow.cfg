\* Flow-controlled producer; the worker may map the ring again twice.
CONSTANTS
    SLOTS = 3
    PREBUFFER = 1
    FREE_RUN = FALSE
    MAX_FRAMES = 7
    MAX_ATTACH = 2
SPECIFICATION FairSpec
INVARIANTS NoContention BacklogBound
PROPERTIES Delivered KeepsMixing
