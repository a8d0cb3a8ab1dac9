SPECIFICATION Spec
CONSTANTS
    t1 = t1
    THREADS = {t1}
    MARKER_FAILS = TRUE
    ATTEMPTS = 2
    MAX_ARMS = 3
INVARIANTS QuietUnmap MarkerHonest OwnsStream
