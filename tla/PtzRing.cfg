SPECIFICATION Spec
CONSTANTS
    t1 = t1
    t2 = t2
    f1 = f1
    f2 = f2
    THREADS = {t1, t2}
    SIZE = 2
    FIELDS = {f1, f2}
    MAX_CALLS = 4
INVARIANTS EventWhole
PROPERTIES InOrder LostOnlyWhenLapped NoneForgotten
