SPECIFICATION MCSpec
CONSTANTS
    None = None
    Ships = {a, b}
    Docs = {d1, d2}
    Requests = {r1}
    Sweeps = {s1, s2}
    Cleanups = {c1}
INVARIANTS
    ReadyHasFile
PROPERTIES
    PendingEnds
    FilesExpire
CHECK_DEADLOCK FALSE
