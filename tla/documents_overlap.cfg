SPECIFICATION MCSpec
CONSTANTS
    None = None
    Ships = {a}
    Docs = {d1}
    Requests = {r1}
    Sweeps = {s1, s2}
    Cleanups = {c1}
PROPERTY NoFileIsKept
CHECK_DEADLOCK FALSE
