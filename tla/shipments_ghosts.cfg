SPECIFICATION FairSpec
CONSTANTS
    k1 = k1
    k2 = k2
    d1 = d1
    d2 = d2
    n1 = n1
    None = None
    Keys = {k1, k2}
    Decisions = {d1, d2}
    ClientNumbers = {n1}
    Requests <- TwoRequests
    OrderIds = {o1}
    Handlers = {h1}
    Sweepers = {s1}
    Polls = {}
    Hooks = {}
    MaxAttempts = 1
    ReconcileLimit = 100
INVARIANT LinkedOrderIsOwn
PROPERTY GhostResolved
CHECK_DEADLOCK FALSE
