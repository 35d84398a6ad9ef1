SPECIFICATION Spec
CONSTANTS
    k1 = k1
    k2 = k2
    d1 = d1
    d2 = d2
    n1 = n1
    None = None
    Keys = {k1}
    Decisions = {d1, d2}
    ClientNumbers = {}
    Requests <- OneRequest
    OrderIds = {o1, o2}
    Handlers = {h1}
    Sweepers = {}
    Polls = {}
    Hooks = {}
    MaxAttempts = 3
    ReconcileLimit = 100
INVARIANT OneOrderPerShipment
CHECK_DEADLOCK FALSE
