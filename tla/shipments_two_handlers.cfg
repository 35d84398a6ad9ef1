SPECIFICATION MCSpec
CONSTANTS
    k1 = k1
    k2 = k2
    d1 = d1
    d2 = d2
    n1 = n1
    None = None
    Keys = {k1, k2}
    Decisions = {d1, d2}
    ClientNumbers = {n1}
    Requests <- SameNumber
    OrderIds = {o1,o2}
    Handlers = {h1,h2}
    Sweepers = {s1}
    Polls = {p1}
    Hooks = {t1}
    MaxAttempts = 2
    ReconcileLimit = 100
INVARIANTS
    NoOrderWithoutRow
    UnconfirmedIsDraft
    PolledUntilTheEnd
PROPERTY LedgerKept
SYMMETRY Symmetric
CHECK_DEADLOCK FALSE
