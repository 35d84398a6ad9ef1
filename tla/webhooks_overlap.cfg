SPECIFICATION Spec
CONSTANTS
    t1 = t1
    t2 = t2
    s1 = s1
    s2 = s2
    d1 = d1
    d2 = d2
    d3 = d3
    None = None
    Tenants <- OneTenant
    Subscriptions = {s1}
    Deliveries = {d1, d2}
    TenantOf <- OwnOne
    SubOf <- Together
    Answers <- AnyAnswer
    Runs = {r1, r2}
    MaxAttempts = 2
    Patience = 1
    Cap = 3
INVARIANTS
    LeftForAReason
    BooksAreTrue
SYMMETRY SymmetricRuns
CHECK_DEADLOCK FALSE
