SPECIFICATION FairSpec
CONSTANTS
    t1 = t1
    t2 = t2
    s1 = s1
    s2 = s2
    d1 = d1
    d2 = d2
    d3 = d3
    None = None
    Tenants <- TwoTenants
    Subscriptions = {s1, s2}
    Deliveries = {d1, d2, d3}
    TenantOf <- OwnTwo
    SubOf <- Unequal
    Answers <- OneSilent
    Runs = {r1}
    MaxAttempts = 5
    Patience = 1
    Cap = 1
PROPERTY OthersAreServed
CHECK_DEADLOCK FALSE
