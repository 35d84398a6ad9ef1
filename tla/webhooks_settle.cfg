SPECIFICATION FairSpec
CONSTANTS
    t1 = t1
    t2 = t2
    s1 = s1
    s2 = s2
    d1 = d1
    d2 = d2
    d3 = d3
    None = None
    Tenants <- TwoTenants
    Subscriptions = {s1, s2}
    Deliveries = {d1, d2}
    TenantOf <- OwnTwo
    SubOf <- Apart
    Answers <- AnyAnswer
    Runs = {r1, r2}
    MaxAttempts = 2
    Patience = 2
    Cap = 1
PROPERTY EventuallySettled
CHECK_DEADLOCK FALSE
