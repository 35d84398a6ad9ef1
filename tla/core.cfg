SPECIFICATION MCSpec
CONSTANTS
    t1 = t1
    t2 = t2
    c1 = c1
    c2 = c2
    r1 = r1
    r2 = r2
    None = None
    Null = Null
    NoValue = NoValue
    Counterparties = {1, 2}
    Addresses = {1, 2}
    Transactions = {r1, r2}
    Keys = {"inn"}
    Fields <- MCFields
    MaxOperations = 5
    City <- MCCity
    Similarity <- MCSimilarity
    Likes <- MCLikes
    Catalogs <- MCCatalogs
    Branches <- MCBranches
    Desks = {r1, r2}
    MaxTransactions = 3
    Missing = Missing
    Sessions = {1, 2, 3}
    Secrets = {1, 2}
    MaxStep = 3
    Drift = 1
    Tenants = {t1, t2}
    Clients = {t1, t2}
    Carriers = {"cdek"}
    Outcomes <- MCOutcomes
    Weights <- MCWeights
    Confident <- MCConfident
    PriorWeight = 2
    MinSample = 2
    MinEvents = 3
    MinTenants = 2
    MinPlatform = 2
    Period = 0
    MaxDay = 1
    MaxFinished = 3
    Unknown = Unknown
    Connections = {c1, c2}
    Requests = {r1, r2}
INVARIANTS
    CodeWorksOnce
    OwnRowsOnly
    BookIsConsistent
    QuotedCityIsShipped
    NetworkIsAsReported
    GoodDeliveryNeverLowers
    BaselineIsAnonymous
SYMMETRY Symmetry
CHECK_DEADLOCK FALSE
