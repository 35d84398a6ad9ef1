SPECIFICATION MCSpec
CONSTANTS
    c1 = c1
    c2 = c2
    None = None
    Nil = Nil
    NoAccount = NoAccount
    Credentials = {"a", "b", "c"}
    Readable = {"a", "b"}
    Sessions = {c1, c2}
    MaxEntries = 3
    Calls = {c1, c2}
    Clients = {1}
    ClientOf <- MCClientOf
    Kinds <- MCKinds
    Lenient = {c1}
    MaxAttempts = 2
    Threshold = 2
    Cooldown = 1
    MaxClock = 1
    MaxTokens = 2
    Carriers <- MCCarriersOfOrders
    Numbers = {"1", "10"}
    Containing <- MCContaining
    Request <- MCRequest
    Adapters = {"cdek", "pochta", "dellin", "pecom", "major"}
    Known <- MCKnown
    Defaults <- MCDefaults
    Wishes <- MCWishes
    Totals <- MCTotals
    Unpriced = Unpriced
    Day = 2
    Offset = 1
    Window = 1
    MaxTime = 3
    MaxOrders = 2
INVARIANTS
    RepeatsAreBounded
    KeepsItsOwn
    AnswerIsWhole
    CompleteAccountIsAsked
    VerdictIsOfItsCredentials
PROPERTY SearchIsReliable
CHECK_DEADLOCK FALSE
