SPECIFICATION FairSpec
CONSTANTS
    None = None
    cdek = cdek
    pochta = pochta
    kazan = kazan
    a1 = a1
    a2 = a2
    Accounts = {a1, a2}
    CarrierOf <- MCCarrierOf
    Unreadable = {a2}
    Uninsured = {pochta}
    Cities = {kazan}
    Payloads <- MCPayloads
    Policies = {"open", "strict"}
    Denied <- MCDenied
    Insuring <- MCInsuring
    Requests = {h1}
    MaxQuotes = 2
    MaxChanges = 2
INVARIANTS
    AnswerObeysPolicy
    NobodyDisappears
PROPERTY RequestEnds
CHECK_DEADLOCK FALSE
