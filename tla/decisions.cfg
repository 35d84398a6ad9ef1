SPECIFICATION MCSpec
CONSTANTS
    None = None
    Unset = Unset
    q1 = q1
    u1 = u1
    h1 = h1
    h2 = h2
    RuleIds = {1, 2}
    RuleBodies <- MCRuleBodies
    Quotes = {q1}
    OffersOf <- MCOffersOf
    StrategyOf <- MCStrategyOf
    Asked = {"cheapest", "fastest"}
    ClientKeys <- MCClientKeys
    Actors = {u1, None}
    Bodies <- MCBodies
    Handlers = {h1, h2}
    MaxRecs = 2
    MaxEdits = 2
    Nil = Nil
    Positions = {1, 2}
    RowQuotes = {1, 2}
    Callers = {h1, h2}
    MaxRequests = 5
    RuleSets <- MCRuleSets
    Consignments <- MCFacts
    Companies = {"cdek", "pecom"}
    Answers <- MCAnswers
    Synonym <- MCSynonym
    Numbers = {"5"}
    Inns = {"77", "78"}
    Opening <- MCOpening
    Joined = "..."
    Missing = None
    Book <- MCBook
    Sheets <- MCSheets
SYMMETRY MCSymmetry
INVARIANTS
    AutoIsReproducible
    OneAutoPerQuote
    AnswerMatchesBody
    PolicyIsStrict
    NobodyBetterIsPassedOver
    NothingTwice
    RowBelongsTogether
    RunTellsTheTruth
    OneIsMeant
CHECK_DEADLOCK FALSE
