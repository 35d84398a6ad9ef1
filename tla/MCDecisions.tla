----------------------------- MODULE MCDecisions ------------------------------
(* A small instance of Decisions for TLC: one quote with a cheap slow offer    *)
(* and a dear fast one, asked for by price; rules that choose either or find   *)
(* nobody, because no offer has a score. Besides, a bulk run of two rows, and  *)
(* what is computed and not stored: sets of up to three rules, answers of three *)
(* offers and lists of recipients. A behaviour is of one part.                 *)
EXTENDS Decisions, Calculation, Bulk, RecipientList

CONSTANTS q1, u1, h1, h2

VARIABLE part

MCOffer(i, amount, eta) ==
    [id |-> i, amount |-> amount, eta |-> eta, eligible |-> TRUE, probability |-> None,
     score |-> None, risk |-> None, margin |-> None, currency |-> "RUB"]
MCOffersOf == [q \in Quotes |-> <<MCOffer(1, 200, 3), MCOffer(2, 300, 1)>>]
MCStrategyOf == [q \in Quotes |-> "cheapest"]
RulesWritten == {[priority |-> 1, enabled |-> TRUE, action |-> "cheapest"],
                 [priority |-> 2, enabled |-> TRUE, action |-> "fastest"],
                 [priority |-> 1, enabled |-> TRUE, action |-> "best_score"]}
KeysOfClients == {<<"client", 1>>, <<"auto", q1>>}
MCBody(rec, offer, mode, reason) == [rec |-> rec, offer |-> offer, mode |-> mode, reason |-> reason]
BodiesSent == {MCBody(1, 1, "manual", "corporate_policy"), MCBody(1, 2, "manual", "corporate_policy"),
             MCBody(1, 2, "auto", None), MCBody(1, 2, "auto", "auto_select_rule")}
MCSymmetry == Permutations({h1, h2})

Rule(action, conditions) == [action |-> action, conditions |-> conditions @@ NoConditions]
MCRules == {Rule("deny", [carrier |-> {"cdek"}]), Rule("deny", [weight |-> [min |-> 10, max |-> Unset]]),
            Rule("allow", [carrier |-> {"cdek"}]), Rule("allow", [carrier |-> {"pecom"}, to |-> {"msk"}]),
            Rule("allow", [types |-> {"cargo"}]), Rule("insure", [dangerous |-> TRUE]),
            Rule("insure", [value |-> [min |-> 5, max |-> 9, currency |-> "RUB"]])}
FactsAsked == [origin : {"spb"}, destination : {"msk", None}, grams : {9, 10}, type : {"cargo"},
            dangerous : BOOLEAN, value : {[minor |-> 5, currency |-> "RUB"], [minor |-> 5, currency |-> "USD"]}]
RowsOfThree == {{[id |-> i, priority |-> 4 - i] @@ row[i] : i \in DOMAIN row} :
                  row \in UNION {[I -> MCRules] : I \in SUBSET (1 .. 3)}}
MCKnown == {[amount |-> a, eta |-> e, eligible |-> y, probability |-> p, score |-> None, risk |-> r,
             margin |-> None, currency |-> "RUB"] :
                <<a, e, y, p, r>> \in
                     {<<a, e, TRUE, r[1], r[2]>> : a \in {100, 120, 300}, e \in {1, 3, None},
                                                  r \in {<<None, "high">>, <<80, None>>}}
                     \cup {<<100, 1, FALSE, None, None>>}}
OffersOfThree == {<<>>} \cup {[i \in 1 .. 3 |-> [id |-> i] @@ row[i]] : row \in [1 .. 3 -> MCKnown]}

(* Two counterparties share an INN, one has addresses in two cities. A quote   *)
(* that nobody closes is only in the lists of the last set.                    *)
MCAddress(id, city, line) == [id |-> id, city |-> city, line |-> line, live |-> TRUE]
MCParty(id, inn, name, addresses) ==
    [id |-> id, inn |-> inn, name |-> name, live |-> TRUE, addresses |-> addresses]
Parties == {MCParty(1, "77", "rose", {MCAddress(1, "msk", "a"), MCAddress(2, "tver", "b"),
                                     MCAddress(3, "tver", None)}),
           MCParty(2, "78", "rose", {MCAddress(4, "msk", None), MCAddress(5, "msk", "c")}),
           MCParty(3, "78", "lily", {MCAddress(6, "tver", "d")})}
Headings == [inn |-> "inn", company |-> "name", city |-> "city", address |-> "address_line",
              street |-> "street", house |-> "house", weight |-> "weight_kg"]

MCOpening == {"\"rose"}
MCLine(cells, by) == [cells |-> cells, by |-> by]
MCTable(headings, by) ==
    {<<MCLine(<<>>, by), MCLine(headings, by), MCLine(row, by), MCLine(<<>>, by), MCLine(next, by)>> :
        row, next \in {<<key, city, weight>> : key \in {"77", "78", "rose", "lily", "?", None},
                                             city \in {"msk", "tver", None}, weight \in {"5", "x", None}}}
MCLists == {<<MCLine(row, by), MCLine(next, "semicolon")>> :
               row, next \in {<<a, b, c>> : a, b, c \in {"msk", None}} \cup {<<"msk", "a">>, <<"msk">>, <<>>},
               by \in {"semicolon", "comma"}}
MCQuoted == {<<MCLine(<<"company", "city", "address">>, "comma"), MCLine(row, "comma"),
               MCLine(next, "comma"), MCLine(<<"lily", "tver", "d">>, "comma")>> :
                  row, next \in {<<name, city, "a">> : name \in {"rose", "\"rose"}, city \in {"msk", "tver"}}}
Lists == {<<>>} \cup MCTable(<<"inn", "city", "weight">>, "tab") \cup MCTable(<<"company", "city", "weight">>, "comma")
            \cup MCTable(<<"inn", "city", "street">>, "semicolon") \cup MCLists \cup MCQuoted

calculationVars == <<written, consigned, calculated>>
(* TLC evaluates a definition once, but not one that a constant is given.      *)
MCRuleSets == RowsOfThree
MCBodies == BodiesSent
MCRuleBodies == RulesWritten
MCClientKeys == KeysOfClients
MCFacts == FactsAsked
MCAnswers == OffersOfThree
MCSynonym == Headings
MCBook == Parties
MCSheets == Lists

NoConsignment == CHOOSE facts \in FactsAsked : TRUE
IdleRules == written = {} /\ consigned = NoConsignment
IdleOffers == calculated = <<>>
IdleList == upload = <<>>

MCInit ==
    /\ Init /\ BulkInit
    /\ \/ part \in {"decisions", "run"} /\ IdleRules /\ IdleOffers /\ IdleList
       \/ part = "rules" /\ IdleOffers /\ IdleList
       \/ part = "offers" /\ IdleRules /\ IdleList
       \/ part = "list" /\ IdleRules /\ IdleOffers
    /\ CalculationInit /\ ListInit
MCNext ==
    /\ \/ part = "decisions" /\ Next /\ UNCHANGED bulkVars
       \/ part = "run" /\ BulkNext /\ UNCHANGED vars
    /\ UNCHANGED <<part, calculationVars, upload>>
MCSpec == MCInit /\ [][MCNext]_<<vars, bulkVars, calculationVars, upload, part>>
=============================================================================
