------------------------------- MODULE MCCore -------------------------------
(* The second factor, the isolation of tenants, the address book, the      *)
(* directories and the carrier score, which share no state: a behaviour    *)
(* runs one of them. Two namesakes lie in two regions, one of them has a    *)
(* parent, and the carrier answers with whole and cut catalogs.            *)
EXTENDS Integers, TLC, SecondFactor, Access, AddressBook, Directory, CarrierScore

CONSTANTS t1, t2, c1, c2, r1, r2

VARIABLE part

Row(code, region, fias, kladr) ==
    [code |-> code, name |-> IF code = "B" THEN "Rostow" ELSE "Rostov",
     region |-> region, fias |-> fias, kladr |-> kladr]
Catalog(cities, shown, complete) == [cities |-> cities, terminals |-> shown, complete |-> complete]
Warehouse(id, order) == [id |-> id, order |-> order]
Division(kind, warehouses) == [kind |-> kind, warehouses |-> warehouses]
Branch(divisions) == [cities |-> <<[title |-> "Rostow", divisions |-> {"office", "point"}]>>, divisions |-> divisions]
MCFields == {[city |-> TRUE, house |-> TRUE, foreign |-> FALSE], [city |-> TRUE, house |-> FALSE, foreign |-> FALSE],
             [city |-> FALSE, house |-> TRUE, foreign |-> FALSE]}

MCCity == [big |-> [name |-> "Rostov", region |-> "Don", kladr |-> "61", parent |-> Missing, population |-> 2],
           small |-> [name |-> "Rostov", region |-> "Yar", kladr |-> "76", parent |-> "big", population |-> 1]]
MCLikes == {"Rostov", "Rostow"} \X {"Rostov"}
MCSimilarity == [pair \in MCLikes |-> IF pair[1] = pair[2] THEN 1000 ELSE 940]
MCCatalogs == {Catalog(<<Row("A", Missing, Missing, Missing), Row("B", "Yar", Missing, Missing)>>, {"t"}, TRUE),
               Catalog(<<Row("C", "Yar", Missing, Missing), Row("A", Missing, "big", Missing)>>, {}, FALSE),
               Catalog(<<Row("A", Missing, Missing, "76")>>, {}, TRUE)}
MCBranches == {<<Branch([office |-> Division(4, {Warehouse("o", 2)}), point |-> Division(1, {Warehouse("p", 1)})])>>,
               <<Branch([office |-> Division(4, {}), point |-> Division(1, {Warehouse("p", 1)})])>>}

Outcome(status, met, incident, events, cost) ==
    [status |-> status, met |-> met, incident |-> incident, events |-> events, cost |-> cost]
MCOutcomes == {Outcome("delivered", TRUE, FALSE, 3, 100), Outcome("delivered", Unknown, FALSE, 2, 200),
               Outcome("returned", FALSE, TRUE, 0, Unknown)}
MCWeights == [on_time |-> 35, reliability |-> 20, incident_free |-> 20, price_index |-> 15, data_quality |-> 10]
MCConfident == [medium |-> 3, high |-> 4]

Symmetry == Permutations({t1, t2}) \cup Permutations({c1, c2}) \cup Permutations({r1, r2})

MCInit ==
    /\ part \in {"factor", "access", "book", "directory", "score"}
    /\ MfaInit /\ Init /\ BookInit /\ DirectoryInit /\ ScoreInit

MCNext ==
    /\ UNCHANGED part
    /\ \/ part = "factor" /\ MfaNext /\ UNCHANGED <<vars, bookVars, directoryVars, scoreVars>>
       \/ part = "access" /\ Next /\ UNCHANGED <<mfaVars, bookVars, directoryVars, scoreVars>>
       \/ part = "book" /\ BookNext /\ UNCHANGED <<mfaVars, vars, directoryVars, scoreVars>>
       \/ part = "directory" /\ DirectoryNext /\ UNCHANGED <<mfaVars, vars, bookVars, scoreVars>>
       \/ part = "score" /\ ScoreNext /\ UNCHANGED <<mfaVars, vars, bookVars, directoryVars>>

MCSpec == MCInit /\ [][MCNext]_<<part, mfaVars, vars, bookVars, directoryVars, scoreVars>>
=============================================================================
