------------------------------ MODULE Directory ------------------------------
(***************************************************************************)
(* The directories: cities, their codes at one carrier, the queue of       *)
(* cities a human must match and the carrier's terminals                   *)
(* (directories/service.py and repository.py, the task                     *)
(* sync_carrier_references of worker/tasks.py).                            *)
(*                                                                         *)
(* A sync and a confirmation are transactions: what they read is read in   *)
(* Begin..., what their statements do to the rows is done in Commit...     *)
(* (an upsert locks its row until then).  Names, regions and codes are     *)
(* model values; how similar two names are is a constant, in thousandths.  *)
(***************************************************************************)
EXTENDS Integers, FiniteSets, Sequences, FiniteSetsExt, SequencesExt

CONSTANTS City,         \* the cities of FIAS: name, region, kladr, parent, population
          Similarity,   \* of a carrier's name and a city's name, 0 .. 1000
          Likes,        \* <<query, name>> : the name matches ILIKE %query%
          Catalogs,     \* what a carrier may answer: cities, terminals, complete
          Branches,     \* what Pecom may answer: branches with their cities and divisions
          Desks,        \* sessions of the syncs and of those who confirm
          MaxTransactions, Missing

VARIABLES known,        \* cities that have a row so far
          mapping,      \* city_carrier_map, by city
          queue,        \* city_mapping_queue, by the carrier's code
          terminals,    \* carrier_terminals: "active" or "closed", by code
          desk,         \* what each session has read
          opened,       \* transactions so far
          quoted,       \* cities priced by the code of a confirmed mapping
          decided,      \* the code a human chose last, by city
          reported,     \* terminals as the catalogs synced so far tell
          collided      \* two syncs were open at once

directoryVars == <<known, mapping, queue, terminals, desk, opened, quoted, decided, reported, collided>>

Fias == DOMAIN City
Vacant == [pc |-> "idle"]

(***************************************************************************)
(* Pecom's answer as a catalog: parse_branches of pecom/branches.py.  A    *)
(* city has the code of one of its warehouses, which are the terminals.    *)
(***************************************************************************)

\* _REPRESENTATIVE_ORDER: the main office, an office, a pick-up point, others.
Rank(kind) == CASE kind = 4 -> 0 [] kind = 0 -> 1 [] kind = 1 -> 2 [] OTHER -> 3

\* _city_warehouses: of the divisions the city names, the branch has some.
Warehouses(branch, city) ==
    UNION {{[rank |-> Rank(branch.divisions[d].kind), order |-> w.order, id |-> w.id] :
               w \in branch.divisions[d].warehouses} : d \in city.divisions \cap DOMAIN branch.divisions}

\* _representative_key: the same warehouse at every sync.
Representative(offices) ==
    CHOOSE w \in offices : \A v \in offices :
        w.rank < v.rank \/ (w.rank = v.rank /\ w.order <= v.order)

\* _cities_of: a city without a working warehouse is left out.
CitiesOf(branch) ==
    LET served == SelectSeq(branch.cities, LAMBDA city : Warehouses(branch, city) # {})
    IN  [i \in DOMAIN served |->
            [code |-> Representative(Warehouses(branch, served[i])).id, name |-> served[i].title,
             region |-> Missing, fias |-> Missing, kladr |-> Missing]]

PecomCatalog(branches) ==
    [cities |-> FlattenSeq([i \in DOMAIN branches |-> CitiesOf(branches[i])]),
     terminals |-> UNION {UNION {{w.id : w \in d.warehouses} : d \in Range(branches[i].divisions)} :
                             i \in DOMAIN branches},
     complete |-> TRUE]

Answers == Catalogs \cup {PecomCatalog(b) : b \in Branches}
CarrierRows == UNION {Range(c.cities) : c \in Answers}
CarrierCodes == {row.code : row \in CarrierRows}
Terminals == UNION {c.terminals : c \in Answers}

\* population is an Integer column; a city where it is unknown comes last.
MaxPopulation == 2147483647

ASSUME DirectoryAssumption ==
    /\ IsFiniteSet(Fias) /\ MaxTransactions \in Nat
    /\ \A f \in Fias : City[f].population \in 0..MaxPopulation
    /\ \A c \in Answers : c.cities \in Seq(CarrierRows) /\ c.complete \in BOOLEAN
    /\ \A row \in CarrierRows, f \in Fias : Similarity[<<row.name, City[f].name>>] \in 0..1000
    /\ Missing \notin Fias \cup CarrierCodes \cup {"active", "closed"}

FuzzyThreshold == 930
AutoConfirmThreshold == 970
AmbiguityMargin == 50

(***************************************************************************)
(* The ladder that matches a carrier's city: _match_one, _score.           *)
(***************************************************************************)

(* CityRepository.search; the rows the look-up cuts off are left out: no   *)
(* name has more than 25 namesakes here.                                   *)
Search(name) == {f \in known : <<name, City[f].name>> \in Likes}

(* The region is a veto; without one the score cannot reach a threshold.   *)
Score(row, f) ==
    IF row.region = Missing \/ City[f].region = Missing
    THEN (Similarity[<<row.name, City[f].name>>] * 8) \div 10
    ELSE IF row.region # City[f].region THEN 0 ELSE Similarity[<<row.name, City[f].name>>]

Match(f, method, score, confirmed) ==
    [city |-> f, method |-> method, score |-> score, confirmed |-> confirmed]

NoMatch(reason) == [city |-> Missing, reason |-> reason]

MatchByName(row) ==
    LET scored == {f \in Search(row.name) : Score(row, f) > 0}
        best == Max({Score(row, f) : f \in scored})
        first == CHOOSE f \in scored : Score(row, f) = best
    IN  IF scored = {} THEN NoMatch("no_match")
        ELSE IF \E f \in scored \ {first} : best - Score(row, f) < AmbiguityMargin
             THEN NoMatch("ambiguous")
        ELSE IF best < FuzzyThreshold THEN NoMatch("no_match")
        ELSE IF best >= AutoConfirmThreshold THEN Match(first, "exact_name", best, TRUE)
        ELSE Match(first, "fuzzy_name", best, FALSE)

MatchOne(row) ==
    LET hits == {f \in Search(row.name) : row.kladr # Missing /\ City[f].kladr = row.kladr}
    IN  IF row.fias \in known THEN Match(row.fias, "fias", 1000, TRUE)
        ELSE IF Cardinality(hits) = 1 THEN Match(CHOOSE f \in hits : TRUE, "kladr", 990, TRUE)
        ELSE MatchByName(row)

(***************************************************************************)
(* Rows and their upserts.                                                 *)
(***************************************************************************)

(* CityMappingRepository.upsert: a confirmed row stays as it is; of another *)
(* the code and the method are replaced, is_confirmed is not.              *)
UpsertAny(map, f, code, match) ==
    [map EXCEPT ![f] = [code |-> code, method |-> match.method,
                        confirmed |-> IF @ = Missing THEN match.confirmed ELSE @.confirmed]]

Upsert(map, f, code, match) ==
    IF map[f] # Missing /\ map[f].confirmed THEN map
    ELSE [map EXCEPT ![f] = [code |-> code, method |-> match.method,
                             confirmed |-> IF @ = Missing THEN match.confirmed ELSE FALSE]]

(* enqueue: an item a human has resolved is not touched.                   *)
Enqueue(items, code, reason) ==
    IF items[code] # Missing /\ items[code].resolved THEN items
    ELSE [items EXCEPT ![code] = [reason |-> reason, resolved |-> FALSE, city |-> Missing]]

(* match_carrier_cities: the rows of the catalog in their order.           *)
MappedBy(plan) ==
    FoldLeft(LAMBDA map, p : IF p.match.city = Missing THEN map
                             ELSE Upsert(map, p.match.city, p.row.code, p.match),
             mapping, plan)
QueuedBy(plan) ==
    FoldLeft(LAMBDA items, p : IF p.match.city # Missing THEN items
                               ELSE Enqueue(items, p.row.code, p.match.reason),
             queue, plan)

(* upsert_many writes is_active only where the row was loaded inactive, or *)
(* inserts; deactivate_missing is an UPDATE, and only of a whole catalog.  *)
NetworkClosingMissing(s) ==
    [t \in Terminals |->
       IF t \in desk[s].catalog.terminals
       THEN IF desk[s].loaded[t] = "active" THEN terminals[t] ELSE "active"
       ELSE IF terminals[t] = "active" THEN "closed" ELSE terminals[t]]

Network(s) ==
    [t \in Terminals |->
       IF t \in desk[s].catalog.terminals
       THEN IF desk[s].loaded[t] = "active" THEN terminals[t] ELSE "active"
       ELSE IF desk[s].catalog.complete /\ terminals[t] = "active" THEN "closed" ELSE terminals[t]]

(* uq_carrier_terminals: two syncs may have found the same new terminal.   *)
Collides(s) == \E t \in desk[s].catalog.terminals :
                  desk[s].loaded[t] = Missing /\ terminals[t] # Missing

(***************************************************************************)
(* Actions.                                                                *)
(***************************************************************************)

DirectoryInit ==
    /\ known = {}
    /\ mapping = [f \in Fias |-> Missing]
    /\ queue = [c \in CarrierCodes |-> Missing]
    /\ terminals = [t \in Terminals |-> Missing]
    /\ desk = [s \in Desks |-> Vacant] /\ opened = 0
    /\ quoted = {} /\ decided = [f \in Fias |-> Missing]
    /\ reported = [t \in Terminals |-> Missing] /\ collided = FALSE

directoryRows == <<known, mapping, queue, terminals, quoted, decided, reported>>

Opens(s, record) ==
    /\ desk[s] = Vacant /\ opened < MaxTransactions
    /\ desk' = [desk EXCEPT ![s] = record]
    /\ opened' = opened + 1

(* _refs_tenant: the catalog of one of the tenants that have the carrier.  *)
BeginSync(s, catalog) ==
    /\ Opens(s, [pc |-> "sync", catalog |-> catalog, loaded |-> terminals,
                  plan |-> [i \in DOMAIN catalog.cities |->
                              [row |-> catalog.cities[i], match |-> MatchOne(catalog.cities[i])]]])
    /\ collided' = (collided \/ \E q \in Desks : desk[q].pc = "sync")
    /\ UNCHANGED directoryRows

CommitSync(s) ==
    /\ desk[s].pc = "sync"
    /\ ~Collides(s)
    /\ mapping' = MappedBy(desk[s].plan)
    /\ queue' = QueuedBy(desk[s].plan)
    /\ terminals' = Network(s)
    /\ reported' = [t \in Terminals |->
          IF t \in desk[s].catalog.terminals THEN "active"
          ELSE IF desk[s].catalog.complete /\ reported[t] # Missing THEN "closed" ELSE reported[t]]
    /\ desk' = [desk EXCEPT ![s] = Vacant]
    /\ UNCHANGED <<known, opened, quoted, decided, collided>>

(* confirm: the item was read, resolved or not.                            *)
BeginConfirm(s, code, f) ==
    /\ queue[code] # Missing
    /\ Opens(s, [pc |-> "confirm", code |-> code, city |-> f])
    /\ UNCHANGED <<directoryRows, collided>>

CommitConfirm(s) ==
    /\ desk[s].pc = "confirm"
    /\ mapping' = Upsert(mapping, desk[s].city, desk[s].code,
                         Match(desk[s].city, "manual", 1000, TRUE))
    /\ queue' = [queue EXCEPT ![desk[s].code].resolved = TRUE,
                              ![desk[s].code].city = desk[s].city]
    /\ decided' = [decided EXCEPT ![desk[s].city] = desk[s].code]
    /\ desk' = [desk EXCEPT ![s] = Vacant]
    /\ UNCHANGED <<known, terminals, opened, quoted, reported, collided>>

(* A refusal, an IntegrityError or the death of the process.               *)
Rollback(s) ==
    /\ desk[s].pc # "idle"
    /\ desk' = [desk EXCEPT ![s] = Vacant]
    /\ UNCHANGED <<directoryRows, opened, collided>>

(* _ensure_city: a suggestion or a normalised address adds a city.         *)
Learn(f) ==
    /\ f \notin known
    /\ known' = known \cup {f}
    /\ UNCHANGED <<mapping, queue, terminals, desk, opened, quoted, decided, reported, collided>>

(* resolve and resolve_with_fallback.                                      *)
Resolve(f) == IF mapping[f] = Missing THEN Missing ELSE mapping[f].code
ResolveWithFallback(f) ==
    IF Resolve(f) # Missing \/ f \notin known \/ City[f].parent = Missing THEN Resolve(f)
    ELSE Resolve(City[f].parent)

(* CityService.resolve: the first city of that name the look-up returns    *)
(* (the most populous), unless its region says otherwise.                  *)
ResolveCity(name, region) ==
    LET same == {f \in Search(name) : City[f].name = name /\ (region # Missing => City[f].region = region)}
    IN  IF same = {} THEN Missing
        ELSE CHOOSE f \in same : \A g \in same : City[f].population >= City[g].population

(* CarrierPartyResolver.party, at a quote and again at the shipment.       *)
Party(name, region) ==
    LET f == ResolveCity(name, region)
    IN  [city |-> f, code |-> IF f = Missing THEN Missing ELSE ResolveWithFallback(f)]

IsCertain(f) == mapping[f] # Missing /\ mapping[f].confirmed

(* A quote; the city's own mapping may be one that somebody or something   *)
(* is certain of, or the code may be a guess or the parent's.              *)
Price(name, region) ==
    LET found == Party(name, region)
    IN  /\ found.code # Missing
        /\ quoted' = quoted \cup {[name |-> name, region |-> region, city |-> found.city,
                                    code |-> found.code, certain |-> IsCertain(found.city)]}
        /\ UNCHANGED <<known, mapping, queue, terminals, desk, opened, decided, reported, collided>>

DirectoryNext ==
    \/ \E s \in Desks : \/ \E c \in Answers : BeginSync(s, c)
                       \/ \E code \in CarrierCodes, f \in Fias : BeginConfirm(s, code, f)
                       \/ CommitSync(s)
                       \/ CommitConfirm(s)
                       \/ Rollback(s)
    \/ \E f \in Fias : Learn(f)
    \/ \E f \in Fias : \E region \in {City[f].region, Missing} : Price(City[f].name, region)

DirectorySpec == DirectoryInit /\ [][DirectoryNext]_directoryVars

(***************************************************************************)
(* Properties.                                                             *)
(***************************************************************************)

(* The cities FIAS has for a name and, if it is given, a region.           *)
Namesakes(name, region) ==
    {f \in Fias : City[f].name = name /\ (region # Missing => City[f].region = region)}

(* A quote by the code of a confirmed mapping, for a name that one city    *)
(* has, is shipped to that city by that code: the shipment resolves name   *)
(* and code anew, whatever the syncs and the humans did and the directory  *)
(* learnt in between.                                                      *)
QuotedCityIsShipped ==
    \A q \in quoted : q.certain /\ Namesakes(q.name, q.region) = {q.city} =>
        Party(q.name, q.region) = [city |-> q.city, code |-> q.code]

(* "The code must come out the same, or we would price by one city and     *)
(* ship to another" (CarrierPartyResolver): of every quote.                *)
ShippedWhereQuoted ==
    \A q \in quoted : Party(q.name, q.region).code = q.code

(* The terminals we offer are those the catalogs tell of, unless two syncs *)
(* of one carrier overlapped: a catalog cut short closes none, and a       *)
(* terminal that is back is open again.                                    *)
NetworkIsAsReported == ~collided => terminals = reported

(* "Human decision is always older than the machine's" (repository.py,     *)
(* upsert): the code a human has chosen for a city is the code in use.     *)
HumanDecisionStands ==
    \A f \in Fias : decided[f] # Missing => Resolve(f) = decided[f]

(* Pecom takes the id of a warehouse, and only of one that works: a city is    *)
(* not priced by a warehouse the network has lost. It is, once confirmed.      *)
MappedOfficeWorks ==
    \A f \in Fias : mapping[f] # Missing /\ mapping[f].code \in Terminals => terminals[mapping[f].code] = "active"
=============================================================================
