------------------------------ MODULE Selection -------------------------------
(***************************************************************************)
(* Which offer is recommended and which the auto-select takes:             *)
(* routing/strategies.py, routing/selection.py, routing/explanation.py.    *)
(*                                                                         *)
(* An offer is a record; what is not known of it is None. Probabilities,   *)
(* scores and the weights of the formula are given in hundredths, and a    *)
(* fraction is compared by cross-multiplication where the code divides.    *)
(***************************************************************************)
EXTENDS RoutingPolicy

Strategies == {"optimal", "cheapest", "fastest", "reliable"}
SelectionRules ==
    {"cheapest", "fastest", "best_score", "best_value", "cheapest_meeting_deadline"}

\* Later than any real date.
Never == 1000000
EtaKey(o) == IF o.eta = None THEN Never ELSE o.eta

\* Tuples of one length are compared as Python does.
Before(s, t) == \E k \in DOMAIN s : s[k] < t[k] /\ \A j \in 1..(k - 1) : s[j] = t[j]

\* _reliability_cost, in hundredths.
ReliabilityCost(o) ==
    IF o.probability # None THEN 100 - o.probability
    ELSE IF o.score # None THEN 100 - o.score
    ELSE 50

RiskCost(o) == IF o.risk = "low" THEN 0 ELSE IF o.risk = "high" THEN 100 ELSE 50

\* The scale is that of the eligible offers, a set.
Amounts(offers) == {o.amount : o \in offers}
Etas(offers) == {o.eta : o \in offers} \ {None}
Low(S) == CHOOSE x \in S : \A y \in S : x <= y
High(S) == CHOOSE x \in S : \A y \in S : y <= x
Span(S) == IF S = {} \/ High(S) = Low(S) THEN 1 ELSE High(S) - Low(S)

\* Mutant of OptimalScore: an unknown date is as good as the earliest one.
OptimalScoreSoon(o, offers) ==
    LET etas == Etas(offers)
        costSpan == Span(Amounts(offers))
        timeSpan == Span(etas)
        late == IF o.eta = None THEN 0 ELSE o.eta - Low(etas)
    IN  40 * (o.amount - Low(Amounts(offers))) * timeSpan * 100
        + 30 * late * costSpan * 100
        + (20 * ReliabilityCost(o) + 10 * RiskCost(o)) * costSpan * timeSpan

\* _optimal_scores, times the two spans: cost .40, time .30, reliability .20,
\* risk .10. An unknown date is the worst, and no part of the scale.
OptimalScore(o, offers) ==
    LET etas == Etas(offers)
        costSpan == Span(Amounts(offers))
        timeSpan == Span(etas)
        late == IF o.eta = None THEN timeSpan ELSE o.eta - Low(etas)
    IN  40 * (o.amount - Low(Amounts(offers))) * timeSpan * 100
        + 30 * late * costSpan * 100
        + (20 * ReliabilityCost(o) + 10 * RiskCost(o)) * costSpan * timeSpan

StrategyKey(strategy, o, offers) ==
    CASE strategy = "cheapest" -> <<o.amount, EtaKey(o)>>
      [] strategy = "fastest" -> <<EtaKey(o), o.amount>>
      [] strategy = "reliable" -> <<ReliabilityCost(o), o.amount>>
      [] OTHER -> <<OptimalScore(o, offers), o.amount>>

\* The places of the offers that may be recommended.
Eligible(offers) == {i \in DOMAIN offers : offers[i].eligible}

\* sorted(): the n-th is the one that n keys do not exceed, its own among them.
Sorted(key) ==
    [n \in 1..Cardinality(DOMAIN key) |->
        CHOOSE i \in DOMAIN key :
            Cardinality({j \in DOMAIN key : j = i \/ Before(key[j], key[i])}) = n]

\* rank: the eligible ones by the key of the strategy, equal keys in the order
\* of the rows.
Rank(offers, strategy) ==
    LET among == {offers[i] : i \in Eligible(offers)}
        key == [i \in Eligible(offers) |-> Append(StrategyKey(strategy, offers[i], among), i)]
        sorted == Sorted(key)
    IN  [n \in DOMAIN sorted |-> offers[sorted[n]]]

Best(ranked) == IF ranked = <<>> THEN None ELSE ranked[1]

\* _confidence: how many of the ranked offers have a probability.
Confidence(ranked) ==
    LET known == {i \in DOMAIN ranked : ranked[i].probability # None}
    IN  IF known = {} THEN "low" ELSE IF known = DOMAIN ranked THEN "high" ELSE "medium"

-----------------------------------------------------------------------------
\* select: the key of a rule; its last part is the identifier, so that the
\* choice does not depend on the order of the rows. The value for money is
\* amount / probability, here over a common denominator.
ChoiceKey(rule, o, all) ==
    CASE rule = "fastest" -> <<EtaKey(o), o.amount, o.id>>
      [] rule = "best_score" -> <<-o.score, o.amount, o.id>>
      [] rule = "best_value" ->
            LET probability == [p \in all \ {o} |-> p.probability]
            IN  <<o.amount * FoldFunction(LAMBDA a, b : a * b, 1, probability), o.amount, o.id>>
      [] OTHER -> <<o.amount, EtaKey(o), o.id>>

\* Who may be chosen, and the name of the abstention if there is nobody.
Candidates(rule, eligible, deadlineSet) ==
    CASE rule = "cheapest" -> [who |-> eligible, else |-> None]
      [] rule = "fastest" -> [who |-> {o \in eligible : o.eta # None}, else |-> "no_known_eta"]
      [] rule = "best_score" ->
            [who |-> {o \in eligible : o.score # None}, else |-> "no_carrier_scores"]
      [] rule = "best_value" ->
            [who |-> {o \in eligible : o.probability # None /\ o.probability > 0},
             else |-> "no_on_time_probability"]
      [] OTHER ->
            IF deadlineSet
              THEN [who |-> {o \in eligible : o.margin # None /\ o.margin >= 0},
                    else |-> "no_proven_deadline_margin"]
              ELSE [who |-> {}, else |-> "no_deadline_in_request"]

\* select: an offer, or the reason why there is none.
Select(offers, rule, deadlineSet) ==
    LET eligible == {offers[i] : i \in Eligible(offers)}
        found == Candidates(rule, eligible, deadlineSet)
        first == CHOOSE o \in found.who : \A p \in found.who \ {o} :
                    Before(ChoiceKey(rule, o, found.who), ChoiceKey(rule, p, found.who))
    IN  IF eligible = {} THEN [offer |-> None, abstention |-> "no_eligible_offers"]
        ELSE IF \E o, p \in eligible : o.currency # p.currency
          THEN [offer |-> None, abstention |-> "mixed_currencies"]
        ELSE IF found.who = {} THEN [offer |-> None, abstention |-> found.else]
        ELSE [offer |-> first.id, abstention |-> None]

-----------------------------------------------------------------------------
\* build_facts and alternatives_delta compare the best offer with the cheapest
\* one, and cannot if their currencies differ: the recommendation fails.
CheapestOf(ranked) == ranked[CHOOSE i \in DOMAIN ranked : \A j \in DOMAIN ranked :
    Before(<<ranked[i].amount, i>>, <<ranked[j].amount, j>>) \/ i = j]

Explicable(ranked) == ranked = <<>> \/ CheapestOf(ranked).currency = ranked[1].currency

Explanation(ranked, strategy) ==
    IF ranked = <<>> THEN {"no_eligible_offers"}
    ELSE {"strategy", "confidence"}
         \cup {f \in {"fits_deadline"} : ranked[1].margin # None}
         \cup {IF CheapestOf(ranked).id # ranked[1].id THEN "costs_more_than_cheapest"
                                                      ELSE "is_cheapest_eligible"}
         \cup {f \in {"on_time_probability"} : ranked[1].probability # None}
         \cup {f \in {"risk"} : ranked[1].risk # None}

AlternativesDelta(ranked) ==
    IF Len(ranked) < 2 THEN [cheapest |-> None, probability |-> None]
    ELSE LET known == {ranked[i].probability : i \in DOMAIN ranked} \ {None, 0}
         IN  [cheapest |-> IF CheapestOf(ranked).id = ranked[1].id THEN None
                           ELSE ranked[1].amount - CheapestOf(ranked).amount,
              probability |-> IF ranked[1].probability = None \/ known = {} THEN None
                              ELSE ranked[1].probability - High(known)]
=============================================================================
