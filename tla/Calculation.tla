----------------------------- MODULE Calculation ------------------------------
(***************************************************************************)
(* One calculation of rating/service.py: the rules of the tenant and the   *)
(* facts of the consignment, which the policy judges, and the offers that  *)
(* are ranked. The verdicts and the order are functions of them.           *)
(***************************************************************************)
EXTENDS Selection

CONSTANTS
    RuleSets,      \* sets of rows, as tenants have written them
    Consignments,  \* the facts of requests
    Companies,     \* codes of the carriers a tenant has connected
    Answers        \* the offers, in the order of their rows

VARIABLES written,   \* the rows of the rules
          consigned, \* the facts
          calculated \* the offers

(* uq_routing_rules_tenant_id_priority: priorities differ; identifiers are  *)
(* primary keys; dates are earlier than the one that stands for "unknown".  *)
ASSUME CalculationAssumption ==
    /\ \A rows \in RuleSets :
          /\ IsFiniteSet(rows) /\ \A r \in rows : r.priority \in Int
          /\ \A r, s \in rows : r # s => r.priority # s.priority
    /\ None \notin Int
    /\ \A offers \in Answers :
          /\ offers \in Seq(ToSet(offers))
          /\ \A i \in DOMAIN offers :
                /\ offers[i].amount \in Int /\ offers[i].eligible \in BOOLEAN
                /\ offers[i].eta \in Int \cup {None} /\ (offers[i].eta # None => offers[i].eta < Never)
                /\ {offers[i].probability, offers[i].score} \subseteq Int \cup {None}
                /\ \A j \in DOMAIN offers : offers[i].id = offers[j].id => i = j

CalculationInit == written \in RuleSets /\ consigned \in Consignments /\ calculated \in Answers
CalculationSpec == CalculationInit /\ [][FALSE]_<<written, consigned, calculated>>

-----------------------------------------------------------------------------
(* Properties *)

\* ADR-0028, said without an order of rules: a carrier is asked exactly if no
\* matching rule denies it and every matching white list has it; insurance is
\* required as soon as one matching rule does; and a refusal names a matching
\* rule that is reason enough, the one of the highest priority of its kind.
PolicyIsStrict ==
    LET parsed == ParseRules(written)
        policy == Evaluate(parsed, consigned, Companies)
        Matching(kind) == {r \in written : r.action = kind /\ MatchesRequest(r.conditions, consigned)}
        Against(code) ==
            LET denying == {r \in Matching("deny") :
                                r.conditions.carrier = Unset \/ code \in r.conditions.carrier}
            IN  IF denying # {} THEN denying
                ELSE {r \in Matching("allow") :
                        r.conditions.carrier # Unset /\ code \notin r.conditions.carrier}
    IN  parsed # None =>
            /\ policy.insure = (Matching("insure") # {})
            /\ \A code \in Companies :
                  /\ policy.verdicts[code].allowed = (Against(code) = {})
                  /\ ~policy.verdicts[code].allowed =>
                        \E r \in Against(code) :
                            /\ r.id = policy.verdicts[code].rule
                            /\ \A s \in Against(code) : s.priority <= r.priority

PassesOverNobody(ranked, eligible) ==
    LET AsGood(o, p) == /\ EtaKey(o) <= EtaKey(p) /\ RiskCost(o) <= RiskCost(p)
                        /\ ReliabilityCost(o) <= ReliabilityCost(p)
    IN  /\ (ranked = <<>>) = (eligible = {})
        /\ ranked # <<>> => \A o \in eligible : ~(o.amount < ranked[1].amount /\ AsGood(o, ranked[1]))

ExplainsTruly(ranked, eligible, strategy) ==
    LET facts == Explanation(ranked, strategy)
        delta == AlternativesDelta(ranked)
        Cheaper == {o \in eligible : o.amount < ranked[1].amount}
    IN  IF ranked = <<>> THEN facts = {"no_eligible_offers"} ELSE
        /\ ("is_cheapest_eligible" \in facts) = (Cheaper = {})
        /\ (delta.cheapest = None) = (Cheaper = {})
        /\ delta.cheapest # None => delta.cheapest > 0
        /\ Confidence(ranked) = "low" =>
              "on_time_probability" \notin facts /\ delta.probability = None

\* strategies.py: no eligible offer that is cheaper than the recommended one is
\* also as early, as reliable and as safe, whatever the strategy and whatever is
\* not known of the offers; and who may not be chosen is not recommended.
\* explanation.py: what is said of a choice is true of the offers. It is called
\* the cheapest exactly if no eligible offer costs less, the surcharge that the
\* alternatives are told with is then positive, and no probability is shown or
\* compared where none is known of any offer.
NobodyBetterIsPassedOver ==
    LET eligible == {o \in ToSet(calculated) : o.eligible}
    IN  \A strategy \in Strategies :
            LET ranked == Rank(calculated, strategy)
            IN  PassesOverNobody(ranked, eligible) /\ ExplainsTruly(ranked, eligible, strategy)
=============================================================================
