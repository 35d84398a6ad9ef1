---------------------------- MODULE RoutingPolicy -----------------------------
(***************************************************************************)
(* What a tenant's routing rules say of a request: routing/rules.py, and   *)
(* the facts they look at, made by rating/service.py.                      *)
(*                                                                         *)
(* A condition that is not given is Unset. A rule has one action: "deny",    *)
(* "allow", "insure", or a selection rule for the auto-select.             *)
(***************************************************************************)
EXTENDS Integers, Sequences, SequencesExt, FiniteSets

CONSTANTS Unset, None

Actions == {"deny", "allow", "insure", "cheapest", "fastest", "best_score", "best_value",
            "cheapest_meeting_deadline"}
CarrierAware == {"deny", "allow"}

\* The conditions of a rule about everything.
NoConditions == [carrier |-> Unset, from |-> Unset, to |-> Unset, weight |-> Unset, value |-> Unset,
                 types |-> Unset, dangerous |-> Unset]

\* Bounds make sense when at least one is given and they are in order.
BoundsMakeSense(min, max) ==
    /\ min # Unset \/ max # Unset
    /\ min # Unset => min >= 0
    /\ max # Unset => max >= 0
    /\ min # Unset /\ max # Unset => min <= max

\* RuleConditions and RuleBody: what is accepted when a rule is written, and
\* required when it is read.
Readable(rule) ==
    LET c == rule.conditions
    IN  /\ \A list \in {c.carrier, c.from, c.to, c.types} : list # {}
        /\ c.weight # Unset => BoundsMakeSense(c.weight.min, c.weight.max)
        /\ c.value # Unset => BoundsMakeSense(c.value.min, c.value.max)
        /\ rule.action \in Actions
        /\ c.carrier # Unset => rule.action \in CarrierAware

\* By rising priority, which is unique: the n-th rule is the one that n rules do
\* not exceed, itself among them.
ByPriority(rows) ==
    [n \in 1..Cardinality(rows) |->
        CHOOSE r \in rows : Cardinality({s \in rows : s.priority <= r.priority}) = n]

\* parse_rules: the rules in their order, or nothing at all if one of them cannot
\* be read.
ParseRules(rows) == IF \A r \in rows : Readable(r) THEN ByPriority(rows) ELSE None

-----------------------------------------------------------------------------
Within(x, bounds) ==
    /\ bounds.min = Unset \/ bounds.min <= x
    /\ bounds.max = Unset \/ x <= bounds.max

\* A city that was not resolved is in no list.
MatchesCity(list, city) == list = Unset \/ (city # None /\ city \in list)

\* _matches_value: never across currencies.
MatchesValue(c, facts) ==
    \/ c.value = Unset
    \/ c.value.currency = facts.value.currency /\ Within(facts.value.minor, c.value)

\* _matches_request; the carriers of a condition are looked at later.
MatchesRequest(c, facts) ==
    /\ MatchesCity(c.from, facts.origin) /\ MatchesCity(c.to, facts.destination)
    /\ c.weight = Unset \/ Within(facts.grams, c.weight)
    /\ MatchesValue(c, facts)
    /\ c.types = Unset \/ facts.type \in c.types
    /\ c.dangerous = Unset \/ c.dangerous = facts.dangerous

MatchesCarrier(c, code) == c.carrier = Unset \/ code \in c.carrier

\* _deny_reason.
DenyReason(c) ==
    IF c.types # Unset \/ c.dangerous # Unset THEN "cargo_restricted"
    ELSE IF c.carrier # Unset /\ [c EXCEPT !.carrier = Unset] = NoConditions THEN "carrier_blacklisted"
    ELSE "tenant_policy"

Allowed == [allowed |-> TRUE, reason |-> None, rule |-> None]
Refused(reason, rule) == [allowed |-> FALSE, reason |-> reason, rule |-> rule.id]

\* Rules are named by their places: the last place is the highest priority.
Concerning(rules, at, code) == {i \in at : MatchesCarrier(rules[i].conditions, code)}
Strongest(rules, at) == rules[Max(at)]

\* Mutant of Verdict: several matching white lists add up.
VerdictUnion(rules, denies, allows, code) ==
    LET blocking == Concerning(rules, denies, code)
        missing == allows \ Concerning(rules, allows, code)
    IN  IF blocking # {}
          THEN Refused(DenyReason(Strongest(rules, blocking).conditions), Strongest(rules, blocking))
        ELSE IF missing # {} /\ missing = allows
          THEN Refused("not_in_whitelist", Strongest(rules, missing))
        ELSE Allowed

\* _verdict: a deny is stronger than any allow, white lists intersect, and the
\* strongest of the rules concerned gives its name.
Verdict(rules, denies, allows, code) ==
    LET blocking == Concerning(rules, denies, code)
        missing == allows \ Concerning(rules, allows, code)
    IN  IF blocking # {}
          THEN Refused(DenyReason(Strongest(rules, blocking).conditions), Strongest(rules, blocking))
        ELSE IF missing # {} THEN Refused("not_in_whitelist", Strongest(rules, missing))
        ELSE Allowed

\* evaluate: the verdicts on the connected carriers, and what concerns the
\* whole consignment.
Evaluate(rules, facts, codes) ==
    LET Of(kinds) == {i \in DOMAIN rules : /\ MatchesRequest(rules[i].conditions, facts)
                                          /\ rules[i].action \in kinds}
        insurances == Of({"insure"})
        autos == Of(Actions \ {"deny", "allow", "insure"})
    IN  [verdicts |-> [code \in codes |-> Verdict(rules, Of({"deny"}), Of({"allow"}), code)],
         insure |-> insurances # {},
         insuranceRule |-> IF insurances = {} THEN None ELSE Strongest(rules, insurances).id,
         auto |-> IF autos = {} THEN None ELSE Strongest(rules, autos).action,
         autoRule |-> IF autos = {} THEN None ELSE Strongest(rules, autos).id]

\* policy_fingerprint: the content of the set, whatever the names of its rules
\* and the order of its rows.
Fingerprint(rules) ==
    {[id |-> r.id, priority |-> r.priority, conditions |-> r.conditions, action |-> r.action] :
        r \in ToSet(rules)}
=============================================================================
