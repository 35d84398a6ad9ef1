------------------------------ MODULE Decisions -------------------------------
(***************************************************************************)
(* Recommendations, decisions and routing rules of one tenant: the three   *)
(* services of routing/service.py over the tables of routing/models.py.    *)
(*                                                                         *)
(* A request is a handler with a session: it sees what is committed and    *)
(* what it has written itself, and its writes appear at the commit. Rules  *)
(* are the pure module RoutingPolicy, choices the pure module Selection.   *)
(***************************************************************************)
EXTENDS Selection

CONSTANTS
    RuleIds,     \* identifiers of rules
    RuleBodies,  \* what a rule may say: [priority, enabled, action]
    Quotes,      \* rate requests
    OffersOf,    \* the offers of a quote, in the order of the rows
    StrategyOf,  \* the strategy a quote was asked for with
    Asked,       \* the strategies a recommendation may be asked for by
    ClientKeys,  \* Idempotency-Key values of clients, reserved ones among them
    Actors,      \* users, and None for an API key
    Bodies,      \* bodies of POST /decisions: [rec, offer, mode, reason]
    Handlers,
    MaxRecs,     \* bound on recommendations
    MaxEdits     \* bound on edits of the rules

Recs == 1..MaxRecs
\* Mutant of AutoKeyOf: a key per recommendation.
AutoKeyOfRec(quote, rec) == <<"auto", rec>>

\* auto_idempotency_key.
AutoKeyOf(quote, rec) == <<"auto", quote>>

AutoKeys == {AutoKeyOf(q, r) : q \in Quotes, r \in Recs}
Keys == ClientKeys \cup AutoKeys

ASSUME DecisionsAssumption ==
    /\ IsFiniteSet(RuleIds) /\ None \notin Recs
    /\ \A b \in RuleBodies : b.priority \in Int /\ b.action \in Actions
    /\ Unset # {} /\ Asked \subseteq Strategies /\ MaxRecs \in Nat /\ MaxEdits \in Nat /\ None \in Actors
    /\ OffersOf \in [Quotes -> Seq(UNION {ToSet(OffersOf[q]) : q \in Quotes})]

VARIABLES
    rules,      \* committed routing_rules
    quotes,     \* committed rate_quotes with their frozen verdict, or None
    expired,    \* quotes whose valid_until is over
    recs,       \* committed recommendations, or None
    decisions,  \* committed decisions by idempotency key, or None
    handler,    \* the requests
    edits       \* how many edits of the rules have begun

vars == <<rules, quotes, expired, recs, decisions, handler, edits>>

Idle == [step |-> "idle"]
At(h, step) == handler[h].step = step
Go(h, r) == handler' = [handler EXCEPT ![h] = r]
Busy(h) == handler[h].step \notin {"idle", "done"}

Init ==
    /\ rules = [i \in RuleIds |-> None]
    /\ quotes = [q \in Quotes |-> None]
    /\ expired = {}
    /\ recs = [r \in Recs |-> None]
    /\ decisions = [k \in Keys |-> None]
    /\ handler = [h \in Handlers |-> Idle]
    /\ edits = 0

-----------------------------------------------------------------------------
\* active_rules as parse_rules reads them.
RuleRows(table) ==
    {[id |-> i, priority |-> table[i].priority, conditions |-> NoConditions,
      action |-> table[i].action] : i \in {j \in RuleIds : table[j] # None /\ table[j].enabled}}
Version(table) == Fingerprint(ParseRules(RuleRows(table)))
NoFacts == [origin |-> None, destination |-> None, grams |-> 1, type |-> None,
            dangerous |-> FALSE, value |-> [minor |-> 0, currency |-> None]]
\* What the rules say of the auto-select.
AutoRule(rows) ==
    LET policy == Evaluate(ParseRules(rows), NoFacts, {})
    IN  [rule |-> policy.auto, id |-> policy.autoRule]

\* RateShoppingService freezes the verdict and the version with the answer.
Rate(q) ==
    /\ quotes[q] = None
    /\ quotes' = [quotes EXCEPT ![q] =
          [version |-> Version(rules), auto |-> AutoRule(RuleRows(rules))]]
    /\ UNCHANGED <<rules, expired, recs, decisions, handler, edits>>

\* valid_until of the quote, which its offers share, is over.
Expire(q) ==
    /\ quotes[q] # None /\ q \notin expired
    /\ expired' = expired \cup {q}
    /\ UNCHANGED <<rules, quotes, recs, decisions, handler, edits>>

Data == <<rules, quotes, expired, recs, decisions, edits>>

-----------------------------------------------------------------------------
(* POST /routing/quote *)

FreeRecs == {r \in Recs : recs[r] = None /\ \A h \in Handlers : handler[h].step \in
                {"consider", "decide", "insert", "commit"} => handler[h].recId # r}

\* recommend: a row, flushed, with the version of the quote; a bulk run asks
\* for no auto-select.
Recommend(h, q, strategy, auto) ==
    /\ ~Busy(h) /\ quotes[q] # None /\ q \notin expired
    /\ Explicable(Rank(OffersOf[q], strategy))
    /\ \E r \in FreeRecs :
          /\ \A s \in FreeRecs : r <= s
          /\ Go(h, [step |-> IF auto THEN "consider" ELSE "commit", recId |-> r,
                    rec |-> [quote |-> q, strategy |-> strategy, version |-> quotes[q].version,
                             best |-> LET best == Best(Rank(OffersOf[q], strategy))
                                      IN  IF best = None THEN None ELSE best.id],
                    key |-> None, decision |-> None, answer |-> None])
    /\ UNCHANGED Data

\* consider, up to the choice: who is not to decide, decides nothing; who finds
\* the decision of this quote, returns it; a rule may abstain.
SkipReason(quote, rec) ==
    IF quotes[quote].auto.rule = None THEN "no_rule"
    ELSE IF rec.strategy # StrategyOf[quote] THEN "other_strategy"
    ELSE Select(OffersOf[quote], quotes[quote].auto.rule, FALSE).abstention

\* Mutant of AutoBody: the rules of the moment decide.
AutoBodyNow(rec, recId) ==
    LET auto == AutoRule(RuleRows(rules))
        chosen == IF auto.rule = None THEN Best(OffersOf[rec.quote]).id
                  ELSE Select(OffersOf[rec.quote], auto.rule, FALSE).offer
    IN  [rec |-> recId, offer |-> chosen, mode |-> "auto", actor |-> None, selection |-> auto,
         reason |-> IF chosen # rec.best THEN "auto_select_rule" ELSE None]

\* The body that consider sends to decide.
AutoBody(rec, recId) ==
    LET auto == quotes[rec.quote].auto
        chosen == Select(OffersOf[rec.quote], auto.rule, FALSE).offer
    IN  [rec |-> recId, offer |-> chosen, mode |-> "auto", actor |-> None, selection |-> auto,
         reason |-> IF chosen # rec.best THEN "auto_select_rule" ELSE None]

Consider(h) ==
    /\ At(h, "consider")
    /\ LET rec == handler[h].rec
           key == AutoKeyOf(rec.quote, handler[h].recId)
       IN  IF SkipReason(rec.quote, rec) \in {"no_rule", "other_strategy"}
             THEN Go(h, [handler[h] EXCEPT !.step = "commit"])
           ELSE IF decisions[key] # None
             THEN Go(h, [handler[h] EXCEPT !.step = "commit", !.answer = decisions[key]])
           ELSE IF SkipReason(rec.quote, rec) # None
             THEN Go(h, [handler[h] EXCEPT !.step = "commit"])
           ELSE Go(h, [handler[h] EXCEPT !.step = "decide", !.key = key,
                         !.decision = AutoBody(rec, handler[h].recId)])
    /\ UNCHANGED Data

-----------------------------------------------------------------------------
(* POST /decisions, and the same method for the auto-select *)

\* What a client may send: no reserved key, no reserved reason.
Acceptable(key, body) == key \notin AutoKeys /\ body.reason # "auto_select_rule"

NoSelection == [rule |-> None, id |-> None]

RequestDecision(h, key, body, actor) ==
    /\ ~Busy(h) /\ Acceptable(key, body)
    /\ Go(h, [step |-> "decide", recId |-> None, rec |-> None, key |-> key,
              decision |-> [rec |-> body.rec, offer |-> body.offer, mode |-> body.mode,
                            actor |-> actor, selection |-> NoSelection, reason |-> body.reason],
              answer |-> None])
    /\ UNCHANGED Data

\* The body of a request, of which request_fingerprint is taken.
BodyOf(d) == [rec |-> d.rec, offer |-> d.offer, mode |-> d.mode, reason |-> d.reason]

\* Mutant of SameRequest: whatever the body, the key is enough.
SameRequestKey(stored, d) == TRUE

\* ensure_same_request.
SameRequest(stored, d) == stored.sent = BodyOf(d)

\* _validated_offer, the reason of an override and the actor of a manual mode.
Valid(rec, d) ==
    /\ rec.quote \notin expired
    /\ \E i \in Eligible(OffersOf[rec.quote]) : OffersOf[rec.quote][i].id = d.offer
    /\ d.offer # rec.best => d.reason # None
    /\ d.mode = "manual" => d.actor # None

\* The row: no reason without an override, no actor in a mode that is not manual.
DecisionRow(rec, d) ==
    [rec |-> d.rec, quote |-> rec.quote, offer |-> d.offer, mode |-> d.mode,
     actor |-> IF d.mode = "manual" THEN d.actor ELSE None,
     override |-> d.offer # rec.best, reason |-> IF d.offer # rec.best THEN d.reason ELSE None,
     selection |-> d.selection, sent |-> BodyOf(d)]

\* A decision that is refused fails its request; an auto-select that is refused
\* leaves the recommendation as it is.
Rejected(h) ==
    IF handler[h].recId # None THEN Go(h, [handler[h] EXCEPT !.step = "commit", !.decision = None])
                               ELSE Go(h, Idle)

\* decide: the decision of this key if its body is the same, otherwise one to
\* be inserted.
Decide(h) ==
    /\ At(h, "decide")
    /\ LET d == handler[h].decision
           stored == decisions[handler[h].key]
           rec == IF handler[h].recId # None THEN handler[h].rec ELSE recs[d.rec]
       IN  IF stored # None
             THEN IF SameRequest(stored, d)
                    THEN Go(h, [step |-> "done", sent |-> BodyOf(d), answer |-> stored])
                    ELSE Rejected(h)
           ELSE IF rec # None /\ Valid(rec, d)
             THEN Go(h, [handler[h] EXCEPT !.step = "insert", !.decision = DecisionRow(rec, d)])
           ELSE Rejected(h)
    /\ UNCHANGED Data

\* Sessions whose decision is written under this key and not committed yet.
Writing(key) == {h \in Handlers : At(h, "commit") /\ handler[h].decision # None
                                  /\ handler[h].key = key}

\* The flush waits for another session with this key; if that one commits, the
\* unique constraint fails the request, its recommendation with it.
Insert(h) ==
    /\ At(h, "insert") /\ Writing(handler[h].key) = {}
    /\ IF decisions[handler[h].key] # None
         THEN Go(h, Idle)
         ELSE Go(h, [handler[h] EXCEPT !.step = "commit", !.answer = handler[h].decision])
    /\ UNCHANGED Data

Commit(h) ==
    /\ At(h, "commit")
    /\ LET r == handler[h]
       IN  /\ recs' = IF r.recId = None THEN recs ELSE [recs EXCEPT ![r.recId] = r.rec]
           /\ decisions' = IF r.decision = None THEN decisions
                                                ELSE [decisions EXCEPT ![r.key] = r.decision]
           /\ Go(h, [step |-> "done", answer |-> r.answer,
                     sent |-> IF r.decision = None THEN None ELSE r.decision.sent])
    /\ UNCHANGED <<rules, quotes, expired, edits>>

\* The request dies; its transaction is rolled back.
Abort(h) == Busy(h) /\ Go(h, Idle) /\ UNCHANGED Data

-----------------------------------------------------------------------------
(* /routing-rules *)

PriorityFree(table, i, priority) ==
    \A j \in RuleIds \ {i} : table[j] # None => table[j].priority # priority

\* The set as an edit leaves it in its own session; None deletes the rule.
Edited(table, i, body) ==
    [table EXCEPT ![i] =
        IF body = None THEN None
        ELSE [priority |-> body.priority, enabled |-> body.enabled, action |-> body.action,
              stamp |-> {}]]

\* create, update, delete, up to the flush of their row, and the version that
\* _restamp computes from the rules its session sees.
Edit(h, i, body) ==
    /\ ~Busy(h) /\ edits < MaxEdits
    /\ body = None => rules[i] # None
    /\ body # None => PriorityFree(rules, i, body.priority)
    /\ Go(h, [step |-> "edit", id |-> i, body |-> body, seen |-> rules,
              version |-> Version(Edited(rules, i, body))])
    /\ edits' = edits + 1
    /\ UNCHANGED <<rules, quotes, expired, recs, decisions>>

\* The row as it will be: the columns the session changed.
Written(h) ==
    LET e == handler[h]
        old == e.seen[e.id]
        Column(c) == IF old # None /\ old[c] = e.body[c] THEN rules[e.id][c] ELSE e.body[c]
    IN  IF e.body = None THEN None
        ELSE [priority |-> Column("priority"), enabled |-> Column("enabled"),
              action |-> Column("action"), stamp |-> e.version]

\* _restamp: every rule the session sees gets the version of the set.
Restamped(h) ==
    [i \in RuleIds |-> IF i = handler[h].id THEN Written(h)
                       ELSE IF handler[h].seen[i] # None
                         THEN [rules[i] EXCEPT !.stamp = handler[h].version]
                       ELSE rules[i]]

\* The commit; a row that has gone, or a priority that is taken meanwhile, fails
\* the edit. Edits that wait for each other's rows commit one after the other.
CommitEdit(h) ==
    /\ At(h, "edit")
    /\ Go(h, Idle)
    /\ LET e == handler[h]
           gone == \E i \in RuleIds : e.seen[i] # None /\ rules[i] = None
           twice == e.seen[e.id] = None /\ rules[e.id] # None
       IN  rules' = IF gone \/ twice THEN rules
                    ELSE IF e.body # None /\ ~PriorityFree(rules, e.id, Written(h).priority)
                      THEN rules
                    ELSE Restamped(h)
    /\ UNCHANGED <<quotes, expired, recs, decisions, edits>>

Next ==
    \/ \E q \in Quotes : Rate(q) \/ Expire(q)
    \/ \E h \in Handlers, q \in Quotes, s \in Asked, a \in BOOLEAN : Recommend(h, q, s, a)
    \/ \E h \in Handlers, k \in ClientKeys, b \in Bodies, u \in Actors : RequestDecision(h, k, b, u)
    \/ \E h \in Handlers : Consider(h) \/ Decide(h) \/ Insert(h) \/ Commit(h) \/ Abort(h)
    \/ \E h \in Handlers, i \in RuleIds, b \in RuleBodies \cup {None} : Edit(h, i, b)
    \/ \E h \in Handlers : CommitEdit(h)

Spec == Init /\ [][Next]_vars

-----------------------------------------------------------------------------
(* Properties *)

Made == {k \in Keys : decisions[k] # None}
ByMachine == {k \in Made : decisions[k].selection # NoSelection}

\* ADR-0029: what the auto-select decided can be found again from what is
\* stored. The rule it names is the one that the version of the quote contains,
\* however the rules were edited since, the recommendation carries that version,
\* and the offer is the choice of that rule among the offers of the quote.
AutoIsReproducible ==
    \A k \in ByMachine :
        LET d == decisions[k]
            quote == quotes[d.quote]
        IN  /\ d.selection = AutoRule(quote.version)
            /\ recs[d.rec].quote = d.quote /\ recs[d.rec].version = quote.version
            /\ d.offer = Select(OffersOf[d.quote], d.selection.rule, FALSE).offer

\* auto_idempotency_key: a quote is decided by the machine once, however many
\* recommendations are asked for and however they overlap, and no client takes
\* the key of the machine before it.
OneAutoPerQuote ==
    /\ \A k, l \in ByMachine : decisions[k].quote = decisions[l].quote => k = l
    /\ Made \cap AutoKeys = ByMachine

\* ensure_same_request: a request that is answered with a decision was answered
\* with one made of the same body, and that decision is committed.
AnswerMatchesBody ==
    \A h \in Handlers :
        At(h, "done") /\ handler[h].answer # None =>
            /\ handler[h].sent \in {None, handler[h].answer.sent}
            /\ \E k \in Made : decisions[k] = handler[h].answer
=============================================================================
