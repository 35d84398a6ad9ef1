---------------------------- MODULE DecisionsProofs ----------------------------
(* Theorems about decisions, bulk runs, lists of recipients, the policy and    *)
(* the order of the offers, for every value of the constants.                 *)
EXTENDS Decisions, Calculation, Bulk, RecipientList, FiniteSetTheorems,
        SequenceTheorems, WellFoundedInduction, TLAPS

\* Rows of the table of rules, and their priorities, which are unique.
RuleTrue(row) ==
    row # None =>
        /\ row = [priority |-> row.priority, enabled |-> row.enabled,
                  action |-> row.action, stamp |-> row.stamp]
        /\ row.priority \in Int /\ row.action \in Actions
PrioritiesDiffer(table) ==
    \A i, j \in RuleIds : table[i] # None /\ table[j] # None /\ i # j =>
        table[i].priority # table[j].priority

\* The frozen verdict is what the frozen version says.
QuoteTrue(q) == quotes[q] # None => quotes[q].auto = AutoRule(quotes[q].version)

\* A recommendation carries the version of its quote.
MadeFrom(rec) ==
    /\ rec.quote \in Quotes /\ quotes[rec.quote] # None
    /\ rec.version = quotes[rec.quote].version

\* A choice of the rule that the quote was frozen with.
Chosen(d, q) ==
    /\ d.selection = quotes[q].auto /\ d.selection # NoSelection
    /\ d.offer = Select(OffersOf[q], d.selection.rule, FALSE).offer

\* What is stored under a key of the machine, and under one of a client.
DecisionTrue(k) ==
    LET d == decisions[k]
    IN  /\ d # None /\ k \in AutoKeys =>
              /\ d.quote \in Quotes /\ k = <<"auto", d.quote>> /\ quotes[d.quote] # None
              /\ Chosen(d, d.quote)
              /\ d.rec \in Recs /\ recs[d.rec] # None
              /\ recs[d.rec].quote = d.quote /\ recs[d.rec].version = quotes[d.quote].version
        /\ d # None /\ k \notin AutoKeys => d.selection = NoSelection

Stored(answer) == \E k \in Made : decisions[k] = answer

\* Who works on a recommendation of its own, and who decides one of it.
Working == {"consider", "decide", "insert", "commit"}
Recommends(r) == r.recId \in Recs /\ recs[r.recId] = None /\ MadeFrom(r.rec)
Asks(r) == r.recId = None /\ r.key \in Keys \ AutoKeys /\ r.decision.selection = NoSelection
Selects(r) ==
    /\ Recommends(r) /\ r.key = AutoKeyOf(r.rec.quote, r.recId)
    /\ r.decision.rec = r.recId /\ Chosen(r.decision, r.rec.quote)
Inserts(r) ==
    Asks(r) \/ (Selects(r) /\ r.rec # None /\ r.decision.quote = r.rec.quote)

\* The locals of a request, step by step.
LocalsTrue(r) ==
    /\ r.step \in Working =>
          r = [step |-> r.step, recId |-> r.recId, rec |-> r.rec, key |-> r.key,
               decision |-> r.decision, answer |-> r.answer]
    /\ r.step = "consider" => Recommends(r) /\ r.decision = None /\ r.answer = None
    /\ r.step = "decide" => (Asks(r) \/ Selects(r)) /\ r.answer = None
    /\ r.step = "insert" => Inserts(r) /\ r.answer = None
    /\ r.step = "commit" =>
          /\ r.decision = None => /\ r.recId = None \/ Recommends(r)
                                  /\ r.answer = None \/ Stored(r.answer)
          /\ r.decision # None => /\ Inserts(r) /\ r.answer = r.decision
                                  /\ decisions[r.key] = None
    /\ r.step = "done" /\ r.answer # None =>
          r.sent \in {None, r.answer.sent} /\ Stored(r.answer)
    /\ r.step = "edit" => r.id \in RuleIds /\ r.body \in RuleBodies \cup {None}

\* Two requests have no recommendation and no unwritten decision in common.
Writes(r) == r.step = "commit" /\ r.decision # None
Apart(r, s) ==
    /\ r.step \in Working /\ s.step \in Working /\ r.recId # None => r.recId # s.recId
    /\ Writes(r) /\ Writes(s) => r.key # s.key

Inductive ==
    /\ DOMAIN rules = RuleIds /\ DOMAIN quotes = Quotes /\ DOMAIN recs = Recs
    /\ DOMAIN decisions = Keys /\ DOMAIN handler = Handlers
    /\ \A i \in RuleIds : RuleTrue(rules[i])
    /\ PrioritiesDiffer(rules)
    /\ \A q \in Quotes : QuoteTrue(q)
    /\ \A k \in Keys : DecisionTrue(k)
    /\ \A h \in Handlers : LocalsTrue(handler[h])
    /\ \A g, h \in Handlers : g # h => Apart(handler[g], handler[h])

-----------------------------------------------------------------------------
\* Sorting a finite set of rules with different priorities loses none of them,
\* adds none and puts them in their order.
LEMMA SortingKeepsTheRules ==
    ASSUME NEW rows, IsFiniteSet(rows), \A r \in rows : r.priority \in Int,
           \A r, s \in rows : r # s => r.priority # s.priority
    PROVE  /\ ToSet(ByPriority(rows)) = rows
           /\ DOMAIN ByPriority(rows) = 1..Cardinality(rows)
           /\ \A i, j \in DOMAIN ByPriority(rows) :
                 i <= j => ByPriority(rows)[i].priority <= ByPriority(rows)[j].priority
<1> DEFINE n == Cardinality(rows)
           Below(r) == {s \in rows : s.priority <= r.priority}
           rank == [r \in rows |-> Cardinality(Below(r))]
<1>1. n \in Nat
  BY FS_CardinalityType
<1>2. \A r \in rows : IsFiniteSet(Below(r)) /\ Cardinality(Below(r)) <= n
  BY FS_Subset
<1>3. ASSUME NEW r \in rows PROVE rank[r] \in 1..n
  <2>1. r \in Below(r)
    OBVIOUS
  <2>2. Cardinality(Below(r)) \in Nat /\ Cardinality(Below(r)) # 0
    BY <1>2, <2>1, FS_EmptySet, FS_CardinalityType
  <2>3. rank[r] = Cardinality(Below(r)) /\ Cardinality(Below(r)) <= n
    BY <1>2
  <2> HIDE DEF rank, Below, n
  <2> QED BY <1>1, <2>2, <2>3
<1>4. ASSUME NEW r \in rows, NEW s \in rows, r.priority < s.priority PROVE rank[r] # rank[s]
  <2>1. Below(r) \in SUBSET Below(s)
    BY <1>4
  <2>2. s \in Below(s) /\ s \notin Below(r)
    BY <1>4
  <2>3. Cardinality(Below(s)) = Cardinality(Below(r)) => Below(s) = Below(r)
    BY <1>2, <2>1, FS_Subset
  <2> QED BY <2>2, <2>3
<1>5. \A r, s \in rows : rank[r] = rank[s] => r = s
  BY <1>4
<1>6. rank \in Injection(rows, 1..n)
  <2>1. rank \in [rows -> 1..n]
    BY <1>3
  <2> QED BY <2>1, <1>5 DEF Injection, IsInjective
<1>0. ASSUME NEW r \in rows, NEW s \in rows, r.priority < s.priority PROVE rank[r] < rank[s]
  <2>1. Below(r) \in SUBSET Below(s)
    BY <1>4, <1>0
  <2>2. Cardinality(Below(r)) <= Cardinality(Below(s))
    BY <1>2, <2>1, FS_Subset
  <2>3. rank[r] # rank[s] /\ rank[r] <= rank[s] /\ rank[r] \in Int /\ rank[s] \in Int
    BY <1>0, <1>3, <1>4, <2>2
  <2> HIDE DEF rank, Below, n
  <2> QED BY <2>3
<1>7. rank \in Surjection(rows, 1..n)
  <2>1. IsFiniteSet(1..n) /\ Cardinality(1..n) = n
    BY <1>1, FS_Interval
  <2> QED BY <1>6, <2>1, FS_Injection
<1>8. \A m \in 1..n : \E r \in rows : rank[r] = m
  BY <1>7 DEF Surjection
<1>9. \A m \in 1..n : ByPriority(rows)[m] \in rows /\ rank[ByPriority(rows)[m]] = m
  BY <1>8 DEF ByPriority
<1>10. DOMAIN ByPriority(rows) = 1..n
  BY DEF ByPriority
<1>11. \A r \in rows : ByPriority(rows)[rank[r]] = r
  BY <1>3, <1>5, <1>9
<1> HIDE DEF n, rank
<1>12. ToSet(ByPriority(rows)) \subseteq rows
  BY <1>9, <1>10 DEF ToSet
<1>13. rows \subseteq ToSet(ByPriority(rows))
  BY <1>3, <1>10, <1>11 DEF ToSet
<1>14. ASSUME NEW i \in 1..n, NEW j \in 1..n, i <= j
       PROVE  ByPriority(rows)[i].priority <= ByPriority(rows)[j].priority
  <2> PICK r \in rows : r = ByPriority(rows)[i] /\ rank[r] = i
    BY <1>9
  <2> PICK s \in rows : s = ByPriority(rows)[j] /\ rank[s] = j
    BY <1>9
  <2>1. ~(s.priority < r.priority)
    BY <1>0, <1>1, <1>14
  <2>2. QED
    BY <2>1
<1> QED BY <1>10, <1>12, <1>13, <1>14 DEF n

\* What is frozen with a quote is enough to find its rule again: the fingerprint
\* of the rules in force has the same rules in it.
LEMMA VersionHoldsTheRules ==
    ASSUME Inductive
    PROVE  Version(rules) = RuleRows(rules)
<1> DEFINE rows == RuleRows(rules)
           on == {j \in RuleIds : rules[j] # None /\ rules[j].enabled}
           Row(i) == [id |-> i, priority |-> rules[i].priority, conditions |-> NoConditions,
                      action |-> rules[i].action]
<1>1. rows = {Row(i) : i \in on}
  BY DEF RuleRows
<1>2. \A i \in on : rules[i].priority \in Int /\ rules[i].action \in Actions
  BY DEF Inductive, RuleTrue
<1>3. IsFiniteSet(rows)
  <2>1. IsFiniteSet(on)
    BY DecisionsAssumption, FS_Subset
  <2>2. [i \in on |-> Row(i)] \in Surjection(on, rows)
    BY <1>1 DEF Surjection
  <2> QED BY <2>1, <2>2, FS_Surjection
<1>4. \A r \in rows : r.priority \in Int
  BY <1>1, <1>2
<1>5. \A r, s \in rows : r # s => r.priority # s.priority
  BY <1>1, <1>2 DEF Inductive, PrioritiesDiffer
<1>6. \A r \in rows : Readable(r)
  BY <1>1, <1>2, DecisionsAssumption DEF Readable, NoConditions
<1>7. ToSet(ParseRules(rows)) = rows
  <2> HIDE DEF rows
  <2> QED BY <1>3, <1>4, <1>5, <1>6, SortingKeepsTheRules DEF ParseRules
<1>8. \A r \in rows : r = [id |-> r.id, priority |-> r.priority, conditions |-> r.conditions,
                            action |-> r.action]
  BY <1>1
<1> HIDE DEF rows
<1>9. Fingerprint(ParseRules(rows)) = rows
  BY <1>7, <1>8 DEF Fingerprint
<1> QED BY <1>9 DEF Version, rows

-----------------------------------------------------------------------------
\* The key of the machine names the quote and nothing else.
LEMMA MachineKey ==
    ASSUME NEW q \in Quotes, NEW r \in Recs
    PROVE  AutoKeyOf(q, r) = <<"auto", q>> /\ AutoKeyOf(q, r) \in AutoKeys /\ AutoKeyOf(q, r) \in Keys
BY DEF AutoKeyOf, AutoKeys, Keys

\* Who decides, has a key; and who recommends, a recommendation that is not None.
LEMMA KeyOfLocals ==
    ASSUME NEW r
    PROVE  /\ Asks(r) \/ Selects(r) => r.key \in Keys
           /\ Selects(r) => r.key \in AutoKeys /\ r.recId # None
           /\ Inserts(r) => Asks(r) \/ Selects(r)
BY MachineKey, DecisionsAssumption DEF Asks, Selects, Recommends, MadeFrom, Inserts

\* At the start nothing is stored and nobody works.
LEMMA InductiveInit == Init => Inductive
<1> SUFFICES ASSUME Init PROVE Inductive
  OBVIOUS
<1>1. \A h \in Handlers : LocalsTrue(handler[h])
  BY DEF Init, LocalsTrue, Idle, Working
<1>2. \A g, h \in Handlers : Apart(handler[g], handler[h])
  BY DEF Init, Apart, Idle, Working, Writes
<1>3. (\A k \in Keys : DecisionTrue(k)) /\ (\A q \in Quotes : QuoteTrue(q))
  BY DEF Init, DecisionTrue, QuoteTrue
<1>4. (\A i \in RuleIds : RuleTrue(rules[i])) /\ PrioritiesDiffer(rules)
  BY DEF Init, RuleTrue, PrioritiesDiffer
<1> QED BY <1>1, <1>2, <1>3, <1>4 DEF Inductive, Init

\* What is stored stays: quotes, recommendations and decisions are only added.
Grows ==
    /\ \A q \in Quotes : quotes[q] # None => quotes'[q] = quotes[q]
    /\ \A k \in Keys : decisions[k] # None => decisions'[k] = decisions[k]

\* The locals of a request stay true while the tables grow, as long as nobody
\* takes its recommendation or its key.
LEMMA LocalsStay ==
    ASSUME NEW r, LocalsTrue(r), Grows,
           r.step \in Working /\ r.recId \in Recs => recs'[r.recId] = recs[r.recId],
           Writes(r) => decisions'[r.key] = decisions[r.key]
    PROVE  LocalsTrue(r)'
<1>1. \A rec : MadeFrom(rec) => MadeFrom(rec)'
  BY DEF MadeFrom, Grows
<1>2. \A d, q : q \in Quotes /\ quotes[q] # None /\ Chosen(d, q) => Chosen(d, q)'
  BY DEF Chosen, Grows
<1>3. r.step \in Working /\ Recommends(r) => Recommends(r)'
  BY <1>1 DEF Recommends
<1>4. Asks(r) => Asks(r)'
  BY DEF Asks
<1>5. r.step \in Working /\ Selects(r) => Selects(r)'
  <2>1. Selects(r) => r.rec.quote \in Quotes /\ quotes[r.rec.quote] # None
    BY DEF Selects, Recommends, MadeFrom
  <2> QED BY <1>2, <1>3, <2>1 DEF Selects
<1>6. r.step \in Working /\ Inserts(r) => Inserts(r)'
  BY <1>4, <1>5 DEF Inserts
<1>7. \A a : Stored(a) => Stored(a)'
  BY DEF Stored, Made, Grows
<1> HIDE DEF Grows
<1> QED BY <1>3, <1>4, <1>5, <1>6, <1>7 DEF LocalsTrue, Working, Writes

\* So does a stored decision, if its recommendation stays too.
LEMMA DecisionStays ==
    ASSUME NEW k \in Keys, DecisionTrue(k), Grows, decisions'[k] = decisions[k],
           \A r \in Recs : recs[r] # None => recs'[r] = recs[r]
    PROVE  DecisionTrue(k)'
<1>1. \A d, q : q \in Quotes /\ quotes[q] # None /\ Chosen(d, q) => Chosen(d, q)'
  BY DEF Chosen, Grows
<1>2. \A q \in Quotes : quotes[q] # None => quotes'[q] = quotes[q]
  BY DEF Grows
<1> QED BY <1>1, <1>2 DEF DecisionTrue

\* A request that goes on and commits nothing.
LEMMA Gone ==
    ASSUME Inductive, NEW h \in Handlers, NEW r, Go(h, r),
           UNCHANGED <<rules, quotes, recs, decisions>>, LocalsTrue(r),
           \A g \in Handlers \ {h} : Apart(handler[g], r) /\ Apart(r, handler[g])
    PROVE  Inductive'
<1>1. DOMAIN handler' = Handlers /\ handler'[h] = r
      /\ \A g \in Handlers \ {h} : handler'[g] = handler[g]
  BY DEF Inductive, Go
<1>2. Grows
  BY DEF Grows
<1>3. ASSUME NEW g \in Handlers PROVE LocalsTrue(handler[g])'
  <2>1. PICK e : e = handler'[g]
    OBVIOUS
  <2>2. LocalsTrue(e)
    BY <1>1, <2>1 DEF Inductive
  <2>3. LocalsTrue(e)'
    BY <1>2, <2>2, LocalsStay
  <2> QED BY <2>1, <2>3 DEF LocalsTrue, Asks, Selects, Recommends, MadeFrom, Inserts, Chosen, Stored
<1>4. \A f, g \in Handlers : f # g => Apart(handler'[f], handler'[g])
  BY <1>1 DEF Inductive
<1>5. \A f, g \in Handlers : f # g => Apart(handler[f], handler[g])'
  BY <1>4 DEF Apart, Writes
<1>6. \A k \in Keys : DecisionTrue(k)'
  BY <1>2, DecisionStays DEF Inductive
<1>7. \A q \in Quotes : QuoteTrue(q)'
  BY DEF Inductive, QuoteTrue
<1>8. (\A i \in RuleIds : RuleTrue(rules[i])') /\ PrioritiesDiffer(rules)'
  BY DEF Inductive, RuleTrue, PrioritiesDiffer
<1> QED BY <1>1, <1>3, <1>5, <1>6, <1>7, <1>8 DEF Inductive

\* A request that does not work any more is apart from all others.
LEMMA ApartWhenDone ==
    ASSUME NEW r, r.step \notin Working, NEW s
    PROVE  Apart(r, s) /\ Apart(s, r)
BY DEF Apart, Working, Writes

\* One that goes on with the same recommendation, and nothing to write.
LEMMA ApartAsBefore ==
    ASSUME Inductive, NEW h \in Handlers, NEW r, NEW g \in Handlers \ {h},
           handler[h].step \in Working, r.recId = handler[h].recId, ~Writes(r)
    PROVE  Apart(handler[g], r) /\ Apart(r, handler[g])
<1>1. Apart(handler[h], handler[g]) /\ Apart(handler[g], handler[h])
  BY DEF Inductive
<1> QED BY <1>1 DEF Apart

-----------------------------------------------------------------------------
\* A request that is given up, refused or answered at once leaves no locals behind.
LEMMA BackToIdle ==
    ASSUME Inductive, NEW h \in Handlers, Go(h, Idle),
           UNCHANGED <<rules, quotes, recs, decisions>>
    PROVE  Inductive'
<1>1. LocalsTrue(Idle) /\ Idle.step \notin Working
  BY DEF LocalsTrue, Idle, Working
<1> QED BY <1>1, ApartWhenDone, Gone

\* recommend takes a number that nobody has.
LEMMA Recommended ==
    ASSUME Inductive, NEW h \in Handlers, NEW q \in Quotes, NEW s, NEW a \in BOOLEAN,
           Recommend(h, q, s, a)
    PROVE  Inductive'
<1> DEFINE best == LET b == Best(Rank(OffersOf[q], s)) IN IF b = None THEN None ELSE b.id
           e(r) == [step |-> IF a THEN "consider" ELSE "commit", recId |-> r,
                    rec |-> [quote |-> q, strategy |-> s, version |-> quotes[q].version,
                             best |-> best],
                    key |-> None, decision |-> None, answer |-> None]
<1>1. PICK r \in FreeRecs : Go(h, e(r))
  BY DEF Recommend
<1>2. quotes[q] # None /\ UNCHANGED <<rules, quotes, recs, decisions>>
  BY DEF Recommend, Data
<1> HIDE DEF best
<1>3. Recommends(e(r))
  BY <1>1, <1>2 DEF Recommends, MadeFrom, FreeRecs
<1>4. LocalsTrue(e(r))
  BY <1>3 DEF LocalsTrue, Working
<1>5. \A g \in Handlers : Apart(handler[g], e(r)) /\ Apart(e(r), handler[g])
  BY <1>1 DEF FreeRecs, Apart, Working, Writes
<1> HIDE DEF e
<1> QED BY <1>1, <1>2, <1>4, <1>5, Gone

\* consider leaves the recommendation as it is, answers with the decision of the
\* quote, or decides by the rule that the quote was frozen with.
LEMMA Considered ==
    ASSUME Inductive, NEW h \in Handlers, Consider(h)
    PROVE  Inductive'
<1> DEFINE e == handler[h]
           key == AutoKeyOf(e.rec.quote, e.recId)
           plain == [step |-> "commit", recId |-> e.recId, rec |-> e.rec, key |-> e.key,
                     decision |-> e.decision, answer |-> e.answer]
           found == [step |-> "commit", recId |-> e.recId, rec |-> e.rec, key |-> e.key,
                     decision |-> e.decision, answer |-> decisions[key]]
           decides == [step |-> "decide", recId |-> e.recId, rec |-> e.rec, key |-> key,
                       decision |-> AutoBody(e.rec, e.recId), answer |-> e.answer]
<1>1. e = [step |-> e.step, recId |-> e.recId, rec |-> e.rec, key |-> e.key,
           decision |-> e.decision, answer |-> e.answer]
      /\ Recommends(e) /\ e.decision = None /\ e.answer = None /\ e.step = "consider"
  BY DEF Inductive, LocalsTrue, Working, Consider, At
<1>2. UNCHANGED <<rules, quotes, recs, decisions>>
  BY DEF Consider, Data
<1>3. /\ [e EXCEPT !.step = "commit"] = plain
      /\ [e EXCEPT !.step = "commit", !.answer = decisions[key]] = found
      /\ [e EXCEPT !.step = "decide", !.key = key,
                   !.decision = AutoBody(e.rec, e.recId)] = decides
  <2> DEFINE d == AutoBody(e.rec, e.recId)
             stored == decisions[key]
             started == [step |-> "decide", recId |-> e.recId, rec |-> e.rec, key |-> e.key,
                         decision |-> e.decision, answer |-> e.answer]
             keyed == [step |-> "decide", recId |-> e.recId, rec |-> e.rec, key |-> key,
                       decision |-> e.decision, answer |-> e.answer]
  <2> HIDE DEF e, key, d, stored
  <2>1. [e EXCEPT !.step = "commit"] = plain /\ [e EXCEPT !.step = "decide"] = started
    BY <1>1
  <2>2. /\ [plain EXCEPT !.answer = stored] =
             [step |-> "commit", recId |-> e.recId, rec |-> e.rec, key |-> e.key,
              decision |-> e.decision, answer |-> stored]
        /\ [started EXCEPT !.key = key] = keyed
        /\ [keyed EXCEPT !.decision = d] =
             [step |-> "decide", recId |-> e.recId, rec |-> e.rec, key |-> key,
              decision |-> d, answer |-> e.answer]
    OBVIOUS
  <2>3. /\ [e EXCEPT !.step = "commit", !.answer = stored] = [plain EXCEPT !.answer = stored]
        /\ [e EXCEPT !.step = "decide", !.key = key, !.decision = d] =
              [[started EXCEPT !.key = key] EXCEPT !.decision = d]
    <3> HIDE DEF plain, started
    <3> QED BY <2>1
  <2> HIDE DEF keyed
  <2> QED BY <2>1, <2>2, <2>3 DEF d, stored
<1>4. \/ Go(h, plain)
      \/ Go(h, found) /\ decisions[key] # None
      \/ Go(h, decides) /\ quotes[e.rec.quote].auto.rule # None
  <2>1. SkipReason(e.rec.quote, e.rec) \notin {"no_rule", "other_strategy"} =>
            quotes[e.rec.quote].auto.rule # None
    BY DEF SkipReason
  <2> HIDE DEF e, key, plain, found, decides
  <2>2. \/ Go(h, plain)
        \/ decisions[key] # None /\ Go(h, found)
        \/ SkipReason(e.rec.quote, e.rec) \notin {"no_rule", "other_strategy"} /\ Go(h, decides)
    BY <1>3 DEF Consider, e, key
  <2> QED BY <2>1, <2>2
<1>5. CASE Go(h, plain)
  <2>1. LocalsTrue(plain)
    BY <1>1 DEF LocalsTrue, Working, Recommends, MadeFrom
  <2>2. plain.recId = e.recId /\ ~Writes(plain) /\ e.step \in Working
    BY <1>1 DEF Writes, Working
  <2> HIDE DEF plain
  <2> QED BY <1>2, <1>5, <2>1, <2>2, ApartAsBefore, Gone
<1>6. CASE Go(h, found) /\ decisions[key] # None
  <2>1. Stored(decisions[key])
    BY <1>1, <1>6, MachineKey DEF Stored, Made, Recommends, MadeFrom
  <2>2. LocalsTrue(found)
    BY <1>1, <2>1 DEF LocalsTrue, Working, Recommends, MadeFrom
  <2>3. found.recId = e.recId /\ ~Writes(found) /\ e.step \in Working
    BY <1>1 DEF Writes, Working
  <2> HIDE DEF found
  <2> QED BY <1>2, <1>6, <2>2, <2>3, ApartAsBefore, Gone
<1>7. CASE Go(h, decides) /\ quotes[e.rec.quote].auto.rule # None
  <2> DEFINE d == AutoBody(e.rec, e.recId)
  <2>1. d.rec = e.recId /\ d.selection = quotes[e.rec.quote].auto
        /\ d.offer = Select(OffersOf[e.rec.quote], d.selection.rule, FALSE).offer
    BY DEF AutoBody
  <2>2. d.selection # NoSelection
    BY <1>7, <2>1 DEF NoSelection
  <2> HIDE DEF d
  <2>3. Selects([step |-> "decide", recId |-> e.recId, rec |-> e.rec, key |-> key,
                 decision |-> d, answer |-> e.answer])
    BY <1>1, <2>1, <2>2 DEF Selects, Recommends, MadeFrom, Chosen
  <2>4. Selects(decides)
    BY <2>3 DEF d
  <2>5. LocalsTrue(decides)
    BY <1>1, <2>4 DEF LocalsTrue, Working
  <2>6. decides.recId = e.recId /\ ~Writes(decides) /\ e.step \in Working
    BY <1>1 DEF Writes, Working
  <2>7. \A g \in Handlers \ {h} : Apart(handler[g], decides) /\ Apart(decides, handler[g])
    <3> HIDE DEF decides
    <3> QED BY <2>6, ApartAsBefore
  <2> HIDE DEF decides, e
  <2> QED BY <1>2, <1>7, <2>5, <2>7, Gone
<1> HIDE DEF plain, found, decides, key
<1> QED BY <1>4, <1>5, <1>6, <1>7

\* A client asks with a key that is not one of the machine.
LEMMA Requested ==
    ASSUME Inductive, NEW h \in Handlers, NEW k \in ClientKeys, NEW b \in Bodies,
           NEW u \in Actors, RequestDecision(h, k, b, u)
    PROVE  Inductive'
<1> DEFINE e == [step |-> "decide", recId |-> None, rec |-> None, key |-> k,
                 decision |-> [rec |-> b.rec, offer |-> b.offer, mode |-> b.mode,
                               actor |-> u, selection |-> NoSelection, reason |-> b.reason],
                 answer |-> None]
<1>1. Go(h, e) /\ k \notin AutoKeys /\ UNCHANGED <<rules, quotes, recs, decisions>>
  BY DEF RequestDecision, Acceptable, Data
<1>2. Asks(e)
  BY <1>1 DEF Asks, Keys
<1>3. LocalsTrue(e)
  BY <1>2 DEF LocalsTrue, Working
<1>4. \A g \in Handlers : Apart(handler[g], e) /\ Apart(e, handler[g])
  BY DEF Apart, Writes
<1> HIDE DEF e
<1> QED BY <1>1, <1>3, <1>4, Gone

\* A decision that is refused leaves the recommendation as it is, or nothing.
LEMMA Refusal ==
    ASSUME Inductive, NEW h \in Handlers, At(h, "decide"), Rejected(h),
           UNCHANGED <<rules, quotes, recs, decisions>>
    PROVE  Inductive'
<1> DEFINE e == handler[h]
           started == [step |-> "commit", recId |-> e.recId, rec |-> e.rec, key |-> e.key,
                       decision |-> e.decision, answer |-> e.answer]
           plain == [step |-> "commit", recId |-> e.recId, rec |-> e.rec, key |-> e.key,
                     decision |-> None, answer |-> e.answer]
<1>1. e = [step |-> e.step, recId |-> e.recId, rec |-> e.rec, key |-> e.key,
           decision |-> e.decision, answer |-> e.answer]
      /\ (Asks(e) \/ Selects(e)) /\ e.answer = None /\ e.step = "decide"
  BY DEF Inductive, LocalsTrue, Working, At
<1>2. [e EXCEPT !.step = "commit", !.decision = None] = plain
  <2> HIDE DEF e
  <2>1. [e EXCEPT !.step = "commit"] = started
    BY <1>1
  <2>2. [started EXCEPT !.decision = None] = plain
    OBVIOUS
  <2> HIDE DEF started
  <2>3. [e EXCEPT !.step = "commit", !.decision = None] = [started EXCEPT !.decision = None]
    BY <2>1
  <2> QED BY <2>2, <2>3
<1>3. CASE e.recId # None /\ Go(h, plain)
  <2>1. Recommends(e)
    BY <1>1, <1>3 DEF Asks, Selects
  <2>2. LocalsTrue(plain)
    BY <1>1, <2>1 DEF LocalsTrue, Working, Recommends, MadeFrom
  <2>3. plain.recId = e.recId /\ ~Writes(plain) /\ e.step \in Working
    BY <1>1 DEF Writes, Working
  <2> HIDE DEF plain
  <2>4. \A g \in Handlers \ {h} : Apart(handler[g], plain) /\ Apart(plain, handler[g])
    BY <2>3, ApartAsBefore
  <2> QED BY <1>3, <2>2, <2>4, Gone
<1>4. CASE Go(h, Idle)
  BY <1>4, BackToIdle
<1> HIDE DEF plain
<1> QED BY <1>2, <1>3, <1>4 DEF Rejected

\* decide answers with the decision of the key, prepares one, or refuses.
LEMMA Decided ==
    ASSUME Inductive, NEW h \in Handlers, Decide(h)
    PROVE  Inductive'
<1> DEFINE e == handler[h]
           d == e.decision
           stored == decisions[e.key]
           rec == IF e.recId # None THEN e.rec ELSE recs[d.rec]
           same == [step |-> "done", sent |-> BodyOf(d), answer |-> stored]
           started == [step |-> "insert", recId |-> e.recId, rec |-> e.rec, key |-> e.key,
                       decision |-> e.decision, answer |-> e.answer]
           inserts == [step |-> "insert", recId |-> e.recId, rec |-> e.rec, key |-> e.key,
                       decision |-> DecisionRow(rec, d), answer |-> e.answer]
<1>1. e = [step |-> e.step, recId |-> e.recId, rec |-> e.rec, key |-> e.key,
           decision |-> e.decision, answer |-> e.answer]
      /\ (Asks(e) \/ Selects(e)) /\ e.answer = None /\ e.step = "decide"
  BY DEF Inductive, LocalsTrue, Working, Decide, At
<1>2. UNCHANGED <<rules, quotes, recs, decisions>> /\ At(h, "decide")
  BY DEF Decide, Data
<1>3. [e EXCEPT !.step = "insert", !.decision = DecisionRow(rec, d)] = inserts
  <2> DEFINE row == DecisionRow(rec, d)
  <2> HIDE DEF e, row
  <2>1. [e EXCEPT !.step = "insert"] = started
    BY <1>1
  <2>2. [started EXCEPT !.decision = row] =
           [step |-> "insert", recId |-> e.recId, rec |-> e.rec, key |-> e.key,
            decision |-> row, answer |-> e.answer]
    OBVIOUS
  <2> HIDE DEF started
  <2>3. [e EXCEPT !.step = "insert", !.decision = row] = [started EXCEPT !.decision = row]
    BY <2>1
  <2> QED BY <2>2, <2>3 DEF row
<1>4. \/ stored # None /\ SameRequest(stored, d) /\ Go(h, same)
      \/ rec # None /\ Go(h, inserts)
      \/ Rejected(h)
  <2> HIDE DEF same, inserts
  <2> QED BY <1>3 DEF Decide, same
<1>5. CASE stored # None /\ SameRequest(stored, d) /\ Go(h, same)
  <2>1. Stored(stored)
    BY <1>1, <1>5, KeyOfLocals DEF Stored, Made
  <2>2. same.sent = stored.sent
    BY <1>5 DEF SameRequest
  <2>3. same.step = "done" /\ same.answer = stored
    OBVIOUS
  <2> HIDE DEF same, stored
  <2>4. LocalsTrue(same) /\ same.step \notin Working
    BY <2>1, <2>2, <2>3 DEF LocalsTrue, Working
  <2> QED BY <1>2, <1>5, <2>4, ApartWhenDone, Gone
<1>6. CASE rec # None /\ Go(h, inserts)
  <2> DEFINE row == DecisionRow(rec, d)
  <2>1. row.rec = d.rec /\ row.quote = rec.quote /\ row.offer = d.offer
        /\ row.selection = d.selection
    BY DEF DecisionRow
  <2>2. inserts = [step |-> "insert", recId |-> e.recId, rec |-> e.rec, key |-> e.key,
                   decision |-> row, answer |-> None]
    BY <1>1
  <2>3. Selects(e) => rec = e.rec
    BY KeyOfLocals
  <2> HIDE DEF row, inserts
  <2>4. Asks(e) => Asks(inserts)
    BY <2>1, <2>2 DEF Asks
  <2>5. Selects(e) => Selects(inserts) /\ inserts.rec # None
                     /\ inserts.decision.quote = inserts.rec.quote
    BY <1>6, <2>1, <2>2, <2>3 DEF Selects, Recommends, MadeFrom, Chosen
  <2>6. LocalsTrue(inserts)
    BY <1>1, <2>2, <2>4, <2>5 DEF LocalsTrue, Working, Inserts
  <2>7. inserts.recId = e.recId /\ ~Writes(inserts) /\ e.step \in Working
    BY <1>1, <2>2 DEF Writes, Working
  <2>8. \A g \in Handlers \ {h} : Apart(handler[g], inserts) /\ Apart(inserts, handler[g])
    BY <2>7, ApartAsBefore
  <2> QED BY <1>2, <1>6, <2>6, <2>8, Gone
<1>7. CASE Rejected(h)
  BY <1>2, <1>7, Refusal
<1> HIDE DEF same, inserts
<1> QED BY <1>4, <1>5, <1>6, <1>7

\* The flush waits for the other sessions with this key.
LEMMA Flushed ==
    ASSUME Inductive, NEW h \in Handlers, Insert(h)
    PROVE  Inductive'
<1> DEFINE e == handler[h]
           started == [step |-> "commit", recId |-> e.recId, rec |-> e.rec, key |-> e.key,
                       decision |-> e.decision, answer |-> e.answer]
           writes == [step |-> "commit", recId |-> e.recId, rec |-> e.rec, key |-> e.key,
                      decision |-> e.decision, answer |-> e.decision]
<1>1. e = [step |-> e.step, recId |-> e.recId, rec |-> e.rec, key |-> e.key,
           decision |-> e.decision, answer |-> e.answer]
      /\ Inserts(e) /\ e.answer = None /\ e.step = "insert"
  BY DEF Inductive, LocalsTrue, Working, Insert, At
<1>2. UNCHANGED <<rules, quotes, recs, decisions>>
  BY DEF Insert, Data
<1>3. [e EXCEPT !.step = "commit", !.answer = e.decision] = writes
  <2> HIDE DEF e
  <2>1. [e EXCEPT !.step = "commit"] = started
    BY <1>1
  <2>2. [started EXCEPT !.answer = e.decision] = writes
    OBVIOUS
  <2> HIDE DEF started
  <2>3. [e EXCEPT !.step = "commit", !.answer = e.decision] = [started EXCEPT !.answer = e.decision]
    BY <2>1
  <2> QED BY <2>2, <2>3
<1>4. \/ Go(h, Idle)
      \/ decisions[e.key] = None /\ Go(h, writes)
  <2> HIDE DEF writes
  <2> QED BY <1>3 DEF Insert
<1>5. CASE decisions[e.key] = None /\ Go(h, writes)
  <2>1. Inserts(writes) /\ (e.recId = None \/ Recommends(writes))
    BY <1>1 DEF Inserts, Asks, Selects, Recommends, MadeFrom, Chosen
  <2>2. LocalsTrue(writes)
    BY <1>5, <2>1 DEF LocalsTrue, Working
  <2>3. ASSUME NEW g \in Handlers \ {h}
        PROVE  Apart(handler[g], writes) /\ Apart(writes, handler[g])
    <3>1. Apart(handler[h], handler[g]) /\ Apart(handler[g], handler[h])
      BY DEF Inductive
    <3>2. Writes(handler[g]) => handler[g].key # e.key
      BY DEF Insert, Writing, Writes, At
    <3> QED BY <1>1, <3>1, <3>2 DEF Apart, Working
  <2> HIDE DEF writes
  <2> QED BY <1>2, <1>5, <2>2, <2>3, Gone
<1>6. CASE Go(h, Idle)
  BY <1>2, <1>6, BackToIdle
<1> HIDE DEF writes
<1> QED BY <1>4, <1>5, <1>6

-----------------------------------------------------------------------------
\* The commit adds a recommendation and a decision that nobody else can have added.
LEMMA Committed ==
    ASSUME Inductive, NEW h \in Handlers, Commit(h)
    PROVE  Inductive'
<1> DEFINE e == handler[h]
           ended == [step |-> "done", answer |-> e.answer,
                     sent |-> IF e.decision = None THEN None ELSE e.decision.sent]
<1>1. /\ e.step = "commit"
      /\ e.decision = None => (e.recId = None \/ Recommends(e)) /\ (e.answer = None \/ Stored(e.answer))
      /\ e.decision # None => Inserts(e) /\ e.answer = e.decision /\ decisions[e.key] = None
  BY DEF Inductive, LocalsTrue, Commit, At
<1>2. e.decision # None => e.key \in Keys
  BY <1>1, KeyOfLocals
<1>3. e.recId # None => Recommends(e)
  BY <1>1, KeyOfLocals DEF Inserts, Asks, Selects
<1>4. UNCHANGED <<rules, quotes>> /\ Go(h, ended)
  BY DEF Commit
<1>5. /\ DOMAIN recs' = Recs
      /\ \A r \in Recs : recs'[r] = IF e.recId # None /\ r = e.recId THEN e.rec ELSE recs[r]
  BY <1>3 DEF Commit, Inductive
<1>6. /\ DOMAIN decisions' = Keys
      /\ \A k \in Keys : decisions'[k] = IF e.decision # None /\ k = e.key THEN e.decision
                                                                      ELSE decisions[k]
  BY <1>2 DEF Commit, Inductive
<1>7. DOMAIN handler' = Handlers /\ handler'[h] = ended
      /\ \A g \in Handlers \ {h} : handler'[g] = handler[g]
  BY <1>4 DEF Inductive, Go
<1>8. Grows
  BY <1>1, <1>4, <1>6 DEF Grows
<1>9. \A r \in Recs : recs[r] # None => recs'[r] = recs[r]
  BY <1>3, <1>5 DEF Recommends
<1>10. \A k \in Keys : DecisionTrue(k)'
  <2> SUFFICES ASSUME NEW k \in Keys PROVE DecisionTrue(k)'
    OBVIOUS
  <2>1. CASE ~(e.decision # None /\ k = e.key)
    BY <1>6, <1>8, <1>9, <2>1, DecisionStays DEF Inductive
  <2>2. CASE e.decision # None /\ k = e.key /\ Asks(e)
    <3>1. decisions'[k] = e.decision /\ k \notin AutoKeys /\ e.decision.selection = NoSelection
      BY <1>6, <2>2 DEF Asks
    <3> QED BY <3>1 DEF DecisionTrue
  <2>3. CASE e.decision # None /\ k = e.key /\ ~Asks(e)
    <3>0. PICK d : d = e.decision
      OBVIOUS
    <3>1. Selects(e) /\ e.rec # None /\ d.quote = e.rec.quote /\ e.recId # None
      BY <1>1, <2>3, <3>0, KeyOfLocals DEF Inserts
    <3>2. e.rec.quote \in Quotes /\ e.recId \in Recs /\ k = <<"auto", d.quote>>
          /\ quotes[d.quote] # None /\ Chosen(d, d.quote) /\ d.rec = e.recId
          /\ e.rec.version = quotes[d.quote].version
      BY <2>3, <3>0, <3>1, MachineKey DEF Selects, Recommends, MadeFrom
    <3>3. decisions'[k] = d /\ recs'[d.rec] = e.rec
      BY <1>5, <1>6, <2>3, <3>0, <3>1, <3>2
    <3>4. Chosen(d, d.quote)'
      BY <1>4, <3>2 DEF Chosen
    <3>5. k \in AutoKeys
      BY <2>3, <3>1, KeyOfLocals
    <3> HIDE DEF e
    <3> QED BY <1>4, <3>1, <3>2, <3>3, <3>4, <3>5 DEF DecisionTrue
  <2> QED BY <2>1, <2>2, <2>3
<1>11. \A g \in Handlers : LocalsTrue(handler[g])'
  <2> SUFFICES ASSUME NEW g \in Handlers PROVE LocalsTrue(handler[g])'
    OBVIOUS
  <2>1. PICK r : r = handler'[g]
    OBVIOUS
  <2>2. CASE g # h
    <3>1. LocalsTrue(r) /\ Apart(r, e) /\ Apart(e, r) /\ r = handler[g]
      BY <1>7, <2>1, <2>2 DEF Inductive
    <3>2. r.step \in Working /\ r.recId \in Recs => recs'[r.recId] = recs[r.recId]
      BY <1>1, <1>5, <3>1 DEF Apart, Working
    <3>3. Writes(r) => r.key \in Keys
      BY <3>1, KeyOfLocals DEF LocalsTrue, Writes
    <3>4. Writes(r) => decisions'[r.key] = decisions[r.key]
      BY <1>1, <1>6, <3>1, <3>3 DEF Apart, Writes
    <3>5. LocalsTrue(r)'
      BY <1>8, <3>1, <3>2, <3>4, LocalsStay
    <3> QED BY <2>1, <3>5
              DEF LocalsTrue, Asks, Selects, Recommends, MadeFrom, Inserts, Chosen, Stored
  <2>3. CASE g = h
    <3>1. e.answer # None => \E k \in Keys : decisions'[k] = e.answer
      BY <1>1, <1>2, <1>6, <1>8 DEF Stored, Made, Grows
    <3>2. r.step = "done" /\ r.answer = e.answer
          /\ (e.answer # None => r.sent \in {None, e.answer.sent})
      BY <1>1, <1>7, <2>1, <2>3
    <3>3. r.answer # None => Stored(r.answer)'
      BY <3>1, <3>2 DEF Stored, Made
    <3>4. LocalsTrue(r)'
      BY <3>2, <3>3 DEF LocalsTrue, Working
    <3> QED BY <2>1, <3>4
              DEF LocalsTrue, Asks, Selects, Recommends, MadeFrom, Inserts, Chosen, Stored
  <2> QED BY <2>2, <2>3
<1>12. \A f, g \in Handlers : f # g => Apart(handler[f], handler[g])'
  <2>1. ended.step \notin Working
    BY DEF Working
  <2> HIDE DEF ended
  <2>2. \A f, g \in Handlers : f # g => Apart(handler'[f], handler'[g])
    BY <1>7, <2>1, ApartWhenDone DEF Inductive
  <2> QED BY <2>2 DEF Apart, Writes
<1>13. \A q \in Quotes : QuoteTrue(q)'
  BY <1>4 DEF Inductive, QuoteTrue
<1>14. (\A i \in RuleIds : RuleTrue(rules[i])') /\ PrioritiesDiffer(rules)'
  BY <1>4 DEF Inductive, RuleTrue, PrioritiesDiffer
<1> QED BY <1>4, <1>5, <1>6, <1>7, <1>10, <1>11, <1>12, <1>13, <1>14 DEF Inductive

\* A new quote is frozen with the version of the rules in force and their verdict.
LEMMA Rated ==
    ASSUME Inductive, NEW q \in Quotes, Rate(q)
    PROVE  Inductive'
<1>1. UNCHANGED <<rules, recs, decisions, handler>> /\ quotes[q] = None
  BY DEF Rate
<1>2. /\ DOMAIN quotes' = Quotes
      /\ \A p \in Quotes \ {q} : quotes'[p] = quotes[p]
      /\ quotes'[q].version = Version(rules) /\ quotes'[q].auto = AutoRule(RuleRows(rules))
  BY DEF Rate, Inductive
<1>3. Grows
  BY <1>1, <1>2 DEF Grows
<1>4. \A p \in Quotes : QuoteTrue(p)'
  <2>1. quotes'[q].auto = AutoRule(quotes'[q].version)
    BY <1>2, VersionHoldsTheRules
  <2>2. \A p \in Quotes : quotes'[p] # None => quotes'[p].auto = AutoRule(quotes'[p].version)
    BY <1>2, <2>1 DEF Inductive, QuoteTrue
  <2> QED BY <2>2 DEF QuoteTrue
<1>5. \A k \in Keys : DecisionTrue(k)'
  BY <1>1, <1>3, DecisionStays DEF Inductive
<1>6. ASSUME NEW g \in Handlers PROVE LocalsTrue(handler[g])'
  <2>1. PICK e : e = handler'[g]
    OBVIOUS
  <2>2. LocalsTrue(e)
    BY <1>1, <2>1 DEF Inductive
  <2>3. LocalsTrue(e)'
    BY <1>1, <1>3, <2>2, LocalsStay
  <2> QED BY <2>1, <2>3 DEF LocalsTrue, Asks, Selects, Recommends, MadeFrom, Inserts, Chosen, Stored
<1>7. \A f, g \in Handlers : f # g => Apart(handler[f], handler[g])'
  BY <1>1 DEF Inductive, Apart, Writes
<1>8. (\A i \in RuleIds : RuleTrue(rules[i])') /\ PrioritiesDiffer(rules)'
  BY <1>1 DEF Inductive, RuleTrue, PrioritiesDiffer
<1> QED BY <1>1, <1>2, <1>4, <1>5, <1>6, <1>7, <1>8 DEF Inductive

\* Nothing that the invariant looks at has changed.
LEMMA Unmoved ==
    ASSUME Inductive, UNCHANGED <<rules, quotes, recs, decisions, handler>>
    PROVE  Inductive'
<1>1. Grows
  BY DEF Grows
<1>2. ASSUME NEW g \in Handlers PROVE LocalsTrue(handler[g])'
  <2>1. PICK e : e = handler'[g]
    OBVIOUS
  <2>2. LocalsTrue(e)
    BY <2>1 DEF Inductive
  <2>3. LocalsTrue(e)'
    BY <1>1, <2>2, LocalsStay
  <2> QED BY <2>1, <2>3 DEF LocalsTrue, Asks, Selects, Recommends, MadeFrom, Inserts, Chosen, Stored
<1>3. \A f, g \in Handlers : f # g => Apart(handler[f], handler[g])'
  BY DEF Inductive, Apart, Writes
<1>4. (\A k \in Keys : DecisionTrue(k)') /\ (\A q \in Quotes : QuoteTrue(q)')
  BY <1>1, DecisionStays DEF Inductive, QuoteTrue
<1>5. (\A i \in RuleIds : RuleTrue(rules[i])') /\ PrioritiesDiffer(rules)'
  BY DEF Inductive, RuleTrue, PrioritiesDiffer
<1> QED BY <1>2, <1>3, <1>4, <1>5 DEF Inductive

\* The row that an edit leaves is a rule, with a priority that nobody else has.
LEMMA WrittenRow ==
    ASSUME Inductive, NEW h \in Handlers, handler[h].id \in RuleIds,
           handler[h].body \in RuleBodies,
           \A i \in RuleIds : handler[h].seen[i] # None => rules[i] # None
    PROVE  handler[h].body # None => RuleTrue(Written(h))
<1> DEFINE e == handler[h]
           old == e.seen[e.id]
           Column(c) == IF old # None /\ old[c] = e.body[c] THEN rules[e.id][c] ELSE e.body[c]
<1> SUFFICES ASSUME e.body # None PROVE RuleTrue(Written(h))
  OBVIOUS
<1>1. Written(h) = [priority |-> Column("priority"), enabled |-> Column("enabled"),
                    action |-> Column("action"), stamp |-> e.version]
  BY DEF Written
<1>2. Column("priority") \in Int /\ Column("action") \in Actions
  <2>1. e.body.priority \in Int /\ e.body.action \in Actions
    BY DecisionsAssumption
  <2>2. old # None => rules[e.id].priority \in Int /\ rules[e.id].action \in Actions
    BY DEF Inductive, RuleTrue
  <2> QED BY <2>1, <2>2
<1> HIDE DEF Column
<1> QED BY <1>1, <1>2 DEF RuleTrue

\* The commit of an edit keeps the priorities apart, or fails.
LEMMA RulesEdited ==
    ASSUME Inductive, NEW h \in Handlers, CommitEdit(h)
    PROVE  /\ DOMAIN rules' = RuleIds /\ \A i \in RuleIds : RuleTrue(rules'[i])
           /\ PrioritiesDiffer(rules')
<1> DEFINE e == handler[h]
<1>1. e.id \in RuleIds /\ e.body \in RuleBodies \cup {None}
  BY DEF Inductive, LocalsTrue, CommitEdit, At
<1>2. \/ rules' = rules
      \/ /\ rules' = Restamped(h)
         /\ \A i \in RuleIds : e.seen[i] # None => rules[i] # None
         /\ e.body # None => PriorityFree(rules, e.id, Written(h).priority)
  BY DEF CommitEdit
<1>3. CASE rules' = rules
  BY <1>3 DEF Inductive
<1>4. CASE /\ rules' = Restamped(h)
           /\ \A i \in RuleIds : e.seen[i] # None => rules[i] # None
           /\ e.body # None => PriorityFree(rules, e.id, Written(h).priority)
  <2>1. DOMAIN rules' = RuleIds /\ rules'[e.id] = Written(h)
    BY <1>1, <1>4 DEF Restamped
  <2>2. ASSUME NEW i \in RuleIds \ {e.id}
        PROVE  /\ RuleTrue(rules'[i])
               /\ rules'[i] # None => rules[i] # None /\ rules'[i].priority = rules[i].priority
    <3>1. RuleTrue(rules[i])
      BY DEF Inductive
    <3>2. rules'[i] = IF e.seen[i] # None THEN [rules[i] EXCEPT !.stamp = e.version] ELSE rules[i]
      BY <1>4 DEF Restamped
    <3>3. CASE e.seen[i] # None
      <4>1. rules[i] = [priority |-> rules[i].priority, enabled |-> rules[i].enabled,
                        action |-> rules[i].action, stamp |-> rules[i].stamp]
            /\ rules[i].priority \in Int /\ rules[i].action \in Actions /\ rules[i] # None
        BY <1>4, <3>1, <3>3 DEF RuleTrue
      <4>2. PICK row, v : row = rules[i] /\ v = e.version
        OBVIOUS
      <4>3. [row EXCEPT !.stamp = v] = [priority |-> row.priority, enabled |-> row.enabled,
                                        action |-> row.action, stamp |-> v]
        BY <4>1, <4>2
      <4> QED BY <3>2, <3>3, <4>1, <4>2, <4>3 DEF RuleTrue
    <3>4. CASE e.seen[i] = None
      BY <3>1, <3>2, <3>4
    <3> QED BY <3>3, <3>4
  <2>3. CASE e.body = None
    <3>1. rules'[e.id] = None
      BY <2>1, <2>3 DEF Written
    <3> QED BY <1>1, <2>1, <2>2, <3>1 DEF RuleTrue, PrioritiesDiffer, Inductive
  <2>4. CASE e.body # None
    <3>1. RuleTrue(rules'[e.id])
      BY <1>1, <1>4, <2>1, <2>4, WrittenRow
    <3>2. \A j \in RuleIds \ {e.id} : rules[j] # None => rules[j].priority # rules'[e.id].priority
      BY <1>4, <2>1, <2>4 DEF PriorityFree
    <3>3. PrioritiesDiffer(rules')
      BY <1>1, <2>2, <3>2 DEF PrioritiesDiffer, Inductive
    <3> QED BY <2>1, <2>2, <3>1, <3>3
  <2> QED BY <2>3, <2>4
<1> QED BY <1>2, <1>3, <1>4

\* Nobody else sees an edit but through the rules.
LEMMA EditCommitted ==
    ASSUME Inductive, NEW h \in Handlers, CommitEdit(h)
    PROVE  Inductive'
<1>1. UNCHANGED <<quotes, recs, decisions>> /\ Go(h, Idle)
  BY DEF CommitEdit
<1>2. DOMAIN handler' = Handlers /\ handler'[h] = Idle
      /\ \A g \in Handlers \ {h} : handler'[g] = handler[g]
  BY <1>1 DEF Inductive, Go
<1>3. LocalsTrue(Idle) /\ Idle.step \notin Working
  BY DEF LocalsTrue, Idle, Working
<1>4. Grows
  BY <1>1 DEF Grows
<1>5. ASSUME NEW g \in Handlers PROVE LocalsTrue(handler[g])'
  <2>1. PICK e : e = handler'[g]
    OBVIOUS
  <2>2. LocalsTrue(e)
    BY <1>2, <1>3, <2>1 DEF Inductive
  <2>3. LocalsTrue(e)'
    BY <1>1, <1>4, <2>2, LocalsStay
  <2> QED BY <2>1, <2>3 DEF LocalsTrue, Asks, Selects, Recommends, MadeFrom, Inserts, Chosen, Stored
<1>6. \A f, g \in Handlers : f # g => Apart(handler[f], handler[g])'
  <2>1. \A f, g \in Handlers : f # g => Apart(handler'[f], handler'[g])
    BY <1>2, <1>3, ApartWhenDone DEF Inductive
  <2> QED BY <2>1 DEF Apart, Writes
<1>7. (\A k \in Keys : DecisionTrue(k)') /\ (\A q \in Quotes : QuoteTrue(q)')
  BY <1>1, <1>4, DecisionStays DEF Inductive, QuoteTrue
<1>8. DOMAIN rules' = RuleIds /\ (\A i \in RuleIds : RuleTrue(rules[i])')
      /\ PrioritiesDiffer(rules)'
  BY RulesEdited DEF RuleTrue, PrioritiesDiffer
<1> QED BY <1>1, <1>2, <1>5, <1>6, <1>7, <1>8 DEF Inductive

\* An edit is flushed and waits for its commit.
LEMMA EditBegun ==
    ASSUME Inductive, NEW h \in Handlers, NEW i \in RuleIds, NEW b \in RuleBodies \cup {None},
           Edit(h, i, b)
    PROVE  Inductive'
<1> DEFINE v == Version(Edited(rules, i, b))
           e == [step |-> "edit", id |-> i, body |-> b, seen |-> rules, version |-> v]
<1>1. Go(h, e) /\ UNCHANGED <<rules, quotes, recs, decisions>>
  BY DEF Edit
<1> HIDE DEF v
<1>2. LocalsTrue(e) /\ e.step \notin Working
  BY DEF LocalsTrue, Working
<1> HIDE DEF e
<1> QED BY <1>1, <1>2, ApartWhenDone, Gone

-----------------------------------------------------------------------------
\* Every step keeps the invariant.
LEMMA InductiveStep == Inductive /\ [Next]_vars => Inductive'
<1> SUFFICES ASSUME Inductive, [Next]_vars PROVE Inductive'
  OBVIOUS
<1>1. CASE UNCHANGED vars
  BY <1>1, Unmoved DEF vars
<1>2. CASE \E q \in Quotes : Rate(q)
  BY <1>2, Rated
<1>3. CASE \E q \in Quotes : Expire(q)
  BY <1>3, Unmoved DEF Expire
<1>4. CASE \E h \in Handlers, q \in Quotes, s \in Asked, a \in BOOLEAN : Recommend(h, q, s, a)
  BY <1>4, Recommended
<1>5. CASE \E h \in Handlers, k \in ClientKeys, b \in Bodies, u \in Actors :
             RequestDecision(h, k, b, u)
  BY <1>5, Requested
<1>6. CASE \E h \in Handlers : Consider(h)
  BY <1>6, Considered
<1>7. CASE \E h \in Handlers : Decide(h)
  BY <1>7, Decided
<1>8. CASE \E h \in Handlers : Insert(h)
  BY <1>8, Flushed
<1>9. CASE \E h \in Handlers : Commit(h)
  BY <1>9, Committed
<1>10. CASE \E h \in Handlers : Abort(h)
  BY <1>10, BackToIdle DEF Abort, Data
<1>11. CASE \E h \in Handlers, i \in RuleIds, b \in RuleBodies \cup {None} : Edit(h, i, b)
  BY <1>11, EditBegun
<1>12. CASE \E h \in Handlers : CommitEdit(h)
  BY <1>12, EditCommitted
<1> QED BY <1>1, <1>2, <1>3, <1>4, <1>5, <1>6, <1>7, <1>8, <1>9, <1>10, <1>11, <1>12 DEF Next

\* The invariant of all three theorems.
LEMMA InductiveHolds == Spec => []Inductive
BY InductiveInit, InductiveStep, PTL DEF Spec

\* AutoSelectService and policy_fingerprint: what the machine decided can be found
\* again from the stored version of the rules, the recommendation and the offers,
\* however the rules are edited while it decides and after.
THEOREM DecisionsAreReproducible == Spec => []AutoIsReproducible
<1>1. Inductive => AutoIsReproducible
  <2> SUFFICES ASSUME Inductive, NEW k \in ByMachine
               PROVE  /\ decisions[k].selection = AutoRule(quotes[decisions[k].quote].version)
                      /\ recs[decisions[k].rec].quote = decisions[k].quote
                      /\ recs[decisions[k].rec].version = quotes[decisions[k].quote].version
                      /\ decisions[k].offer =
                            Select(OffersOf[decisions[k].quote], decisions[k].selection.rule, FALSE).offer
    BY DEF AutoIsReproducible
  <2>1. k \in AutoKeys /\ k \in Keys /\ decisions[k] # None
    BY DEF ByMachine, Made, Inductive, DecisionTrue
  <2>2. DecisionTrue(k)
    BY <2>1 DEF Inductive
  <2> QED BY <2>1, <2>2 DEF Inductive, DecisionTrue, Chosen, QuoteTrue
<1> QED BY <1>1, InductiveHolds, PTL

\* auto_idempotency_key and the unique constraint on it: a quote is decided by the
\* machine once, and only the machine decides under its keys.
THEOREM QuotesAreDecidedOnce == Spec => []OneAutoPerQuote
<1>1. Inductive => OneAutoPerQuote
  <2> SUFFICES ASSUME Inductive PROVE OneAutoPerQuote
    OBVIOUS
  <2>1. \A k \in Made : (k \in AutoKeys => k = <<"auto", decisions[k].quote>>
                                             /\ decisions[k].selection # NoSelection)
                        /\ (k \notin AutoKeys => decisions[k].selection = NoSelection)
    BY DEF Made, Inductive, DecisionTrue, Chosen
  <2>2. Made \cap AutoKeys = ByMachine
    BY <2>1 DEF ByMachine
  <2>3. \A k \in ByMachine : k = <<"auto", decisions[k].quote>>
    BY <2>1, <2>2
  <2> QED BY <2>2, <2>3 DEF OneAutoPerQuote
<1> QED BY <1>1, InductiveHolds, PTL

\* ensure_same_request and the wait of the flush: an answer is a committed decision,
\* made of the body that asked for it.
THEOREM AnswersMatchTheirBodies == Spec => []AnswerMatchesBody
<1>1. Inductive => AnswerMatchesBody
  BY DEF Inductive, LocalsTrue, Stored, AnswerMatchesBody, At
<1> QED BY <1>1, InductiveHolds, PTL

-----------------------------------------------------------------------------
\* A row of the list, and a request that is open.
ListRow == [status : {"new", "quoted", "selected", "created", "failed"}, quote : RowQuotes \cup {Nil},
            rec : Recommendations \cup {Nil}, decision : RowKeys \cup {Nil},
            shipment : RowKeys \cup {Nil}, error : BOOLEAN]
Call == [step : {"rows", "insert"}, kind : {"quote", "select", "create"}, request : 1..MaxRequests,
         seen : [Positions -> ListRow], new : [Positions -> ListRow],
         todo : SUBSET Positions, inserted : SUBSET RowKeys]
BulkTyped ==
    /\ runRows \in [Positions -> ListRow]
    /\ rowDecisions \in [RowKeys -> Recommendations \cup {Nil}]
    /\ rowShipments \in [RowKeys -> RowKeys \cup {Nil}]
    /\ caller \in [Callers -> Call \cup {Resting}]
    /\ requests \in 0..MaxRequests

\* A row is decided and shipped under its own key only, and shipped by its decision.
Own(r) == <<r, 0>>
KeysAreOwn ==
    \A k \in RowKeys :
        /\ rowDecisions[k] # Nil => k = Own(k[1])
        /\ rowShipments[k] # Nil => k = Own(k[1]) /\ rowShipments[k] = k

\* What a row names is committed.
Named(r, row) ==
    /\ row.decision = Nil <=> row.rec = Nil
    /\ row.decision # Nil => row.decision = Own(r) /\ rowDecisions[Own(r)] = row.rec
    /\ row.shipment # Nil => /\ row.shipment = Own(r) /\ row.decision # Nil
                             /\ rowShipments[Own(r)] = row.decision

\* Shipments are only added, each under the key of its row.
Shipped ==
    /\ rowShipments' \in [RowKeys -> RowKeys \cup {Nil}]
    /\ \A k \in RowKeys : /\ rowShipments[k] # Nil => rowShipments'[k] = rowShipments[k]
                          /\ rowShipments'[k] # Nil => k = Own(k[1]) /\ rowShipments'[k] = k
    /\ \A r \in Positions : rowShipments'[Own(r)] # Nil => runRows[r].decision # Nil

\* What a request has read of a row was not taken back, and what it makes of it.
Remains(r, row) ==
    /\ row.decision # Nil => runRows[r].decision = row.decision /\ runRows[r].rec = row.rec
    /\ row.shipment # Nil => runRows[r].shipment = row.shipment
Makes(t, r) ==
    /\ r \in t.todo => Takes(t.kind, t.seen[r]) /\ t.new[r] = t.seen[r]
    /\ Own(r) \in t.inserted =>
          /\ r \notin t.todo /\ t.seen[r].decision = Nil /\ rowDecisions[Own(r)] = Nil
          /\ t.new[r].decision = Own(r) /\ t.new[r].rec # Nil
    /\ Own(r) \notin t.inserted => t.new[r].decision = t.seen[r].decision /\ t.new[r].rec = t.seen[r].rec
    /\ \/ t.new[r].shipment = t.seen[r].shipment
       \/ t.new[r].shipment = Own(r) /\ t.seen[r].decision # Nil /\ rowShipments[Own(r)] = Own(r)
CallTrue(t) ==
    /\ t.step = "insert" => t.kind = "select"
    /\ \A k \in t.inserted : k = Own(k[1])
    /\ \A r \in Positions : Named(r, t.seen[r]) /\ Remains(r, t.seen[r]) /\ Makes(t, r)
InsertedApart ==
    \A g, h \in Callers : Calling(g) /\ Calling(h) /\ g # h => caller[g].inserted \cap caller[h].inserted = {}

\* As long as nobody overlaps: the one request there is has read the rows as they
\* are, and what it makes of them tells the truth as they do.
Tells(r, row, inserted) ==
    /\ row.status \in {"new", "quoted"} => Own(r) \notin inserted /\ rowDecisions[Own(r)] = Nil
    /\ row.status \in {"selected", "created"} => row.decision # Nil /\ row.rec.quote = row.quote
    /\ row.status = "created" => row.shipment # Nil
StatusTells ==
    /\ runStatus = "completed" <=> /\ \A r \in Positions : runRows[r].status \in {"created", "failed"}
                                   /\ \E r \in Positions : runRows[r].status = "created"
    /\ runStatus = "failed" <=> \A r \in Positions : runRows[r].status = "failed"
AllTell ==
    ~overlapped =>
        /\ StatusTells
        /\ \A r \in Positions : Tells(r, runRows[r], {})
        /\ \A g, h \in Callers : Calling(g) /\ Calling(h) => g = h
        /\ \A h \in Callers : Calling(h) =>
              /\ caller[h].seen = runRows
              /\ \A r \in Positions : Tells(r, caller[h].new[r], caller[h].inserted)

BulkInductive ==
    /\ BulkTyped /\ KeysAreOwn
    /\ \A r \in Positions : Named(r, runRows[r])
    /\ \A r \in Positions : rowShipments[Own(r)] # Nil => runRows[r].decision # Nil
    /\ \A h \in Callers : Calling(h) => CallTrue(caller[h])
    /\ InsertedApart /\ AllTell

\* The own key of a row is a key.
LEMMA OwnKey == \A r \in Positions : Own(r) \in RowKeys /\ Own(r)[1] = r /\ \A n : RowKey(r, n) = Own(r)
BY BulkAssumption DEF Own, RowKeys, RowKey

\* A request at rest is none.
LEMMA AtRest == Resting \notin Call /\ \A t \in Call : t # Resting /\ t.step # "idle"
<1>1. \A t \in Call : t.step # "idle"
  BY DEF Call
<1>2. Resting.step = "idle"
  BY DEF Resting
<1>3. QED
  BY <1>1, <1>2

\* A request that is open has its locals.
LEMMA OpenCall ==
    ASSUME BulkInductive, NEW h \in Callers
    PROVE  /\ Calling(h) <=> caller[h] # Resting
           /\ Calling(h) => caller[h] \in Call /\ CallTrue(caller[h])
BY AtRest DEF BulkInductive, BulkTyped, Calling, Resting

\* What is said of a row, and of a request, stays true while shipments are added.
LEMMA ShippedKeeps ==
    ASSUME Shipped, UNCHANGED <<runRows, rowDecisions>>
    PROVE  /\ \A row : \A r \in Positions : Named(r, row) => Named(r, row)'
           /\ \A t : CallTrue(t) => CallTrue(t)'
<1>0. \A r \in Positions : Own(r) \in RowKeys /\ Own(r) # Nil
  BY OwnKey, BulkAssumption
<1>1. \A row : \A r \in Positions : Named(r, row) => Named(r, row)'
  BY <1>0 DEF Named, Shipped
<1>2. \A row : \A r \in Positions : Remains(r, row)' = Remains(r, row)
  BY DEF Remains
<1>3. \A t : \A r \in Positions : Makes(t, r) => Makes(t, r)'
  BY <1>0 DEF Makes, Shipped, Takes
<1>4. ASSUME NEW t, CallTrue(t) PROVE CallTrue(t)'
  <2>1. ASSUME NEW r \in Positions
        PROVE  Named(r, t.seen[r])' /\ Remains(r, t.seen[r])' /\ Makes(t, r)'
    <3>1. Named(r, t.seen[r]) /\ Remains(r, t.seen[r]) /\ Makes(t, r)
      BY <1>4 DEF CallTrue
    <3>2. QED
      BY <1>1, <1>2, <1>3, <3>1
  <2>2. QED
    BY <1>4, <2>1 DEF CallTrue
<1>5. QED
  BY <1>1, <1>4

\* A request that goes on, or ends without a commit, leaves the rest as it was.
LEMMA CallGoesOn ==
    ASSUME BulkInductive, NEW h \in Callers, Calling(h), NEW t \in Call \cup {Resting}, GoesOn(h, t),
           UNCHANGED <<runStatus, runRows, rowDecisions, requests, overlapped>>, Shipped,
           t # Resting => /\ CallTrue(t)' /\ t.seen = caller[h].seen
                          /\ \A k \in t.inserted : k \in caller[h].inserted \/ Inserting(k) \ {h} = {}
                          /\ ~overlapped => \A r \in Positions : Tells(r, t.new[r], t.inserted)
    PROVE  BulkInductive'
<1>1. caller' = [g \in Callers |-> IF g = h THEN t ELSE caller[g]]
  BY DEF GoesOn, BulkInductive, BulkTyped
<1>2. BulkTyped' /\ KeysAreOwn'
  BY <1>1 DEF BulkInductive, BulkTyped, KeysAreOwn, Shipped
<1>3. /\ \A r \in Positions : Named(r, runRows[r])'
      /\ \A r \in Positions : (rowShipments[Own(r)] # Nil => runRows[r].decision # Nil)'
  BY ShippedKeeps DEF BulkInductive, Shipped
<1>4. \A g \in Callers : Calling(g)' <=> IF g = h THEN t # Resting ELSE Calling(g)
  BY <1>1, AtRest DEF Calling, Resting
<1>5. ASSUME NEW g \in Callers, Calling(g)' PROVE CallTrue(caller[g])'
  <2> PICK u : u = caller'[g]
    OBVIOUS
  <2>1. CASE g = h
    BY <1>1, <1>4, <1>5, <2>1
  <2>2. CASE g # h
    <3>1. u = caller[g] /\ CallTrue(u)
      BY <1>1, <1>4, <1>5, <2>2, OpenCall
    <3>2. CallTrue(u)'
      BY <3>1, ShippedKeeps
    <3>3. QED
      BY <3>2
  <2>3. QED
    BY <2>1, <2>2
<1>6. InsertedApart'
  <2> SUFFICES ASSUME NEW f \in Callers, NEW g \in Callers, Calling(f)', Calling(g)', f # g,
                      NEW k, k \in caller'[f].inserted, k \in caller'[g].inserted
               PROVE  FALSE
    BY DEF InsertedApart
  <2>1. \A e \in Callers : Calling(e)' => Calling(e)
    BY <1>4
  <2>2. ASSUME NEW e \in Callers, NEW d \in Callers, e = h, d # h, Calling(d),
               k \in caller'[e].inserted, k \in caller'[d].inserted, Calling(e)'
        PROVE  FALSE
    <3>1. k \in t.inserted /\ k \in caller[d].inserted /\ t # Resting
      BY <1>1, <1>4, <2>2
    <3>2. k \in caller[h].inserted
      BY <2>2, <3>1 DEF Inserting
    <3>3. QED
      BY <2>2, <3>1, <3>2 DEF BulkInductive, InsertedApart
  <2>3. CASE f = h
    BY <2>1, <2>2, <2>3
  <2>4. CASE g = h
    BY <2>1, <2>2, <2>4
  <2>5. CASE f # h /\ g # h
    BY <1>1, <2>1, <2>5 DEF BulkInductive, InsertedApart
  <2>6. QED
    BY <2>3, <2>4, <2>5
<1>7. AllTell'
  <2> SUFFICES ASSUME ~overlapped
               PROVE  /\ StatusTells'
                      /\ \A r \in Positions : Tells(r, runRows[r], {})'
                      /\ \A f, g \in Callers : Calling(f)' /\ Calling(g)' => f = g
                      /\ \A g \in Callers : Calling(g)' =>
                            /\ caller'[g].seen = runRows'
                            /\ \A r \in Positions : Tells(r, caller[g].new[r], caller[g].inserted)'
    BY DEF AllTell
  <2>1. StatusTells' /\ \A r \in Positions : Tells(r, runRows[r], {})'
    BY DEF BulkInductive, AllTell, StatusTells, Tells
  <2>2. \A g \in Callers : Calling(g) <=> g = h
    BY DEF BulkInductive, AllTell
  <2>3. \A f, g \in Callers : Calling(f)' /\ Calling(g)' => f = g
    BY <1>4, <2>2
  <2>4. ASSUME NEW g \in Callers, Calling(g)'
        PROVE  /\ caller'[g].seen = runRows'
               /\ \A r \in Positions : Tells(r, caller[g].new[r], caller[g].inserted)'
    <3>1. g = h /\ t # Resting /\ caller'[g] = t
      BY <1>1, <1>4, <2>2, <2>4
    <3>2. t.seen = runRows
      BY <3>1 DEF BulkInductive, AllTell
    <3>3. \A r \in Positions : Tells(r, t.new[r], t.inserted)'
      BY <3>1 DEF Tells
    <3>4. QED
      BY <3>1, <3>2, <3>3
  <2>5. QED
    BY <2>1, <2>3, <2>4
<1>8. QED
  BY <1>2, <1>3, <1>5, <1>6, <1>7 DEF BulkInductive

\* A row that a request has still to do is as the request has read it.
LEMMA RowToDo ==
    ASSUME BulkInductive, NEW h \in Callers, Calling(h), NEW r \in caller[h].todo
    PROVE  /\ r \in Positions /\ caller[h].new[r] = caller[h].seen[r] /\ caller[h].seen[r] \in ListRow
           /\ Takes(caller[h].kind, caller[h].seen[r]) /\ Own(r) \notin caller[h].inserted
           /\ Named(r, caller[h].seen[r])
           /\ ~overlapped => Tells(r, caller[h].seen[r], {})
<1> PICK u : u = caller[h]
  OBVIOUS
<1>1. u \in Call /\ CallTrue(u)
  BY OpenCall
<1>2. r \in Positions /\ u.seen[r] \in ListRow
  BY <1>1 DEF Call
<1>3. Makes(u, r) /\ Named(r, u.seen[r])
  BY <1>1, <1>2 DEF CallTrue
<1>4. u.new[r] = u.seen[r] /\ Takes(u.kind, u.seen[r]) /\ Own(r) \notin u.inserted
  BY <1>3 DEF Makes
<1>5. ~overlapped => Tells(r, u.new[r], u.inserted)
  BY <1>2 DEF BulkInductive, AllTell
<1>6. QED
  BY <1>2, <1>3, <1>4, <1>5 DEF Tells

\* A request that is through with a row, of which it has decided nothing.
LEMMA RowDone ==
    ASSUME BulkInductive, NEW h \in Callers, Calling(h), NEW r \in caller[h].todo, NEW row \in ListRow,
           Done(h, r, row), UNCHANGED <<runStatus, runRows, rowDecisions, requests, overlapped>>, Shipped,
           row.decision = caller[h].seen[r].decision, row.rec = caller[h].seen[r].rec,
           \/ row.shipment = caller[h].seen[r].shipment
           \/ row.shipment = Own(r) /\ caller[h].seen[r].decision # Nil /\ rowShipments'[Own(r)] = Own(r),
           ~overlapped => Tells(r, row, {})
    PROVE  BulkInductive'
<1> PICK u : u = caller[h]
  OBVIOUS
<1>1. u \in Call /\ CallTrue(u) /\ r \in Positions /\ Own(r) \notin u.inserted
  BY OpenCall, RowToDo
<1>2. CallTrue(u)'
  BY <1>1, ShippedKeeps
<1> DEFINE t == [u EXCEPT !.step = "rows", !.new[r] = row, !.todo = u.todo \ {r}]
<1>3. GoesOn(h, t)
  BY DEF Done
<1>4. /\ t \in Call /\ t.step = "rows" /\ t.kind = u.kind /\ t.seen = u.seen /\ t.inserted = u.inserted
      /\ t.todo = u.todo \ {r} /\ t.new = [u.new EXCEPT ![r] = row]
  BY <1>1 DEF Call
<1> HIDE DEF t
<1>5. \A s \in Positions : t.new[s] = IF s = r THEN row ELSE u.new[s]
  BY <1>1, <1>4 DEF Call
<1>6. \A s \in Positions : Makes(t, s)'
  <2> SUFFICES ASSUME NEW s \in Positions PROVE Makes(t, s)'
    OBVIOUS
  <2>1. Makes(u, s)'
    BY <1>2 DEF CallTrue
  <2>2. CASE s = r
    BY <1>1, <1>4, <1>5, <2>2 DEF Makes
  <2>3. CASE s # r
    BY <1>4, <1>5, <2>1, <2>3 DEF Makes
  <2>4. QED
    BY <2>2, <2>3
<1>7. CallTrue(t)'
  BY <1>2, <1>4, <1>6 DEF CallTrue
<1>8. ~overlapped => \A s \in Positions : Tells(s, t.new[s], t.inserted)
  <2> SUFFICES ASSUME ~overlapped, NEW s \in Positions PROVE Tells(s, t.new[s], t.inserted)
    OBVIOUS
  <2>1. Tells(s, u.new[s], u.inserted)
    BY DEF BulkInductive, AllTell
  <2>2. CASE s = r
    BY <1>1, <1>4, <1>5, <2>2 DEF Tells
  <2>3. CASE s # r
    BY <1>4, <1>5, <2>1, <2>3
  <2>4. QED
    BY <2>2, <2>3
<1>9. QED
  BY <1>3, <1>4, <1>7, <1>8, CallGoesOn

\* What stands still for a step that ships nothing.
LEMMA NothingShipped == ASSUME BulkInductive, UNCHANGED rowShipments PROVE Shipped
BY DEF BulkInductive, BulkTyped, KeysAreOwn, Shipped

\* A failed row is a row, and names what it named.
LEMMA FailedRow ==
    ASSUME NEW row \in ListRow
    PROVE  /\ Failed(row) \in ListRow /\ Failed(row).status = "failed" /\ Failed(row).decision = row.decision
           /\ Failed(row).rec = row.rec /\ Failed(row).shipment = row.shipment
BY DEF Failed, ListRow

\* _fail.
LEMMA FailStep ==
    ASSUME BulkInductive, NEW h \in Callers, NEW r \in Positions, Calling(h), r \in caller[h].todo,
           Done(h, r, Failed(caller[h].new[r])), UNCHANGED RunData
    PROVE  BulkInductive'
<1> PICK row : row = Failed(caller[h].new[r])
  OBVIOUS
<1>1. /\ row \in ListRow /\ row.status = "failed" /\ row.decision = caller[h].seen[r].decision
      /\ row.rec = caller[h].seen[r].rec /\ row.shipment = caller[h].seen[r].shipment
  BY RowToDo, FailedRow
<1>2. Tells(r, row, {})
  BY <1>1 DEF Tells
<1>3. Shipped /\ Done(h, r, row) /\ UNCHANGED <<runStatus, runRows, rowDecisions, requests, overlapped>>
  BY NothingShipped DEF RunData
<1>4. QED
  BY <1>1, <1>2, <1>3, RowDone

\* quote_all.
LEMMA QuoteStep ==
    ASSUME BulkInductive, NEW h \in Callers, NEW r \in Positions, NEW q \in RowQuotes, QuoteRow(h, r, q)
    PROVE  BulkInductive'
<1>1. Calling(h) /\ r \in caller[h].todo /\ caller[h].kind = "quote" /\ UNCHANGED RunData
  BY DEF QuoteRow, Current, First, CallAt, Calling
<1> PICK seen : seen = caller[h].seen[r]
  OBVIOUS
<1>2. seen \in ListRow /\ caller[h].new[r] = seen /\ seen.status = "new" /\ (~overlapped => Tells(r, seen, {}))
  BY <1>1, RowToDo DEF Takes
<1> DEFINE row == [seen EXCEPT !.quote = q, !.status = "quoted"]
<1>3. Done(h, r, row)
  BY <1>2 DEF QuoteRow
<1>4. /\ row \in ListRow /\ row.status = "quoted" /\ row.decision = seen.decision
      /\ row.rec = seen.rec /\ row.shipment = seen.shipment
  BY <1>2 DEF ListRow
<1> HIDE DEF row
<1>5. ~overlapped => Tells(r, row, {})
  BY <1>2, <1>4 DEF Tells
<1>6. Shipped /\ UNCHANGED <<runStatus, runRows, rowDecisions, requests, overlapped>>
  BY <1>1, NothingShipped DEF RunData
<1>7. QED
  BY <1>1, <1>3, <1>4, <1>5, <1>6, RowDone

\* select_all, up to the flush of a decision.
LEMMA SelectStep ==
    ASSUME BulkInductive, NEW h \in Callers, NEW r \in Positions, SelectRow(h, r)
    PROVE  BulkInductive'
<1>1. /\ Calling(h) /\ r \in caller[h].todo /\ caller[h].kind = "select"
      /\ UNCHANGED <<runStatus, runRows, rowDecisions, requests, overlapped>> /\ UNCHANGED RunData
  BY DEF SelectRow, Current, First, CallAt, Calling, RunData
<1>2. CASE Done(h, r, Failed(caller[h].new[r]))
  BY <1>1, <1>2, FailStep
<1>3. CASE GoesOn(h, [caller[h] EXCEPT !.step = "insert"])
  <2> PICK u : u = caller[h]
    OBVIOUS
  <2> DEFINE t == [u EXCEPT !.step = "insert"]
  <2>1. u \in Call /\ CallTrue(u) /\ Shipped
    BY <1>1, OpenCall, NothingShipped DEF RunData
  <2>2. /\ t \in Call /\ t.kind = u.kind /\ t.seen = u.seen /\ t.new = u.new /\ t.todo = u.todo
        /\ t.inserted = u.inserted
    BY <2>1 DEF Call
  <2>3. GoesOn(h, t)
    BY <1>3
  <2> HIDE DEF t
  <2>4. CallTrue(t)
    BY <1>1, <2>1, <2>2 DEF CallTrue, Makes
  <2>5. CallTrue(t)'
    BY <1>1, <2>1, <2>4, ShippedKeeps
  <2>6. ~overlapped => \A s \in Positions : Tells(s, t.new[s], t.inserted)
    BY <1>1, <2>2 DEF BulkInductive, AllTell
  <2>7. QED
    BY <1>1, <2>1, <2>2, <2>3, <2>5, <2>6, CallGoesOn
<1>4. QED
  BY <1>2, <1>3 DEF SelectRow

\* The flush of a decision: nobody else has written its key, or the request is lost.
LEMMA InsertStep ==
    ASSUME BulkInductive, NEW h \in Callers, NEW r \in Positions, InsertDecision(h, r)
    PROVE  BulkInductive'
<1>1. /\ Calling(h) /\ r \in caller[h].todo /\ CallAt(h, "insert")
      /\ UNCHANGED <<runStatus, runRows, rowDecisions, requests, overlapped>> /\ UNCHANGED RunData
  BY DEF InsertDecision, First, CallAt, Calling, RunData
<1> PICK u : u = caller[h]
  OBVIOUS
<1>2. u \in Call /\ CallTrue(u) /\ Shipped
  BY <1>1, OpenCall, NothingShipped DEF RunData
<1> PICK seen : seen = u.seen[r]
  OBVIOUS
<1>3. /\ seen \in ListRow /\ u.new[r] = seen /\ seen.status = "quoted" /\ seen.quote # Nil
      /\ u.kind = "select" /\ Named(r, seen)
  BY <1>1, <1>2, RowToDo DEF CallTrue, CallAt, Takes
<1>4. Inserting(Own(r)) \ {h} = {} /\ RowKey(r, u.request) = Own(r) /\ Own(r) \in RowKeys /\ Own(r) # Nil
  BY OwnKey, BulkAssumption DEF InsertDecision
<1>5. CASE rowDecisions[Own(r)] # Nil
  <2>1. GoesOn(h, Resting)
    BY <1>4, <1>5 DEF InsertDecision
  <2>2. QED
    BY <1>1, <1>2, <2>1, CallGoesOn
<1>6. CASE rowDecisions[Own(r)] = Nil
  <2> DEFINE rec == [request |-> u.request, quote |-> seen.quote]
             row == [seen EXCEPT !.decision = Own(r), !.status = "selected", !.rec = rec]
             t == [u EXCEPT !.step = "rows", !.todo = u.todo \ {r}, !.inserted = u.inserted \cup {Own(r)},
                            !.new[r] = row]
  <2>1. GoesOn(h, t)
    BY <1>3, <1>4, <1>6 DEF InsertDecision
  <2>2. rec \in Recommendations /\ rec # Nil /\ rec.quote = seen.quote
    BY <1>2, <1>3, BulkAssumption DEF Recommendations, Call, ListRow
  <2> HIDE DEF rec
  <2>3. /\ row \in ListRow /\ row.decision = Own(r) /\ row.status = "selected" /\ row.rec = rec
        /\ row.shipment = seen.shipment /\ row.quote = seen.quote
    BY <1>3, <1>4, <2>2 DEF ListRow
  <2> HIDE DEF row
  <2>4. /\ t \in Call /\ t.step = "rows" /\ t.kind = u.kind /\ t.seen = u.seen
        /\ t.inserted = u.inserted \cup {Own(r)}
        /\ t.todo = u.todo \ {r} /\ t.new = [u.new EXCEPT ![r] = row]
    BY <1>2, <1>4, <2>3 DEF Call
  <2> HIDE DEF t
  <2>5. \A s \in Positions : t.new[s] = IF s = r THEN row ELSE u.new[s]
    BY <1>2, <2>4 DEF Call
  <2>6. \A s \in Positions : s # r => (Own(s) \in t.inserted <=> Own(s) \in u.inserted)
    BY <2>4, OwnKey
  <2>7. seen.decision = Nil
    BY <1>3, <1>6, <1>2, OwnKey DEF Named
  <2>8. \A s \in Positions : Makes(t, s)
    <3> SUFFICES ASSUME NEW s \in Positions PROVE Makes(t, s)
      OBVIOUS
    <3>1. Makes(u, s)
      BY <1>2 DEF CallTrue
    <3>2. CASE s = r
      BY <1>6, <2>2, <2>3, <2>4, <2>5, <2>7, <3>2 DEF Makes
    <3>3. CASE s # r
      BY <2>4, <2>5, <2>6, <3>1, <3>3 DEF Makes
    <3>4. QED
      BY <3>2, <3>3
  <2>9. CallTrue(t)
    BY <1>2, <2>4, <2>8, OwnKey DEF CallTrue
  <2>10. CallTrue(t)'
    BY <1>1, <1>2, <2>9, ShippedKeeps
  <2>11. ~overlapped => \A s \in Positions : Tells(s, t.new[s], t.inserted)
    <3> SUFFICES ASSUME ~overlapped, NEW s \in Positions PROVE Tells(s, t.new[s], t.inserted)
      OBVIOUS
    <3>1. Tells(s, u.new[s], u.inserted)
      BY <1>1 DEF BulkInductive, AllTell
    <3>2. CASE s = r
      BY <1>4, <2>2, <2>3, <2>5, <3>2 DEF Tells
    <3>3. CASE s # r
      BY <2>5, <2>6, <3>1, <3>3 DEF Tells
    <3>4. QED
      BY <3>2, <3>3
  <2>12. \A k \in t.inserted : k \in u.inserted \/ Inserting(k) \ {h} = {}
    BY <1>4, <2>4
  <2>13. QED
    BY <1>1, <1>2, <2>1, <2>4, <2>10, <2>11, <2>12, CallGoesOn
<1>7. QED
  BY <1>5, <1>6

\* create_all: the shipment of a row is that of its own key, found or made.
LEMMA CreateStep ==
    ASSUME BulkInductive, NEW h \in Callers, NEW r \in Positions, NEW raises \in BOOLEAN,
           CreateRow(h, r, raises)
    PROVE  BulkInductive'
<1>1. /\ Calling(h) /\ r \in caller[h].todo /\ caller[h].kind = "create"
      /\ UNCHANGED <<runStatus, runRows, rowDecisions, requests, overlapped>>
  BY DEF CreateRow, Current, First, CallAt, Calling
<1> PICK seen : seen = caller[h].seen[r]
  OBVIOUS
<1>2. /\ seen \in ListRow /\ caller[h].new[r] = seen /\ seen.status = "selected" /\ seen.decision # Nil
      /\ Named(r, seen) /\ (~overlapped => Tells(r, seen, {})) /\ Remains(r, seen)
  BY <1>1, RowToDo, OpenCall DEF Takes, CallTrue
<1>3. seen.decision = Own(r) /\ Own(r) \in RowKeys /\ Own(r)[1] = r /\ Own(r) # Nil
  BY <1>2, OwnKey, BulkAssumption DEF Named
<1>4. rowShipments' = [rowShipments EXCEPT ![Own(r)] = IF rowShipments[Own(r)] = Nil THEN Own(r)
                                                       ELSE rowShipments[Own(r)]]
  BY <1>2, <1>3, OwnKey DEF CreateRow
<1>5. Shipped /\ rowShipments'[Own(r)] = Own(r)
  <2>1. runRows[r].decision # Nil
    BY <1>2 DEF Remains
  <2>2. \A s \in Positions : Own(s) \in RowKeys /\ (Own(s) = Own(r) => s = r)
    BY OwnKey
  <2>3. \A s \in Positions : rowShipments'[Own(s)] # Nil => runRows[s].decision # Nil
    BY <1>3, <1>4, <2>1, <2>2 DEF BulkInductive, BulkTyped
  <2> QED BY <1>3, <1>4, <2>3 DEF BulkInductive, BulkTyped, KeysAreOwn, Shipped
<1> DEFINE row == [seen EXCEPT !.shipment = Own(r), !.status = "created"]
<1>6. CASE Done(h, r, row)
  <2>1. /\ row \in ListRow /\ row.status = "created" /\ row.decision = seen.decision /\ row.rec = seen.rec
        /\ row.shipment = Own(r) /\ row.quote = seen.quote
    BY <1>2, <1>3 DEF ListRow
  <2>2. Done(h, r, row)
    BY <1>6
  <2> HIDE DEF row
  <2>3. ~overlapped => Tells(r, row, {})
    BY <1>2, <1>3, <2>1 DEF Tells
  <2>4. QED
    BY <1>1, <1>2, <1>5, <2>1, <2>2, <2>3, RowDone
<1>7. CASE Done(h, r, Failed(seen))
  <2> PICK failed : failed = Failed(seen)
    OBVIOUS
  <2>1. /\ failed \in ListRow /\ failed.status = "failed" /\ failed.decision = seen.decision
        /\ failed.rec = seen.rec /\ failed.shipment = seen.shipment
    BY <1>2, FailedRow
  <2>2. Tells(r, failed, {})
    BY <2>1 DEF Tells
  <2>3. QED
    BY <1>1, <1>5, <1>7, <2>1, <2>2, RowDone
<1>8. Done(h, r, row) \/ Done(h, r, Failed(seen))
  BY <1>2, OwnKey DEF CreateRow
<1>9. QED
  BY <1>6, <1>7, <1>8

\* get_run: a request reads the run as it is, or overlaps another.
LEMMA BeginStep ==
    ASSUME BulkInductive, NEW h \in Callers, NEW kind \in {"quote", "select", "create"}, Begin(h, kind)
    PROVE  BulkInductive'
<1> DEFINE t == [step |-> "rows", kind |-> kind, request |-> requests + 1, seen |-> runRows, new |-> runRows,
                 todo |-> {r \in Positions : Takes(kind, runRows[r])}, inserted |-> {}]
<1>1. /\ ~Calling(h) /\ requests < MaxRequests /\ requests' = requests + 1
      /\ overlapped' = (overlapped \/ \E g \in Callers : Calling(g))
      /\ GoesOn(h, t) /\ UNCHANGED <<runStatus, runRows, rowDecisions, rowShipments>>
  BY DEF Begin
<1>2. requests + 1 \in 1..MaxRequests /\ requests' \in 0..MaxRequests
  BY <1>1, BulkAssumption DEF BulkInductive, BulkTyped
<1>3. t \in Call
  BY <1>2 DEF BulkInductive, BulkTyped, Call
<1>4. caller' = [g \in Callers |-> IF g = h THEN t ELSE caller[g]]
  BY <1>1 DEF GoesOn, BulkInductive, BulkTyped
<1>5. /\ t.step = "rows" /\ t.kind = kind /\ t.seen = runRows /\ t.new = runRows /\ t.inserted = {}
      /\ t.todo = {r \in Positions : Takes(kind, runRows[r])}
  OBVIOUS
<1> HIDE DEF t
<1>6. BulkTyped' /\ KeysAreOwn'
  BY <1>1, <1>2, <1>3, <1>4 DEF BulkInductive, BulkTyped, KeysAreOwn
<1>7. Shipped
  BY <1>1, NothingShipped
<1>8. /\ \A r \in Positions : Named(r, runRows[r])'
      /\ \A r \in Positions : (rowShipments[Own(r)] # Nil => runRows[r].decision # Nil)'
  BY <1>1, <1>7, ShippedKeeps DEF BulkInductive
<1>9. \A g \in Callers : Calling(g)' <=> g = h \/ Calling(g)
  BY <1>3, <1>4, AtRest DEF Calling
<1>10. CallTrue(t)
  BY <1>5 DEF BulkInductive, CallTrue, Remains, Makes
<1>11. ASSUME NEW g \in Callers, Calling(g)' PROVE CallTrue(caller[g])'
  <2> PICK u : u = caller'[g]
    OBVIOUS
  <2>1. CallTrue(u)
    BY <1>4, <1>9, <1>10, <1>11, OpenCall
  <2>2. CallTrue(u)'
    BY <1>1, <1>7, <2>1, ShippedKeeps
  <2>3. QED
    BY <2>2
<1>12. InsertedApart'
  BY <1>4, <1>5, <1>9 DEF BulkInductive, InsertedApart
<1>13. AllTell'
  <2> SUFFICES ASSUME ~overlapped'
               PROVE  /\ StatusTells'
                      /\ \A r \in Positions : Tells(r, runRows[r], {})'
                      /\ \A f, g \in Callers : Calling(f)' /\ Calling(g)' => f = g
                      /\ \A g \in Callers : Calling(g)' =>
                            /\ caller'[g].seen = runRows'
                            /\ \A r \in Positions : Tells(r, caller[g].new[r], caller[g].inserted)'
    BY DEF AllTell
  <2>1. ~overlapped /\ \A g \in Callers : ~Calling(g)
    BY <1>1
  <2>2. StatusTells' /\ \A r \in Positions : Tells(r, runRows[r], {})'
    BY <1>1, <2>1 DEF BulkInductive, AllTell, StatusTells, Tells
  <2>3. \A g \in Callers : Calling(g)' => g = h
    BY <1>9, <2>1
  <2>4. \A r \in Positions : Tells(r, caller[h].new[r], caller[h].inserted)'
    BY <1>1, <1>4, <1>5, <2>2 DEF Tells
  <2>5. QED
    BY <1>1, <1>4, <1>5, <2>2, <2>3, <2>4
<1>14. QED
  BY <1>6, <1>8, <1>11, <1>12, <1>13 DEF BulkInductive


\* The commit of a row: what it named it still names, and what was decided for it is written.
LEMMA RowWritten ==
    ASSUME BulkInductive, NEW h \in Callers, Calling(h), NEW r \in Positions, NEW row,
           row = Updated(runRows[r], caller[h].seen[r], caller[h].new[r])
    PROVE  /\ row \in ListRow
           /\ runRows[r].decision # Nil => row.decision = runRows[r].decision /\ row.rec = runRows[r].rec
           /\ runRows[r].shipment # Nil => row.shipment = runRows[r].shipment
           /\ Own(r) \in caller[h].inserted =>
                 /\ rowDecisions[Own(r)] = Nil /\ row.decision = Own(r)
                 /\ row.rec = caller[h].new[r].rec /\ row.rec # Nil /\ row.shipment = Nil
           /\ Own(r) \notin caller[h].inserted =>
                 row.decision = runRows[r].decision /\ row.rec = runRows[r].rec
           /\ \/ row.shipment = runRows[r].shipment
              \/ row.shipment = Own(r) /\ row.decision # Nil /\ rowShipments[Own(r)] = Own(r)
           /\ caller[h].seen = runRows => row = caller[h].new[r]
<1> PICK u : u = caller[h]
  OBVIOUS
<1> PICK old : old = runRows[r]
  OBVIOUS
<1> PICK seen : seen = u.seen[r]
  OBVIOUS
<1> PICK new : new = u.new[r]
  OBVIOUS
<1>1. u \in Call /\ CallTrue(u)
  BY OpenCall
<1>2. old \in ListRow /\ seen \in ListRow /\ new \in ListRow
  BY <1>1 DEF BulkInductive, BulkTyped, Call
<1>3. row = [status |-> IF new.status # seen.status THEN new.status ELSE old.status,
             quote |-> IF new.quote # seen.quote THEN new.quote ELSE old.quote,
             rec |-> IF new.rec # seen.rec THEN new.rec ELSE old.rec,
             decision |-> IF new.decision # seen.decision THEN new.decision ELSE old.decision,
             shipment |-> IF new.shipment # seen.shipment THEN new.shipment ELSE old.shipment,
             error |-> IF new.error # seen.error THEN new.error ELSE old.error]
  <2>1. row = Updated(old, seen, new)
    OBVIOUS
  <2>2. DOMAIN old = {"status", "quote", "rec", "decision", "shipment", "error"}
    BY <1>2 DEF ListRow
  <2>3. QED
    BY <2>1, <2>2 DEF Updated
<1>4. row \in ListRow
  <2>1. /\ row.status \in {"new", "quoted", "selected", "created", "failed"}
        /\ row.quote \in RowQuotes \cup {Nil} /\ row.rec \in Recommendations \cup {Nil}
        /\ row.decision \in RowKeys \cup {Nil} /\ row.shipment \in RowKeys \cup {Nil} /\ row.error \in BOOLEAN
    BY <1>2, <1>3 DEF ListRow
  <2>2. QED
    BY <1>3, <2>1 DEF ListRow
<1>5. Named(r, old) /\ Named(r, seen) /\ Remains(r, seen) /\ Makes(u, r) /\ Own(r) # Nil
  BY <1>1, OwnKey, BulkAssumption DEF BulkInductive, CallTrue
<1>6. ASSUME Own(r) \in u.inserted
      PROVE  /\ rowDecisions[Own(r)] = Nil /\ row.decision = Own(r) /\ row.rec = new.rec /\ row.rec # Nil
             /\ old.decision = Nil /\ old.shipment = Nil /\ row.shipment = Nil
  <2>1. /\ seen.decision = Nil /\ rowDecisions[Own(r)] = Nil /\ new.decision = Own(r) /\ new.rec # Nil
        /\ seen.rec = Nil /\ seen.shipment = Nil
    BY <1>5, <1>6 DEF Makes, Named
  <2>2. old.decision = Nil /\ old.shipment = Nil
    BY <1>5, <2>1 DEF Named
  <2>3. new.shipment = seen.shipment
    BY <1>5, <2>1 DEF Makes
  <2>4. QED
    BY <1>3, <1>5, <2>1, <2>2, <2>3
<1>7. ASSUME Own(r) \notin u.inserted PROVE row.decision = old.decision /\ row.rec = old.rec
  BY <1>3, <1>5, <1>7 DEF Makes
<1>8. \/ row.shipment = old.shipment
      \/ row.shipment = Own(r) /\ row.decision # Nil /\ rowShipments[Own(r)] = Own(r)
  <2>1. CASE new.shipment = seen.shipment
    BY <1>3, <2>1
  <2>2. CASE new.shipment # seen.shipment
    <3>1. new.shipment = Own(r) /\ seen.decision # Nil /\ rowShipments[Own(r)] = Own(r)
      BY <1>5, <2>2 DEF Makes
    <3>2. old.decision # Nil
      BY <1>5, <3>1 DEF Remains
    <3>3. QED
      BY <1>3, <1>5, <1>6, <1>7, <2>2, <3>1, <3>2
  <2>3. QED
    BY <2>1, <2>2
<1>9. old.shipment # Nil => row.shipment = old.shipment
  BY <1>5, <1>8 DEF Named
<1>10. u.seen = runRows => row = new
  <2> SUFFICES ASSUME seen = old PROVE row = new
    OBVIOUS
  <2>1. \A s \in ListRow : s = [status |-> s.status, quote |-> s.quote, rec |-> s.rec, decision |-> s.decision,
                                shipment |-> s.shipment, error |-> s.error]
    BY DEF ListRow
  <2>2. row = [status |-> new.status, quote |-> new.quote, rec |-> new.rec, decision |-> new.decision,
               shipment |-> new.shipment, error |-> new.error]
    BY <1>3
  <2>3. QED
    BY <1>2, <2>1, <2>2
<1>11. QED
  BY <1>4, <1>6, <1>7, <1>8, <1>9, <1>10

\* The commit of a request.
LEMMA FinishStep ==
    ASSUME BulkInductive, NEW h \in Callers, Finish(h)
    PROVE  BulkInductive'
<1> PICK u : u = caller[h]
  OBVIOUS
<1>1. /\ Calling(h) /\ u.todo = {} /\ runRows' = Merged(h) /\ runStatus' = RunStatus(h)
      /\ rowDecisions' = [k \in RowKeys |-> IF k \in u.inserted THEN u.new[k[1]].rec ELSE rowDecisions[k]]
      /\ GoesOn(h, Resting) /\ UNCHANGED <<rowShipments, requests, overlapped>>
  BY DEF Finish, CallAt, Calling
<1>2. u \in Call /\ CallTrue(u)
  BY <1>1, OpenCall
<1>3. caller' = [g \in Callers |-> IF g = h THEN Resting ELSE caller[g]]
  BY <1>1 DEF GoesOn, BulkInductive, BulkTyped
<1>4. \A g \in Callers : Calling(g)' <=> g # h /\ Calling(g)
  BY <1>3 DEF Calling, Resting
<1>5. \A r \in Positions : Own(r) \in RowKeys /\ Own(r)[1] = r /\ Own(r) # Nil
  BY OwnKey, BulkAssumption
<1>6. \A r \in Positions : runRows'[r] = Updated(runRows[r], u.seen[r], u.new[r])
  BY <1>1 DEF Merged
<1>7. ASSUME NEW r \in Positions
      PROVE  /\ runRows'[r] \in ListRow
             /\ runRows[r].decision # Nil =>
                   runRows'[r].decision = runRows[r].decision /\ runRows'[r].rec = runRows[r].rec
             /\ runRows[r].shipment # Nil => runRows'[r].shipment = runRows[r].shipment
             /\ Own(r) \in u.inserted =>
                   /\ rowDecisions[Own(r)] = Nil /\ runRows'[r].decision = Own(r)
                   /\ runRows'[r].rec = u.new[r].rec /\ runRows'[r].rec # Nil /\ runRows'[r].shipment = Nil
             /\ Own(r) \notin u.inserted =>
                   runRows'[r].decision = runRows[r].decision /\ runRows'[r].rec = runRows[r].rec
             /\ \/ runRows'[r].shipment = runRows[r].shipment
                \/ /\ runRows'[r].shipment = Own(r) /\ runRows'[r].decision # Nil
                   /\ rowShipments[Own(r)] = Own(r)
             /\ u.seen = runRows => runRows'[r] = u.new[r]
  <2> PICK row : row = runRows'[r]
    OBVIOUS
  <2>1. row = Updated(runRows[r], caller[h].seen[r], caller[h].new[r])
    BY <1>6
  <2>2. QED
    BY <1>1, <2>1, RowWritten
<1>8. \A r \in Positions : rowDecisions'[Own(r)] = IF Own(r) \in u.inserted THEN u.new[r].rec
                                                   ELSE rowDecisions[Own(r)]
  BY <1>1, <1>5
<1>9. BulkTyped'
  <2>1. runRows' \in [Positions -> ListRow]
    BY <1>1, <1>7 DEF Merged
  <2>2. rowDecisions' \in [RowKeys -> Recommendations \cup {Nil}]
    <3>1. \A k \in RowKeys : u.new[k[1]].rec \in Recommendations \cup {Nil}
      BY <1>2 DEF RowKeys, Call, ListRow
    <3>2. QED
      BY <1>1, <3>1 DEF BulkInductive, BulkTyped
  <2>3. QED
    BY <1>1, <1>3, <2>1, <2>2 DEF BulkInductive, BulkTyped
<1>10. KeysAreOwn'
  BY <1>1, <1>2 DEF BulkInductive, KeysAreOwn, CallTrue
<1>11. ASSUME NEW r \in Positions PROVE Named(r, runRows[r])'
  <2> PICK row : row = runRows'[r]
    OBVIOUS
  <2>1. Named(r, runRows[r])
    BY DEF BulkInductive
  <2>2. Named(r, row)'
    <3>1. CASE Own(r) \in u.inserted
      BY <1>1, <1>5, <1>7, <1>8, <3>1 DEF Named
    <3>2. CASE Own(r) \notin u.inserted
      BY <1>1, <1>5, <1>7, <1>8, <2>1, <3>2 DEF Named
    <3>3. QED
      BY <3>1, <3>2
  <2>3. QED
    BY <2>2
<1>12. ASSUME NEW g \in Callers, Calling(g)' PROVE CallTrue(caller[g])'
  <2> PICK v : v = caller[g]
    OBVIOUS
  <2>1. g # h /\ Calling(g) /\ caller'[g] = v /\ CallTrue(v) /\ v.inserted \cap u.inserted = {}
    BY <1>1, <1>3, <1>4, <1>12, OpenCall DEF BulkInductive, InsertedApart
  <2>2. ASSUME NEW r \in Positions
        PROVE  Named(r, v.seen[r])' /\ Remains(r, v.seen[r])' /\ Makes(v, r)'
    <3>1. Named(r, v.seen[r]) /\ Remains(r, v.seen[r]) /\ Makes(v, r)
      BY <2>1 DEF CallTrue
    <3>2. rowDecisions[Own(r)] # Nil => rowDecisions'[Own(r)] = rowDecisions[Own(r)]
      BY <1>7, <1>8
    <3>3. Named(r, v.seen[r])'
      BY <1>1, <3>1, <3>2 DEF Named
    <3>4. Remains(r, v.seen[r])'
      BY <1>7, <3>1 DEF Remains
    <3>5. Makes(v, r)'
      BY <1>1, <1>8, <2>1, <3>1 DEF Makes, Takes
    <3>6. QED
      BY <3>3, <3>4, <3>5
  <2>3. CallTrue(v)'
    BY <2>1, <2>2 DEF CallTrue
  <2>4. QED
    BY <2>1, <2>3
<1>13. InsertedApart'
  BY <1>3, <1>4 DEF BulkInductive, InsertedApart
<1>14. AllTell'
  <2> SUFFICES ASSUME ~overlapped
               PROVE  /\ StatusTells' /\ \A r \in Positions : Tells(r, runRows[r], {})'
                      /\ \A g \in Callers : ~Calling(g)'
    BY <1>1 DEF AllTell
  <2>1. \A g \in Callers : ~Calling(g)'
    BY <1>1, <1>4 DEF BulkInductive, AllTell
  <2>2. \A r \in Positions : runRows'[r] = u.new[r] /\ Tells(r, u.new[r], u.inserted)
    BY <1>1, <1>7 DEF BulkInductive, AllTell
  <2>3. ASSUME NEW r \in Positions PROVE Tells(r, runRows[r], {})'
    BY <1>8, <2>2 DEF Tells
  <2>4. StatusTells'
    <3>1. runStatus' = IF \E r \in Positions : runRows'[r].status \notin {"created", "failed"}
                         THEN WhenBusy(u.kind)
                       ELSE IF Positions # {} /\ \A r \in Positions : runRows'[r].status = "failed" THEN "failed"
                       ELSE "completed"
      BY <1>1 DEF RunStatus
    <3>2. WhenBusy(u.kind) \notin {"completed", "failed"}
      BY DEF WhenBusy
    <3>3. \E r \in Positions : TRUE
      BY BulkAssumption
    <3>4. QED
      BY <3>1, <3>2, <3>3 DEF StatusTells
  <2>5. QED
    BY <2>1, <2>3, <2>4
<1>15. \A r \in Positions : (rowShipments[Own(r)] # Nil => runRows[r].decision # Nil)'
  BY <1>1, <1>5, <1>7 DEF BulkInductive
<1>16. QED
  BY <1>9, <1>10, <1>11, <1>12, <1>13, <1>14, <1>15 DEF BulkInductive

\* A request dies: only the shipments it has made stay.
LEMMA AbortStep ==
    ASSUME BulkInductive, NEW h \in Callers, AbortCall(h)
    PROVE  BulkInductive'
<1>1. /\ Calling(h) /\ GoesOn(h, Resting)
      /\ UNCHANGED <<runStatus, runRows, rowDecisions, requests, overlapped>> /\ Shipped
  BY NothingShipped DEF AbortCall, RunData
<1>2. QED
  BY <1>1, CallGoesOn

\* A draft with its rows.
LEMMA BulkStart == BulkInit => BulkInductive
<1> SUFFICES ASSUME BulkInit PROVE BulkInductive
  OBVIOUS
<1>1. \A r \in Positions : runRows[r] = NewRow
  BY DEF BulkInit
<1>2. \A k \in RowKeys : rowDecisions[k] = Nil /\ rowShipments[k] = Nil
  BY DEF BulkInit
<1>3. NewRow \in ListRow /\ NewRow.status = "new" /\ NewRow.rec = Nil /\ NewRow.decision = Nil
      /\ NewRow.shipment = Nil
  BY DEF NewRow, ListRow
<1>4. \A h \in Callers : ~Calling(h)
  BY DEF BulkInit, Calling, Resting
<1>5. BulkTyped
  BY <1>3, BulkAssumption DEF BulkInit, BulkTyped
<1>6. \A r \in Positions : Named(r, runRows[r])
  BY <1>1, <1>3 DEF Named
<1>7. AllTell
  <2>1. \A r \in Positions : Tells(r, runRows[r], {})
    BY <1>1, <1>2, <1>3, OwnKey DEF Tells
  <2>2. StatusTells
    BY <1>1, <1>3, BulkAssumption DEF BulkInit, StatusTells
  <2>3. QED
    BY <1>4, <2>1, <2>2 DEF AllTell
<1>8. QED
  BY <1>2, <1>4, <1>5, <1>6, <1>7, OwnKey DEF BulkInductive, KeysAreOwn, InsertedApart

\* Every step of a request.
LEMMA BulkStep == BulkInductive /\ [BulkNext]_bulkVars => BulkInductive'
<1> SUFFICES ASSUME BulkInductive, [BulkNext]_bulkVars PROVE BulkInductive'
  OBVIOUS
<1>1. CASE UNCHANGED bulkVars
  <2>1. BulkTyped' /\ KeysAreOwn' /\ InsertedApart'
    BY <1>1 DEF bulkVars, BulkInductive, BulkTyped, KeysAreOwn, InsertedApart, Calling
  <2>2. AllTell'
    BY <1>1 DEF bulkVars, BulkInductive, AllTell, StatusTells, Tells, Calling
  <2>3. /\ \A r \in Positions : Named(r, runRows[r])'
        /\ \A r \in Positions : (rowShipments[Own(r)] # Nil => runRows[r].decision # Nil)'
    BY <1>1 DEF bulkVars, BulkInductive, Named
  <2>4. ASSUME NEW h \in Callers, Calling(h)' PROVE CallTrue(caller[h])'
    <3> PICK u : u = caller[h]
      OBVIOUS
    <3>1. CallTrue(u) /\ caller'[h] = u /\ UNCHANGED bulkVars
      BY <1>1, <2>4 DEF bulkVars, BulkInductive, Calling
    <3>2. Shipped /\ UNCHANGED <<runRows, rowDecisions>>
      BY <3>1, NothingShipped DEF bulkVars
    <3>3. CallTrue(u)'
      BY <3>1, <3>2, ShippedKeeps
    <3>4. QED
      BY <3>1, <3>3
  <2>5. QED
    BY <2>1, <2>2, <2>3, <2>4 DEF BulkInductive
<1>2. ASSUME NEW h \in Callers, NEW kind \in {"quote", "select", "create"}, Begin(h, kind) PROVE BulkInductive'
  BY <1>2, BeginStep
<1>3. ASSUME NEW h \in Callers, NEW r \in Positions, Fail(h, r) PROVE BulkInductive'
  <2>1. Calling(h) /\ r \in caller[h].todo /\ Done(h, r, Failed(caller[h].new[r])) /\ UNCHANGED RunData
    BY <1>3 DEF Fail, Current, First, CallAt, Calling
  <2>2. QED
    BY <2>1, FailStep
<1>4. ASSUME NEW h \in Callers, NEW r \in Positions, NEW q \in RowQuotes, QuoteRow(h, r, q) PROVE BulkInductive'
  BY <1>4, QuoteStep
<1>5. ASSUME NEW h \in Callers, NEW r \in Positions, SelectRow(h, r) PROVE BulkInductive'
  BY <1>5, SelectStep
<1>6. ASSUME NEW h \in Callers, NEW r \in Positions, InsertDecision(h, r) PROVE BulkInductive'
  BY <1>6, InsertStep
<1>7. ASSUME NEW h \in Callers, NEW r \in Positions, NEW raises \in BOOLEAN, CreateRow(h, r, raises)
      PROVE  BulkInductive'
  BY <1>7, CreateStep
<1>8. ASSUME NEW h \in Callers, Finish(h) PROVE BulkInductive'
  BY <1>8, FinishStep
<1>9. ASSUME NEW h \in Callers, AbortCall(h) PROVE BulkInductive'
  BY <1>9, AbortStep
<1>10. QED
  BY <1>1, <1>2, <1>3, <1>4, <1>5, <1>6, <1>7, <1>8, <1>9 DEF BulkNext

\* Every behaviour of a run keeps its inductive invariant.
LEMMA BulkAlways == BulkSpec => []BulkInductive
<1>1. BulkInit => BulkInductive
  BY BulkStart
<1>2. BulkInductive /\ [BulkNext]_bulkVars => BulkInductive'
  BY BulkStep
<1>3. QED
  BY <1>1, <1>2, PTL DEF BulkSpec

\* row_idempotency_key: whatever requests overlap, die or are repeated, a row of
\* the list is decided once and shipped once.
THEOREM RowsAreDoneOnce == BulkSpec => []NothingTwice
<1>1. BulkInductive => NothingTwice
  <2> SUFFICES ASSUME BulkInductive, NEW r \in Positions
               PROVE  /\ Cardinality({k \in RowKeys : k[1] = r /\ rowDecisions[k] # Nil}) <= 1
                      /\ Cardinality({k \in RowKeys : k[1] = r /\ rowShipments[k] # Nil}) <= 1
    BY DEF NothingTwice
  <2>1. ASSUME NEW S, S \subseteq {Own(r)} PROVE Cardinality(S) <= 1
    <3>1. S = {} \/ S = {Own(r)}
      BY <2>1
    <3>2. QED
      BY <3>1, FS_EmptySet, FS_Singleton
  <2>2. /\ {k \in RowKeys : k[1] = r /\ rowDecisions[k] # Nil} \subseteq {Own(r)}
        /\ {k \in RowKeys : k[1] = r /\ rowShipments[k] # Nil} \subseteq {Own(r)}
    BY DEF BulkInductive, KeysAreOwn
  <2>3. QED
    BY <2>1, <2>2
<1>2. QED
  BY <1>1, BulkAlways, PTL

\* A row of the list names a decision and a shipment that are committed and are
\* of each other, even though requests that overlap write column by column.
THEOREM RowsBelongTogether == BulkSpec => []RowBelongsTogether
<1>1. BulkInductive => RowBelongsTogether
  BY BulkAssumption, OwnKey DEF BulkInductive, KeysAreOwn, Named, RowBelongsTogether
<1>2. QED
  BY <1>1, BulkAlways, PTL

\* ADR-0022: as long as the requests of a run do not overlap, its rows are not
\* decided or shipped before they say so, its shipments are of the decisions its
\* rows name, and its status sums them up.
THEOREM RunsTellTheTruth == BulkSpec => []RunTellsTheTruth
<1>1. BulkInductive => RunTellsTheTruth
  <2> SUFFICES ASSUME BulkInductive, ~overlapped PROVE RunTellsTheTruth
    BY DEF RunTellsTheTruth
  <2>1. StatusTells /\ \A r \in Positions : Tells(r, runRows[r], {})
    BY DEF BulkInductive, AllTell
  <2>2. \A r \in Positions, k \in RowKeys :
           k[1] = r => /\ rowDecisions[k] # Nil => k = Own(r)
                       /\ rowShipments[k] # Nil => k = Own(r) /\ rowShipments[k] = Own(r)
    BY DEF BulkInductive, KeysAreOwn
  <2>3. \A r \in Positions :
           rowShipments[Own(r)] # Nil => /\ runRows[r].decision = Own(r)
                                         /\ runRows[r].status \notin {"new", "quoted"}
    <3> SUFFICES ASSUME NEW r \in Positions, rowShipments[Own(r)] # Nil
                 PROVE  /\ runRows[r].decision = Own(r)
                        /\ runRows[r].status \notin {"new", "quoted"}
      OBVIOUS
    <3>1. runRows[r].decision # Nil /\ Named(r, runRows[r])
      BY DEF BulkInductive
    <3>2. rowDecisions[Own(r)] # Nil
      BY <3>1 DEF Named
    <3> QED BY <2>1, <3>1, <3>2 DEF Named, Tells
  <2>4. QED
    BY <2>1, <2>2, <2>3 DEF RunTellsTheTruth, StatusTells, Tells
<1>2. QED
  BY <1>1, BulkAlways, PTL

-----------------------------------------------------------------------------
(* The recipients of a list.                                                 *)
UsableOf(row) == UNION {Usable(c, row) : c \in Found(row)}

\* A finite set that is neither empty nor has two elements has one.
LEMMA OnlyOne ==
    ASSUME NEW S, IsFiniteSet(S), S # {}, ~(Cardinality(S) > 1)
    PROVE  \E x : S = {x}
<1>1. Cardinality(S) \in Nat /\ Cardinality(S) # 0
  BY FS_CardinalityType, FS_EmptySet
<1>2. Cardinality(S) = 1
  BY <1>1
<1>3. QED
  BY <1>2, FS_Singleton

\* What is looked up in a finite book is finite.
LEMMA LookedUpIsFinite ==
    ASSUME NEW row
    PROVE  /\ IsFiniteSet(Found(row)) /\ Found(row) \subseteq Book
           /\ \A c \in Book : IsFiniteSet(Usable(c, row))
<1>1. IsFiniteSet(Found(row)) /\ Found(row) \subseteq Book
  BY RecipientsAssumption, FS_Subset DEF Found
<1>2. ASSUME NEW c \in Book PROVE IsFiniteSet(Usable(c, row))
  <2>1. Usable(c, row) \subseteq c.addresses
    BY DEF Usable
  <2>2. IsFiniteSet(c.addresses)
    BY RecipientsAssumption
  <2>3. QED
    BY <2>1, <2>2, FS_Subset
<1>3. QED
  BY <1>1, <1>2

\* A resolved row has found one counterparty and one usable address of it.
LEMMA ResolvedRow ==
    ASSUME NEW row, ImportOne(row).status = "resolved"
    PROVE  \E c \in Book : \E a \in Usable(c, row) :
              /\ Found(row) = {c} /\ Usable(c, row) = {a}
              /\ ImportOne(row).address = a.id
<1> DEFINE Count(set) == IF set = {} THEN "not_found" ELSE IF Cardinality(set) > 1 THEN "ambiguous" ELSE "resolved"
           status == IF ~HasKey(row) THEN "parsed"
                     ELSE IF Count(Found(row)) # "resolved" THEN Count(Found(row)) ELSE Count(UsableOf(row))
<1>1. ImportOne(row) =
        [line |-> row.line, status |-> status, read |-> row,
         address |-> IF status = "resolved" THEN (CHOOSE a \in UsableOf(row) : TRUE).id ELSE Missing]
  BY DEF ImportOne, UsableOf
<1>2. status = "resolved"
  BY <1>1
<1>3. Count(Found(row)) = "resolved" /\ Count(UsableOf(row)) = "resolved"
  BY <1>2
<1>4. /\ Found(row) # {} /\ ~(Cardinality(Found(row)) > 1)
      /\ UsableOf(row) # {} /\ ~(Cardinality(UsableOf(row)) > 1)
  BY <1>3
<1> HIDE DEF Count, status
<1>5. PICK c : Found(row) = {c}
  <2>1. IsFiniteSet(Found(row))
    BY LookedUpIsFinite
  <2>2. QED
    BY <1>4, <2>1, OnlyOne
<1>6. UsableOf(row) = Usable(c, row) /\ c \in Book
  BY <1>5, LookedUpIsFinite DEF UsableOf
<1>7. PICK a : UsableOf(row) = {a}
  <2>1. IsFiniteSet(UsableOf(row))
    BY <1>6, LookedUpIsFinite
  <2>2. QED
    BY <1>4, <2>1, OnlyOne
<1>8. ImportOne(row).address = a.id
  BY <1>1, <1>2, <1>7
<1>9. QED
  BY <1>5, <1>6, <1>7, <1>8

\* A row with a key that means one counterparty, of which one address is usable, is
\* resolved to it.
LEMMA OneIsTaken ==
    ASSUME NEW row, HasKey(row), NEW c \in Book, Found(row) = {c}, NEW a, Usable(c, row) = {a}
    PROVE  ImportOne(row).status = "resolved" /\ ImportOne(row).address = a.id
<1> DEFINE Count(set) == IF set = {} THEN "not_found" ELSE IF Cardinality(set) > 1 THEN "ambiguous" ELSE "resolved"
           status == IF ~HasKey(row) THEN "parsed"
                     ELSE IF Count(Found(row)) # "resolved" THEN Count(Found(row)) ELSE Count(UsableOf(row))
<1>1. ImportOne(row) =
        [line |-> row.line, status |-> status, read |-> row,
         address |-> IF status = "resolved" THEN (CHOOSE x \in UsableOf(row) : TRUE).id ELSE Missing]
  BY DEF ImportOne, UsableOf
<1>2. UsableOf(row) = {a}
  BY DEF UsableOf
<1>3. \A x : Count({x}) = "resolved"
  <2>1. \A x : Cardinality({x}) = 1 /\ {x} # {}
    BY FS_Singleton
  <2>2. QED
    BY <2>1
<1>4. status = "resolved"
  <2> HIDE DEF Count
  <2>1. QED
    BY <1>2, <1>3
<1> HIDE DEF status
<1>5. QED
  BY <1>1, <1>2, <1>4

\* The addresses that fit a row are the usable ones.
LEMMA FittingIsUsable ==
    ASSUME NEW row, NEW c, NEW a
    PROVE  a \in Usable(c, row) <=> a \in c.addresses /\ Fits(c, a, row)
<1> DEFINE live == {x \in c.addresses : x.live}
           near == {x \in live : x.city = row.city}
<1>1. (row.city # Missing /\ near # {}) <=>
        row.city # Missing /\ \E x \in c.addresses : x.live /\ x.city = row.city
  OBVIOUS
<1>2. CASE row.city # Missing /\ near # {}
  <2>1. Usable(c, row) = {x \in near : x.line # Missing}
    BY <1>2 DEF Usable
  <2>2. QED
    BY <1>1, <1>2, <2>1 DEF Fits
<1>3. CASE ~(row.city # Missing /\ near # {})
  <2>1. Usable(c, row) = {x \in live : x.line # Missing}
    BY <1>3 DEF Usable
  <2>2. QED
    BY <1>1, <1>3, <2>1 DEF Fits
<1>4. QED
  BY <1>2, <1>3

\* A row is resolved if one address fits it, of the one counterparty it means, and
\* in no other case, and to that address; one in another city fits if there is
\* none in the row's.
THEOREM RecipientsAreNotGuessed == ListSpec => []OneIsMeant
<1>1. OneIsMeant
  <2> SUFFICES ASSUME NEW out \in Import(upload).rows
               PROVE  LET row == out.read
                          meant == {c \in Book : IsMeant(c, row)}
                      IN  /\ out.status = "resolved" =>
                               \E c \in meant : \E a \in c.addresses :
                                  /\ meant = {c} /\ out.address = a.id /\ Fits(c, a, row)
                                  /\ \A b \in c.addresses : Fits(c, b, row) => b = a
                          /\ \A c \in meant : \A a \in c.addresses :
                               /\ HasKey(row) /\ meant = {c} /\ Fits(c, a, row)
                               /\ \A b \in c.addresses : Fits(c, b, row) => b = a
                               => out.status = "resolved" /\ out.address = a.id
    BY DEF OneIsMeant
  <2>1. PICK row \in Parse(upload).rows : out = ImportOne(row)
    BY DEF Import
  <2>2. out.read = row /\ Found(row) = {c \in Book : IsMeant(c, row)}
    BY <2>1 DEF ImportOne, Found, IsMeant
  <2>3. ASSUME out.status = "resolved"
        PROVE  \E c \in Found(row) : \E a \in c.addresses :
                  /\ Found(row) = {c} /\ out.address = a.id /\ Fits(c, a, row)
                  /\ \A b \in c.addresses : Fits(c, b, row) => b = a
    <3>1. PICK c \in Book : \E a \in Usable(c, row) :
            Found(row) = {c} /\ Usable(c, row) = {a} /\ out.address = a.id
      BY <2>1, <2>3, ResolvedRow
    <3>2. PICK a \in Usable(c, row) : Found(row) = {c} /\ Usable(c, row) = {a} /\ out.address = a.id
      BY <3>1
    <3>3. a \in c.addresses /\ Fits(c, a, row) /\ \A b \in c.addresses : Fits(c, b, row) => b = a
      BY <3>2, FittingIsUsable
    <3>4. QED
      BY <3>2, <3>3
  <2>4. ASSUME NEW c \in Found(row), NEW a \in c.addresses, HasKey(row), Found(row) = {c}, Fits(c, a, row),
               \A b \in c.addresses : Fits(c, b, row) => b = a
        PROVE  out.status = "resolved" /\ out.address = a.id
    <3>1. c \in Book
      BY <2>2
    <3>2. Usable(c, row) = {a}
      BY <2>4, FittingIsUsable
    <3>3. QED
      BY <2>1, <2>4, <3>1, <3>2, OneIsTaken
  <2>5. QED
    BY <2>2, <2>3, <2>4
<1>2. QED
  BY <1>1, PTL DEF ListSpec

-----------------------------------------------------------------------------
(* The verdicts of the policy.                                               *)

\* A set of natural numbers that is not empty has a least one.
LEMMA LeastNumber ==
    ASSUME NEW T \in SUBSET Nat, T # {}
    PROVE  \E m \in T : \A n \in T : m <= n
<1>1. \E m \in T : \A n \in T : ~(<<n, m>> \in OpToRel(<, Nat))
  <2>1. IsWellFoundedOn(OpToRel(<, Nat), Nat)
    BY NatLessThanWellFounded
  <2> HIDE DEF OpToRel
  <2> QED BY <2>1, WFMin
<1>2. PICK m \in T : \A n \in T : ~(n < m)
  BY <1>1 DEF OpToRel
<1> QED BY <1>2

\* A set of places in a sequence that is not empty has a last one.
LEMMA LastPlace ==
    ASSUME NEW n \in Nat, NEW at \in SUBSET (1..n), at # {}
    PROVE  Max(at) \in at /\ \A i \in at : i <= Max(at)
<1> DEFINE D == {n - i : i \in at}
<1>1. D \in SUBSET Nat /\ D # {}
  <2>1. \A i \in at : n - i \in Nat
    OBVIOUS
  <2>2. QED
    BY <2>1
<1> HIDE DEF D
<1>2. PICK d \in D : \A e \in D : d <= e
  BY <1>1, LeastNumber
<1> USE DEF D
<1>3. PICK m \in at : d = n - m
  BY <1>2
<1>4. ASSUME NEW i \in at PROVE i <= m
  <2>1. n - i \in D
    OBVIOUS
  <2>2. i \in Int /\ m \in Int
    OBVIOUS
  <2> HIDE DEF D
  <2>3. d <= n - i
    BY <1>2, <2>1
  <2>4. QED
    BY <1>3, <2>2, <2>3
<1> HIDE DEF D
<1>5. \E x \in at : \A y \in at : x >= y
  BY <1>4
<1>6. QED
  BY <1>5 DEF Max

\* The rules at some places.
RulesAt(ordered, at) == {ordered[i] : i \in at}

\* The strongest rule of some is the one of the highest priority among them.
LEMMA StrongestIsHighest ==
    ASSUME NEW rows, IsFiniteSet(rows), \A r \in rows : r.priority \in Int,
           \A r, s \in rows : r # s => r.priority # s.priority,
           NEW at \in SUBSET DOMAIN ByPriority(rows), at # {}
    PROVE  /\ Strongest(ByPriority(rows), at) \in RulesAt(ByPriority(rows), at)
           /\ \A s \in RulesAt(ByPriority(rows), at) :
                 s.priority <= Strongest(ByPriority(rows), at).priority
<1>1. /\ Cardinality(rows) \in Nat /\ DOMAIN ByPriority(rows) = 1..Cardinality(rows)
      /\ \A i, j \in DOMAIN ByPriority(rows) :
            i <= j => ByPriority(rows)[i].priority <= ByPriority(rows)[j].priority
  BY FS_CardinalityType, SortingKeepsTheRules
<1>2. Max(at) \in at /\ \A i \in at : i <= Max(at)
  BY <1>1, LastPlace
<1>3. QED
  BY <1>1, <1>2 DEF Strongest, RulesAt

CalculationTyped == written \in RuleSets /\ calculated \in Answers

LEMMA CalculationAlways == CalculationSpec => []CalculationTyped
<1>1. CalculationInit => CalculationTyped
  BY DEF CalculationInit, CalculationTyped
<1>2. CalculationTyped /\ [FALSE]_<<written, consigned, calculated>> => CalculationTyped'
  BY DEF CalculationTyped
<1>3. QED
  BY <1>1, <1>2, PTL DEF CalculationSpec

\* ADR-0028, for every set of rules and every consignment: the verdicts on the
\* carriers do not depend on how the rules are ordered beyond their priorities.
THEOREM PoliciesAreStrict == CalculationSpec => []PolicyIsStrict
<1>1. CalculationTyped => PolicyIsStrict
  <2> SUFFICES ASSUME CalculationTyped, ParseRules(written) # None PROVE PolicyIsStrict
    BY DEF PolicyIsStrict
  <2> DEFINE ordered == ByPriority(written)
             policy == Evaluate(ordered, consigned, Companies)
             Places(kind) == {i \in DOMAIN ordered : /\ MatchesRequest(ordered[i].conditions, consigned)
                                                     /\ ordered[i].action \in {kind}}
             Matching(kind) == {r \in written : r.action = kind /\ MatchesRequest(r.conditions, consigned)}
  <2>1. /\ IsFiniteSet(written) /\ \A r \in written : r.priority \in Int
        /\ \A r, s \in written : r # s => r.priority # s.priority
    BY CalculationAssumption DEF CalculationTyped
  <2>2. ParseRules(written) = ordered
    BY DEF ParseRules
  <2>3. ToSet(ordered) = written
    BY <2>1, SortingKeepsTheRules
  <2>4. /\ policy.insure = (Places("insure") # {})
        /\ \A code \in Companies : policy.verdicts[code] = Verdict(ordered, Places("deny"), Places("allow"), code)
    BY DEF Evaluate
  <2>5. \A i \in DOMAIN ordered : ordered[i] \in written
    BY <2>3 DEF ToSet
  <2>6. \A r \in written : \E i \in DOMAIN ordered : ordered[i] = r
    BY <2>3 DEF ToSet
  <2> HIDE DEF ordered
  <2>7. policy.insure = (Matching("insure") # {})
    BY <2>4, <2>5, <2>6
  <2>8. ASSUME NEW code \in Companies
        PROVE  LET denying == {r \in Matching("deny") :
                                  r.conditions.carrier = Unset \/ code \in r.conditions.carrier}
                   lacking == {r \in Matching("allow") :
                                  r.conditions.carrier # Unset /\ code \notin r.conditions.carrier}
                   against == IF denying # {} THEN denying ELSE lacking
               IN  /\ policy.verdicts[code].allowed = (against = {})
                   /\ ~policy.verdicts[code].allowed =>
                        \E r \in against : /\ r.id = policy.verdicts[code].rule
                                           /\ \A s \in against : s.priority <= r.priority
    <3> DEFINE denying == {r \in Matching("deny") :
                              r.conditions.carrier = Unset \/ code \in r.conditions.carrier}
               lacking == {r \in Matching("allow") :
                              r.conditions.carrier # Unset /\ code \notin r.conditions.carrier}
               against == IF denying # {} THEN denying ELSE lacking
               blocking == Concerning(ordered, Places("deny"), code)
               missing == Places("allow") \ Concerning(ordered, Places("allow"), code)
               places == IF blocking # {} THEN blocking ELSE missing
    <3>1. RulesAt(ordered, blocking) = denying
      BY <2>5, <2>6 DEF RulesAt, Concerning, MatchesCarrier
    <3>2. RulesAt(ordered, missing) = lacking
      BY <2>5, <2>6 DEF RulesAt, Concerning, MatchesCarrier
    <3>3. places \in SUBSET DOMAIN ordered
      BY DEF Concerning
    <3> HIDE DEF denying, lacking, blocking, missing, places
    <3>4. RulesAt(ordered, places) = against /\ (places = {}) = (against = {})
      BY <3>1, <3>2 DEF RulesAt, places
    <3> HIDE DEF policy, against
    <3>5. /\ policy.verdicts[code].allowed = (places = {})
          /\ places # {} => policy.verdicts[code].rule = Strongest(ordered, places).id
      <4>1. policy.verdicts[code] = Verdict(ordered, Places("deny"), Places("allow"), code)
        BY <2>4
      <4> HIDE DEF Places
      <4> PICK v : v = policy.verdicts[code]
        OBVIOUS
      <4>2. /\ blocking # {} => v.allowed = FALSE /\ v.rule = Strongest(ordered, blocking).id
            /\ blocking = {} /\ missing # {} => v.allowed = FALSE /\ v.rule = Strongest(ordered, missing).id
            /\ blocking = {} /\ missing = {} => v.allowed = TRUE
        BY <4>1 DEF Verdict, Refused, Allowed, blocking, missing
      <4>3. v.allowed \in BOOLEAN
        BY <4>2
      <4>4. QED
        BY <4>2, <4>3 DEF places
    <3>6. ASSUME places # {}
          PROVE  /\ Strongest(ordered, places) \in RulesAt(ordered, places)
                 /\ \A s \in RulesAt(ordered, places) : s.priority <= Strongest(ordered, places).priority
      BY <2>1, <3>3, <3>6, StrongestIsHighest DEF ordered
    <3>7. /\ policy.verdicts[code].allowed = (against = {})
          /\ ~policy.verdicts[code].allowed =>
               \E r \in against : /\ r.id = policy.verdicts[code].rule
                                  /\ \A s \in against : s.priority <= r.priority
      BY <3>4, <3>5, <3>6
    <3>8. QED
      BY <3>7 DEF against, denying, lacking
  <2>9. QED
    BY <2>2, <2>7, <2>8 DEF PolicyIsStrict
<1>2. QED
  BY <1>1, CalculationAlways, PTL

-----------------------------------------------------------------------------
(* The order of the offers.                                                  *)

\* How many come no later than i in a strict order, i among them.
Upto(D, R, i) == {j \in D : j = i \/ <<j, i>> \in R}
Orders(R, D) ==
    /\ \A i \in D : <<i, i>> \notin R
    /\ \A i, j, k \in D : <<i, j>> \in R /\ <<j, k>> \in R => <<i, k>> \in R
    /\ \A i, j \in D : i # j => <<i, j>> \in R \/ <<j, i>> \in R

\* Counting puts the elements of a finite set into the places of a strict total
\* order: every place has one of them, and the first and the last are what their
\* names say.
PlacedByCount(R, D) ==
    /\ Cardinality(D) \in Nat
    /\ \A i \in D : Cardinality(Upto(D, R, i)) \in 1..Cardinality(D)
    /\ \A i, j \in D : Cardinality(Upto(D, R, i)) = Cardinality(Upto(D, R, j)) => i = j
    /\ \A n \in 1..Cardinality(D) : \E i \in D : Cardinality(Upto(D, R, i)) = n
    /\ \A i, j \in D : Cardinality(Upto(D, R, i)) = 1 /\ j # i => <<i, j>> \in R
    /\ \A i, j \in D : Cardinality(Upto(D, R, i)) = Cardinality(D) /\ j # i => <<j, i>> \in R

LEMMA Counted ==
    ASSUME NEW D, IsFiniteSet(D), NEW R, Orders(R, D)
    PROVE  PlacedByCount(R, D)
<1> DEFINE N == Cardinality(D)
           place == [i \in D |-> Cardinality(Upto(D, R, i))]
<1>1. N \in Nat
  BY FS_CardinalityType
<1>2. ASSUME NEW i \in D
      PROVE  /\ IsFiniteSet(Upto(D, R, i)) /\ i \in Upto(D, R, i) /\ Upto(D, R, i) \in SUBSET D
             /\ Cardinality(Upto(D, R, i)) <= N
             /\ Cardinality(Upto(D, R, i)) = N => Upto(D, R, i) = D
  <2>1. i \in Upto(D, R, i) /\ Upto(D, R, i) \in SUBSET D
    BY DEF Upto
  <2>2. QED
    BY <2>1, FS_Subset
<1>3. ASSUME NEW i \in D PROVE Cardinality(Upto(D, R, i)) \in 1..N
  <2>1. Cardinality(Upto(D, R, i)) \in Nat /\ Cardinality(Upto(D, R, i)) # 0
    BY <1>2, FS_EmptySet, FS_CardinalityType
  <2>2. PICK c : c = Cardinality(Upto(D, R, i))
    OBVIOUS
  <2>3. QED
    BY <1>1, <1>2, <2>1, <2>2
<1>4. ASSUME NEW i \in D, NEW j \in D, <<i, j>> \in R
      PROVE  Cardinality(Upto(D, R, i)) # Cardinality(Upto(D, R, j))
  <2>1. Upto(D, R, i) \in SUBSET Upto(D, R, j)
    BY <1>4 DEF Upto, Orders
  <2>2. j \in Upto(D, R, j) /\ j \notin Upto(D, R, i)
    BY <1>4 DEF Upto, Orders
  <2>3. Cardinality(Upto(D, R, j)) = Cardinality(Upto(D, R, i)) => Upto(D, R, j) = Upto(D, R, i)
    BY <1>2, <2>1, FS_Subset
  <2>4. QED
    BY <2>2, <2>3
<1>5. \A i, j \in D : Cardinality(Upto(D, R, i)) = Cardinality(Upto(D, R, j)) => i = j
  BY <1>4 DEF Orders
<1>6. place \in Injection(D, 1..N)
  <2>1. place \in [D -> 1..N]
    BY <1>3
  <2>2. QED
    BY <2>1, <1>5 DEF Injection, IsInjective
<1>7. place \in Surjection(D, 1..N)
  <2>1. IsFiniteSet(1..N) /\ Cardinality(1..N) = N
    BY <1>1, FS_Interval
  <2>2. QED
    BY <1>6, <2>1, FS_Injection
<1>8. \A n \in 1..N : \E i \in D : Cardinality(Upto(D, R, i)) = n
  BY <1>7 DEF Surjection
<1>9. ASSUME NEW i \in D, NEW j \in D, Cardinality(Upto(D, R, i)) = 1, j # i
      PROVE  <<i, j>> \in R
  <2>1. {i} \in SUBSET Upto(D, R, i) /\ Cardinality({i}) = 1
    BY <1>2, FS_Singleton
  <2>2. Upto(D, R, i) = {i}
    BY <1>2, <1>9, <2>1, FS_Subset
  <2>3. QED
    BY <1>9, <2>2 DEF Upto, Orders
<1>10. ASSUME NEW i \in D, NEW j \in D, Cardinality(Upto(D, R, i)) = N, j # i
       PROVE  <<j, i>> \in R
  BY <1>2, <1>10 DEF Upto
<1> HIDE DEF place
<1>11. QED
  BY <1>1, <1>3, <1>5, <1>8, <1>9, <1>10 DEF PlacedByCount

\* A finite set of integers that is not empty has a least and a greatest one.
LEMMA EndsExist ==
    ASSUME NEW S \in SUBSET Int, IsFiniteSet(S), S # {}
    PROVE  /\ Low(S) \in S /\ High(S) \in S
           /\ \A x \in S : Low(S) <= x /\ x <= High(S)
<1> DEFINE R == {p \in S \X S : p[1] < p[2]}
<1>1. \A i, j \in S : <<i, j>> \in R <=> i < j
  OBVIOUS
<1> HIDE DEF R
<1>2. \A i \in S : ~(i < i)
  OBVIOUS
<1>3. \A i, j, k \in S : i < j /\ j < k => i < k
  OBVIOUS
<1>4. \A i, j \in S : i # j => i < j \/ j < i
  OBVIOUS
<1>5. /\ Cardinality(S) \in Nat
      /\ \A n \in 1..Cardinality(S) : \E i \in S : Cardinality(Upto(S, R, i)) = n
      /\ \A i, j \in S : Cardinality(Upto(S, R, i)) = 1 /\ j # i => <<i, j>> \in R
      /\ \A i, j \in S : Cardinality(Upto(S, R, i)) = Cardinality(S) /\ j # i => <<j, i>> \in R
  <2>1. Orders(R, S)
    BY <1>1, <1>2, <1>3, <1>4 DEF Orders
  <2>2. PlacedByCount(R, S)
    BY <2>1, Counted
  <2>3. QED
    BY <2>2 DEF PlacedByCount
<1>6. 1 \in 1..Cardinality(S) /\ Cardinality(S) \in 1..Cardinality(S)
  <2>1. Cardinality(S) # 0
    BY FS_EmptySet
  <2>2. PICK n \in Nat : n = Cardinality(S)
    BY <1>5
  <2>3. QED
    BY <2>1, <2>2
<1>7. PICK low \in S : Cardinality(Upto(S, R, low)) = 1
  BY <1>5, <1>6
<1>8. PICK high \in S : Cardinality(Upto(S, R, high)) = Cardinality(S)
  BY <1>5, <1>6
<1>9. \A x \in S : low <= x /\ x <= high
  <2>1. \A x \in S : x = low \/ low < x
    BY <1>1, <1>5, <1>7
  <2>2. \A x \in S : x = high \/ x < high
    BY <1>1, <1>5, <1>8
  <2>3. QED
    BY <2>1, <2>2
<1>10. Low(S) \in S /\ \A x \in S : Low(S) <= x
  BY <1>9 DEF Low
<1>11. High(S) \in S /\ \A x \in S : x <= High(S)
  BY <1>9 DEF High
<1>12. QED
  BY <1>10, <1>11

\* Triples of integers are ordered as Python orders them.
LEMMA TriplesAreOrdered ==
    \A a, b, i, c, d, j \in Int :
        Before(<<a, b, i>>, <<c, d, j>>) <=> a < c \/ (a = c /\ (b < d \/ (b = d /\ i < j)))
<1> SUFFICES ASSUME NEW a \in Int, NEW b \in Int, NEW i \in Int, NEW c \in Int, NEW d \in Int, NEW j \in Int
    PROVE  Before(<<a, b, i>>, <<c, d, j>>) <=> a < c \/ (a = c /\ (b < d \/ (b = d /\ i < j)))
  OBVIOUS
<1> PICK s : s = <<a, b, i>>
  OBVIOUS
<1> PICK t : t = <<c, d, j>>
  OBVIOUS
<1>1. DOMAIN s = {1, 2, 3} /\ s[1] = a /\ s[2] = b /\ s[3] = i /\ t[1] = c /\ t[2] = d /\ t[3] = j
  OBVIOUS
<1>2. 1..(1 - 1) = {} /\ 1..(2 - 1) = {1} /\ 1..(3 - 1) = {1, 2}
  OBVIOUS
<1>3. QED
  BY <1>1, <1>2 DEF Before

LEMMA PairsAreOrdered ==
    \A a, i, c, j \in Int : Before(<<a, i>>, <<c, j>>) <=> a < c \/ (a = c /\ i < j)
<1> SUFFICES ASSUME NEW a \in Int, NEW i \in Int, NEW c \in Int, NEW j \in Int
    PROVE  Before(<<a, i>>, <<c, j>>) <=> a < c \/ (a = c /\ i < j)
  OBVIOUS
<1> PICK s : s = <<a, i>>
  OBVIOUS
<1> PICK t : t = <<c, j>>
  OBVIOUS
<1>1. DOMAIN s = {1, 2} /\ s[1] = a /\ s[2] = i /\ t[1] = c /\ t[2] = j
  OBVIOUS
<1>2. 1..(1 - 1) = {} /\ 1..(2 - 1) = {1}
  OBVIOUS
<1>3. QED
  BY <1>1, <1>2 DEF Before

\* The order of some places is a set of pairs.
Reflects(R, D, key) == \A i, j \in D : <<i, j>> \in R <=> Before(key[i], key[j])

LEMMA OrderOfPlaces ==
    ASSUME NEW D, NEW key
    PROVE  \E R : Reflects(R, D, key)
<1> DEFINE R == {p \in D \X D : Before(key[p[1]], key[p[2]])}
<1>1. \A i, j \in D : <<i, j>> \in R <=> Before(key[i], key[j])
  OBVIOUS
<1> HIDE DEF R
<1>2. QED
  BY <1>1 DEF Reflects

\* All the places are there, each once, and nothing comes before the first.
SortedWhole(key, sorted) ==
    \E n \in Nat :
        /\ DOMAIN sorted = 1..n /\ (n = 0) = (DOMAIN key = {})
        /\ \A m \in 1..n : sorted[m] \in DOMAIN key
        /\ \A i \in DOMAIN key : \E m \in 1..n : sorted[m] = i
        /\ \A m, k \in 1..n : sorted[m] = sorted[k] => m = k
        /\ \A i \in DOMAIN key : ~Before(key[i], key[sorted[1]])

LEMMA SortingKeepsAll ==
    ASSUME NEW key, NEW D, D = DOMAIN key, IsFiniteSet(D), NEW R, Orders(R, D), Reflects(R, D, key)
    PROVE  SortedWhole(key, Sorted(key))
<1> DEFINE N == Cardinality(D)
<1>1. /\ N \in Nat
      /\ \A i \in D : Cardinality(Upto(D, R, i)) \in 1..N
      /\ \A i, j \in D : Cardinality(Upto(D, R, i)) = Cardinality(Upto(D, R, j)) => i = j
      /\ \A n \in 1..N : \E i \in D : Cardinality(Upto(D, R, i)) = n
      /\ \A i, j \in D : Cardinality(Upto(D, R, i)) = 1 /\ j # i => <<i, j>> \in R
  <2>1. PlacedByCount(R, D)
    BY Counted
  <2>2. QED
    BY <2>1 DEF PlacedByCount
<1>2. \A i \in D : {j \in DOMAIN key : j = i \/ Before(key[j], key[i])} = Upto(D, R, i)
  BY DEF Upto, Reflects
<1>3. DOMAIN Sorted(key) = 1..N
  BY DEF Sorted
<1>4. ASSUME NEW n \in 1..N PROVE Sorted(key)[n] \in D /\ Cardinality(Upto(D, R, Sorted(key)[n])) = n
  <2>1. Sorted(key)[n] = CHOOSE i \in D :
            Cardinality({j \in DOMAIN key : j = i \/ Before(key[j], key[i])}) = n
    BY DEF Sorted
  <2>2. Sorted(key)[n] = CHOOSE i \in D : Cardinality(Upto(D, R, i)) = n
    BY <1>2, <2>1
  <2>3. QED
    BY <1>1, <2>2
<1>5. (N = 0) = (D = {})
  BY FS_EmptySet
<1>6. \A i \in D : \E n \in 1..N : Sorted(key)[n] = i
  BY <1>1, <1>4
<1>7. ASSUME NEW i \in D PROVE ~Before(key[i], key[Sorted(key)[1]])
  <2>1. 1 \in 1..N
    BY <1>1, <1>5
  <2>2. PICK first \in D : first = Sorted(key)[1] /\ Cardinality(Upto(D, R, first)) = 1
    BY <1>4, <2>1
  <2>3. i # first => <<first, i>> \in R
    BY <1>1, <2>2
  <2>4. <<i, first>> \notin R
    BY <2>2, <2>3 DEF Orders
  <2>5. QED
    BY <2>2, <2>4 DEF Reflects
<1>8. \A m, n \in 1..N : Sorted(key)[m] = Sorted(key)[n] => m = n
  BY <1>4
<1> HIDE DEF N
<1>9. QED
  BY <1>1, <1>3, <1>4, <1>5, <1>6, <1>7, <1>8 DEF SortedWhole

\* Triples that end in their own place are in a strict total order.
LEMMA PlacesAreOrdered ==
    ASSUME NEW D \in SUBSET Int, NEW a \in [D -> Int], NEW b \in [D -> Int],
           NEW key, key = [i \in D |-> <<a[i], b[i], i>>], NEW R, Reflects(R, D, key)
    PROVE  Orders(R, D)
<1>1. \A i \in D : i \in Int /\ key[i] = <<a[i], b[i], i>> /\ a[i] \in Int /\ b[i] \in Int
  OBVIOUS
<1>2. \A i, j \in D : Before(key[i], key[j]) <=>
          a[i] < a[j] \/ (a[i] = a[j] /\ (b[i] < b[j] \/ (b[i] = b[j] /\ i < j)))
  BY <1>1, TriplesAreOrdered
<1>3. \A i, j \in D : <<i, j>> \in R <=>
          a[i] < a[j] \/ (a[i] = a[j] /\ (b[i] < b[j] \/ (b[i] = b[j] /\ i < j)))
  BY <1>2 DEF Reflects
<1>4. QED
  BY <1>1, <1>3 DEF Orders

\* What the schema says of an offer.
OfferTyped(o) ==
    /\ o.amount \in Int /\ o.eta \in Int \cup {None} /\ (o.eta # None => o.eta < Never)
    /\ o.probability \in Int \cup {None} /\ o.score \in Int \cup {None}

LEMMA CostsAreIntegers ==
    ASSUME NEW o, OfferTyped(o)
    PROVE  EtaKey(o) \in Int /\ ReliabilityCost(o) \in Int /\ RiskCost(o) \in Int
<1>1. Never \in Int
  BY DEF Never
<1>2. QED
  BY <1>1 DEF OfferTyped, EtaKey, ReliabilityCost, RiskCost

\* A span is a positive number, and nothing is further than it from the least.
LEMMA SpansArePositive ==
    ASSUME NEW S \in SUBSET Int, IsFiniteSet(S)
    PROVE  /\ Span(S) \in Nat /\ Span(S) >= 1
           /\ S # {} => Low(S) \in Int /\ \A x \in S : 0 <= x - Low(S) /\ x - Low(S) <= Span(S)
<1>1. CASE S = {}
  BY <1>1 DEF Span
<1>2. CASE S # {}
  <2>1. PICK low \in S : low = Low(S)
    BY <1>2, EndsExist
  <2>2. PICK high \in S : high = High(S)
    BY <1>2, EndsExist
  <2>3. \A x \in S : low <= x /\ x <= high
    BY <1>2, <2>1, <2>2, EndsExist
  <2>4. Span(S) = IF high = low THEN 1 ELSE high - low
    BY <1>2, <2>1, <2>2 DEF Span
  <2>5. QED
    BY <1>2, <2>1, <2>3, <2>4
<1>3. QED
  BY <1>1, <1>2

\* How late an offer counts: one of an unknown date as late as the scale goes.
Lateness(o, offers) ==
    IF o.eta = None THEN Span(Etas(offers)) ELSE o.eta - Low(Etas(offers))

LEMMA LatenessFollowsDates ==
    ASSUME None \notin Int, NEW offers, \A o \in offers : OfferTyped(o), IsFiniteSet(Etas(offers))
    PROVE  \A o, p \in offers :
               /\ Lateness(o, offers) \in Int
               /\ EtaKey(o) <= EtaKey(p) => Lateness(o, offers) <= Lateness(p, offers)
<1> DEFINE etas == Etas(offers)
<1>1. etas \in SUBSET Int /\ \A o \in offers : o.eta # None => o.eta \in etas
  BY DEF Etas, OfferTyped
<1>2. /\ Span(etas) \in Nat
      /\ etas # {} => Low(etas) \in Int /\ \A x \in etas : x - Low(etas) <= Span(etas)
  BY <1>1, SpansArePositive
<1> HIDE DEF etas
<1>3. \A o \in offers : Lateness(o, offers) = IF o.eta = None THEN Span(etas) ELSE o.eta - Low(etas)
  BY DEF Lateness, etas
<1>4. Never \in Int
  BY DEF Never
<1>5. \A o \in offers : /\ o.eta \in Int \cup {None} /\ (o.eta # None => o.eta < Never)
                        /\ EtaKey(o) = IF o.eta = None THEN Never ELSE o.eta
  BY DEF OfferTyped, EtaKey
<1>6. QED
  BY <1>1, <1>2, <1>3, <1>4, <1>5

\* The weighted sum of what an offer costs, of its date, and of the rest.
Weighted(x, l, r, cost, time) == 40 * x * time * 100 + 30 * l * cost * 100 + r * cost * time

\* It grows with its parts.
LEMMA SumGrowsWithItsParts ==
    ASSUME NEW x \in Int, NEW y \in Int, x < y, NEW l \in Int, NEW m \in Int, l <= m,
           NEW r \in Int, NEW s \in Int, r <= s,
           NEW cost \in Nat, cost >= 1, NEW time \in Nat, time >= 1
    PROVE  Weighted(x, l, r, cost, time) < Weighted(y, m, s, cost, time)
<1>1. x * time < y * time
  OBVIOUS
<1>2. l * cost <= m * cost
  OBVIOUS
<1>3. PICK both \in Nat : both = cost * time /\ both >= 1
  OBVIOUS
<1>4. r * both <= s * both
  BY <1>3
<1>5. PICK xt \in Int : xt = x * time
  OBVIOUS
<1>6. PICK yt \in Int : yt = y * time
  OBVIOUS
<1>7. PICK lc \in Int : lc = l * cost
  OBVIOUS
<1>8. PICK mc \in Int : mc = m * cost
  OBVIOUS
<1>9. PICK rb \in Int : rb = r * both
  OBVIOUS
<1>10. PICK sb \in Int : sb = s * both
  OBVIOUS
<1>11. xt < yt /\ lc <= mc /\ rb <= sb
  BY <1>1, <1>2, <1>4, <1>5, <1>6, <1>7, <1>8, <1>9, <1>10
<1>12. 4000 * xt + 3000 * lc + rb < 4000 * yt + 3000 * mc + sb
  BY <1>11
<1>13. 40 * x * time * 100 = 4000 * xt /\ 40 * y * time * 100 = 4000 * yt
  BY <1>5, <1>6
<1>14. 30 * l * cost * 100 = 3000 * lc /\ 30 * m * cost * 100 = 3000 * mc
  BY <1>7, <1>8
<1>15. r * cost * time = rb /\ s * cost * time = sb
  BY <1>3, <1>9, <1>10
<1>16. QED
  BY <1>12, <1>13, <1>14, <1>15 DEF Weighted

\* The optimal score as a sum, and what it is made of.
LEMMA ScoreIsASum ==
    ASSUME NEW o, NEW offers
    PROVE  OptimalScore(o, offers) =
               Weighted(o.amount - Low(Amounts(offers)), Lateness(o, offers),
                        20 * ReliabilityCost(o) + 10 * RiskCost(o),
                        Span(Amounts(offers)), Span(Etas(offers)))
  BY DEF OptimalScore, Lateness, Weighted

\* The score is an integer, and lower for an offer that is cheaper and as early,
\* as reliable and as safe.
LEMMA ScoreKnowsBetter ==
    ASSUME None \notin Int, NEW offers, IsFiniteSet(offers), \A o \in offers : OfferTyped(o),
           NEW o \in offers, NEW p \in offers
    PROVE  /\ OptimalScore(o, offers) \in Int
           /\ /\ o.amount < p.amount /\ EtaKey(o) <= EtaKey(p)
              /\ RiskCost(o) <= RiskCost(p) /\ ReliabilityCost(o) <= ReliabilityCost(p)
              => OptimalScore(o, offers) < OptimalScore(p, offers)
<1>1. Amounts(offers) \in SUBSET Int /\ Amounts(offers) # {} /\ IsFiniteSet(Amounts(offers))
  <2>1. [q \in offers |-> q.amount] \in Surjection(offers, Amounts(offers))
    BY DEF Surjection, Amounts
  <2>2. \A q \in offers : q.amount \in Int
    BY DEF OfferTyped
  <2>3. Amounts(offers) \in SUBSET Int /\ Amounts(offers) # {}
    BY <2>2 DEF Amounts
  <2>4. QED
    BY <2>1, <2>3, FS_Surjection
<1>2. Etas(offers) \in SUBSET Int /\ IsFiniteSet(Etas(offers))
  <2> DEFINE all == {q.eta : q \in offers}
  <2>1. [q \in offers |-> q.eta] \in Surjection(offers, all)
    BY DEF Surjection
  <2>2. IsFiniteSet(all)
    BY <2>1, FS_Surjection
  <2>3. Etas(offers) = all \ {None}
    BY DEF Etas
  <2>4. Etas(offers) \in SUBSET Int
    BY DEF Etas, OfferTyped
  <2> HIDE DEF all
  <2>5. QED
    BY <2>2, <2>3, <2>4, FS_Difference
<1>3. PICK cost \in Nat : cost = Span(Amounts(offers)) /\ cost >= 1
  BY <1>1, SpansArePositive
<1>4. PICK time \in Nat : time = Span(Etas(offers)) /\ time >= 1
  BY <1>2, SpansArePositive
<1>5. PICK low \in Int : low = Low(Amounts(offers))
  BY <1>1, EndsExist
<1>6. \A q \in offers :
          /\ q.amount \in Int /\ Lateness(q, offers) \in Int
          /\ ReliabilityCost(q) \in Int /\ RiskCost(q) \in Int
  BY <1>2, CostsAreIntegers, LatenessFollowsDates DEF OfferTyped
<1>7. PICK x \in Int : x = o.amount - low
  BY <1>6
<1>8. PICK y \in Int : y = p.amount - low
  BY <1>6
<1>9. PICK l \in Int : l = Lateness(o, offers)
  BY <1>6
<1>10. PICK m \in Int : m = Lateness(p, offers)
  BY <1>6
<1>11. PICK r \in Int : r = 20 * ReliabilityCost(o) + 10 * RiskCost(o)
  BY <1>6
<1>12. PICK s \in Int : s = 20 * ReliabilityCost(p) + 10 * RiskCost(p)
  BY <1>6
<1>13. /\ OptimalScore(o, offers) = Weighted(x, l, r, cost, time)
       /\ OptimalScore(p, offers) = Weighted(y, m, s, cost, time)
  BY <1>3, <1>4, <1>5, <1>7, <1>8, <1>9, <1>10, <1>11, <1>12, ScoreIsASum
<1>14. OptimalScore(o, offers) \in Int
  BY <1>13 DEF Weighted
<1>15. ASSUME o.amount < p.amount, EtaKey(o) <= EtaKey(p),
              RiskCost(o) <= RiskCost(p), ReliabilityCost(o) <= ReliabilityCost(p)
       PROVE  OptimalScore(o, offers) < OptimalScore(p, offers)
  <2>1. x < y
    BY <1>5, <1>6, <1>7, <1>8, <1>15
  <2>2. l <= m
    BY <1>2, <1>9, <1>10, <1>15, LatenessFollowsDates
  <2>3. r <= s
    BY <1>6, <1>11, <1>12, <1>15
  <2>4. QED
    BY <1>3, <1>4, <1>13, <2>1, <2>2, <2>3, SumGrowsWithItsParts
<1>16. QED
  BY <1>14, <1>15

\* An offer that nobody should be passed over for.
Better(o, p) ==
    /\ o.amount < p.amount /\ EtaKey(o) <= EtaKey(p)
    /\ RiskCost(o) <= RiskCost(p) /\ ReliabilityCost(o) <= ReliabilityCost(p)

\* The two parts of a key.
KeyFirst(s, o, offers) == StrategyKey(s, o, offers)[1]
KeySecond(s, o, offers) == StrategyKey(s, o, offers)[2]
AllTyped(offers) == IsFiniteSet(offers) /\ \A o \in offers : OfferTyped(o)

\* Every strategy makes pairs of integers, and a better offer comes first.
LEMMA StrategiesKnowBetter ==
    ASSUME None \notin Int, NEW offers, AllTyped(offers),
           NEW s \in Strategies, NEW o \in offers, NEW p \in offers
    PROVE  /\ StrategyKey(s, o, offers) = <<KeyFirst(s, o, offers), KeySecond(s, o, offers)>>
           /\ KeyFirst(s, o, offers) \in Int /\ KeySecond(s, o, offers) \in Int
           /\ Better(o, p) => \/ KeyFirst(s, o, offers) < KeyFirst(s, p, offers)
                              \/ /\ KeyFirst(s, o, offers) = KeyFirst(s, p, offers)
                                 /\ KeySecond(s, o, offers) < KeySecond(s, p, offers)
<1>1. /\ o.amount \in Int /\ EtaKey(o) \in Int /\ ReliabilityCost(o) \in Int
      /\ p.amount \in Int /\ EtaKey(p) \in Int /\ ReliabilityCost(p) \in Int
  BY CostsAreIntegers DEF OfferTyped, AllTyped
<1>2. /\ OptimalScore(o, offers) \in Int /\ OptimalScore(p, offers) \in Int
      /\ Better(o, p) => OptimalScore(o, offers) < OptimalScore(p, offers)
  BY ScoreKnowsBetter DEF Better, AllTyped
<1>3. CASE s = "cheapest"
  <2>1. /\ StrategyKey(s, o, offers) = <<o.amount, EtaKey(o)>>
        /\ StrategyKey(s, p, offers) = <<p.amount, EtaKey(p)>>
    BY <1>3 DEF StrategyKey
  <2>2. QED
    BY <1>1, <2>1 DEF Better, KeyFirst, KeySecond
<1>4. CASE s = "fastest"
  <2>1. /\ StrategyKey(s, o, offers) = <<EtaKey(o), o.amount>>
        /\ StrategyKey(s, p, offers) = <<EtaKey(p), p.amount>>
    BY <1>4 DEF StrategyKey
  <2>2. Better(o, p) => EtaKey(o) < EtaKey(p) \/ (EtaKey(o) = EtaKey(p) /\ o.amount < p.amount)
    BY <1>1 DEF Better
  <2>3. QED
    BY <1>1, <2>1, <2>2 DEF KeyFirst, KeySecond
<1>5. CASE s = "reliable"
  <2>1. /\ StrategyKey(s, o, offers) = <<ReliabilityCost(o), o.amount>>
        /\ StrategyKey(s, p, offers) = <<ReliabilityCost(p), p.amount>>
    BY <1>5 DEF StrategyKey
  <2>2. Better(o, p) => \/ ReliabilityCost(o) < ReliabilityCost(p)
                        \/ ReliabilityCost(o) = ReliabilityCost(p) /\ o.amount < p.amount
    BY <1>1 DEF Better
  <2>3. QED
    BY <1>1, <2>1, <2>2 DEF KeyFirst, KeySecond
<1>6. CASE s = "optimal"
  <2>1. /\ StrategyKey(s, o, offers) = <<OptimalScore(o, offers), o.amount>>
        /\ StrategyKey(s, p, offers) = <<OptimalScore(p, offers), p.amount>>
    BY <1>6 DEF StrategyKey
  <2>2. QED
    BY <1>1, <1>2, <2>1 DEF KeyFirst, KeySecond
<1>7. QED
  BY <1>3, <1>4, <1>5, <1>6 DEF Strategies

\* The offers of a calculation, as the schema keeps them.
Unlike(offers) ==
    /\ offers \in Seq(ToSet(offers))
    /\ \A i \in DOMAIN offers : OfferTyped(offers[i])
    /\ \A i, j \in DOMAIN offers : offers[i].id = offers[j].id => i = j

LEMMA AppendToPair ==
    ASSUME NEW x \in Int, NEW y \in Int, NEW z \in Int
    PROVE  Append(<<x, y>>, z) = <<x, y, z>>
<1>1. <<x, y>> \in Seq(Int) /\ <<x, y, z>> \in Seq(Int)
  OBVIOUS
<1> PICK t \in Seq(Int) : t = <<x, y, z>>
  BY <1>1
<1>2. Len(t) = 3 /\ t[1] = x /\ t[2] = y /\ t[3] = z
  OBVIOUS
<1> PICK s \in Seq(Int) : s = <<x, y>>
  BY <1>1
<1>3. Len(s) = 2 /\ s[1] = x /\ s[2] = y
  OBVIOUS
<1>4. /\ Append(s, z) \in Seq(Int) /\ Len(Append(s, z)) = 3
      /\ Append(s, z)[1] = x /\ Append(s, z)[2] = y /\ Append(s, z)[3] = z
  BY <1>3, AppendProperties
<1> PICK u \in Seq(Int) : u = Append(s, z)
  BY <1>4
<1>5. Len(u) = 3 /\ u[1] = x /\ u[2] = y /\ u[3] = z
  BY <1>4
<1>6. \A i \in 1..Len(u) : u[i] = t[i]
  <2>1. 1..Len(u) = {1, 2, 3}
    BY <1>5
  <2>2. QED
    BY <1>2, <1>5, <2>1
<1>7. u = t
  BY <1>2, <1>5, <1>6, SeqEqual
<1>8. QED
  BY <1>7

\* Ranking loses no eligible offer, adds none, names none twice, and puts none
\* before a better one.
LEMMA RankingKeepsAll ==
    ASSUME None \notin Int, NEW offers, Unlike(offers), NEW s \in Strategies
    PROVE  LET ranked == Rank(offers, s)
               eligible == {o \in ToSet(offers) : o.eligible}
           IN  \E n \in Nat :
                 /\ DOMAIN ranked = 1..n /\ (n = 0) = (eligible = {})
                 /\ \A m \in 1..n : ranked[m] \in eligible
                 /\ \A o \in eligible : \E m \in 1..n : ranked[m] = o
                 /\ \A m, k \in 1..n : ranked[m].id = ranked[k].id => m = k
                 /\ \A o \in eligible : ~Better(o, ranked[1])
<1> DEFINE ranked == Rank(offers, s)
           eligible == {o \in ToSet(offers) : o.eligible}
           D == Eligible(offers)
           among == {offers[i] : i \in D}
           key == [i \in D |-> Append(StrategyKey(s, offers[i], among), i)]
           a == [i \in D |-> KeyFirst(s, offers[i], among)]
           b == [i \in D |-> KeySecond(s, offers[i], among)]
           sorted == Sorted(key)
<1>1. DOMAIN offers = 1..Len(offers) /\ Len(offers) \in Nat
  BY DEF Unlike
<1>2. D \in SUBSET DOMAIN offers /\ D \in SUBSET Int /\ IsFiniteSet(D)
  <2>1. D \in SUBSET DOMAIN offers
    BY DEF Eligible
  <2>2. IsFiniteSet(DOMAIN offers)
    BY <1>1, FS_Interval
  <2>3. D \in SUBSET Int
    BY <1>1, <2>1
  <2>4. QED
    BY <2>1, <2>2, <2>3, FS_Subset
<1>3. among = eligible
  BY DEF Eligible, ToSet
<1>4. AllTyped(among)
  <2>1. [i \in D |-> offers[i]] \in Surjection(D, among)
    BY DEF Surjection
  <2>2. \A o \in among : OfferTyped(o)
    BY <1>2 DEF Unlike
  <2> HIDE DEF D, among
  <2>3. QED
    BY <1>2, <2>1, <2>2, FS_Surjection DEF AllTyped
<1>5. ranked = [m \in DOMAIN sorted |-> offers[sorted[m]]]
  BY DEF Rank
<1>6. (eligible = {}) = (D = {}) /\ \A i \in D : offers[i] \in among
  BY <1>3
<1>7. \A o \in eligible : \E i \in D : o = offers[i]
  BY <1>3
<1> HIDE DEF D, among, ranked, eligible
<1>8. a \in [D -> Int] /\ b \in [D -> Int]
  <2>1. \A i \in D : KeyFirst(s, offers[i], among) \in Int /\ KeySecond(s, offers[i], among) \in Int
    BY <1>4, <1>6, StrategiesKnowBetter
  <2>2. QED
    BY <2>1
<1>9. \A i, j \in D : Better(offers[i], offers[j]) => a[i] < a[j] \/ (a[i] = a[j] /\ b[i] < b[j])
  <2>1. \A i, j \in D : Better(offers[i], offers[j]) =>
            \/ KeyFirst(s, offers[i], among) < KeyFirst(s, offers[j], among)
            \/ /\ KeyFirst(s, offers[i], among) = KeyFirst(s, offers[j], among)
               /\ KeySecond(s, offers[i], among) < KeySecond(s, offers[j], among)
    BY <1>4, <1>6, StrategiesKnowBetter
  <2>2. QED
    BY <2>1
<1>10. key = [i \in D |-> <<a[i], b[i], i>>]
  <2>1. \A i \in D : StrategyKey(s, offers[i], among) = <<a[i], b[i]>>
    BY <1>4, <1>6, StrategiesKnowBetter
  <2> HIDE DEF a, b
  <2>2. \A i \in D : Append(<<a[i], b[i]>>, i) = <<a[i], b[i], i>>
    BY <1>2, <1>8, AppendToPair
  <2>3. QED
    BY <2>1, <2>2
<1> HIDE DEF a, b, key
<1>11. PICK R : Reflects(R, D, key)
  BY OrderOfPlaces
<1>12. D = DOMAIN key /\ Orders(R, D)
  BY <1>2, <1>8, <1>10, <1>11, PlacesAreOrdered
<1>13. SortedWhole(key, sorted)
  BY <1>2, <1>11, <1>12, SortingKeepsAll
<1> HIDE DEF sorted
<1>whole. PICK n \in Nat :
          /\ DOMAIN sorted = 1..n /\ (n = 0) = (D = {})
          /\ \A m \in 1..n : sorted[m] \in D
          /\ \A i \in D : \E m \in 1..n : sorted[m] = i
          /\ \A m, k \in 1..n : sorted[m] = sorted[k] => m = k
          /\ \A i \in D : ~Before(key[i], key[sorted[1]])
  BY <1>12, <1>13 DEF SortedWhole
<1>14. DOMAIN ranked = 1..n /\ \A m \in 1..n : ranked[m] = offers[sorted[m]]
  BY <1>whole, <1>5
<1>15. (n = 0) = (eligible = {})
  BY <1>whole, <1>6
<1>16. \A m \in 1..n : ranked[m] \in eligible
  BY <1>whole, <1>3, <1>6, <1>14
<1>17. \A o \in eligible : \E m \in 1..n : ranked[m] = o
  BY <1>whole, <1>7, <1>14
<1>18. \A m, k \in 1..n : ranked[m].id = ranked[k].id => m = k
  <2> SUFFICES ASSUME NEW m \in 1..n, NEW k \in 1..n, ranked[m].id = ranked[k].id PROVE m = k
    OBVIOUS
  <2>1. sorted[m] \in DOMAIN offers /\ sorted[k] \in DOMAIN offers
    BY <1>whole, <1>2
  <2>2. offers[sorted[m]].id = offers[sorted[k]].id
    BY <1>14
  <2>3. sorted[m] = sorted[k]
    BY <2>1, <2>2 DEF Unlike
  <2>4. QED
    BY <1>whole, <2>3
<1>19. ASSUME NEW o \in eligible PROVE ~Better(o, ranked[1])
  <2>1. PICK i \in D : o = offers[i]
    BY <1>7
  <2>2. 1 \in 1..n
    BY <1>whole, <2>1
  <2>3. PICK j \in D : j = sorted[1] /\ ranked[1] = offers[j]
    BY <1>whole, <1>14, <2>2
  <2>4. ~Before(key[i], key[j])
    BY <1>whole, <2>3
  <2>5. /\ key[i] = <<a[i], b[i], i>> /\ key[j] = <<a[j], b[j], j>>
        /\ a[i] \in Int /\ b[i] \in Int /\ a[j] \in Int /\ b[j] \in Int /\ i \in Int /\ j \in Int
    BY <1>2, <1>8, <1>10
  <2>6. ~(a[i] < a[j] \/ (a[i] = a[j] /\ b[i] < b[j]))
    BY <2>4, <2>5, TriplesAreOrdered
  <2>7. QED
    BY <1>9, <2>1, <2>3, <2>6
<1>20. QED
  BY <1>14, <1>15, <1>16, <1>17, <1>18, <1>19 DEF ranked, eligible

\* The cheapest of some ranked offers is found: none costs less, and of those
\* that cost as much it is ranked first.
LEMMA CheapestIsFound ==
    ASSUME NEW ranked, NEW n \in Nat, n # 0, DOMAIN ranked = 1..n,
           \A m \in 1..n : ranked[m].amount \in Int
    PROVE  \E c \in 1..n :
              /\ CheapestOf(ranked) = ranked[c]
              /\ \A m \in 1..n : \/ m = c \/ ranked[c].amount < ranked[m].amount
                                 \/ ranked[c].amount = ranked[m].amount /\ c < m
<1> DEFINE D == 1..n
           key == [i \in D |-> <<ranked[i].amount, i>>]
           Least(i) == \A j \in DOMAIN ranked :
                          Before(<<ranked[i].amount, i>>, <<ranked[j].amount, j>>) \/ i = j
<1>1. PICK R : Reflects(R, D, key)
  BY OrderOfPlaces
<1>2. \A i, j \in D : Before(<<ranked[i].amount, i>>, <<ranked[j].amount, j>>) <=>
          ranked[i].amount < ranked[j].amount \/ (ranked[i].amount = ranked[j].amount /\ i < j)
  BY PairsAreOrdered
<1>3. \A i, j \in D : <<i, j>> \in R <=> Before(<<ranked[i].amount, i>>, <<ranked[j].amount, j>>)
  <2>1. \A i \in D : key[i] = <<ranked[i].amount, i>>
    OBVIOUS
  <2> HIDE DEF D, key
  <2>2. QED
    BY <1>1, <2>1 DEF Reflects
<1>4. Orders(R, D)
  <2>1. \A i, j \in D : <<i, j>> \in R <=>
            ranked[i].amount < ranked[j].amount \/ (ranked[i].amount = ranked[j].amount /\ i < j)
    BY <1>2, <1>3
  <2>2. QED
    BY <2>1 DEF Orders
<1>5. IsFiniteSet(D) /\ Cardinality(D) = n
  BY FS_Interval
<1>placed. PlacedByCount(R, D)
  BY <1>4, <1>5, Counted
<1>6. PICK c \in D : Cardinality(Upto(D, R, c)) = 1
  <2>1. 1 \in 1..Cardinality(D)
    BY <1>5
  <2> HIDE DEF D
  <2>2. QED
    BY <1>placed, <2>1 DEF PlacedByCount
<1>7. \A j \in D : j # c => <<c, j>> \in R
  <2> HIDE DEF D
  <2>1. QED
    BY <1>placed, <1>6 DEF PlacedByCount
<1>8. c \in DOMAIN ranked /\ Least(c)
  BY <1>3, <1>7
<1>9. \A i \in DOMAIN ranked : Least(i) => i = c
  BY <1>2, <1>8
<1>10. (CHOOSE i \in DOMAIN ranked : Least(i)) = c
  BY <1>8, <1>9
<1>11. CheapestOf(ranked) = ranked[c]
  BY <1>10 DEF CheapestOf
<1>12. \A m \in 1..n : \/ m = c \/ ranked[c].amount < ranked[m].amount
                       \/ ranked[c].amount = ranked[m].amount /\ c < m
  BY <1>2, <1>8
<1>13. c \in 1..n
  OBVIOUS
<1> HIDE DEF D, key, Least
<1>14. QED
  BY <1>11, <1>12, <1>13

\* What is said of a choice is true.
LEMMA ExplanationsAreTrue ==
    ASSUME None \notin Int, NEW ranked, NEW eligible, NEW n \in Nat, n # 0, DOMAIN ranked = 1..n,
           Len(ranked) = n, ranked # <<>>,
           \A o \in eligible : o.amount \in Int,
           \A m \in 1..n : ranked[m] \in eligible,
           \A o \in eligible : \E m \in 1..n : ranked[m] = o,
           \A m, k \in 1..n : ranked[m].id = ranked[k].id => m = k,
           NEW s
    PROVE  ExplainsTruly(ranked, eligible, s)
<1> DEFINE facts == Explanation(ranked, s)
           delta == AlternativesDelta(ranked)
           Cheaper == {o \in eligible : o.amount < ranked[1].amount}
           known == {i \in DOMAIN ranked : ranked[i].probability # None}
<1>1. 1 \in 1..n /\ \A m \in 1..n : ranked[m].amount \in Int
  OBVIOUS
<1>2. PICK c \in 1..n :
          /\ CheapestOf(ranked) = ranked[c]
          /\ \A m \in 1..n : \/ m = c \/ ranked[c].amount < ranked[m].amount
                             \/ ranked[c].amount = ranked[m].amount /\ c < m
  BY <1>1, CheapestIsFound
<1>3. (CheapestOf(ranked).id = ranked[1].id) <=> c = 1
  BY <1>1, <1>2
<1>4. c = 1 => Cheaper = {}
  BY <1>1, <1>2
<1>5. c # 1 => ranked[c] \in Cheaper /\ ranked[1].amount - CheapestOf(ranked).amount > 0
  BY <1>1, <1>2
<1>6. ("is_cheapest_eligible" \in facts) = (Cheaper = {})
  BY <1>3, <1>4, <1>5 DEF Explanation
<1>7. /\ (delta.cheapest = None) = (Cheaper = {})
      /\ delta.cheapest # None => delta.cheapest > 0
  <2>1. CASE n < 2
    <3>1. n = 1 /\ c = 1
      BY <2>1
    <3>2. delta.cheapest = None
      BY <2>1 DEF AlternativesDelta
    <3>3. QED
      BY <1>4, <3>1, <3>2
  <2>2. CASE ~(n < 2)
    <3>1. delta.cheapest = IF c = 1 THEN None ELSE ranked[1].amount - CheapestOf(ranked).amount
      BY <1>3, <2>2 DEF AlternativesDelta
    <3>2. ranked[1].amount - CheapestOf(ranked).amount \in Int
      BY <1>1, <1>2
    <3> HIDE DEF delta, Cheaper
    <3>3. QED
      BY <1>4, <1>5, <3>1, <3>2
  <2>3. QED
    BY <2>1, <2>2
<1>8. ASSUME Confidence(ranked) = "low"
      PROVE  "on_time_probability" \notin facts /\ delta.probability = None
  <2>1. known = {}
    BY <1>8 DEF Confidence
  <2>2. ranked[1].probability = None
    BY <1>1, <2>1
  <2>3. "on_time_probability" \notin facts
    BY <2>2 DEF Explanation
  <2>4. delta.probability = None
    BY <2>2 DEF AlternativesDelta
  <2>5. QED
    BY <2>3, <2>4
<1> HIDE DEF facts, delta, Cheaper
<1>9. QED
  BY <1>6, <1>7, <1>8 DEF ExplainsTruly, facts, delta, Cheaper

\* strategies.py and explanation.py, for all offers: nobody better is passed
\* over, and what is said of the choice is true.
THEOREM NobodyBetterIsMissed == CalculationSpec => []NobodyBetterIsPassedOver
<1>1. CalculationTyped => NobodyBetterIsPassedOver
  <2> SUFFICES ASSUME CalculationTyped, NEW s \in Strategies
      PROVE  LET ranked == Rank(calculated, s)
                 eligible == {o \in ToSet(calculated) : o.eligible}
             IN  PassesOverNobody(ranked, eligible) /\ ExplainsTruly(ranked, eligible, s)
    BY DEF NobodyBetterIsPassedOver
  <2> DEFINE ranked == Rank(calculated, s)
             eligible == {o \in ToSet(calculated) : o.eligible}
  <2>1. None \notin Int /\ Unlike(calculated)
    BY CalculationAssumption DEF CalculationTyped, Unlike, OfferTyped
  <2>2. PICK n \in Nat :
           /\ DOMAIN ranked = 1..n /\ (n = 0) = (eligible = {})
           /\ \A m \in 1..n : ranked[m] \in eligible
           /\ \A o \in eligible : \E m \in 1..n : ranked[m] = o
           /\ \A m, k \in 1..n : ranked[m].id = ranked[k].id => m = k
           /\ \A o \in eligible : ~Better(o, ranked[1])
    BY <2>1, RankingKeepsAll
  <2>3. \A o \in eligible : o.amount \in Int
    BY <2>1 DEF Unlike, OfferTyped, ToSet
  <2>4. ranked \in Seq(eligible) /\ Len(ranked) = n
    <3>1. ranked = [m \in 1..n |-> ranked[m]]
      BY <2>2 DEF Rank
    <3> HIDE DEF ranked, eligible
    <3>2. QED
      BY <2>2, <3>1
  <2> HIDE DEF ranked, eligible
  <2>5. (ranked = <<>>) = (n = 0)
    BY <2>4, EmptySeq
  <2>6. PassesOverNobody(ranked, eligible)
    BY <2>2, <2>5 DEF PassesOverNobody, Better
  <2>7. CASE n = 0
    <3>1. ranked = <<>>
      BY <2>5, <2>7
    <3>2. ExplainsTruly(ranked, eligible, s)
      BY <3>1 DEF ExplainsTruly, Explanation
    <3>3. QED
      BY <2>6, <3>2 DEF ranked, eligible
  <2>8. CASE n # 0
    <3>1. ExplainsTruly(ranked, eligible, s)
      BY <2>1, <2>2, <2>3, <2>4, <2>5, <2>8, ExplanationsAreTrue
    <3>2. QED
      BY <2>6, <3>1 DEF ranked, eligible
  <2>9. QED
    BY <2>7, <2>8
<1>2. QED
  BY <1>1, CalculationAlways, PTL
=============================================================================
