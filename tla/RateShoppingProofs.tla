-------------------------- MODULE RateShoppingProofs --------------------------
(* Theorems about RateShopping, for every value of the constants.             *)
EXTENDS RateShopping, TLAPS

\* The locals of quote, step by step.
Started == [step : {"accounts"}, payload : Payloads, policy : Policies]
Looking == [step : {"lookup"}, payload : Payloads, policy : Policies, accounts : SUBSET Accounts]
Resolved == [step : {"policy"}, payload : Payloads, policy : Policies,
             accounts : SUBSET Accounts, facts : Facts]
Polling == [step : {"prepare", "poll"}, payload : Payloads, policy : Policies,
            accounts : SUBSET Accounts, facts : Facts, asked : SUBSET Accounts, rows : Rows,
            gone : SUBSET Accounts, empty : SUBSET Accounts]
Flushed == [step : {"commit"}, payload : Payloads, policy : Policies, accounts : SUBSET Accounts,
            facts : Facts, id : Ids, rows : Rows, gone : SUBSET Accounts, empty : SUBSET Accounts]
Ended == [step : {"done"}, payload : Payloads, policy : Policies, accounts : SUBSET Accounts,
          id : Ids, rows : Rows, gone : SUBSET Accounts, empty : SUBSET Accounts,
          noMatch : BOOLEAN]
Locals == {Idle} \cup Started \cup Looking \cup Resolved \cup Polling \cup Flushed \cup Ended

\* The lists of a request leave this account.
Listed(payload, a) ==
    /\ payload.white = {} \/ CarrierOf[a] \in payload.white
    /\ CarrierOf[a] \notin payload.black

\* Accounts that a request with this body and these facts may ask under these rules.
MayAsk(payload, version, facts, a) == Listed(payload, a) /\ ~Blocked(version, facts, a)

\* Rows say "blocked" of accounts the rules deny, and more only of accounts that
\* may be asked and that the request has found.
RowsTrue(rows, payload, version, facts, accounts) ==
    \A a \in Accounts :
        /\ rows[a] \in {"failed", "priced", "missed"} =>
              a \in accounts /\ MayAsk(payload, version, facts, a)
        /\ rows[a] = "blocked" => Blocked(version, facts, a)

\* An account that the request found has a row, an excuse, or is still to answer.
Accounted(r, asked) ==
    \A a \in r.accounts : a \in Named(r.rows) \cup r.empty \cup r.gone \cup Unreadable \cup asked

\* A stored answer was made for a body with its hash, under the policy it names.
QuoteTrue(i) ==
    quotes[i] # None =>
        /\ quotes[i].hash = RequestHash(quotes[i].facts[1], quotes[i].policy)
        /\ RowsTrue(quotes[i].rows, quotes[i].facts[1], quotes[i].policy, quotes[i].facts,
                    Named(quotes[i].rows))

\* An answer that a request was given is stored.
Given(r) ==
    /\ quotes[r.id] # None /\ quotes[r.id].rows = r.rows /\ quotes[r.id].facts[1] = r.payload
    /\ RowsTrue(r.rows, r.payload, r.policy, quotes[r.id].facts, r.accounts)

\* What a request has done so far.
LocalsTrue(r) ==
    /\ r \in Looking \cup Resolved => \A a \in r.accounts : Listed(r.payload, a)
    /\ r \in Resolved \cup Polling \cup Flushed => r.facts[1] = r.payload
    /\ r \in Polling =>
          /\ \A a \in r.asked : a \in r.accounts /\ MayAsk(r.payload, r.policy, r.facts, a)
          /\ RowsTrue(r.rows, r.payload, r.policy, r.facts, r.accounts)
          /\ Accounted(r, r.asked)
    /\ r \in Flushed =>
          /\ quotes[r.id] = None
          /\ RowsTrue(r.rows, r.payload, r.policy, r.facts, r.accounts) /\ Accounted(r, {})
    /\ r \in Ended => Given(r) /\ Accounted(r, {})

\* Answers that are about to be committed have identifiers of their own.
OwnIds == \A h, k \in Requests : At(h, "commit") /\ At(k, "commit") /\ h # k =>
                                    request[h].id # request[k].id

Inductive ==
    /\ connected \subseteq Accounts /\ active \subseteq Carriers /\ policy \in Policies
    /\ catalog \subseteq Cities
    /\ quotes \in [Ids -> Quote \cup {None}]
    /\ request \in [Requests -> Locals]
    /\ \A i \in Ids : QuoteTrue(i)
    /\ \A h \in Requests : LocalsTrue(request[h])
    /\ OwnIds

-----------------------------------------------------------------------------
\* Which locals a request has at a step.
LEMMA Kinds ==
    ASSUME NEW r \in Locals
    PROVE  /\ r.step = "accounts" => r \in Started
           /\ r.step = "lookup" => r \in Looking
           /\ r.step = "policy" => r \in Resolved
           /\ r.step \in {"prepare", "poll"} => r \in Polling
           /\ r.step = "commit" => r \in Flushed
           /\ r.step = "done" => r \in Ended
BY DEF Locals, Idle, Started, Looking, Resolved, Polling, Flushed, Ended

\* Locals belong to one step only.
LEMMA KindsDiffer ==
    /\ \A r \in Looking : r.step = "lookup"
    /\ \A r \in Resolved : r.step = "policy"
    /\ \A r \in Polling : r.step \in {"prepare", "poll"}
    /\ \A r \in Flushed : r.step = "commit"
    /\ \A r \in Ended : r.step = "done"
BY DEF Looking, Resolved, Polling, Flushed, Ended

\* A handler that goes on and writes nothing, nor is about to.
LEMMA Gone ==
    ASSUME Inductive, NEW h \in Requests, NEW r \in Locals, Go(h, r), LocalsTrue(r),
           UNCHANGED Data,
           \A k \in Requests : r.step = "commit" /\ At(k, "commit") => request[k].id # r.id
    PROVE  Inductive'
<1>1. request' \in [Requests -> Locals]
  BY DEF Inductive, Go
<1>2. \A k \in Requests : request'[k] = IF k = h THEN r ELSE request[k]
  BY DEF Inductive, Go
<1>3. \A k \in Requests : LocalsTrue(request'[k])
  BY <1>2 DEF Inductive
<1>4. quotes' = quotes /\ catalog' = catalog
  BY DEF Data
<1>5. \A i \in Ids : QuoteTrue(i)'
  BY <1>4 DEF Inductive, QuoteTrue
<1>6. \A k \in Requests : LocalsTrue(request[k])'
  BY <1>3, <1>4 DEF LocalsTrue, Given
<1>7. OwnIds'
  BY <1>2 DEF Inductive, OwnIds, At
<1> QED BY <1>1, <1>4, <1>5, <1>6, <1>7 DEF Inductive, Data

\* At the start there are no answers and no requests.
LEMMA InductiveInit == Init => Inductive
<1> SUFFICES ASSUME Init PROVE Inductive
  OBVIOUS
<1>1. Idle \in Locals /\ LocalsTrue(Idle)
  BY DEF Locals, LocalsTrue, Idle, Looking, Resolved, Polling, Flushed, Ended
<1>2. /\ catalog \subseteq Cities /\ connected \subseteq Accounts /\ active \subseteq Carriers /\ policy \in Policies
      /\ quotes \in [Ids -> Quote \cup {None}] /\ \A i \in Ids : QuoteTrue(i)
  BY DEF Init, QuoteTrue
<1>3. request \in [Requests -> Locals] /\ \A h \in Requests : request[h] = Idle
  BY <1>1 DEF Init
<1> QED BY <1>1, <1>2, <1>3 DEF Inductive, OwnIds, At, Idle

\* A reused answer was made for the same body, under the same rules.
LEMMA Reused ==
    ASSUME Inductive, NEW h \in Requests, Reuse(h)
    PROVE  Inductive'
<1> DEFINE r == request[h]
<1>1. r \in Looking /\ UNCHANGED Data
  BY Kinds DEF Inductive, Reuse, At
<1>2. PICK i \in Ids : /\ quotes[i] # None /\ quotes[i].hash = RequestHash(r.payload, r.policy)
                       /\ Named(quotes[i].rows) = r.accounts
                       /\ Go(h, Answered(h, i, quotes[i].rows, {}, {}))
  BY DEF Reuse, Reusable, FindReusable, Existing
<1>3. quotes[i] \in Quote
  BY <1>2 DEF Inductive
<1>4. /\ quotes[i].hash = RequestHash(quotes[i].facts[1], quotes[i].policy)
      /\ RowsTrue(quotes[i].rows, quotes[i].facts[1], quotes[i].policy, quotes[i].facts,
                  Named(quotes[i].rows))
  BY <1>2 DEF Inductive, QuoteTrue
<1>5. quotes[i].facts[1] = r.payload /\ quotes[i].policy = r.policy
  BY <1>2, <1>4 DEF RequestHash
<1> DEFINE e == Answered(h, i, quotes[i].rows, {}, {})
<1>6. e = [step |-> "done", payload |-> r.payload, policy |-> r.policy, accounts |-> r.accounts,
           id |-> i, rows |-> quotes[i].rows, gone |-> {}, empty |-> {},
           noMatch |-> NoDeadlineMatch(r.payload, quotes[i].rows)]
  BY DEF Answered
<1>7. quotes[i].rows \in Rows /\ NoDeadlineMatch(r.payload, quotes[i].rows) \in BOOLEAN
  BY <1>3 DEF Quote, NoDeadlineMatch
<1> HIDE DEF e
<1>8. e \in Ended
  BY <1>1, <1>6, <1>7 DEF Ended, Looking
<1>9. Given(e) /\ Accounted(e, {})
  BY <1>2, <1>4, <1>5, <1>6 DEF Accounted, Given
<1>10. LocalsTrue(e) /\ e \in Locals /\ e.step = "done"
  BY <1>8, <1>9, KindsDiffer DEF LocalsTrue, Locals
<1> QED BY <1>1, <1>2, <1>10, Gone DEF e

\* The facts are those of the request's own body.
LEMMA CitiesResolved ==
    ASSUME Inductive, NEW h \in Requests, Resolve(h)
    PROVE  Inductive'
<1> DEFINE r == request[h]
<1>1. r \in Looking /\ LocalsTrue(r) /\ UNCHANGED Data
  BY Kinds DEF Inductive, Resolve, At
<1>2. PICK found \in SUBSET r.payload.cities :
         Go(h, [step |-> "policy", payload |-> r.payload, policy |-> r.policy,
                accounts |-> r.accounts, facts |-> <<r.payload, found>>])
  BY DEF Resolve
<1> DEFINE j == [step |-> "policy", payload |-> r.payload, policy |-> r.policy,
                 accounts |-> r.accounts, facts |-> <<r.payload, found>>]
<1>3. r.payload \in Payloads /\ <<r.payload, found>> \in Facts
  BY <1>1, ShoppingAssumption DEF Looking, Facts
<1>4. j \in Resolved
  BY <1>1, <1>3 DEF Looking, Resolved
<1>5. j.facts[1] = j.payload /\ \A a \in j.accounts : Listed(j.payload, a)
  BY <1>1 DEF LocalsTrue
<1> HIDE DEF j
<1>6. j \in Locals /\ LocalsTrue(j) /\ j.step = "policy"
  BY <1>4, <1>5, KindsDiffer DEF Locals, LocalsTrue
<1> QED BY <1>1, <1>2, <1>6, Gone DEF j

\* A handler that goes on with the poll: it has the verdicts of some accounts, and
\* waits for others.
LEMMA Polled ==
    ASSUME Inductive, NEW h \in Requests, NEW r \in Polling, Go(h, r), UNCHANGED Data,
           r.facts[1] = r.payload,
           \A a \in r.asked : a \in r.accounts /\ MayAsk(r.payload, r.policy, r.facts, a),
           RowsTrue(r.rows, r.payload, r.policy, r.facts, r.accounts), Accounted(r, r.asked)
    PROVE  Inductive'
<1>1. r \in Locals /\ LocalsTrue(r) /\ r.step # "commit"
  BY KindsDiffer DEF Locals, LocalsTrue
<1> QED BY <1>1, Gone

\* The rules leave the accounts of active carriers that they do not deny.
LEMMA PolicyApplied ==
    ASSUME Inductive, NEW h \in Requests, ApplyPolicy(h)
    PROVE  Inductive'
<1> DEFINE r == request[h]
           known == {a \in r.accounts : CarrierOf[a] \in active}
           blocked == {a \in known : Blocked(r.policy, r.facts, a)}
           rows == [a \in Accounts |-> IF a \in blocked THEN "blocked" ELSE "none"]
           j == [step |-> "prepare", payload |-> r.payload, policy |-> r.policy,
                 accounts |-> r.accounts, facts |-> r.facts, asked |-> known \ blocked,
                 rows |-> rows, gone |-> r.accounts \ known, empty |-> {}]
<1>1. r \in Resolved /\ LocalsTrue(r) /\ UNCHANGED Data /\ Go(h, j)
  BY Kinds DEF Inductive, ApplyPolicy, At
<1>2. /\ r.accounts \subseteq Accounts /\ r.payload \in Payloads /\ r.policy \in Policies
      /\ r.facts \in Facts /\ r.facts[1] = r.payload
      /\ \A a \in r.accounts : Listed(r.payload, a)
  BY <1>1 DEF Resolved, LocalsTrue
<1>3. rows \in Rows
  BY DEF Rows, Verdicts
<1>4. j \in Polling
  <2> HIDE DEF rows
  <2> QED BY <1>2, <1>3 DEF Polling
<1>5. \A a \in j.asked : a \in j.accounts /\ MayAsk(j.payload, j.policy, j.facts, a)
  BY <1>2 DEF MayAsk
<1>6. RowsTrue(j.rows, j.payload, j.policy, j.facts, j.accounts)
  BY DEF RowsTrue
<1>7. Accounted(j, j.asked)
  BY <1>2 DEF Accounted, Named
<1>8. j.facts[1] = j.payload
  BY <1>2
<1> HIDE DEF j
<1> QED BY <1>1, <1>4, <1>5, <1>6, <1>7, <1>8, Polled

\* Who is left out of the poll has an excuse.
LEMMA Prepared ==
    ASSUME Inductive, NEW h \in Requests, Prepare(h)
    PROVE  Inductive'
<1> DEFINE r == request[h]
           listed == {a \in r.asked : CarrierOf[a] \in active}
           j == [r EXCEPT !.step = "poll", !.asked = listed \ Unreadable,
                          !.gone = @ \cup (r.asked \ listed)]
<1>1. r \in Polling /\ LocalsTrue(r) /\ UNCHANGED Data /\ Go(h, j)
  BY Kinds DEF Inductive, Prepare, At
<1>2. /\ j.accounts = r.accounts /\ j.asked = listed \ Unreadable
      /\ j.gone = r.gone \cup (r.asked \ listed) /\ j.empty = r.empty /\ j.facts = r.facts
      /\ j.rows = r.rows /\ j.payload = r.payload /\ j.policy = r.policy /\ j \in Polling
  BY <1>1 DEF Polling
<1> HIDE DEF j
<1>3. Accounted(j, j.asked) /\ \A a \in j.asked : a \in r.asked
  BY <1>1, <1>2 DEF LocalsTrue, Accounted
<1> QED BY <1>1, <1>2, <1>3, Polled DEF LocalsTrue

\* An answer of a carrier becomes the row of its account, or its excuse.
LEMMA Answering ==
    ASSUME Inductive, NEW h \in Requests, NEW a \in Accounts,
           NEW verdict \in Verdicts \ {"blocked"}, Answer(h, a, verdict)
    PROVE  Inductive'
<1> DEFINE r == request[h]
           j == [r EXCEPT !.asked = @ \ {a}, !.rows[a] = verdict,
                          !.empty = @ \cup {b \in {a} : verdict = "none"}]
<1>1. r \in Polling /\ LocalsTrue(r) /\ UNCHANGED Data /\ Go(h, j) /\ a \in r.asked
  BY Kinds DEF Inductive, Answer, At
<1>2. /\ j.accounts = r.accounts /\ j.asked = r.asked \ {a}
      /\ j.empty = r.empty \cup {b \in {a} : verdict = "none"} /\ j.gone = r.gone
      /\ j.facts = r.facts
      /\ j.rows = [r.rows EXCEPT ![a] = verdict] /\ j.payload = r.payload /\ j.policy = r.policy
  BY <1>1 DEF Polling
<1>3. j \in Polling
  <2>1. [r.rows EXCEPT ![a] = verdict] \in Rows /\ r.asked \ {a} \subseteq Accounts
        /\ r.empty \cup {b \in {a} : verdict = "none"} \subseteq Accounts
    BY <1>1 DEF Polling, Rows
  <2> QED BY <1>1, <2>1 DEF Polling
<1> HIDE DEF j
<1>4. \A b \in Accounts : j.rows[b] = IF b = a THEN verdict ELSE r.rows[b]
  BY <1>1, <1>2 DEF Polling, Rows
<1>5. RowsTrue(j.rows, j.payload, j.policy, j.facts, j.accounts)
  BY <1>1, <1>2, <1>4 DEF LocalsTrue, RowsTrue
<1>6. Accounted(j, j.asked)
  <2> SUFFICES ASSUME NEW b \in j.accounts, b \notin j.empty, b \notin j.gone,
                      b \notin Unreadable, b \notin j.asked
               PROVE  b \in Named(j.rows)
    BY DEF Accounted
  <2>1. CASE b = a
    BY <1>2, <1>4, <2>1 DEF Named
  <2>2. CASE b # a
    <3>1. b \in Named(r.rows)
      BY <1>1, <1>2, <2>2 DEF LocalsTrue, Accounted
    <3> QED BY <1>4, <2>2, <3>1 DEF Named
  <2> QED BY <2>1, <2>2
<1> QED BY <1>1, <1>2, <1>3, <1>5, <1>6, Polled DEF LocalsTrue

\* Who is late gets a row that says so.
LEMMA DeadlinePassed ==
    ASSUME Inductive, NEW h \in Requests, PollDeadline(h)
    PROVE  Inductive'
<1> DEFINE r == request[h]
           rows == [a \in Accounts |-> IF a \in r.asked THEN "failed" ELSE r.rows[a]]
           j == [r EXCEPT !.asked = {}, !.rows = rows]
<1>1. r \in Polling /\ LocalsTrue(r) /\ UNCHANGED Data /\ Go(h, j)
  BY Kinds DEF Inductive, PollDeadline, At
<1>2. rows \in Rows
  BY <1>1 DEF Polling, Rows, Verdicts
<1>3. \A b \in Accounts : rows[b] = IF b \in r.asked THEN "failed" ELSE r.rows[b]
  OBVIOUS
<1> HIDE DEF rows
<1>4. /\ j.accounts = r.accounts /\ j.asked = {} /\ j.gone = r.gone /\ j.empty = r.empty
      /\ j.rows = rows /\ j.facts = r.facts
      /\ j.payload = r.payload /\ j.policy = r.policy /\ j \in Polling
  BY <1>1, <1>2 DEF Polling
<1> HIDE DEF j
<1>5. RowsTrue(j.rows, j.payload, j.policy, j.facts, j.accounts)
  BY <1>1, <1>3, <1>4 DEF LocalsTrue, RowsTrue, Verdicts
<1>6. Accounted(j, j.asked)
  BY <1>1, <1>3, <1>4 DEF LocalsTrue, Accounted, Named, Polling
<1>7. j.facts[1] = j.payload
  BY <1>1, <1>4 DEF LocalsTrue
<1> QED BY <1>1, <1>4, <1>5, <1>6, <1>7, Polled

\* The answer is flushed when nobody is waited for, under an identifier of its own.
LEMMA Persisted ==
    ASSUME Inductive, NEW h \in Requests, Persist(h)
    PROVE  Inductive'
<1> DEFINE r == request[h]
<1>1. PICK i \in NextIds :
         Go(h, [step |-> "commit", payload |-> r.payload, policy |-> r.policy,
                accounts |-> r.accounts, facts |-> r.facts, id |-> i, rows |-> r.rows,
                gone |-> r.gone, empty |-> r.empty])
  BY DEF Persist
<1> DEFINE j == [step |-> "commit", payload |-> r.payload, policy |-> r.policy,
                 accounts |-> r.accounts, facts |-> r.facts, id |-> i, rows |-> r.rows,
                 gone |-> r.gone, empty |-> r.empty]
<1>2. r \in Polling /\ LocalsTrue(r) /\ UNCHANGED Data /\ r.asked = {}
  BY Kinds DEF Inductive, Persist, At
<1>3. /\ i \in Ids /\ quotes[i] = None
      /\ \A k \in Requests : At(k, "commit") => request[k].id # i
  <2>1. i \in Ids /\ i >= i
    BY DEF NextIds, Ids
  <2> QED BY <2>1 DEF NextIds
<1>4. j \in Flushed
  BY <1>2, <1>3 DEF Flushed, Polling
<1>5. /\ j.facts[1] = j.payload /\ quotes[j.id] = None /\ j.id = i
      /\ RowsTrue(j.rows, j.payload, j.policy, j.facts, j.accounts) /\ Accounted(j, {})
  BY <1>2, <1>3 DEF LocalsTrue, Accounted
<1> HIDE DEF j
<1>6. j \in Locals /\ LocalsTrue(j)
  BY <1>4, <1>5, KindsDiffer DEF Locals, LocalsTrue
<1> QED BY <1>1, <1>2, <1>3, <1>5, <1>6, Gone DEF j

\* The answer that becomes visible is the one the request was given.
LEMMA Committed ==
    ASSUME Inductive, NEW h \in Requests, Commit(h)
    PROVE  Inductive'
<1> DEFINE r == request[h]
           noMatch == NoDeadlineMatch(r.payload, r.rows)
           q == [hash |-> RequestHash(r.payload, r.policy), rows |-> r.rows, policy |-> r.policy,
                 facts |-> r.facts, live |-> TRUE, noMatch |-> noMatch]
           j == [step |-> "done", payload |-> r.payload, policy |-> r.policy,
                 accounts |-> r.accounts, id |-> r.id, rows |-> r.rows, gone |-> r.gone,
                 empty |-> r.empty, noMatch |-> noMatch]
<1>1. r \in Flushed /\ LocalsTrue(r) /\ noMatch \in BOOLEAN
  BY Kinds DEF Inductive, Commit, At, NoDeadlineMatch
<1>2. /\ quotes' = [quotes EXCEPT ![r.id] = q] /\ request' = [request EXCEPT ![h] = j]
      /\ catalog' = catalog \cup r.facts[2] /\ UNCHANGED <<connected, active, policy>>
  BY DEF Commit, Go, Answered
<1> HIDE DEF noMatch
<1>3. /\ q \in Quote /\ j \in Ended /\ r.id \in Ids /\ quotes[r.id] = None
      /\ r.facts \in Facts /\ r.facts[1] = r.payload /\ q # None
  <2>1. q \in Quote /\ j \in Ended /\ r.id \in Ids /\ r.facts \in Facts
    BY <1>1 DEF Quote, Flushed, Ended
  <2>2. quotes[r.id] = None /\ r.facts[1] = r.payload
    BY <1>1 DEF LocalsTrue
  <2> QED BY <2>1, <2>2, NoneIsNoAnswer
<1>4. \A i \in Ids : quotes'[i] = IF i = r.id THEN q ELSE quotes[i]
  BY <1>2, <1>3 DEF Inductive
<1>5. RowsTrue(r.rows, r.payload, r.policy, r.facts, r.accounts) /\ Accounted(r, {})
  BY <1>1 DEF LocalsTrue
<1>6. /\ q.rows = r.rows /\ q.facts = r.facts /\ q.policy = r.policy
      /\ q.hash = RequestHash(q.facts[1], q.policy)
      /\ RowsTrue(q.rows, q.facts[1], q.policy, q.facts, Named(q.rows))
  BY <1>3, <1>5 DEF RowsTrue, Named
<1>7. /\ j.id = r.id /\ j.rows = r.rows /\ j.payload = r.payload /\ j.policy = r.policy
      /\ j.accounts = r.accounts /\ Accounted(j, {})
  BY <1>5 DEF Accounted
<1> HIDE DEF j, q
<1>8. ASSUME NEW i \in Ids PROVE QuoteTrue(i)'
  BY <1>4, <1>6 DEF Inductive, QuoteTrue
<1>9. quotes' \in [Ids -> Quote \cup {None}] /\ request' \in [Requests -> Locals]
  BY <1>2, <1>3 DEF Inductive, Locals
<1>10. \A k \in Requests : request'[k] = IF k = h THEN j ELSE request[k]
  BY <1>2 DEF Inductive
<1>11. ASSUME NEW k \in Requests PROVE LocalsTrue(request[k])'
  <2>1. CASE k = h
    <3>1. PICK row : row = request'[k]
      OBVIOUS
    <3>2. row = j
      BY <1>10, <2>1, <3>1
    <3>3. Given(row)'
      BY <1>3, <1>4, <1>5, <1>6, <1>7, <3>2 DEF Given
    <3>4. LocalsTrue(row)'
      BY <1>3, <1>7, <3>2, <3>3, KindsDiffer DEF LocalsTrue
    <3> QED BY <3>1, <3>4 DEF LocalsTrue, Given
  <2>2. CASE k # h
    <3>1. PICK row : row = request[k]
      OBVIOUS
    <3>2. request'[k] = row /\ LocalsTrue(row) /\ row \in Locals
      BY <1>10, <2>2, <3>1 DEF Inductive
    <3>3. row \in Flushed => row.id # r.id /\ row.id \in Ids
      BY <2>2, <3>1, KindsDiffer DEF Inductive, OwnIds, At, Commit, Flushed
    <3>4. row \in Ended => row.id # r.id /\ row.id \in Ids
      BY <1>3, <3>2 DEF LocalsTrue, Given, Ended
    <3>5. row \in Ended => Given(row)'
      BY <1>4, <3>2, <3>4 DEF LocalsTrue, Given
    <3>6. row \in Flushed => (quotes[row.id] = None)'
      BY <1>4, <3>2, <3>3 DEF LocalsTrue
    <3>7. LocalsTrue(row)'
      BY <3>2, <3>5, <3>6 DEF LocalsTrue
    <3> QED BY <3>2, <3>7 DEF LocalsTrue, Given
  <2> QED BY <2>1, <2>2
<1>12. OwnIds'
  <2>1. j.step = "done"
    BY <1>3, KindsDiffer
  <2> QED BY <1>10, <2>1 DEF Inductive, OwnIds, At
<1>13. catalog' \subseteq Cities
  BY <1>2, <1>3 DEF Inductive, Facts
<1> QED BY <1>2, <1>8, <1>9, <1>11, <1>12, <1>13 DEF Inductive

\* A stored answer with another expiry.
LEMMA Relabelled ==
    ASSUME NEW H, NEW R, NEW P, NEW F,
           NEW q \in [hash : H, rows : R, policy : P, facts : F, live : BOOLEAN, noMatch : BOOLEAN]
    PROVE  /\ [q EXCEPT !.live = FALSE] \in
                 [hash : H, rows : R, policy : P, facts : F, live : BOOLEAN, noMatch : BOOLEAN]
           /\ DOMAIN q = {"hash", "rows", "policy", "facts", "live", "noMatch"}
OBVIOUS

\* An answer that expires says what it said.
LEMMA Expired ==
    ASSUME Inductive, NEW i \in Ids, Expire(i)
    PROVE  Inductive'
<1>1. /\ quotes[i] \in Quote /\ quotes' = [quotes EXCEPT ![i].live = FALSE]
      /\ UNCHANGED <<connected, active, policy, catalog, request>>
  BY DEF Expire, Existing, Inductive
<1> DEFINE q == [quotes[i] EXCEPT !.live = FALSE]
<1>2. /\ q \in Quote /\ q.hash = quotes[i].hash /\ q.rows = quotes[i].rows
      /\ q.policy = quotes[i].policy /\ q.facts = quotes[i].facts
  <2> DEFINE H == {RequestHash(p, v) : p \in Payloads, v \in Policies}
  <2>1. Quote = [hash : H, rows : Rows, policy : Policies, facts : Facts, live : BOOLEAN,
                 noMatch : BOOLEAN]
    BY DEF Quote
  <2> HIDE DEF H
  <2>2. q \in Quote /\ DOMAIN quotes[i] = {"hash", "rows", "policy", "facts", "live", "noMatch"}
    BY <1>1, <2>1, Relabelled
  <2> QED BY <2>2
<1>3. quotes' = [quotes EXCEPT ![i] = q]
  BY <1>1
<1> HIDE DEF q
<1>4. quotes' \in [Ids -> Quote \cup {None}] /\ \A k \in Ids : quotes'[k] = IF k = i THEN q ELSE quotes[k]
  BY <1>2, <1>3 DEF Inductive
<1>5. QuoteTrue(i) /\ quotes[i] # None
  BY DEF Inductive, Expire, Existing
<1>6. q # None
  BY <1>2, NoneIsNoAnswer
<1>7. \A k \in Ids : QuoteTrue(k)'
  BY <1>2, <1>4, <1>5 DEF Inductive, QuoteTrue
<1>8. ASSUME NEW k \in Requests PROVE LocalsTrue(request[k])'
  <2>1. PICK row : row = request[k]
    OBVIOUS
  <2>2. LocalsTrue(row) /\ row \in Locals /\ request'[k] = row
    BY <1>1, <2>1 DEF Inductive
  <2>3. row \in Flushed \cup Ended => row.id \in Ids
    BY DEF Flushed, Ended
  <2>4. row \in Flushed => (quotes[row.id] = None)'
    BY <1>4, <1>5, <2>2, <2>3 DEF LocalsTrue
  <2>5. row \in Ended => Given(row)'
    BY <1>2, <1>4, <1>6, <2>2, <2>3 DEF LocalsTrue, Given
  <2>6. LocalsTrue(row)'
    BY <2>2, <2>4, <2>5 DEF LocalsTrue
  <2> QED BY <2>2, <2>6 DEF LocalsTrue, Given
<1> QED BY <1>1, <1>4, <1>7, <1>8 DEF Inductive, OwnIds, At

\* What the tenant and the platform change meanwhile.
LEMMA Changing ==
    ASSUME Inductive,
           \/ \E a \in Accounts : SwitchAccount(a)
           \/ \E v \in Policies : EditRules(v)
           \/ \E c \in Carriers : SwitchCarrier(c)
           \/ \E city \in Cities : LearnCity(city)
    PROVE  Inductive'
<1>1. /\ connected' \subseteq Accounts /\ active' \subseteq Carriers /\ policy' \in Policies
      /\ catalog' \subseteq Cities /\ UNCHANGED <<quotes, request>>
  BY DEF Inductive, SwitchAccount, EditRules, SwitchCarrier, LearnCity, Change, Switched
<1> QED BY <1>1 DEF Inductive, QuoteTrue, LocalsTrue, Given, OwnIds, At

\* Every step keeps the invariant.
LEMMA InductiveStep == Inductive /\ [Next]_vars => Inductive'
<1> SUFFICES ASSUME Inductive, [Next]_vars PROVE Inductive'
  OBVIOUS
<1>1. ASSUME NEW h \in Requests, NEW p \in Payloads, Begin(h, p) PROVE Inductive'
  <2> DEFINE j == [step |-> "accounts", payload |-> p, policy |-> policy]
  <2>1. j \in Started /\ Go(h, j) /\ UNCHANGED Data
    BY <1>1 DEF Begin, Inductive, Started
  <2>2. j.step = "accounts"
    OBVIOUS
  <2> HIDE DEF j
  <2>3. j \in Locals /\ LocalsTrue(j)
    BY <2>1, <2>2, KindsDiffer DEF Locals, LocalsTrue
  <2> QED BY <2>1, <2>2, <2>3, Gone
<1>2. ASSUME NEW h \in Requests, ReadAccounts(h) PROVE Inductive'
  <2> DEFINE r == request[h]
             accounts == EligibleAccounts(r.payload, connected)
             j == [step |-> "lookup", payload |-> r.payload, policy |-> r.policy,
                   accounts |-> accounts]
  <2>1. r \in Started /\ Go(h, j) /\ UNCHANGED Data
    BY <1>2, Kinds DEF ReadAccounts, At, Inductive
  <2>2. accounts \subseteq Accounts /\ \A a \in accounts : Listed(r.payload, a)
    BY DEF EligibleAccounts, Listed, Inductive
  <2>3. j \in Looking /\ \A a \in j.accounts : Listed(j.payload, a)
    <3> HIDE DEF accounts
    <3> QED BY <2>1, <2>2 DEF Looking, Started
  <2> HIDE DEF j
  <2>4. j \in Locals /\ LocalsTrue(j) /\ j.step # "commit"
    BY <2>3, KindsDiffer DEF Locals, LocalsTrue
  <2> QED BY <2>1, <2>4, Gone
<1>3. ASSUME NEW h \in Requests, Abort(h) PROVE Inductive'
  <2>1. Idle \in Locals /\ LocalsTrue(Idle) /\ Idle.step # "commit"
    BY KindsDiffer DEF Locals, LocalsTrue, Idle
  <2> QED BY <1>3, <2>1, Gone DEF Abort
<1>4. CASE UNCHANGED vars
  BY <1>4 DEF vars, Inductive, QuoteTrue, LocalsTrue, Given, OwnIds, At
<1>5. ASSUME NEW h \in Requests, Onward(h) PROVE Inductive'
  BY <1>2, <1>5, Reused, CitiesResolved, PolicyApplied, Prepared, DeadlinePassed, Persisted, Committed DEF Onward
<1> QED BY <1>1, <1>3, <1>4, <1>5, Answering, Changing, Expired DEF Next

\* The invariant holds in every reachable state.
LEMMA Safety == Spec => []Inductive
<1> QED BY InductiveInit, InductiveStep, PTL DEF Spec

\* Answers have the columns of their tables, handlers the locals of quote.
THEOREM TypeCorrect == Spec => []TypeOK
<1>1. Inductive => TypeOK
  <2> SUFFICES ASSUME Inductive, NEW h \in Requests
               PROVE  /\ At(h, "poll") => request[h].asked \subseteq request[h].accounts
                      /\ At(h, "commit") => request[h].rows \in Rows /\ request[h].id \in Ids
    BY DEF TypeOK, Inductive
  <2>1. request[h] \in Locals /\ LocalsTrue(request[h])
    BY DEF Inductive
  <2>2. At(h, "poll") => request[h].asked \subseteq request[h].accounts
    BY <2>1, Kinds DEF At, LocalsTrue
  <2>3. At(h, "commit") => request[h].rows \in Rows /\ request[h].id \in Ids
    BY <2>1, Kinds DEF At, Flushed
  <2> QED BY <2>2, <2>3
<1> QED BY <1>1, Safety, PTL

\* ADR-0028: polled for or reused, the answer a request is given is the stored
\* one, made for its body under the rules it has read, asks no carrier that those
\* rules deny under the facts frozen in it or that the request excludes, and says
\* "blocked" of what they deny alone.
THEOREM PolicyIsObeyed == Spec => []AnswerObeysPolicy
<1>1. Inductive => AnswerObeysPolicy
  <2> SUFFICES ASSUME Inductive PROVE AnswerObeysPolicy
    OBVIOUS
  <2>1. ASSUME NEW h \in Requests, At(h, "done")
        PROVE  /\ Given(request[h]) /\ request[h] \in Ended
    BY <2>1, Kinds DEF Inductive, At, LocalsTrue
  <2>2. ASSUME NEW h \in Requests, At(h, "done"), NEW a \in Asked(request[h].rows)
        PROVE  /\ a \in EligibleAccounts(request[h].payload, request[h].accounts)
               /\ ~Blocked(request[h].policy, quotes[request[h].id].facts, a)
    BY <2>1, <2>2 DEF Asked, Given, RowsTrue, MayAsk, Listed, EligibleAccounts
  <2>3. ASSUME NEW i \in Existing, NEW a \in Accounts, quotes[i].rows[a] # "none"
        PROVE  quotes[i].rows[a] = "blocked" <=> Blocked(quotes[i].policy, quotes[i].facts, a)
    <3>1. quotes[i].rows[a] \in Verdicts
      BY DEF Inductive, Existing, Quote, Rows
    <3>2. RowsTrue(quotes[i].rows, quotes[i].facts[1], quotes[i].policy, quotes[i].facts,
                   Named(quotes[i].rows))
      BY DEF Inductive, Existing, QuoteTrue
    <3> QED BY <2>3, <3>1, <3>2 DEF RowsTrue, MayAsk, Verdicts
  <2> QED BY <2>1, <2>2, <2>3 DEF AnswerObeysPolicy, Given
<1> QED BY <1>1, Safety, PTL

\* FR-1.4: an account that was found is named in the answer, unless it answered
\* with an empty list, its carrier was not active or its credentials cannot be read.
THEOREM AllAreNamed == Spec => []NobodyDisappears
<1>1. Inductive => NobodyDisappears
  BY Kinds DEF Inductive, NobodyDisappears, At, LocalsTrue, Accounted
<1> QED BY <1>1, Safety, PTL
=============================================================================
