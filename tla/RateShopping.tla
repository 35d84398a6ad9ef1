----------------------------- MODULE RateShopping -----------------------------
(***************************************************************************)
(* One tenant's rate requests: RateShoppingService of rating/service.py    *)
(* with rating/repository.py. A request reads the rules, the connected     *)
(* accounts and an earlier answer in statements of its own, resolves the   *)
(* cities, polls the carriers that the rules leave, all at once, and       *)
(* commits what it saw.                                                    *)
(*                                                                         *)
(* Meanwhile accounts are connected and switched off, rules are edited,    *)
(* carriers leave the platform, cities enter the catalog and answers       *)
(* expire. The rules themselves are the module RoutingPolicy; here a       *)
(* version of the policy is known by what it denies a request with given   *)
(* facts: its body, and the cities of it that could be resolved.           *)
(***************************************************************************)
EXTENDS Naturals, FiniteSets

CONSTANTS
    Accounts,    \* the tenant's carrier accounts
    CarrierOf,   \* the carrier of an account
    Unreadable,  \* accounts whose credentials cannot be decrypted
    Uninsured,   \* carriers whose adapter does not support insurance
    Cities,      \* cities that rules may name
    Payloads,    \* bodies of requests: [white, black : sets of carriers,
                 \*                      cities : set of cities, deadline : BOOLEAN]
    Policies,    \* versions of the tenant's routing rules...
    Denied,      \* ... the carriers each denies a request with given facts...
    Insuring,    \* ... and the versions and facts with which insurance is required
    Requests,    \* handlers
    MaxQuotes,   \* bound on rate_quotes
    MaxChanges,  \* bound on what the tenant and the platform change meanwhile
    None

Carriers == {CarrierOf[a] : a \in Accounts}
Ids == 1..MaxQuotes

\* RequestFacts: what rules can ask of a request. A city that could not be
\* resolved is not among them, and no condition on a direction is met by it.
Facts == Payloads \X SUBSET Cities

ASSUME ShoppingAssumption ==
    /\ CarrierOf \in [Accounts -> Carriers] /\ \A body \in Payloads : body.cities \subseteq Cities
    /\ Denied \in [Policies -> [Facts -> SUBSET Carriers]] /\ Insuring \subseteq Policies \X Facts
    /\ MaxQuotes \in Nat /\ MaxChanges \in Nat /\ None \notin Ids

\* What an answer says of an account: nothing, that a rule blocked it, that it
\* failed (a timeout included), or its tariffs, some or none in time.
Verdicts == {"none", "blocked", "failed", "priced", "missed"}
WithPrice == {"priced", "missed"}

VARIABLES
    connected,   \* active accounts
    active,      \* active carriers of the platform
    policy,      \* the version of the rules
    catalog,     \* the cities that the local directory knows
    quotes,      \* committed answers by identifier, in the order of created_at
    request,     \* the handlers
    changes      \* how often accounts, rules, carriers or cities have changed

vars == <<connected, active, policy, catalog, quotes, request, changes>>

Idle == [step |-> "idle"]
At(h, step) == request[h].step = step
Open(h) == request[h].step \notin {"idle", "done"}
Nothing == [a \in Accounts |-> "none"]

Init ==
    /\ connected = Accounts /\ active = Carriers
    /\ policy \in Policies /\ catalog = {}
    /\ quotes = [i \in Ids |-> None]
    /\ request = [h \in Requests |-> Idle]
    /\ changes = 0

-----------------------------------------------------------------------------
\* _eligible_accounts: an empty whitelist means all, the blacklist is stronger.
EligibleAccounts(payload, accounts) ==
    {a \in accounts : /\ payload.white = {} \/ CarrierOf[a] \in payload.white
                      /\ CarrierOf[a] \notin payload.black}

\* Mutant of RequestHash: the version of the policy is left out.
RequestHashBody(payload, version) == <<payload>>

\* _request_hash: equal for requests that mean the same under the same rules.
RequestHash(payload, version) == <<payload, version>>

Existing == {i \in Ids : quotes[i] # None}
Named(rows) == {a \in Accounts : rows[a] # "none"}

\* RateRepository.find_reusable: the newest live answer of that hash, if any.
FindReusable(hash) ==
    LET live == {i \in Existing : quotes[i].live /\ quotes[i].hash = hash}
    IN  {i \in live : \A j \in live : j <= i}

\* _reusable: never an empty answer, nor one for another set of accounts.
Reusable(hash, accounts) ==
    {i \in FindReusable(hash) : /\ \E a \in Accounts : quotes[i].rows[a] \in WithPrice
                                /\ Named(quotes[i].rows) = accounts}

\* _apply_policy on the verdicts of evaluate: what a version of the rules says of
\* an account of an active carrier, for a request with these facts.
Blocked(version, facts, a) ==
    \/ CarrierOf[a] \in Denied[version][facts]
    \/ <<version, facts>> \in Insuring /\ CarrierOf[a] \in Uninsured

\* _response: a deadline, prices, and none of them in time.
NoDeadlineMatch(payload, rows) ==
    /\ payload.deadline
    /\ \E a \in Accounts : rows[a] \in WithPrice
    /\ \A a \in Accounts : rows[a] # "priced"

\* Identifiers that are newer than any in use.
NextIds ==
    {i \in Ids : \A j \in Ids : j >= i =>
        quotes[j] = None /\ \A h \in Requests : At(h, "commit") => request[h].id # j}

Go(h, r) == request' = [request EXCEPT ![h] = r]
Data == <<connected, active, policy, catalog, quotes, changes>>

-----------------------------------------------------------------------------
\* quote: the rules are read first, their version becomes part of the hash.
Begin(h, payload) ==
    /\ ~Open(h)
    /\ Go(h, [step |-> "accounts", payload |-> payload, policy |-> policy])
    /\ UNCHANGED Data

ReadAccounts(h) ==
    /\ At(h, "accounts")
    /\ Go(h, [step |-> "lookup", payload |-> request[h].payload, policy |-> request[h].policy,
              accounts |-> EligibleAccounts(request[h].payload, connected)])
    /\ UNCHANGED Data

\* _reusable and _response: an earlier answer is returned as it is, before any
\* city is resolved...
Answered(h, id, rows, gone, empty) ==
    [step |-> "done", payload |-> request[h].payload, policy |-> request[h].policy,
     accounts |-> request[h].accounts, id |-> id, rows |-> rows, gone |-> gone, empty |-> empty,
     noMatch |-> NoDeadlineMatch(request[h].payload, rows)]

Reuse(h) ==
    /\ At(h, "lookup")
    /\ \E i \in Reusable(RequestHash(request[h].payload, request[h].policy), request[h].accounts) :
          Go(h, Answered(h, i, quotes[i].rows, {}, {}))
    /\ UNCHANGED Data

\* ... or the cities are resolved, by the catalog or, where it does not know one,
\* by a service that may fail or not know it either.
Resolve(h) ==
    /\ At(h, "lookup")
    /\ Reusable(RequestHash(request[h].payload, request[h].policy), request[h].accounts) = {}
    /\ \E found \in SUBSET request[h].payload.cities :
          /\ request[h].payload.cities \cap catalog \subseteq found
          /\ Go(h, [step |-> "policy", payload |-> request[h].payload,
                    policy |-> request[h].policy, accounts |-> request[h].accounts,
                    facts |-> <<request[h].payload, found>>])
    /\ UNCHANGED Data

\* The rules are applied to the accounts whose carrier is active; the others are
\* not asked and leave no row.
ApplyPolicy(h) ==
    /\ At(h, "policy")
    /\ LET known == {a \in request[h].accounts : CarrierOf[a] \in active}
           blocked == {a \in known : Blocked(request[h].policy, request[h].facts, a)}
       IN  Go(h, [step |-> "prepare", payload |-> request[h].payload, policy |-> request[h].policy,
                  accounts |-> request[h].accounts, facts |-> request[h].facts,
                  asked |-> known \ blocked,
                  rows |-> [a \in Accounts |-> IF a \in blocked THEN "blocked" ELSE "none"],
                  gone |-> request[h].accounts \ known, empty |-> {}])
    /\ UNCHANGED Data

\* _prepare: nor is an account asked whose carrier has left meanwhile, or whose
\* credentials cannot be read.
Prepare(h) ==
    /\ At(h, "prepare")
    /\ LET listed == {a \in request[h].asked : CarrierOf[a] \in active}
       IN  Go(h, [request[h] EXCEPT !.step = "poll", !.asked = listed \ Unreadable,
                                    !.gone = @ \cup (request[h].asked \ listed)])
    /\ UNCHANGED Data

\* _ask_one: the tariffs, none at all, or an error of any kind.
Answer(h, a, verdict) ==
    /\ At(h, "poll") /\ a \in request[h].asked
    /\ verdict = "missed" => request[h].payload.deadline
    /\ Go(h, [request[h] EXCEPT !.asked = @ \ {a}, !.rows[a] = verdict,
                                !.empty = @ \cup {b \in {a} : verdict = "none"}])
    /\ UNCHANGED Data

\* Mutants of PollDeadline: the late ones are forgotten; nobody counts the time.
PollDeadlineSilent(h) ==
    /\ At(h, "poll") /\ request[h].asked # {}
    /\ Go(h, [request[h] EXCEPT !.asked = {}])
    /\ UNCHANGED Data
PollDeadlineNever(h) == At(h, "never") /\ UNCHANGED vars

\* _poll: the common deadline. Who has not answered gets a row that says so.
PollDeadline(h) ==
    /\ At(h, "poll") /\ request[h].asked # {}
    /\ Go(h, [request[h] EXCEPT
                !.asked = {},
                !.rows = [a \in Accounts |-> IF a \in request[h].asked THEN "failed" ELSE @[a]]])
    /\ UNCHANGED Data

\* _persist: the answer and its rows are flushed; created_at is taken, the facts
\* are frozen in policy_snapshot.
Persist(h) ==
    /\ At(h, "poll") /\ request[h].asked = {}
    /\ \E i \in NextIds :
          /\ \A j \in NextIds : i <= j
          /\ Go(h, [step |-> "commit", payload |-> request[h].payload, policy |-> request[h].policy,
                    accounts |-> request[h].accounts, facts |-> request[h].facts, id |-> i,
                    rows |-> request[h].rows, gone |-> request[h].gone,
                    empty |-> request[h].empty])
    /\ UNCHANGED Data

\* The answer, the policy and facts it was made under and the cities that were
\* looked up become visible to others.
Commit(h) ==
    /\ At(h, "commit")
    /\ quotes' = [quotes EXCEPT ![request[h].id] =
          [hash |-> RequestHash(request[h].payload, request[h].policy), rows |-> request[h].rows,
           policy |-> request[h].policy, facts |-> request[h].facts, live |-> TRUE,
           noMatch |-> NoDeadlineMatch(request[h].payload, request[h].rows)]]
    /\ catalog' = catalog \cup request[h].facts[2]
    /\ Go(h, Answered(h, request[h].id, request[h].rows, request[h].gone, request[h].empty))
    /\ UNCHANGED <<connected, active, policy, changes>>

\* The request dies and its transaction is rolled back.
Abort(h) == Open(h) /\ Go(h, Idle) /\ UNCHANGED Data

\* The tenant connects an account or switches it off; edits the rules. The
\* platform takes a carrier out of the directory, or back, and learns of a city.
Change ==
    /\ changes < MaxChanges /\ changes' = changes + 1
    /\ UNCHANGED <<quotes, request>>
Switched(set, x) == (set \ {x}) \cup ({x} \ set)

SwitchAccount(a) ==
    Change /\ connected' = Switched(connected, a) /\ UNCHANGED <<active, policy, catalog>>
EditRules(version) ==
    Change /\ version # policy /\ policy' = version /\ UNCHANGED <<connected, active, catalog>>
SwitchCarrier(c) ==
    Change /\ active' = Switched(active, c) /\ UNCHANGED <<connected, policy, catalog>>
LearnCity(city) ==
    /\ Change /\ city \notin catalog /\ catalog' = catalog \cup {city}
    /\ UNCHANGED <<connected, active, policy>>

\* quote_cache_ttl_seconds are over.
Expire(i) ==
    /\ i \in Existing /\ quotes[i].live
    /\ quotes' = [quotes EXCEPT ![i].live = FALSE]
    /\ UNCHANGED <<connected, active, policy, catalog, request, changes>>

Onward(h) ==
    \/ ReadAccounts(h) \/ Reuse(h) \/ Resolve(h) \/ ApplyPolicy(h) \/ Prepare(h)
    \/ PollDeadline(h) \/ Persist(h) \/ Commit(h)

Next ==
    \/ \E h \in Requests, p \in Payloads : Begin(h, p)
    \/ \E h \in Requests : Onward(h) \/ Abort(h)
    \/ \E h \in Requests, a \in Accounts, v \in Verdicts \ {"blocked"} : Answer(h, a, v)
    \/ \E a \in Accounts : SwitchAccount(a)
    \/ \E v \in Policies : EditRules(v)
    \/ \E c \in Carriers : SwitchCarrier(c)
    \/ \E city \in Cities : LearnCity(city)
    \/ \E i \in Ids : Expire(i)

Spec == Init /\ [][Next]_vars

\* The handler goes on and the clock runs; no carrier owes it an answer.
FairSpec == Spec /\ \A h \in Requests : WF_vars(Onward(h))

-----------------------------------------------------------------------------
(* Properties *)

Rows == [Accounts -> Verdicts]
Quote == [hash : {RequestHash(p, v) : p \in Payloads, v \in Policies}, rows : Rows,
          policy : Policies, facts : Facts, live : BOOLEAN, noMatch : BOOLEAN]
ASSUME NoneIsNoAnswer == None \notin Quote

\* Answers have the columns of rate_quotes and rate_offers, handlers the locals
\* of quote.
TypeOK ==
    /\ connected \subseteq Accounts /\ active \subseteq Carriers /\ policy \in Policies
    /\ catalog \subseteq Cities /\ quotes \in [Ids -> Quote \cup {None}]
    /\ \A h \in Requests :
          /\ At(h, "poll") => request[h].asked \subseteq request[h].accounts
          /\ At(h, "commit") => request[h].rows \in Rows /\ request[h].id \in Ids

Asked(rows) == {a \in Accounts : rows[a] \in {"failed", "priced", "missed"}}

\* ADR-0028, _request_hash and _reusable: an answer that a request is given,
\* polled for or reused, is the stored one, was made for this body under the
\* rules that the request has read, and asked no carrier that its lists exclude,
\* whose account was not connected when it looked, or that those rules deny
\* under the facts that are frozen in it; and it says "blocked" of those alone.
\* The facts are those of the first request: see ReusableObeysCatalog.
AnswerObeysPolicy ==
    /\ \A h \in Requests : At(h, "done") =>
          LET answer == quotes[request[h].id] IN
          /\ answer # None /\ answer.rows = request[h].rows
          /\ answer.facts[1] = request[h].payload
          /\ \A a \in Asked(request[h].rows) :
                /\ a \in EligibleAccounts(request[h].payload, request[h].accounts)
                /\ ~Blocked(request[h].policy, answer.facts, a)
    /\ \A i \in Existing, a \in Accounts : quotes[i].rows[a] # "none" =>
            (quotes[i].rows[a] = "blocked" <=> Blocked(quotes[i].policy, quotes[i].facts, a))

\* What quote supposes when it looks for a ready answer before it resolves the
\* cities: an answer that may be reused obeys the rules for the cities that the
\* catalog knows by now. It does not: one that was made while a city could not be
\* resolved is reused when it can.
ReusableObeysCatalog ==
    \A h \in Requests : At(h, "lookup") =>
        LET body == request[h].payload
            version == request[h].policy
        IN  \A i \in Reusable(RequestHash(body, version), request[h].accounts) :
            \A a \in Asked(quotes[i].rows) : ~Blocked(version, <<body, body.cities \cap catalog>>, a)

\* FR-1.4, partial success, and the three gaps the code leaves in it: an account
\* that the request has found is named in the answer, with its prices, the rule
\* or the error, unless it answered with an empty list, its carrier was not among
\* the active ones, or its credentials cannot be read. A late answer, a timeout
\* and an adapter that crashed are no excuse.
NobodyDisappears ==
    \A h \in Requests : At(h, "done") =>
        \A a \in request[h].accounts \ Named(request[h].rows) :
            a \in request[h].empty \cup request[h].gone \cup Unreadable

\* FR-1.3: a request ends even if no carrier ever answers, unless it dies or
\* the table is at the bound of the model.
RequestEnds == \A h \in Requests : At(h, "accounts") ~> ~Open(h) \/ NextIds = {}
=============================================================================
