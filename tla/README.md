# Verification of Aerogram

TLA+ modules, TLC configurations and TLAPS proofs for Aerogram, a multi-tenant
platform between shippers and carriers (backend: FastAPI, SQLAlchemy, Celery,
PostgreSQL; `src/backend/src/aerogram/`). Paths below are relative to that
directory unless they start with `src/`.

    tlc -workers 2 -config <run>.cfg <module>.tla     # one run
    tlapm <module>Proofs.tla                          # the proofs of a module

`PROJECT.json` lists the runs, what each definition translates (`map`), the
hazards of the code with the properties aimed at them, the mutants that show
each property can fail, and the findings.

## 1. Inventory

| Component | State it keeps | Operations | Talks to |
|---|---|---|---|
| `shipments/` | `shipments`: key, decision, number, status, external_id, next_poll_at | create, cancel, reconcile_unconfirmed, poll_due, find_for_webhook, archive | carriers (create, find_by_number, cancel, track), routing (the decision), tracking (ingest) |
| `tracking/` inbound | `shipment_events` (append only), `delivery_outcomes`, the tracking columns of `shipments` | ingest, receive a carrier's webhook, list exceptions | shipments, outgoing webhooks |
| `tracking/` outgoing | `webhook_subscriptions`, `webhook_deliveries`: attempt, next_attempt_at, delivered_at | subscribe, unsubscribe, enqueue, deliver_due | receivers over HTTP |
| `documents/` | `documents`: status, file key; objects in S3 | label, order_labels, merged_labels, fetch_pending, expire_files | shipments, carriers, storage |
| `bulk/` | `bulk_runs`, `bulk_rows` with their statuses | import, quote_all, select_all, create_all, order_labels | rating, routing, shipments, documents |
| `routing/` | recommendations, decisions, rules, policy snapshots | recommend, decide, auto-select | rating, intelligence |
| `rating/` | quotes and offers with an expiry | quote: reuse, ask all carriers under one deadline, rank | carriers |
| `carriers/` | circuit breakers and health in memory, raw calls | one adapter per carrier behind a registry; CarrierHttpClient | carriers over HTTP |
| `core/` | tenants, users, API keys, MFA, carrier accounts, audit log | login, enrol, keys | all |
| `directories/` | cities, terminals, counterparties, addresses | suggest, normalise, match, synchronise | address service, carriers |
| `intelligence/` | carrier scores per tenant, platform baseline | nightly recalculation | outcomes, offers |
| `billing/`, `reports/` | none (read only) | reconciliation base, summaries | SQL |
| `worker/` | none; the beat's schedule | one task per job, tenants in turn | everything above |
| `shared/`, `db.py` | none | money, calendar, ids, crypto; session_scope (one transaction, tenant set for row-level security) | PostgreSQL |

The frontend, deployment scripts and prose keep no state the backend relies on.
The status of each component (modelled, in part, or not) and what is left out of
it are in `PROJECT.json`; section 6 sums it up.

### Where it is hard

* *Every request is a coroutine and every await a switch.* `create` reads, then
  commits a draft in a transaction of its own, then calls the carrier, then
  commits the answer: a second request, a cancellation or the sweep may run in
  each gap, and a crash may fall in each.
* *The carrier is a remote party.* Its answer may be lost after it acted, a
  timed-out POST may arrive later, `CarrierHttpClient` repeats the call, events
  come late, twice and out of order.
* *Transactions run at READ COMMITTED without locks.* A session reads a row
  once (`expire_on_commit=False`, the identity map) and its UPDATE names only
  the columns that changed. Two sessions on one row therefore mix columns.
* *Nothing stops a task from overlapping itself.* The beat starts a run every
  minute; `acks_late` starts a lost one again; a run may last 270 s.
* *Two people, or a person and a machine, write one row.* Rules are edited while
  quotes are decided, addresses and default senders while others edit them, a
  city's code by the nightly sync and by a human, credentials during their check.
* *A tenant is a setting of a pooled connection.* What one request may see
  depends on how the one before it ended.
* *Silent choices.* Which offer is recommended, which recipient is meant, which
  tax a price holds: nobody sees a wrong one fail.
* *One transaction per tenant* for polling and for outgoing webhooks: an error
  or the time limit undoes the whole pass, but not what was sent.

### What makes each component correct

* **shipments** - no order at a carrier without a committed row that knows its
  number; a link, once made, is true and is not lost; a draft whose order
  exists is found again without the client; one order per key, one shipment per
  decision; an unfinished shipment is polled; a final status is final.
* **tracking** - events are neither lost nor doubled; the status settles on the
  latest event whatever the order of arrival and of commits; pick-up and
  delivery are recorded; every change is announced, once; polling ends at a
  final status only.
* **outgoing webhooks** - a delivery leaves the queue accepted, given up, or
  unsubscribed, and some day it does; the row never claims more than happened;
  one tenant's receivers do not hold up another's.
* **documents** - a label is ordered once; a pending one becomes ready, failed
  or is given up within a day; a row that says ready has a file; a file that
  expired is not forgotten in the storage.
* **bulk** - a row of a list is decided and shipped once however often the run
  is repeated; its columns belong together; the status of a run is that of its
  rows; every line of a list comes to a row or an error, and no recipient is
  guessed.
* **routing** - a repeat is answered with the decision of its own body; the
  machine decides a quote once and as the rules frozen with it say; a denial is
  stronger than any permission; no better offer is passed over.
* **rating** - no carrier that the rules deny is asked or shown, from an earlier
  answer either; who was asked is named; a request ends though nobody answers.
* **carriers** - repeats are bounded and no refused token is sent again; a lost
  order is found and no other is taken for it; a refused product does not hide
  the others; a complete account is not refused for its fields; a verdict is
  about the credentials it was asked with.
* **core** - a code is used once; nobody touches another tenant's rows; an
  address is as fit as its fields.
* **directories** - a city is shipped by the code it was priced with; the network
  is the one the catalogs report.
* **intelligence** - a good delivery never costs points; a base is anonymous.

## 2. Plan

In order of importance to the user of the system. *Proved* names what TLAPS
checks for every instance; everything is model-checked.

1. `Shipments`, with `OrderLedger` as its abstract specification - done; its
   safety and the refinement proved.
2. `Tracking`, `WebhookQueue`, `Documents` - done; safety proved, and the action
   property of `Tracking`.
3. `Decisions` over the pure modules `RoutingPolicy` and `Selection`, and
   `Calculation`, which asks the two of any rules and offers - done; safety proved.
4. `RateShopping` - done; safety proved.
5. `Bulk` and `RecipientList` - done; safety proved.
6. `SecondFactor`, `Access`, `AddressBook` - done; safety proved.
7. `Directory`, `CarrierScore` - done; safety proved.
8. `CarrierCall`, `CarrierOrders`, `CarrierQuotes`, `CarrierAccount` - done;
   safety proved.

No safety property of a passing run is left to prove. Once the code is corrected
where section 4 says it fails, the properties named there are next. No module declares a RECURSIVE operator, so
all of them can be proved about.

Compositions that would say more: `Bulk` over `Shipments` (a failed row whose
order exists), `RateShopping` over `CarrierCall` (the common deadline against
the ladder of repeats), two tenants of `Shipments` with one carrier contract.

## 3. Modules

### Shipments.tla

One tenant, one carrier. `rows` is the table `shipments` (one row per
idempotency key), `orders` the carrier's books, `late` the POSTs nobody waits
for any more, `job` each worker's next step and the locals that survive an
await, `session` the transactions of polls and webhooks: the shipments still to
ask about, the rows as they were loaded and as they will be written. The stretch of code between two awaits that matter is one action:

| Code | Actions |
|---|---|
| `create` up to `_prepare` | `LookupNew`, `LookupUnconfirmed`, `Prepare` |
| `create`: the draft in `session_scope` | `CommitDraft` (unique key, unique number) |
| `_finish` | `FindBeforeCreate`, `OrderCreated`, `CreateTimeout`, `Apply` |
| `CarrierHttpClient.request` | the attempts of `CreateTimeout`; `LateOrder`, `LateDropped` |
| `cancel` | `CancelRead`, `CancelFind`, `CancelCall`, `CancelStore` |
| `reconcile_unconfirmed` | `SweepStart`, `SweepFind`, `SweepSkip`, `SweepApply` |
| `_poll_tenant`: load, ask and take in, commit | `PollBegin`, `Track`, `TrackSkip`, `TrackCommit`, `TrackRollback` |
| inbound webhook: find, load, take in, commit | `HookFind`, `HookBegin`, `Track`, `TrackCommit`, `TrackRollback` |
| crash, error, redelivery of a task | `Abort` |

Abstractions: the number derived from a key is taken to be injective (it is a
hash of tenant and key); the two look-ups of `_prepare` are one step, which
gives the same outcomes because nothing is written between them that the later
INSERT does not check again or the earlier look-up could have seen only
sooner; of a timeline only the last event is kept here, any the order has had,
because an answer is as old as its call and a webhook may be late (`Tracking` has
the timeline itself, but no handlers); the commit of a session writes the columns
that differ from what it loaded (`Updated`), over whatever handlers and the sweep
have made of the row; `cancelled` is `cancelled_at`; of a request only its key, decision and number are kept, which is all
`_ensure_same_request` and the constraints look at beyond the payload. The
carrier refuses to cancel what it has delivered or returned; the answer to a
refusal may be lost like any other.

`OrderLedger.tla` is what the component promises: a number is *intended* before
an order is *placed*, an order is placed before it is *linked*, links are never
lost or shared. `ShipmentsLedger.tla` is the refinement mapping: intended are
the numbers of the rows, placed the carrier's orders with their numbers, linked
the pairs of a row's number and its external_id.

### Tracking.tla

`rows`, `timeline`, `notices` are committed state, `session` the open
transactions: what each loaded, what it will write, which keys it has inserted.
`Known` reads the known keys, `Take` inserts the new events, reads the timeline
and projects it (`Projection` is `_project` and `_settle`), `Commit` writes the
columns that differ from what was loaded (`Updated`), `Conflict` is the
IntegrityError on an event or an outcome, which undoes the whole session. An
INSERT of a key that another open session holds waits, as PostgreSQL does. Row
locks taken by the flush are held to the commit, so the order of UPDATEs is the
order of commits and the model writes at the commit; autoflush is off.
Rolling back for any other reason, a deadlock ended by the database included,
is `Rollback`.

### WebhookQueue.tla

`deliveries` and `active` are the tables, `run` the runs of the task: tenants
still to visit, deliveries still to POST, rows loaded and rows to write, the
subscriptions in the identity map, and how many silent receivers the run has
waited for. `tries` counts the calls of `deliver` for a delivery, `accepted` the
POSTs its receiver took. A call may end before there is a POST, when the address is
refused or its name not known ("unsent"), and the row counts it all the same.
`Patience` is
how many silences fit in a run (270 s of soft limit over 10 s of timeout, 27 in
the code). `SoftTimeLimitExceeded` leaves `asyncio.run` and rolls the
transaction back (`TimeUp`). Left out: the counters and texts kept for display
(`consecutive_failures`, `last_*`) and the limit of 100 rows of a pass, which
the instances never reach. Within a pass the order is arbitrary.

### Documents.tla

`docs` is the table, `store` the object storage, which takes no part in
transactions, `session` the open transactions: the rows loaded, the rows to
write, the work left in the loop and the document in hand.

| Code | Actions |
|---|---|
| `label`, `order_labels` (all labels of a bulk run in one transaction) | `LabelBegin`, `LabelFound`, `LabelInsert` |
| `fetch_pending` | `SweepBegin`, `SweepNext` (gives up after a day) |
| `_pull` | `Ask` (refused, not ready, given), `Put`, `PutFails` |
| `expire_files` | `CleanupBegin`, `Delete`, `DeleteDeferred` |
| end of a transaction, death of a process | `Commit`, `Rollback` |
| time | `Age` (PENDING_DELAY, GIVE_UP_AFTER), `GraceOver` (FILE_GRACE) |

The UPDATE at the commit names the columns that differ from what was loaded,
as in `Tracking`. Left out: the formats of a label, the waybill number read on
the way, merging and downloading (they change nothing), and the limits of a pass
(50 and 200), which the instances do not reach. A shipment whose grace is over
stays so: `Shipments` shows when it does not (`shipments_final_status`).

### RateShopping.tla

One tenant's requests for prices. `connected`, `active` and `policy` are what
the tenant and the platform may change between two statements of a request
(`SwitchAccount`, `SwitchCarrier`, `EditRules`), `catalog` the cities the directory
knows by now (`LearnCity`, and every committed request that looked one up);
`quotes` are the committed answers with the facts that were frozen in them;
`request` the handlers' locals.

| Code (`rating/service.py`) | Actions |
|---|---|
| `quote`: rules, then accounts | `Begin`, `ReadAccounts` |
| `_reusable` | `Reuse` |
| `CityService.resolve`: known, found by the service, or None | `Resolve` |
| `_apply_policy`, `_prepare` | `ApplyPolicy`, `Prepare` |
| `_poll`, `_ask_one` | `Answer`, `PollDeadline` |
| `_persist`, the commit | `Persist`, `Commit` |
| expiry, a dying request | `Expire`, `Abort` |

A version of the rules is known here by what it denies and requires for a request
and the cities that were resolved for it (`Facts`); what rules say is
`RoutingPolicy`. The version is part of the hash of a request, the cities are not.

### RoutingPolicy.tla, Selection.tla, Calculation.tla, Decisions.tla

`RoutingPolicy` is `routing/rules.py` as operators: reading of the rules, their
match with a request, the verdict on a carrier, the fingerprint. `Selection` is
`strategies.py`, `selection.py` and `explanation.py`: the keys offers are sorted
by (fractions compared by cross-multiplication), the rules of the auto-select
with their abstentions, what is said of the choice. A list of offers is sorted as
`sorted` does it: every offer has the place its key gives it, equal keys stay in the
order of the rows. `Calculation` is one calculation with its rules (`written`), the
facts of its consignment (`consigned`) and its offers (`calculated`), of which
verdicts and order are functions; nothing in it moves. `Decisions` is the three
services of `routing/service.py` over them: `Recommend` and `Consider`
(recommendation with auto-select), `RequestDecision`, `Decide` and `Insert` (a
decision under an idempotency key; the INSERT waits for another session that
holds the key), `Edit` and `CommitEdit` (rules, their priorities and stamps),
`Rate` and `Expire` (the quote with the frozen verdict, `expired` once its
`valid_until` is over). A recommendation that
loses the race for the machine's key fails as a whole, as a failed flush does.

### Bulk.tla, RecipientList.tla

`Bulk` is one run with its rows. `Begin` loads run and rows, the loop of
`quote_all`, `select_all`, `create_all` goes row by row (`QuoteRow`,
`SelectRow` with `InsertDecision`, `CreateRow`, `Fail`), `Finish` writes the
columns that differ from what was loaded and counts the rows after its flush.
A shipment is committed at once, as `ShipmentService.create` does, and survives
the rollback of the request; `create` may raise after it. `overlapped` remembers
that two requests on the run were open at once.

`RecipientList` is the parsing of a pasted list (delimiter, heading, quotes as
`csv.reader` reads them over the lines joined again) and the look-up of each row
in the address book; `upload` is the list, which nothing changes. A cell is a model value; only whether it is a number, an
INN, a heading or begins a quote is known of it.

### SecondFactor.tla, Access.tla, AddressBook.tla

`SecondFactor`: `user` is the row, `attempt` what each open transaction has
loaded. `Present` checks a code against the loaded row; `Login`, `Setup`, `Enable`
and `Disable` burn its step by the conditional UPDATE and commit. The UPDATE
locks the row until the commit, so the two are one step.

`Access`: `settings` are `app.tenant_id` and `app.auth_scope` of each connection
of the pool, `request` how far each request is. A request comes by login, API
key, carrier's webhook, token, task or platform session; the first three open a
window on one table to find their row (`OpenWindow`, `LookUp`), the webhook goes
on in a second transaction, perhaps on another connection (`SetTenant`). `Work`
is a statement without WHERE: it touches every row the policies let it. `Abort`
may come at any step, `Revoke` at any time.

`AddressBook`: counterparties and addresses with the unique indexes, soft
deletion, the default sender (`ClearDefault` waits for locked rows) and the
fitness of an address, written column by column (`Merged`). `crossed` remembers
that two edits of one address, or an addition to a counterparty and its deletion,
were open at once (`Crosses`): the two overlaps `BookIsConsistent` excepts.

### Directory.tla, CarrierScore.tla

`Directory`: the ladder that matches a carrier's city (`MatchOne`: FIAS, KLADR,
name with the region as a veto), `Upsert` and `Enqueue`, the network of
terminals, Pecom's branches as a catalog, the sync and the confirmation as
transactions (`BeginSync`/`CommitSync`, `BeginConfirm`/`CommitConfirm`), and the
resolution of a party by name and region at a quote and again at the shipment
(`Price`, `Party`), with the fallback to the parent's code; a quote remembers the
city, the code, and whether the mapping was certain.
Names are model values and their similarity is given in thousandths.

`CarrierScore`: observations of each tenant, components, smoothing, the
platform's base with its two thresholds, the snapshot, and the nightly task step
by step (`StartNight`, `Read`, `SaveBaselines`, `ScoreTenant`, `Crash`). Shares
are integers in ten-thousandths with the two roundings of the code.

### CarrierCall.tla, CarrierOrders.tla, CarrierQuotes.tla, CarrierAccount.tla

`CarrierCall` is one `CarrierHttpClient.request` with the authorisation it
takes: the ladder of repeats, the breaker, the token of CDEK or session of
Dellin under `_auth_lock`, renewal after a refusal, cancellation. A step runs
from one await to the next. Tasks share a client here although today every
adapter method builds one per call (`_client_factory(acc)`): the lock and the
breaker are written for sharing.

`CarrierOrders` is an account's orders as the adapters of CDEK, Pochta, Dellin
and Pecom make, search, follow, label and cancel them, and what a shipment keeps
(`kept`). The carriers' searches are external and modelled by what the adapters
say of them: by substring (Pochta), by days of their own time zone (Pecom),
processed requests only (Dellin). A creation may end without an order, refused or
lost on its way (`NotBooked`), or with one whose answer is lost; it is tried again
only after a search that found nothing. An adapter takes a request only with the
`extras` it needs; the instance gives them, while `ShipmentService` fills none
today, so that creation through the domain is refused by Pochta, Dellin and
Pecom. `track` and `cancel` of Pochta and `cancel` of Pecom and Dellin raise
`CarrierNotConfigured` and are no actions.

`CarrierQuotes` is `quote()` of the five adapters: products asked for, refusals
before and after the call, how a reply is read, the tax in Pochta's total, the
fields of the credentials. `CarrierAccount` is the entry of credentials and the
verdict of their check, with the carrier asked in the middle of the transaction.

### MC modules

`MCDecisions`, `MCCore` and `MCCarriers` put several models that share no state
behind one variable (`part`): a behaviour runs one of them, and the others stand
still in one state. All of them are extended (`Access`, `SecondFactor`,
`AddressBook`, `Directory` and `CarrierScore` in `MCCore`; `CarrierAccount`,
`CarrierCall`, `CarrierOrders` and `CarrierQuotes` in `MCCarriers`; `Decisions`,
`Calculation`, `Bulk` and `RecipientList` in `MCDecisions`), each with names of its
own (`MfaSpec`, `BookSpec`, `DirectorySpec`, `ScoreSpec`, `BulkSpec`,
`CalculationSpec`, `ListSpec`, `AccountSpec`, `CallSpec`, `QuotesSpec`), so that the
run checks the very definition the theorem is about.
In `Calculation` and `RecipientList`, which only compute, every input is an initial
state and the property is about what is computed of it.

## 4. Runs

| Run | Shows | Instance |
|---|---|---|
| `shipments_two_handlers` | `NoOrderWithoutRow`, `UnconfirmedIsDraft`, `PolledUntilTheEnd`, refinement `LedgerKept` | one of three per behaviour (`MCShipmentsOverlap`): 2 keys that give one number, 2 handlers, the sweep, 2 attempts of a POST, 2 orders; 1 shipment with 2 handlers, a poll and a webhook; 1 shipment with a handler at a time, the sweep, a poll and a webhook |
| `shipments_ghosts` | `LinkedOrderIsOwn`, and `GhostResolved` under fairness of the sweep | 2 keys, 1 handler, 1 sweeper, 1 order |
| `tracking_sessions` | `FactsRecorded`, `ChangeIsAnnounced`, `StatusConverges` | 2 polls and a webhook on one shipment, a pick-up and a delivery in any order |
| `webhooks_overlap` | `LeftForAReason`, `BooksAreTrue` | 2 runs, 2 deliveries to one receiver, 2 attempts |
| `webhooks_settle` | `EventuallySettled` when counts are overwritten and transactions fail for a while | 2 runs, 2 tenants in turn, 2 deliveries, 2 attempts |
| `documents_batches` | `ReadyHasFile`, `PendingEnds`, `FilesExpire` | one of two per behaviour (`MCDocuments`): 1 document with 2 sweeps, a request and a clean-up that overlap as they like; 2 documents of 2 shipments whose transactions follow one another |
| `rating` | `AnswerObeysPolicy`, `NobodyDisappears`, `RequestEnds` | 2 accounts of 2 carriers (one insures nothing and its credentials cannot be read), 2 versions of the rules of which one denies a carrier to a city, a request without lists and one with both lists, 1 handler, 2 quotes, 2 changes |
| `decisions` | `AutoIsReproducible`, `OneAutoPerQuote`, `AnswerMatchesBody`; `PolicyIsStrict`, `NobodyBetterIsPassedOver`; `NothingTwice`, `RowBelongsTogether`, `RunTellsTheTruth`; `OneIsMeant` | 2 handlers, a quote of 2 offers, 2 rules of 3 kinds, 2 edits, 2 recommendations; sets of up to 3 of 7 rules; answers of 3 offers; a run of 2 rows, 2 handlers, 5 requests; lists over 3 counterparties |
| `core` | `CodeWorksOnce`; `OwnRowsOnly`; `BookIsConsistent`; `QuotedCityIsShipped`, `NetworkIsAsReported`; `GoodDeliveryNeverLowers`, `BaselineIsAnonymous` | 3 requests, 2 secrets, 3 steps of the clock; 2 tenants, 2 connections, 2 requests; 2 counterparties, 2 addresses, 2 sessions, 5 operations; 2 namesake cities, whole and cut catalogs, 2 sessions, 3 transactions; 2 tenants, 3 shipments, 2 days |
| `carriers` | `RepeatsAreBounded`; `KeepsItsOwn`, `SearchIsReliable`; `AnswerIsWhole`; `CompleteAccountIsAsked`; `VerdictIsOfItsCredentials` | 2 calls of 2 attempts on one client, threshold 2, 2 tokens; 2 orders whose numbers contain one another; every set of credentials; 2 checks of 3 entries, one unreadable |
| `recipients` | violates `NobodyIsLost` | the lists of `decisions` |
| `carriers_number` | violates `NumberArrives` | the orders of `carriers` |

`decisions`, `core` and `carriers` each hold several models that share no state
and one behaviour runs one of them (section 3); a property speaks of its own.
The type invariants (`TypeOK` of `Shipments`, `Tracking`, `WebhookQueue`,
`Documents`, `RateShopping`) hold on the same instances; add the name to the
configuration to check them. They are proved.

Why the bounds are enough: the races of `Shipments` are between two workers
over one row, or two rows over one number, decision or order; a third worker
repeats what a second can do, and the proofs remove the bound for the safety
properties. Two orders suffice to have one too many. A row has two kinds of
writers, handlers and the sweep, which write all they know, and sessions of polls
and webhooks, which write what they changed; the three parts of
`shipments_two_handlers` put two of each, or one of every kind, over one row, and
`PolledUntilTheEnd` is proved for any number. In `tracking_sessions` two polls may
both have loaded a row before a webhook has changed it, which is what mixes the
columns of three transactions; with a pick-up that may be heard of last, the older
event can be the later news. `webhooks_overlap` needs two deliveries so that one
call is made between the first and the commit, and two attempts so that the limit
is reached. `documents_batches` needs two documents so that the failure of one
undoes the other, and two sweeps on one document for the later commit to meet the
earlier one; `Docs` also bounds how often a rolled back label can be ordered again
(an identifier is free again after a rollback).

`rating` needs two quotes (one to reuse), two changes (rules and an account) and
one handler: requests meet only in the committed quotes, and another request is
an earlier one of the same handler. One city suffices: it is known, found by the
service or not found, and learnt by others between two requests.
In `decisions` the cheap offer is slow and the dear one fast, so that the rules,
the strategy and a human may each want another; a rule by score abstains, for
neither has one. Three rules of the other kind are a denial, a permission and
one that adds insurance, which is every way verdicts meet. Five requests are the
three operations of a bulk run and two of them again, overlapping the first or
repeating it. `CodeWorksOnce` needs a third request to use what
the other two have left; `OwnRowsOnly` two requests that follow one another on a
connection. Two tenants are below the platform's thresholds of a base and at
them, because the thresholds are constants there. `RepeatsAreBounded` needs two
attempts so that a refusal comes before and after a repeat, and a threshold low
enough that the second call meets an open breaker with and without a token.

Bounds that are not in the code are named: `OrderIds`, `Handlers`, `Sweepers`,
`Docs`, `Cap` (counters saturate), `MaxQuotes`, `MaxChanges`, `MaxRecs`,
`MaxEdits`, `MaxRequests`, and the bounds of the clock, the operations and the
transactions that `MCCore` and `MCCarriers` give.

Three properties name in their statement the case in which the code fails, and the
statement without it stands beside them (below): `StatusConverges` speaks of a
shipment that stays in the polling queue (without: `StatusAlwaysConverges`),
`FilesExpire` of a document that no open session has loaded (without:
`NoFileIsKept`), `PolledUntilTheEnd` of a shipment that nobody has cancelled and
whose journey goes on (of what the row shows: `ActiveIsPolled`).

Deadlock is not checked where the system may legitimately stop: a carrier out
of order ids, a queue that is empty for good, labels all printed and expired,
a bound of changes or requests reached, a calculation or a list, which only stands.

### Fairness

* `Shipments`: the beat starts the reconciliation again and again (`SweepStart`
  weakly); a carrier asked again and again answers some day and a transaction
  tried again and again commits (`SweepFind`, `SweepApply` strongly). Nothing of
  handlers, clients, polls or the carrier's own steps: `GhostResolved` does not
  need a client that retries.
* `Tracking`: the poll starts every minute, the carrier answers some day, every
  open transaction ends, and some day the processes stop dying. A webhook that
  never comes is allowed.
* `WebhookQueue`: runs start and go on, time passes, transactions stop failing
  some day. The time limit is never assumed to stop.
* `Documents`: the sweep starts every five minutes and the clean-up every night,
  each goes on until it ends, time passes, some day the storage answers and
  transactions stop failing. Nothing of requests, and nothing of the carrier: it
  may answer "not ready" for ever. A pass is taken to fit in the time limit of
  its task.
* `RateShopping`: a handler goes on and the clock of `asyncio.wait` runs
  (`Onward`, weakly). No carrier owes an answer, and none is needed for
  `RequestEnds`.

The other modules state no fairness: what they are asked is safety.

### Findings: runs that violate what the repository says

Each of these checks one statement of a docstring, comment or test and TLC shows
how the code falsifies it. The first two are runs of `PROJECT.json`, quoted
there; the others are configurations of their own, run as
`tlc -workers 2 -config <name>.cfg <module>.tla` with the MC module of the
component (`MCShipments`, `MCTracking`, `MCWebhookQueue`, `MCDocuments`).

| Configuration | Property | The repository says | What happens |
|---|---|---|---|
| `recipients` | `NobodyIsLost` | a row that cannot be read is reported with the reason | an unpaired quote in a name makes one row of it and of the lines after it, which come neither to a row nor to an error |
| `carriers_number` | `NumberArrives` | an order taken as a request gets its number by tracking | the carrier gives the waybill, the shipment is polled, and its number does not come with it |
| `shipments_http_retry` | `OneOrderPerShipment` | `carriers/http.py:99`: only idempotent or marked calls are repeated | POST /orders is repeated: two orders from one request |
| `shipments_final_status` | `FinalStatusIsKept` | `shipments/repository.py:21`: states that a shipment no longer leaves | a poll that loaded the row before `cancel` writes IN_TRANSIT over CANCELLED |
| `shipments_forgotten` | `ActiveIsPolled` | `shipments/service.py:600`: while no poll is due the task does not see the shipment, so `_apply` makes one due | a poll has loaded the cancelled row, the confirmation of a retried `create` writes CREATED over it, and the poll, which goes by the status it loaded, ends polling: the row shows a live shipment that nobody asks about |
| `tracking_lost_poll` | `StoppedIsFinal` | `tracking/service.py:54`: polling ends at a final status | three sessions' columns mix |
| `tracking_batch_poisoned` | `FailureIsContained` | `worker/tasks.py:135`: the failure of one shipment must not deprive the others of updates | the shared session is rolled back |
| `webhooks_silent_receiver` | `OthersAreServed` | `tracking/outgoing.py:79`: a slow receiver must not hold up the others | the time limit undoes the pass, for ever |
| `documents_overlap` | `NoFileIsKept` | `documents/service.py:250`: a recipient's data is not kept longer than needed | of two sweeps the refused one commits last: status failed, key and file kept, never cleaned up |

### Stated, known not to hold, without a run of their own

The modules also state these, so that a correction of the code can be checked
against them; add the name to the configuration named to see the behaviour.

* `OneOrderPerShipment` also fails without any HTTP retry: a second request with
  the same key finds the draft of the first, asks the carrier before the first
  POST is booked, is told there is nothing, and creates a second order.
* `OneShipmentPerDecision` (`Shipments`; `shipments_two_handlers` with requests
  that share a decision): two keys pass the look-up of `_prepare` together and
  both commit a draft, for no constraint covers the decision.
* `CancelledHasNoLiveOrder` (`Shipments`; `shipments_http_retry`): a draft is
  cancelled when the carrier has no order yet; the timed-out POST arrives
  afterwards, and the sweep looks at drafts only.
* `GhostResolved` with `ReconcileLimit = 1` and two keys: a draft the carrier
  never saw is the oldest for ever and fills the limit (100 in the code).
* `StatusAlwaysConverges` (`Tracking`, `tracking_sessions`): a shipment leaves the
  polling queue by the session that saw its last event; one that saw fewer events
  commits afterwards, its older status stays, and no poll mends it any more.
* `StatusNeverGoesBack` (`Tracking`, `tracking_sessions`): a session that
  saw fewer events commits after one that saw more.
* `NoRepeatedNotice` (`Tracking`, `tracking_sessions`): two sessions compare
  with the status they loaded, and both announce the same one.
* `ReusableObeysCatalog` (`RateShopping`, `rating`): a city could not be resolved,
  so no rule about it applied; the answer is stored, the city is learnt, and the
  next request of that body and those rules is given the stored answer, with the
  price of a carrier that they deny for this city. The comments at
  `rating/service.py:149` and `:165` hold the version of the rules to be enough in
  the fingerprint and the cities not to be needed for a ready answer.
* `ShippedIsSaid` (`Bulk`, `decisions`): `create` commits the shipment, and the
  request dies before it commits its rows, which stay SELECTED; or `create` raises
  after its commit and the row is written as FAILED, which no later request takes
  up again (`bulk/service.py:474`).
* `OtherCityIsAsked` (`RecipientList`, `decisions`): the row names a city, the
  counterparty's only usable address is in another one, and the row is resolved to
  it, although the comment at `bulk/service.py:231` and ADR-0022 (line 138) call
  that a question.
* `FitnessIsOfTheFields` (`AddressBook`, `core`): of two overlapping edits of one
  address each derives the fitness from the columns it has loaded, and the columns
  are mixed; the docstring of `update_address` says the fitness is derived again
  because an accepted edit would otherwise leave the address unusable.
* `MarkIsHandedOn` (`AddressBook`, `core`): one request saves the default address
  as the default once more, another gives the mark to a second address meanwhile;
  the first takes it from there, and since its own column has not changed the ORM
  writes none. Nobody has the mark, although the code speaks of exactly one
  default sender (`core/service.py`, `update_address`).
* `ShippedWhereQuoted` (`Directory`, `core`): of a quote that took the fallback, of
  a name that two cities have, or of a mapping nobody has confirmed, the shipment's
  own resolution may find another city or another code. The docstring of
  `CarrierPartyResolver` (`directories/service.py:501`) says the code must come out
  the same, for otherwise one city is priced and another shipped to.
* `AcceptedOnce` (`WebhookQueue`, `webhooks_overlap`): overlapping runs load one
  delivery and both POST it.
* `UnsubscribedIsLeftAlone` (`WebhookQueue`, `webhooks_overlap`): the second
  notice of a pass goes to a subscription that the identity map still shows on.
* `NoOrphanedFile` (`Documents`, `documents_batches`): a label is stored and the
  transaction of its row rolled back; the file has no row. ADR-0016 says no
  orphan can come about.
* `HumanDecisionStands` (`Directory`): `upsert` leaves every confirmed mapping
  alone, those the machine was certain of too, so a human's other choice is
  recorded as resolved and not used, although the docstring says that a human's
  decision is always older than the machine's (`directories/repository.py:286`).
* `MappedOfficeWorks` (`Directory`): a confirmed city keeps the warehouse it was
  given after a catalog has closed that warehouse.
* `AbsentIsNotBooked` (`CarrierOrders`, `carriers`): Dellin shows a request only
  after it is processed, and Pecom files an order under a day that has not come in
  UTC, so "not found" is said of an order that exists
  (`carriers/dellin/orders.py:195`, `carriers/pecom/orders.py:266`). A repeated
  `create` then books a second one. `SearchIsReliable` says what remains: when the
  request is processed, when the hour has come, and until the window closes.
* `OneAuthorisation` (`CarrierCall`): the comment at `carriers/cdek/client.py:73`
  speaks of the account, the lock belongs to a client, and every adapter method
  makes a client of its own.
* `VerdictIsNeverStale` (`CarrierAccount`, `carriers`): credentials entered while a check is
  out are stored first and the verdict on the old ones afterwards, although
  `set_carrier_credentials` clears the former verdict for that reason.

### Behaviours the models show and no statement of the repository settles

* *Shipments and tracking*: `find_by_number` knows only the client's number
  (`shipments/service.py:248`), so two tenants on one contract could be given
  each other's order; `has_incident` is set for a silent shipment and never
  reset (`tracking/service.py:254`); the notice that a shipment is late comes
  only from a session that changes the flag.
* *Documents*: two requests for one label both find none and both order it; a
  failed label is never asked for again, although the docstring of `label`
  leaves a retry to the sweep.
* *Decisions*: overlapping edits of rules may leave a rule with an older stamp
  than its contents.
* *Bulk*: an overlapping request writes QUOTED or FAILED over SELECTED or
  CREATED. In a list, a street without a house is an address; after a quoted cell
  of several lines the numbers of lines reported no longer match the list.
* *Rating*: one account whose credentials cannot be read is named in no answer,
  and since `_reusable` asks for an answer that names every account, such a tenant
  is never given a ready one (FR-1.6). An account whose carrier has left the
  directory, or that answered with an empty list, is not named either:
  `NobodyDisappears` lists the three cases, FR-1.4 does not.
* *Second factor*: `setup`, `enable` and `disable` that overlap may leave the
  factor on with a secret that the code did not prove, or with none, and lock
  the user out; `disable` forgets the burnt step.
* *Access*: `ensure_tenant_active` and `require_role` are defined and never
  called; an e-mail in several tenants makes `scalar_one_or_none` raise at login.
* *Address book*: of two requests that mark a default sender at once one is
  refused; an address added while its counterparty is deleted stays.
* *Directory*: a search sees 25 candidates; two cities with one external code
  end the sync in an IntegrityError; an empty catalog closes the network
  (`carriers/pecom/branches.py:68`).
* *Carriers*: the breaker lives as long as one client, which is one call; a 401
  that belongs to an old token drops the fresh one; a cancelled order of Pecom
  becomes IN_TRANSIT.
* *Score*: every share is smoothed with the number of finished shipments, so a
  delivery without a deadline moves the punctuality away from the base and may
  lower it; a carrier without observations keeps its last snapshot and base for
  ever.

## 5. Proofs

Every theorem holds for any values of the constants that satisfy the module's
named assumptions. TLC evaluates these on every run: they say that the constants
have the shapes the code gives them (`BookAssumption`, `BulkAssumption`,
`CalculationAssumption`, `CallAssumption`, `DecisionsAssumption`,
`DirectoryAssumption`, `OrdersAssumption`, `QueueWellFormed`,
`QuotesAssumption`, `RecipientsAssumption`, `ScoreAssumption`,
`ShoppingAssumption`, `RequestsWellFormed`, `EventsWellFormed`), that finite tables of the code are
finite, that the tasks and the handlers are different
actors and shipments and documents different tables (`KindsAreDistinct`), and
that `None` is not one of the values it stands apart from (`NoneIsNoRow` and its
like). Three theorems state a hypothesis of their own, given below.

In each module one invariant carries all its theorems. It is found the same way
everywhere: the property speaks of what is committed; what makes it true is what
the open transactions and tasks remember; so the invariant says of each of
these, step by step, what it may still write, and the proof has two halves. One
shows that what one remembers stays true while others work (tables only grow, a
row keeps its owner, a mark is never taken back), the other looks at each action
for the one who takes it. TLC checked every invariant on the runs' instances
before it was proved.

### ShipmentsProofs.tla

* `Safety`: `Spec => []Inductive`; `RowsAreHonest`: `Spec => []AllHonest`
* `TypeCorrect`: `Spec => []TypeOK`
* `OrdersHaveRows`: `Spec => []NoOrderWithoutRow`
* `LinksAreOwn`: `Spec => []LinkedOrderIsOwn`
* `DraftsAreFound`: `Spec => []UnconfirmedIsDraft`
* `OrdersArePolled`: `Spec => []PolledUntilTheEnd`
* `LedgerIsKept`: `Spec => LedgerKept`, that is, `Shipments` implements
  `OrderLedger`.

A worker about to call the carrier must still have its row, and the answer it
carries across an await must still be an order of the row's number when it is
stored. `Inductive` adds that: `NumbersAreUnique` (the database's constraint),
`LinkIsTrue` (a link names a true order), `JobsAreTrue` (the locals of every
worker are true of the tables while it waits) and `SessionsAreTrue` (what a poll or
a webhook has loaded are rows with orders of their own). Rows never disappear or
change their number (`RowsKept`), orders never disappear or change theirs
(`OrdersKept`), hence `WaitingIsTrue`. `UnconfirmedIsDraft` and `PolledUntilTheEnd`
need more, because a session writes back what it made of a row minutes ago: every
row that is stored, loaded or about to be written is honest (`RowHonest`: final, or
out of the polling queue, only if the shipment has ended or was cancelled), and the
end of a shipment is never taken back (`EndedKept`). An UPDATE of some columns of an
honest row over another one gives an honest row (`UpdatedHonest`), whichever it
takes. For the refinement each step is mapped to `Intend`, `Place`, `Link` or a stutter.

### TrackingProofs.tla

* `TypeCorrect`: `Spec => []TypeOK`
* `FactsAreRecorded`: `Spec => []FactsRecorded`
* `ChangesAreAnnounced`: `Spec => ChangeIsAnnounced`, an action property

A commit writes the columns that differ from what was loaded, perhaps long ago.
The invariant says what a session may have loaded (`LoadedTrue`: a pick-up or an
outcome it saw was not undone) and what it has made of a shipment whose events
it took (`TakenTrue`: every pick-up and delivery among the events it knew or
inserts is in its row). The events inserted by others meanwhile are on record by
their own commit, and a later commit does not blank a column it did not change.
`Latest` and `First` of the events are well defined because events are finite
and their times are naturals (`LatestIsOne`).

### WebhookQueueProofs.tla

* `TypeCorrect`: `Spec => []TypeOK`
* `NothingIsForgotten`: `Spec => []LeftForAReason`
* `BooksAreKept`: `MaxAttempts <= Cap` implies `Spec => []BooksAreTrue`

`RowTrue` is about a committed row: attempts are left while it is to be sent
again, and one that will not be was delivered, is used up or has no active
subscription. `ChangeTrue` is about what a pass makes of a row it loaded: nothing
yet, the outcome of one call, or the end of a delivery that was switched off. The
UPDATE of a true change leaves a true row whatever another pass committed
meanwhile (`UpdatedIsTrue`), although the count it writes may be too low. For
`BooksAreTrue` each row that is stored or about to be written claims no more than
`tries` and `accepted` have counted (`Counted`), which only grow (`CountedKept`). The
hypothesis is about the counter the model compares with: it must reach the limit.

### DocumentsProofs.tla

* `TypeCorrect`: `Spec => []TypeOK`
* `ReadyIsPrintable`: `Spec => []ReadyHasFile`

The storage takes no part in transactions, so a row in a session may be ready
with a file that is really there (`Printable`) while the committed row is still
pending. `WorkTrue` says of each row of a session what it may be, by the kind of
the session: a sweep leaves a row unasked, refused or printable; a clean-up takes
rows whose grace is over, after which no file has to be there; a label inserts
rows that are nobody else's. A sweep and a clean-up may have loaded one row:
what either writes is true for the other, because the grace is never taken back.

### RateShoppingProofs.tla

* `TypeCorrect`: `Spec => []TypeOK`
* `PolicyIsObeyed`: `Spec => []AnswerObeysPolicy`
* `AllAreNamed`: `Spec => []NobodyDisappears`

The locals of a request have a record type for each step, so that type
correctness says which locals exist when. `RowsTrue` says of the rows made so
far that the rules of the version *read at the beginning* allow them for the cities
*this* request resolved; `Accounted`, that an account found has a row, is still to
answer, or is one of the three cases the property names; `QuoteTrue`, that a stored
answer was made for the body of its hash under the version it names and obeys it
for the facts frozen in it, which is what a reused answer relies on.

### DecisionsProofs.tla

* `DecisionsAreReproducible`: `Spec => []AutoIsReproducible`
* `QuotesAreDecidedOnce`: `Spec => []OneAutoPerQuote`
* `AnswersMatchTheirBodies`: `Spec => []AnswerMatchesBody`
* `RowsAreDoneOnce`: `BulkSpec => []NothingTwice` of `Bulk`
* `RowsBelongTogether`: `BulkSpec => []RowBelongsTogether` of `Bulk`
* `RunsTellTheTruth`: `BulkSpec => []RunTellsTheTruth` of `Bulk`
* `RecipientsAreNotGuessed`: `ListSpec => []OneIsMeant` of `RecipientList`
* `PoliciesAreStrict`: `CalculationSpec => []PolicyIsStrict` of `Calculation`
* `NobodyBetterIsMissed`: `CalculationSpec => []NobodyBetterIsPassedOver` of `Calculation`

*Decisions.* The fingerprint sorts the rules in force. Sorting a finite set with
different priorities by counting who does not exceed whom loses and adds nothing
and keeps the order (`SortingKeepsTheRules`), hence the rules a version names are the ones that were in force when it was frozen
(`VersionHoldsTheRules`). The invariant
follows a recommendation and its decision through the steps of a request
(`Recommends`, `Selects`, `Inserts`) and keeps the uncommitted ones of two requests
apart (`Apart`: neither a recommendation number nor an unwritten key in common),
because the INSERT waits for the holder of a key. The machine's key names the
quote alone, so two decisions of the machine on one quote would be two rows of
one key. Priorities stay different through every edit (`PrioritiesDiffer`).

*Bulk.* The key of a row is its own (`KeysAreOwn`), so it is enough that a key is
written once: a request inserts a decision only if its key is free and nobody else
has written it (`InsertedApart`), and a shipment is found before it is made. The
UPDATE of a request writes the columns that differ from what it read, perhaps long
ago. What it read was not taken back (`Remains`), a row it has decided for was and
is undecided (`Makes`), hence a commit never changes a decision or a shipment a row
names already (`RowWritten`) and both are written with what they belong to. While
nobody overlapped, the one open request has read the rows as they are (`AllTell`),
and the status counts what it has just written; a shipment that outlived its request
is of the decision its row names, because whatever overlaps, a shipment is made only
of a row that names its decision in the table, and no commit takes that back
(`Shipped`).

*RecipientList.* The look-up counts: a row is resolved if one counterparty has its
key and one address of it is usable, and `Cardinality` of a finite set that is
neither empty nor more than one says that the set is a singleton (`OnlyOne`,
`ResolvedRow`). The address the row got is the address of that one, since the
identifiers of addresses are primary keys; that it fits, and that no other does, is
`OneIsTaken`, and that whatever fits is among the usable ones `FittingIsUsable`.
What the parser read is any row: the theorem does not lean on how a list is parsed.

*The policy.* `PolicyIsStrict` speaks of sets of rules, the code of the last one in the
order of priorities. A set of places has a last one (`LastPlace`), so the
strongest rule of some is one of them and has the highest priority among them
(`StrongestIsHighest`), and the rules at the places the code looks at are the
rules the property names.

*The order of the offers.* In a strict total order over a finite set, counting who
comes no later gives every element a place of its own (`Counted`). From this:
a finite set of integers has its ends (`EndsExist`), so the scales of the
optimal strategy exist and are positive (`SpansArePositive`); sorting keys that
end in their own place loses nobody, and nobody comes before the first
(`SortingKeepsAll`, `PlacesAreOrdered`); the cheapest of a ranking is found
(`CheapestIsFound`). It remains that every strategy knows a better offer: three
by their keys, the optimal one because its weighted sum is strictly smaller if
the price is smaller and no other part larger (`SumGrowsWithItsParts`), where an
offer of an unknown date counts as late as the scale goes
(`LatenessFollowsDates`). What is said of the choice follows from where the
cheapest one stands in the ranking (`ExplanationsAreTrue`).

### CoreProofs.tla

* `TenantsAreIsolated`: `Spec => []OwnRowsOnly` of `Access`, if `None` is neither
  a tenant nor a scope
* `CodesWorkOnce`: `MfaSpec => []CodeWorksOnce` of `SecondFactor`, if `Null` is
  no number
* `BookStaysConsistent`: `BookSpec => []BookIsConsistent` of `AddressBook`
* `QuotedCitiesAreShipped`: `DirectorySpec => []QuotedCityIsShipped` of `Directory`
* `NetworksAreAsReported`: `DirectorySpec => []NetworkIsAsReported` of `Directory`
* `BaselinesAreAnonymous`: `ScoreSpec => []BaselineIsAnonymous` of `CarrierScore`
* `GoodDeliveriesNeverLower`: `ScoreSpec => []GoodDeliveryNeverLowers` of `CarrierScore`

*Access.* Two requests never hold one connection (`Exclusive`), a free one has
nothing set (`FreeIsUnset`), an open window has no tenant, hence no statement
writes in it (`WindowHasNoTenant`), and at each step of a request its connection
has exactly what that step has set (`StepsSet`). `Reached` says who gets how far:
what was revoked before a request began ends it before its work.

*SecondFactor.* That the accepted codes differ says nothing of the next one; the
invariant adds `BurntBoundsAccepted`: the burnt step is at least the step of every
accepted code of the present secret. The conditional UPDATE reads the row as it
is, so a newly accepted step is newer than all of them.

*AddressBook.* Rows that a transaction has read are there for good and a new one has
a number of its own (`ReadsLast`, `NewOnesDiffer`). While no two operations crossed,
what a transaction has read of the columns it goes by is what the rows say, whoever
else works on the same counterparty (`ReadsAreCurrent`): an update then writes a
fitness and fields that belong together, and a deletion knows every address of its
counterparty. What a commit writes is the row it is about, the addresses of a
deleted counterparty, and marks of the default sender it clears (`Writes`), which
have no part in the property; so only an operation that crosses another disturbs
what that has read (`CurrentRemains`).

*Directory.* The mapping of a city that was priced with certainty stays confirmed
and keeps its code (`QuotesAreCertain`), and its city is one of those that have the
name and region (`OfThatName`, `ResolvedCity`): if there is one only, the shipment
finds it again. A sync folds its upserts over a catalog of any length: the fold
exists (`TableExists`) and each row leaves a confirmed mapping alone (`MappedRow`),
so all of them do (`CatalogKeepsConfirmed`); both inductions go by the least number
at which the claim fails. What a row is matched with is a city there is
(`MatchOneTyped`), because the best score is one of the scores (`GreatestNumber`).
As long as no two syncs overlap, the one that is open has read the terminals as they
are (`SyncsAreAlone`).

*CarrierScore.* `ScoreInductive` says of the night what it has read: observations of
its own period, of no more shipments than there are today (`ReadingsAreTrue`),
because a shipment that ended stays. A base is written from them, so as many
tenants have shipped as it says and as many shipments (`BasesAreFounded`), and
this outlasts everything that ends later (`FoundedStays`); a snapshot names a
basis only if such a base was on record (`SnapshotsAreFounded`). A crash
forgets what was read and takes nothing back.

That a good delivery lowers nothing is arithmetic over sums and roundings. A sum
over a finite set exists and grows with its parts (`SumExists`, `SumGrows`), both by
the smallest set at which the claim fails. Both roundings are monotone in a
fraction, compared by cross-multiplication (`HalfEvenGrows`, `HalfUpGrows`), so a
share with one more case in both its counters does not fall (`GoodRaisesShares`);
smoothing towards the base keeps this as long as the share is not below
the base (`SmoothedRises`), and so does the weighted sum (`WeighedRises`). The last
hypothesis is in the property because it is needed: the price index of a dear
carrier does not improve with a punctual delivery, but with one shipment more it
counts for more against the base, and the score of such a carrier falls from 89
to 88 in an instance of TLC's. An earlier form of the property held on a smaller
instance only; the attempt to prove it found this.

### CarriersProofs.tla

* `VerdictsAreOfTheirCredentials`: `AccountSpec => []VerdictIsOfItsCredentials`
* `CallsRepeatWithinBounds`: `CallSpec => []RepeatsAreBounded`
* `ShipmentsKeepTheirOwnOrder`: `Spec => []KeepsItsOwn` of `CarrierOrders`
* `SearchesAreReliable`: `Spec => SearchIsReliable`, an action property
* `AnswersAreWhole`: `QuotesSpec => []AnswerIsWhole` of `CarrierQuotes`
* `CompleteAccountsAreAsked`: `QuotesSpec => []CompleteAccountIsAsked` of `CarrierQuotes`

*CarrierAccount.* A check may commit long after it read the account; unless
credentials were entered while one was out, every check is of the present entry
(`ChecksAreFresh`) and what it is about to write is on record
(`ChecksAreRecorded`).

*CarrierCall.* `Counted` ties the number of requests sent and of authorisations
to the rung of the ladder and the round of renewal a call is at; `Clean` says
that a token refused to a call is not the one it is about to send, unless the
call is at its end: names of tokens are issued upwards, and a call that was
refused waits for a newer one. `LocksAreHeld`: who has `_auth_lock` is
authorising, so nobody else renews the token in between.

*CarrierOrders.* An attempt that books nothing changes nothing that is kept. What a
shipment keeps is an order that carries its number (`KeepsItsOwn` with the types of
the carrier's books). For `SearchIsReliable` the window of days a search asks for is
compared with the day the carrier files the order under, in its own time zone
(`DaysPass`, arithmetic of `\div`; `SettledIsFound`).

*CarrierQuotes.* At each product of an adapter that asks one by one, the offers made
so far are those of the products answered with a price, each at its price
(`OffersSoFar`), and a refusal is remembered by Pochta only, which is why
elsewhere nothing was refused before the place a request has reached
(`RefusalsSoFar`). A request that ends is judged with the whole list answered.
The list of products itself is a fold over what was wished for; that it is a
sequence of products the carrier knows is shown by the least place at which it
would not be (`TakingExists`, `KnownIsSequence`). The tax is arithmetic over
`QuotesAssumption`: an answer of Pochta that shows its parts is without the tax
or with it (`PricesAreTaxed`).

### Only model-checked

* Liveness (`GhostResolved`, `StatusConverges`, `EventuallySettled`, `PendingEnds`,
  `FilesExpire`, `RequestEnds`), which the prover does not handle under fairness.
* The two properties that the code violates (section 4), of which a counterexample
  is the point.

Every safety property the passing runs check is proved. Those about what a fold,
a sum or a sorting computes for every input would need induction over data, for
which the library's theorems (with an operator as a parameter) cannot be
instantiated; the way round it is the least number, or the smallest set, at which
the claim fails, and counting instead of sorting (`ByPriority`, `Sorted`). The
definitions of the model that sorted by `SortSeq` were rewritten for that, with
the same runs passing before and after.

## 6. Not modelled

Per component in `PROJECT.json`. In short:

* *Reading only*: billing and reports (aggregates in SQL), the exceptions list,
  the archive, the display and comparison of offers, the preview of a rule, the
  presentation of scores. They store nothing and wait for nothing.
* *Data*: money frozen in a shipment, cargo, markup, the texts of errors. The
  formats of the carriers field by field and the tables that map their statuses
  are covered by the contract tests; labels are one format (CDEK's sizes and the
  others' A4 differ in layout only).
* *Names*: normalisation and similarity of names, and keys of FIAS of different
  levels, are values of constants in `Directory`.
* *Libraries and I/O*: passwords, tokens, encryption, the signature of
  webhooks (no adapter accepts an inbound one: `verify_webhook` refuses
  everywhere, so the inbound webhook of `Tracking` is what the code does once
  one does), the address service, the log of raw calls and its purge by date,
  logging, the calendar, the wiring of the application.
* *History*: quotes made before the migration that froze the verdict of the
  rules with them; the migrations otherwise than as the constraints and
  policies they leave.
* *Small writes*: renaming a bulk run, subscribing to webhooks, the notice that
  a shipment is late, the list of users, the audit log.
* *Frontend and deployment*: no state the backend relies on.
* *Meetings of components*: two tenants on one carrier contract, which matters
  because `find_by_number` knows only the number; a bulk run over the races of
  `Shipments` (`Bulk` takes `create` as one step that may fail after its
  commit); the common deadline of a price request over the ladder of repeats.
