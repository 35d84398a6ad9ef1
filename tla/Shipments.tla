------------------------------ MODULE Shipments ------------------------------
(***************************************************************************)
(* Creation, cancellation, reconciliation and polling of the shipments of  *)
(* one tenant at one carrier: shipments/service.py, shipments/models.py,   *)
(* the tasks of worker/tasks.py that call it and the retries of            *)
(* carriers/http.py.                                                       *)
(*                                                                         *)
(* A handler is a coroutine: between two of its awaits every other handler *)
(* may run, so each stretch of code between two awaits that matter is an   *)
(* action, and the locals that survive an await are kept in its job.       *)
(***************************************************************************)
EXTENDS Naturals, FiniteSets

CONSTANTS
    Keys,           \* idempotency keys; a row is identified by its key
    Decisions,      \* decisions of the Decision Engine
    ClientNumbers,  \* numbers a client may give in payload.external_id
    Requests,       \* the create requests that clients send
    OrderIds,       \* identifiers the carrier can give to orders (a bound)
    Handlers,       \* HTTP request handlers (the bound on concurrent requests)
    Sweepers,       \* runs of the task reconcile_ghost_shipments
    Polls,          \* runs of the task poll_shipment_statuses (they may overlap)
    Hooks,          \* inbound webhook requests
    MaxAttempts,    \* max_attempts of CarrierHttpClient
    ReconcileLimit, \* the limit of reconcile_unconfirmed
    None            \* SQL NULL, Python None

Workers == Handlers \cup Sweepers
Trackers == Polls \cup Hooks

\* The number of a shipment: the client's own, or one derived from the key
\* (a hash of the key, taken here to be injective).
Derived(k) == <<"AG", k>>
Numbers == ClientNumbers \cup {Derived(k) : k \in Keys}

ASSUME KeysFinite == IsFiniteSet(Keys)
ASSUME AttemptsPositive == MaxAttempts \in Nat \ {0}
ASSUME LimitPositive == ReconcileLimit \in Nat \ {0}
ASSUME TrackersDiffer == Polls \cap Hooks = {}
ASSUME RequestsWellFormed ==
    Requests \subseteq [key : Keys, decision : Decisions,
                        external_id : ClientNumbers \cup {None}]
FinalStatuses == {"DELIVERED", "RETURNED", "CANCELLED"}
CarrierStatuses == {"IN_TRANSIT"} \cup FinalStatuses
Statuses == {"DRAFT", "CREATED", "ACCEPTED"} \cup CarrierStatuses

Row == [number : Numbers, decision : Decisions, status : Statuses,
        external_id : OrderIds \cup {None}, polled : BOOLEAN, cancelled : BOOLEAN,
        created_at : Nat]

\* An order in the carrier's books: our number, whether the carrier has
\* accepted a refusal of it, and the statuses of its tracking events.
Order == [number : Numbers, refused : BOOLEAN, events : SUBSET CarrierStatuses]

ASSUME NoneIsNoValue ==
    /\ None \notin Keys \cup OrderIds \cup ClientNumbers \cup Statuses
    /\ None \notin Row /\ None \notin Order

Steps == {"idle", "prepare", "draft", "find", "creating", "apply",
          "cancel_find", "cancel_call", "cancel_store", "sweep", "sweep_apply"}

VARIABLES
    rows,   \* table shipments: key -> row, or None while there is no row
    orders, \* the carrier's orders: order id -> order, or None
    late,   \* numbers of the POSTs still on their way to the carrier
    job,    \* what each worker is doing
    session \* the transactions in which polls and webhooks write

vars == <<rows, orders, late, job, session>>

\* A worker's next step and the locals that survive an await: the payload it
\* handles, the shipment it works on (its key and number), the order id it got
\* from the carrier or from the row, the attempt of POST /orders under way, and
\* the drafts a reconciliation run has still to look at.
Job == [step : Steps, request : Requests \cup {None}, shipment : Keys \cup {None},
        number : Numbers \cup {None}, found : OrderIds \cup {None}, attempt : Nat, todo : SUBSET Keys]

Idle == [step |-> "idle", request |-> None, shipment |-> None, number |-> None,
         found |-> None, attempt |-> 0, todo |-> {}]

\* A session of a poll or a webhook: the shipments it has still to ask about,
\* the order the webhook speaks of, the rows as they were loaded, and the rows as it would leave
\* them (None where it has not projected anything).
Session == [step : {"found", "open"}, todo : SUBSET Keys, order : OrderIds \cup {None},
            loaded : [Keys -> Row \cup {None}], new : [Keys -> Row \cup {None}]]

Closed == [step |-> "closed"]
Nothing == [k \in Keys |-> None]

-----------------------------------------------------------------------------
Number(r) == IF r.external_id # None THEN r.external_id ELSE Derived(r.key)

Exists(k) == rows[k] # None
IsDraft(k) == Exists(k) /\ rows[k].status = "DRAFT" /\ rows[k].external_id = None
Placed(o) == orders[o] # None

\* Mutant of Unconfirmed: the condition of due_for_poll on next_poll_at copied.
UnconfirmedDue == {k \in Keys : IsDraft(k) /\ rows[k].polled}

\* ShipmentRepository.unconfirmed: the oldest drafts, at most ReconcileLimit.
Unconfirmed ==
    {k \in Keys : /\ IsDraft(k)
                  /\ Cardinality({j \in Keys : IsDraft(j) /\ rows[j].created_at < rows[k].created_at})
                         < ReconcileLimit}

\* Mutant of FindByNumber: the first order of the answer, whatever its number.
FindAny(n) == LET hits == {o \in OrderIds : Placed(o)} IN IF hits = {} THEN {None} ELSE hits

\* What find_by_number(number) can answer: any order with that number, refused
\* or not, and None only if the carrier has none.
FindByNumber(n) ==
    LET hits == {o \in OrderIds : Placed(o) /\ orders[o].number = n}
    IN  IF hits = {} THEN {None} ELSE hits

\* Mutants of Applied: the status is forgotten; the shipment is not put in the
\* polling queue.
AppliedSameStatus(row, o, status) == [row EXCEPT !.external_id = o, !.polled = TRUE]
AppliedUnpolled(row, o, status) == [row EXCEPT !.external_id = o, !.status = status]

\* _apply: the carrier's answer is written over the row, whatever its status.
Applied(row, o, status) ==
    [row EXCEPT !.external_id = o, !.status = status, !.polled = TRUE]

\* _project in outline: the status becomes that of the latest event, and a
\* final status ends polling. The timeline itself is modelled in Tracking.
Projected(row, event) ==
    LET status == IF event = None THEN row.status ELSE event
    IN  [row EXCEPT !.status = status, !.polled = status \notin FinalStatuses]

\* The UPDATE of a session that loaded `loaded` and leaves `new` names the columns that differ: the
\* status if it changed, next_poll_at if it is a moment (a new one) or was one.
Updated(row, loaded, new) ==
    [row EXCEPT !.status = IF new.status # loaded.status THEN new.status ELSE @,
                !.polled = IF new.polled \/ loaded.polled THEN new.polled ELSE @]

NewOrder(n) == [number |-> n, refused |-> FALSE, events |-> {}]

At(w, step) == job[w].step = step
Become(w, j) == job' = [job EXCEPT ![w] = j]
Finish(w) == Become(w, Idle)

-----------------------------------------------------------------------------
Init ==
    /\ rows = [k \in Keys |-> None]
    /\ orders = [o \in OrderIds |-> None]
    /\ late = {}
    /\ job = [w \in Workers |-> Idle]
    /\ session = [t \in Trackers |-> Closed]

-----------------------------------------------------------------------------
(* create *)

\* The key is new: go on to check the decision.
LookupNew(w, r) ==
    /\ At(w, "idle")
    /\ ~Exists(r.key)
    /\ Become(w, [Idle EXCEPT !.step = "prepare", !.request = r,
                             !.shipment = r.key, !.number = Number(r)])
    /\ UNCHANGED <<rows, orders, late, session>>

\* The key is known, the request is the same (_ensure_same_request) and the
\* first attempt was never confirmed: reconcile before creating. The other
\* outcomes (409, or the shipment as it stands) change nothing.
LookupUnconfirmed(w, r) ==
    /\ At(w, "idle")
    /\ Exists(r.key)
    /\ rows[r.key].decision = r.decision /\ rows[r.key].number = Number(r)
    /\ rows[r.key].external_id = None
    /\ Become(w, [Idle EXCEPT !.step = "find", !.shipment = r.key, !.number = Number(r)])
    /\ UNCHANGED <<rows, orders, late, session>>

\* Mutant of Prepare: the carrier is called before the draft is committed.
PrepareAndCall(w) ==
    /\ At(w, "prepare")
    /\ LET r == job[w].request
           taken == \E k \in Keys : Exists(k) /\ rows[k].decision = r.decision
       IN  Become(w, IF taken THEN Idle ELSE [job[w] EXCEPT !.step = "creating", !.attempt = 1])
    /\ UNCHANGED <<rows, orders, late, session>>

\* _prepare: one shipment per decision, one per number.
Prepare(w) ==
    /\ At(w, "prepare")
    /\ LET r == job[w].request
           taken == \E k \in Keys : Exists(k) /\ \/ rows[k].decision = r.decision
                                                 \/ rows[k].number = job[w].number
       IN  Become(w, IF taken THEN Idle ELSE [job[w] EXCEPT !.step = "draft"])
    /\ UNCHANGED <<rows, orders, late, session>>

\* The draft is committed in a transaction of its own. The table holds one
\* row per key and one per number; a second one is an IntegrityError.
CommitDraft(w) ==
    /\ At(w, "draft")
    /\ LET key == job[w].shipment
           unique == ~Exists(key) /\ \A k \in Keys : Exists(k) => rows[k].number # job[w].number
           draft == [number |-> job[w].number, decision |-> job[w].request.decision, status |-> "DRAFT",
                     external_id |-> None, polled |-> FALSE, cancelled |-> FALSE,
                     created_at |-> Cardinality({k \in Keys : Exists(k)})]
       IN  IF unique
             THEN /\ rows' = [rows EXCEPT ![key] = draft]
                  /\ Become(w, [job[w] EXCEPT !.step = "creating", !.request = None, !.attempt = 1])
             ELSE Finish(w) /\ UNCHANGED rows
    /\ UNCHANGED <<orders, late, session>>

\* _finish(reconcile=True): the carrier is asked first.
FindBeforeCreate(w) ==
    /\ At(w, "find")
    /\ \E answer \in FindByNumber(job[w].number) :
          Become(w, IF answer = None
                      THEN [job[w] EXCEPT !.step = "creating", !.attempt = 1]
                      ELSE [job[w] EXCEPT !.step = "apply", !.found = answer])
    /\ UNCHANGED <<rows, orders, late, session>>

\* adapter.create succeeds and its answer arrives.
OrderCreated(w, o) ==
    /\ At(w, "creating")
    /\ ~Placed(o)
    /\ orders' = [orders EXCEPT ![o] = NewOrder(job[w].number)]
    /\ Become(w, [job[w] EXCEPT !.step = "apply", !.found = o, !.attempt = 0])
    /\ UNCHANGED <<rows, late, session>>

\* The answer to POST /orders does not arrive in time; the request stays on
\* its way (LateOrder or LateDropped decides its fate). CarrierHttpClient
\* repeats the POST until MaxAttempts, then raises CarrierTimeout.
CreateTimeout(w) ==
    /\ At(w, "creating")
    /\ late' = late \cup {job[w].number}
    /\ IF job[w].attempt < MaxAttempts
         THEN Become(w, [job[w] EXCEPT !.attempt = @ + 1])
         ELSE Finish(w)
    /\ UNCHANGED <<rows, orders, session>>

\* _finish: the answer is written in a transaction of its own.
Apply(w) ==
    /\ At(w, "apply")
    /\ \E status \in {"CREATED", "ACCEPTED"} :
          rows' = [rows EXCEPT ![job[w].shipment] = Applied(@, job[w].found, status)]
    /\ Finish(w)
    /\ UNCHANGED <<orders, late, session>>

-----------------------------------------------------------------------------
(* cancel *)

CancelRead(w, k) ==
    /\ At(w, "idle")
    /\ Exists(k)
    /\ rows[k].status \notin FinalStatuses
    /\ LET o == rows[k].external_id
       IN  Become(w, [Idle EXCEPT !.step = IF o = None THEN "cancel_find" ELSE "cancel_call",
                                  !.shipment = k, !.number = rows[k].number, !.found = o])
    /\ UNCHANGED <<rows, orders, late, session>>

\* A draft may have an order whose answer was lost.
CancelFind(w) ==
    /\ At(w, "cancel_find")
    /\ \E answer \in FindByNumber(job[w].number) :
          Become(w, [job[w] EXCEPT !.step = IF answer = None THEN "cancel_store" ELSE "cancel_call",
                                   !.found = answer])
    /\ UNCHANGED <<rows, orders, late, session>>

\* adapter.cancel: the carrier accepts a refusal until the journey ends. Its answer may
\* be lost after the refusal took effect, which ends the request with an error.
CancelCall(w) ==
    /\ At(w, "cancel_call")
    /\ orders[job[w].found].events \cap {"DELIVERED", "RETURNED"} = {}
    /\ orders' = [orders EXCEPT ![job[w].found].refused = TRUE]
    /\ \/ Become(w, [job[w] EXCEPT !.step = "cancel_store"])
       \/ Finish(w)
    /\ UNCHANGED <<rows, late, session>>

\* Mutant of CancelStore: the answer is written even if the carrier had none.
CancelStoreAnswer(w) ==
    /\ At(w, "cancel_store")
    /\ rows' = [rows EXCEPT ![job[w].shipment].status = "CANCELLED",
                            ![job[w].shipment].cancelled = TRUE,
                            ![job[w].shipment].external_id = job[w].found]
    /\ Finish(w)
    /\ UNCHANGED <<orders, late, session>>

\* The row becomes CANCELLED, with its moment in cancelled_at; next_poll_at and the row's
\* present status are not looked at.
CancelStore(w) ==
    /\ At(w, "cancel_store")
    /\ LET o == job[w].found
       IN  rows' = [rows EXCEPT ![job[w].shipment].status = "CANCELLED",
                                ![job[w].shipment].cancelled = TRUE,
                                ![job[w].shipment].external_id = IF o = None THEN @ ELSE o]
    /\ Finish(w)
    /\ UNCHANGED <<orders, late, session>>

-----------------------------------------------------------------------------
(* reconcile_unconfirmed *)

SweepOn(w, j) == Become(w, IF j.todo = {} THEN Idle ELSE j)

SweepStart(w) ==
    /\ At(w, "idle")
    /\ Unconfirmed # {}
    /\ Become(w, [Idle EXCEPT !.step = "sweep", !.todo = Unconfirmed])
    /\ UNCHANGED <<rows, orders, late, session>>

\* The carrier is asked about one draft of the list.
SweepFind(w, k) ==
    /\ At(w, "sweep") /\ k \in job[w].todo
    /\ LET rest == job[w].todo \ {k}
       IN  \E answer \in FindByNumber(rows[k].number) :
             IF answer = None
               THEN SweepOn(w, [job[w] EXCEPT !.todo = rest])
               ELSE Become(w, [job[w] EXCEPT !.step = "sweep_apply", !.shipment = k,
                                             !.found = answer, !.todo = rest])
    /\ UNCHANGED <<rows, orders, late, session>>

\* adapter_for or find_by_number raises: the task goes on to the next draft.
SweepSkip(w, k) ==
    /\ At(w, "sweep") /\ k \in job[w].todo
    /\ SweepOn(w, [job[w] EXCEPT !.todo = @ \ {k}])
    /\ UNCHANGED <<rows, orders, late, session>>

SweepApply(w) ==
    /\ At(w, "sweep_apply")
    /\ \E status \in {"CREATED", "ACCEPTED"} :
          rows' = [rows EXCEPT ![job[w].shipment] = Applied(@, job[w].found, status)]
    /\ SweepOn(w, [job[w] EXCEPT !.step = "sweep", !.shipment = None, !.found = None])
    /\ UNCHANGED <<orders, late, session>>

-----------------------------------------------------------------------------
(* poll and inbound webhook *)

\* _poll_tenant: one session loads every shipment that is due; due_for_poll
\* does not look at the status, only at next_poll_at.
PollBegin(t) ==
    LET due == {k \in Keys : Exists(k) /\ rows[k].external_id # None /\ rows[k].polled}
    IN  /\ t \in Polls /\ session[t] = Closed
        /\ due # {}
        /\ session' = [session EXCEPT ![t] =
              [step |-> "open", todo |-> due, order |-> None, new |-> Nothing,
               loaded |-> [k \in Keys |-> IF k \in due THEN rows[k] ELSE None]]]
        /\ UNCHANGED <<rows, orders, late, job>>

\* find_for_webhook, a transaction of its own, finds the row by the order's id,
\* whatever its status.
HookFind(t, k) ==
    /\ t \in Hooks /\ session[t] = Closed
    /\ Exists(k) /\ rows[k].external_id # None
    /\ orders[rows[k].external_id].events # {}
    /\ session' = [session EXCEPT ![t] =
          [step |-> "found", todo |-> {k}, order |-> rows[k].external_id,
           loaded |-> Nothing, new |-> Nothing]]
    /\ UNCHANGED <<rows, orders, late, job>>

\* The second transaction loads the row.
HookBegin(t) ==
    /\ session[t].step = "found"
    /\ session' = [session EXCEPT ![t].step = "open",
          ![t].loaded = [k \in Keys |-> IF k \in session[t].todo THEN rows[k] ELSE None]]
    /\ UNCHANGED <<rows, orders, late, job>>

\* track and ingest of one shipment, on the row as it was loaded. The timeline
\* ends with any event the order has had: a webhook may be late, and an answer
\* is as old as the call. A poll may find no event at all.
Track(t, k) ==
    LET s == session[t]
        o == IF t \in Hooks THEN s.order ELSE s.loaded[k].external_id
    IN  /\ s.step = "open" /\ k \in s.todo
        /\ \E event \in orders[o].events \cup (IF t \in Polls THEN {None} ELSE {}) :
              session' = [session EXCEPT ![t].todo = @ \ {k},
                                         ![t].new[k] = Projected(s.loaded[k], event)]
        /\ UNCHANGED <<rows, orders, late, job>>

\* adapter_for or track raises: the pass goes on to the next shipment.
TrackSkip(t, k) ==
    /\ t \in Polls /\ session[t].step = "open" /\ k \in session[t].todo
    /\ session' = [session EXCEPT ![t].todo = @ \ {k}]
    /\ UNCHANGED <<rows, orders, late, job>>

\* The commit writes the changed columns over whatever the rows are by now.
TrackCommit(t) ==
    /\ session[t].step = "open" /\ session[t].todo = {}
    /\ rows' = [k \in Keys |->
          IF session[t].new[k] = None THEN rows[k]
          ELSE Updated(rows[k], session[t].loaded[k], session[t].new[k])]
    /\ session' = [session EXCEPT ![t] = Closed]
    /\ UNCHANGED <<orders, late, job>>

\* The signature does not match, the connection breaks, or the process dies.
TrackRollback(t) ==
    /\ session[t] # Closed
    /\ session' = [session EXCEPT ![t] = Closed]
    /\ UNCHANGED <<rows, orders, late, job>>

-----------------------------------------------------------------------------
(* failures and the carrier *)

\* An await raises (adapter_for, the carrier's refusal, a broken connection) or
\* the process dies: the worker stops where it is. What it committed stays; a
\* POST it had sent may still reach the carrier.
Abort(w) ==
    /\ ~At(w, "idle")
    /\ \/ UNCHANGED late
       \/ At(w, "creating") /\ late' = late \cup {job[w].number}
    /\ Finish(w)
    /\ UNCHANGED <<rows, orders, session>>

\* A POST nobody waits for any more reaches the carrier after all...
LateOrder(n, o) ==
    /\ n \in late /\ ~Placed(o)
    /\ orders' = [orders EXCEPT ![o] = NewOrder(n)]
    /\ late' = late \ {n}
    /\ UNCHANGED <<rows, job, session>>

\* ... or is lost, or rejected.
LateDropped(n) ==
    /\ n \in late
    /\ late' = late \ {n}
    /\ UNCHANGED <<rows, orders, job, session>>

\* The carrier moves the cargo, or confirms the refusal by an event.
CarrierEvent(o) ==
    /\ Placed(o)
    /\ \E event \in CarrierStatuses :
          /\ CASE event = "IN_TRANSIT" -> orders[o].events = {} /\ ~orders[o].refused
               [] event = "DELIVERED"  -> orders[o].events = {"IN_TRANSIT"} /\ ~orders[o].refused
               [] event = "RETURNED"   -> orders[o].events = {"IN_TRANSIT"}
               [] event = "CANCELLED"  -> orders[o].events \subseteq {"IN_TRANSIT"} /\ orders[o].refused
          /\ orders' = [orders EXCEPT ![o].events = @ \cup {event}]
    /\ UNCHANGED <<rows, late, job, session>>

-----------------------------------------------------------------------------
Create(w) ==
    \/ \E r \in Requests : LookupNew(w, r) \/ LookupUnconfirmed(w, r)
    \/ Prepare(w) \/ CommitDraft(w) \/ FindBeforeCreate(w)
    \/ \E o \in OrderIds : OrderCreated(w, o)
    \/ CreateTimeout(w) \/ Apply(w)

Cancel(w) ==
    \/ \E k \in Keys : CancelRead(w, k)
    \/ CancelFind(w) \/ CancelCall(w) \/ CancelStore(w)

Sweep(w) ==
    \/ SweepStart(w) \/ SweepApply(w)
    \/ \E k \in Keys : SweepFind(w, k) \/ SweepSkip(w, k)

Handler == \E w \in Handlers : Create(w) \/ Cancel(w) \/ Abort(w)
Sweeper == \E w \in Sweepers : Sweep(w) \/ Abort(w)

\* What a poll or a webhook does.
Follow(t) ==
    \/ PollBegin(t) \/ HookBegin(t) \/ TrackCommit(t) \/ TrackRollback(t)
    \/ \E k \in Keys : HookFind(t, k) \/ Track(t, k) \/ TrackSkip(t, k)

Tracking == \E t \in Trackers : Follow(t)
Carrier ==
    \/ \E n \in Numbers : LateDropped(n) \/ \E o \in OrderIds : LateOrder(n, o)
    \/ \E o \in OrderIds : CarrierEvent(o)

Next == Handler \/ Sweeper \/ Tracking \/ Carrier

Spec == Init /\ [][Next]_vars

\* Celery runs the reconciliation task again and again (every ten minutes, and
\* again after a lost worker), a carrier that is asked again and again answers
\* some day, and a transaction tried again and again commits some day. Nothing
\* is assumed of clients, handlers, polls, or what the carrier does by itself.
Fairness ==
    \A w \in Sweepers : /\ WF_vars(SweepStart(w))
                         /\ \A k \in Keys : SF_vars(SweepFind(w, k))
                         /\ SF_vars(SweepApply(w))

FairSpec == Spec /\ Fairness

-----------------------------------------------------------------------------
(* Properties *)

\* Rows, orders, late POSTs and jobs have the shape their columns and locals have.
TypeOK ==
    /\ rows \in [Keys -> Row \cup {None}]
    /\ orders \in [OrderIds -> Order \cup {None}]
    /\ late \subseteq Numbers
    /\ job \in [Workers -> Job]
    /\ session \in [Trackers -> Session \cup {Closed}]

HasRow(n) == \E k \in Keys : Exists(k) /\ rows[k].number = n

\* The module's docstring: no row, no call to the carrier. Whatever crashed,
\* timed out or raced, the number of every order the carrier holds, and of
\* every POST still on its way, is that of a committed row.
NoOrderWithoutRow ==
    /\ \A o \in OrderIds : Placed(o) => HasRow(orders[o].number)
    /\ \A n \in late : HasRow(n)

\* One row per number (uq_shipments_tenant_id_number).
NumbersAreUnique ==
    \A j, k \in Keys : Exists(j) /\ Exists(k) /\ rows[j].number = rows[k].number => j = k

\* The order a row names is in the carrier's books under the row's number.
LinkIsTrue ==
    \A k \in Keys : LET o == rows[k].external_id
                   IN  Exists(k) /\ o # None => Placed(o) /\ orders[o].number = rows[k].number

\* o is an order of the shipment k.
OrderOf(o, k) == o \in OrderIds /\ Placed(o) /\ orders[o].number = rows[k].number

\* What a worker remembers across an await stays true while it waits.
JobTrue(w) ==
    LET j == job[w]
    IN  /\ j.step \in {"prepare", "draft"} =>
             j.request \in Requests /\ j.shipment = j.request.key /\ j.number = Number(j.request)
        /\ j.step \in {"find", "creating", "apply", "cancel_find", "cancel_call", "cancel_store"} =>
             j.shipment \in Keys /\ Exists(j.shipment) /\ j.number = rows[j.shipment].number
        /\ j.step = "sweep_apply" => j.shipment \in Keys /\ Exists(j.shipment)
        /\ j.step \in {"apply", "cancel_call", "sweep_apply"} => OrderOf(j.found, j.shipment)
        /\ j.step = "cancel_store" => j.found = None \/ OrderOf(j.found, j.shipment)
        /\ \A k \in j.todo : Exists(k)

JobsAreTrue == \A w \in Workers : JobTrue(w)

\* What a session has loaded are rows with orders of their own.
SessionTrue(t) ==
    LET s == session[t]
    IN  s # Closed =>
          /\ \A k \in s.todo : Exists(k) /\ rows[k].external_id # None
          /\ t \in Hooks => \A k \in s.todo : OrderOf(s.order, k)
          /\ s.step = "open" => \A k \in s.todo : s.loaded[k] # None
          /\ s.step = "found" => \A k \in Keys : s.new[k] = None
          /\ \A k \in Keys : s.loaded[k] # None =>
                /\ Exists(k) /\ rows[k].external_id # None
                /\ OrderOf(s.loaded[k].external_id, k)
          /\ \A k \in Keys : s.new[k] # None => s.loaded[k] # None

SessionsAreTrue == \A t \in Trackers : SessionTrue(t)

\* The inductive invariant from which the theorems of ShipmentsProofs follow:
\* the rows name true orders, and what workers and sessions remember survives
\* their awaits.
Inductive ==
    /\ TypeOK /\ NoOrderWithoutRow /\ NumbersAreUnique /\ LinkIsTrue
    /\ JobsAreTrue /\ SessionsAreTrue

\* A row never names an order of another shipment: the order it is linked to
\* exists at the carrier and carries the row's own number, so the constraint
\* uq_shipments_carrier_id_external_id never fires.
LinkedOrderIsOwn ==
    \A k \in Keys : LET o == rows[k].external_id
                   IN  Exists(k) /\ o # None =>
                         /\ Placed(o) /\ orders[o].number = rows[k].number
                         /\ \A j \in Keys \ {k} : Exists(j) => rows[j].external_id # o

\* unconfirmed() finds every row without an order that was not cancelled, and
\* no other: DRAFT and external_id IS NULL cannot come apart.
UnconfirmedIsDraft ==
    \A k \in Keys : Exists(k) /\ rows[k].status # "CANCELLED" =>
        (rows[k].status = "DRAFT" <=> rows[k].external_id = None)

\* An order of the shipment has ended: delivered, returned or cancelled.
Over(k) == \E o \in OrderIds : OrderOf(o, k) /\ orders[o].events \cap FinalStatuses # {}

\* Nothing more is to be learnt of the shipment, or somebody has cancelled it.
Ended(k) == rows[k].cancelled \/ Over(k)

\* A row of k, stored, loaded or about to be written, is a draft exactly if it has no order,
\* and is final or out of the polling queue only if the shipment has ended.
RowHonest(k, row) ==
    /\ row.status # "CANCELLED" => (row.status = "DRAFT" <=> row.external_id = None)
    /\ row.status \in FinalStatuses => Ended(k)
    /\ row.external_id # None /\ ~row.polled => Ended(k)

\* With Inductive, the inductive invariant of UnconfirmedIsDraft and PolledUntilTheEnd.
AllHonest ==
    /\ \A k \in Keys : Exists(k) => RowHonest(k, rows[k])
    /\ \A t \in Trackers : session[t] # Closed =>
          \A k \in Keys : \A row \in {session[t].loaded[k], session[t].new[k]} :
             row # None => row.external_id # None /\ RowHonest(k, row)

\* "While no poll is due the task does not see the shipment" (the comment in
\* _apply): a shipment with an order that nobody has cancelled stays in the
\* polling queue until an order of it has ended, however the writes of sessions
\* that loaded it minutes ago fall between those of handlers and the sweep.
PolledUntilTheEnd ==
    \A k \in Keys : Exists(k) /\ rows[k].external_id # None /\ ~rows[k].polled
                        => rows[k].cancelled \/ Over(k)

\* The same of what the row shows: a shipment with an order and a status that
\* is not final is in the polling queue.
ActiveIsPolled ==
    \A k \in Keys :
        Exists(k) /\ rows[k].external_id # None /\ rows[k].status \notin FinalStatuses
            => rows[k].polled

\* A draft whose order exists at the carrier: nobody but the carrier knows of it.
Ghost(k) == IsDraft(k) /\ \E o \in OrderIds : Placed(o) /\ orders[o].number = rows[k].number

\* "There are no ghosts" (the module's docstring), without the client's help: a
\* draft whose order exists at the carrier some day stops being a draft, linked
\* to the order by the reconciliation task unless a retry or a cancellation was
\* first.
GhostResolved == \A k \in Keys : Ghost(k) ~> ~IsDraft(k)

\* create's docstring: however often a request is repeated with its key, the
\* carrier gets one order for it.
OneOrderPerShipment ==
    \A p, q \in OrderIds : Placed(p) /\ Placed(q) /\ p # q => orders[p].number # orders[q].number

\* "One decision, one shipment" (_prepare and by_decision).
OneShipmentPerDecision ==
    \A j, k \in Keys : Exists(j) /\ Exists(k) /\ j # k => rows[j].decision # rows[k].decision

\* The statuses "a shipment does not leave any more" (shipments/repository.py).
FinalStatusIsKept ==
    [][\A k \in Keys : Exists(k) /\ rows[k].status \in FinalStatuses
                          => rows'[k].status = rows[k].status]_vars

\* No ghosts after a cancellation: once nobody works on a cancelled shipment
\* and nothing of it is on its way, the carrier holds no live order for it.
CancelledHasNoLiveOrder ==
    \A k \in Keys :
        /\ Exists(k) /\ rows[k].status = "CANCELLED"
        /\ rows[k].number \notin late /\ \A w \in Workers : job[w].shipment # k
        => \A o \in OrderIds : Placed(o) /\ orders[o].number = rows[k].number => orders[o].refused
=============================================================================
