--------------------------- MODULE ShipmentsProofs ---------------------------
(* Theorems about Shipments and ShipmentsLedger, for every value of the      *)
(* constants.                                                                 *)
EXTENDS ShipmentsLedger, TLAPS, FiniteSetTheorems

\* The values of a row, an order and a number are not None.
LEMMA NumberType == \A r \in Requests : r.key \in Keys /\ r.decision \in Decisions /\ Number(r) \in Numbers
BY RequestsWellFormed, NoneIsNoValue DEF Number, Numbers

\* The position of a draft in the order of creation is a number.
LEMMA CreatedAtType == Cardinality({k \in Keys : Exists(k)}) \in Nat
BY KeysFinite, FS_Subset, FS_CardinalityType

\* A step changes the job of one worker at most, to a value of the right type.
LEMMA BecomeType ==
    ASSUME TypeOK, NEW w \in Workers, NEW j \in Job, Become(w, j)
    PROVE  job' \in [Workers -> Job]
BY DEF TypeOK, Become

\* A worker that does nothing has no job.
LEMMA IdleType == Idle \in Job
BY DEF Idle, Job, Steps

\* A row that takes the answer of the carrier is a row.
LEMMA AppliedType ==
    ASSUME NEW row \in Row, NEW o \in OrderIds, NEW status \in Statuses
    PROVE  Applied(row, o, status) \in Row
BY DEF Applied, Row

\* A row that takes the status of an event is a row.
LEMMA ProjectedType ==
    ASSUME NEW row \in Row, NEW event \in CarrierStatuses \cup {None}
    PROVE  Projected(row, event) \in Row
BY DEF Projected, Row, Statuses, CarrierStatuses, FinalStatuses

-----------------------------------------------------------------------------
(* Type correctness. A step's new values have the right types only because   *)
(* the locals that survived an await still fit the rows and the orders.      *)

\* What the job of a worker that is past CommitDraft is about.
LEMMA JobFacts ==
    ASSUME Inductive, NEW w \in Workers
    PROVE  /\ job[w] \in Job
           /\ job[w].step \in {"prepare", "draft"} =>
                /\ job[w].request \in Requests /\ job[w].shipment = job[w].request.key
                /\ job[w].number = Number(job[w].request)
                /\ job[w].shipment \in Keys /\ job[w].number \in Numbers
                /\ job[w].request.decision \in Decisions
           /\ job[w].step \in {"find", "creating", "apply", "cancel_find", "cancel_call", "cancel_store"} =>
                /\ job[w].shipment \in Keys /\ rows[job[w].shipment] \in Row
                /\ job[w].number = rows[job[w].shipment].number /\ job[w].number \in Numbers
           /\ job[w].step = "sweep_apply" =>
                job[w].shipment \in Keys /\ rows[job[w].shipment] \in Row
           /\ job[w].step \in {"apply", "cancel_call", "sweep_apply"} =>
                job[w].found \in OrderIds /\ orders[job[w].found] \in Order
<1>1. TypeOK /\ JobTrue(w)
  BY DEF Inductive, JobsAreTrue
<1>2. job[w] \in Job
  BY <1>1 DEF TypeOK
<1>3. \A k \in Keys : Exists(k) => rows[k] \in Row /\ rows[k].number \in Numbers
  BY <1>1 DEF TypeOK, Exists, Row
<1>4. \A o \in OrderIds : Placed(o) => orders[o] \in Order
  BY <1>1 DEF TypeOK, Placed
<1> QED BY <1>1, <1>2, <1>3, <1>4, NumberType DEF JobTrue, OrderOf

\* The handlers that create shipments keep the types.
LEMMA CreateType ==
    ASSUME Inductive, NEW w \in Workers, Create(w)
    PROVE  TypeOK'
<1> USE IdleType
<1> TypeOK /\ job[w] \in Job
  BY JobFacts DEF Inductive
<1>1. ASSUME NEW r \in Requests, LookupNew(w, r) PROVE TypeOK'
  <2>1. [Idle EXCEPT !.step = "prepare", !.request = r,
                     !.shipment = r.key, !.number = Number(r)] \in Job
    BY NumberType DEF Job, Steps, Idle
  <2> QED BY <1>1, <2>1, BecomeType DEF LookupNew, TypeOK
<1>2. ASSUME NEW r \in Requests, LookupUnconfirmed(w, r) PROVE TypeOK'
  <2>1. [Idle EXCEPT !.step = "find", !.shipment = r.key, !.number = Number(r)] \in Job
    BY NumberType DEF Job, Steps, Idle
  <2> QED BY <1>2, <2>1, BecomeType DEF LookupUnconfirmed, TypeOK
<1>3. ASSUME Prepare(w) PROVE TypeOK'
  <2>1. [job[w] EXCEPT !.step = "draft"] \in Job
    BY DEF Job, Steps
  <2> QED BY <1>3, <2>1, BecomeType DEF Prepare, TypeOK
<1>4. ASSUME CommitDraft(w) PROVE TypeOK'
  <2> DEFINE draft == [number |-> job[w].number, decision |-> job[w].request.decision,
                       status |-> "DRAFT", external_id |-> None, polled |-> FALSE,
                       cancelled |-> FALSE, created_at |-> Cardinality({k \in Keys : Exists(k)})]
  <2>1. draft \in Row
    BY <1>4, JobFacts, CreatedAtType DEF CommitDraft, At, Row, Statuses
  <2>2. [job[w] EXCEPT !.step = "creating", !.request = None, !.attempt = 1] \in Job
    BY DEF Job, Steps
  <2>3. \/ rows' = [rows EXCEPT ![job[w].shipment] = draft]
        \/ rows' = rows
    BY <1>4 DEF CommitDraft
  <2>4. rows' \in [Keys -> Row \cup {None}]
    BY <2>1, <2>3 DEF TypeOK
  <2>5. job' \in [Workers -> Job]
    BY <1>4, <2>2, BecomeType DEF CommitDraft, Finish
  <2> QED BY <1>4, <2>4, <2>5 DEF CommitDraft, TypeOK
<1>5. ASSUME FindBeforeCreate(w) PROVE TypeOK'
  <2>1. PICK answer \in FindByNumber(job[w].number) :
          Become(w, IF answer = None
                      THEN [job[w] EXCEPT !.step = "creating", !.attempt = 1]
                      ELSE [job[w] EXCEPT !.step = "apply", !.found = answer])
    BY <1>5 DEF FindBeforeCreate
  <2>2. answer \in OrderIds \cup {None}
    BY DEF FindByNumber
  <2>3. [job[w] EXCEPT !.step = "creating", !.attempt = 1] \in Job
    BY DEF Job, Steps
  <2>4. [job[w] EXCEPT !.step = "apply", !.found = answer] \in Job
    BY <2>2 DEF Job, Steps
  <2> QED BY <1>5, <2>1, <2>3, <2>4, BecomeType DEF FindBeforeCreate, TypeOK
<1>6. ASSUME NEW o \in OrderIds, OrderCreated(w, o) PROVE TypeOK'
  <2>1. NewOrder(job[w].number) \in Order
    BY <1>6, JobFacts DEF OrderCreated, At, NewOrder, Order
  <2>2. [job[w] EXCEPT !.step = "apply", !.found = o, !.attempt = 0] \in Job
    BY DEF Job, Steps
  <2> QED BY <1>6, <2>1, <2>2, BecomeType DEF OrderCreated, TypeOK
<1>7. ASSUME CreateTimeout(w) PROVE TypeOK'
  <2>1. [job[w] EXCEPT !.attempt = @ + 1] \in Job
    BY DEF Job
  <2>2. job' \in [Workers -> Job]
    BY <1>7, <2>1, BecomeType DEF CreateTimeout, Finish
  <2> QED BY <1>7, <2>2, JobFacts DEF CreateTimeout, At, TypeOK
<1>8. ASSUME Apply(w) PROVE TypeOK'
  <2>1. PICK status \in {"CREATED", "ACCEPTED"} :
          rows' = [rows EXCEPT ![job[w].shipment] = Applied(@, job[w].found, status)]
    BY <1>8 DEF Apply
  <2>2. Applied(rows[job[w].shipment], job[w].found, status) \in Row
    BY <1>8, JobFacts, AppliedType DEF Apply, At, Statuses
  <2> QED BY <1>8, <2>1, <2>2, BecomeType DEF Apply, Finish, TypeOK
<1> QED BY <1>1, <1>2, <1>3, <1>4, <1>5, <1>6, <1>7, <1>8 DEF Create

\* Cancellation keeps the types.
LEMMA CancelType ==
    ASSUME Inductive, NEW w \in Workers, Cancel(w)
    PROVE  TypeOK'
<1> USE IdleType
<1> TypeOK /\ job[w] \in Job
  BY JobFacts DEF Inductive
<1>1. ASSUME NEW k \in Keys, CancelRead(w, k) PROVE TypeOK'
  <2>1. rows[k] \in Row
    BY <1>1 DEF CancelRead, Exists, TypeOK
  <2>2. ASSUME NEW step \in Steps
        PROVE  [Idle EXCEPT !.step = step, !.shipment = k, !.number = rows[k].number,
                            !.found = rows[k].external_id] \in Job
    BY <2>1 DEF Idle, Job, Row
  <2>3. {"cancel_find", "cancel_call"} \subseteq Steps
    BY DEF Steps
  <2>4. job' \in [Workers -> Job]
    BY <1>1, <2>2, <2>3, BecomeType DEF CancelRead
  <2> QED BY <1>1, <2>4 DEF CancelRead, TypeOK
<1>2. ASSUME CancelFind(w) PROVE TypeOK'
  <2>1. PICK answer \in FindByNumber(job[w].number) :
          Become(w, [job[w] EXCEPT !.step = IF answer = None THEN "cancel_store" ELSE "cancel_call",
                                   !.found = answer])
    BY <1>2 DEF CancelFind
  <2>2. answer \in OrderIds \cup {None}
    BY DEF FindByNumber
  <2>3. ASSUME NEW step \in Steps PROVE [job[w] EXCEPT !.step = step, !.found = answer] \in Job
    BY <2>2 DEF Job
  <2>4. {"cancel_store", "cancel_call"} \subseteq Steps
    BY DEF Steps
  <2> QED BY <1>2, <2>1, <2>3, <2>4, BecomeType DEF CancelFind, TypeOK
<1>3. ASSUME CancelCall(w) PROVE TypeOK'
  <2>1. [job[w] EXCEPT !.step = "cancel_store"] \in Job
    BY DEF Job, Steps
  <2>2. job' \in [Workers -> Job]
    BY <1>3, <2>1, BecomeType DEF CancelCall, Finish
  <2>3. orders' \in [OrderIds -> Order \cup {None}]
    BY <1>3, JobFacts DEF CancelCall, At, TypeOK, Order
  <2> QED BY <1>3, <2>2, <2>3 DEF CancelCall, TypeOK
<1>4. ASSUME CancelStore(w) PROVE TypeOK'
  <2>1. rows[job[w].shipment] \in Row /\ job[w].shipment \in Keys
    BY <1>4, JobFacts DEF CancelStore, At
  <2>2. job[w].found \in OrderIds \cup {None}
    BY DEF Job
  <2>3. rows' \in [Keys -> Row \cup {None}]
    BY <1>4, <2>1, <2>2 DEF CancelStore, TypeOK, Row, Statuses, CarrierStatuses, FinalStatuses
  <2> QED BY <1>4, <2>3, BecomeType DEF CancelStore, Finish, TypeOK
<1> QED BY <1>1, <1>2, <1>3, <1>4 DEF Cancel

\* Reconciliation keeps the types.
LEMMA SweepType ==
    ASSUME Inductive, NEW w \in Workers, Sweep(w)
    PROVE  TypeOK'
<1> USE IdleType
<1> TypeOK /\ job[w] \in Job
  BY JobFacts DEF Inductive
<1>1. ASSUME NEW j \in Job, SweepOn(w, j) PROVE job' \in [Workers -> Job]
  BY <1>1, BecomeType DEF SweepOn
<1>2. ASSUME SweepStart(w) PROVE TypeOK'
  <2>1. [Idle EXCEPT !.step = "sweep", !.todo = Unconfirmed] \in Job
    BY DEF Idle, Job, Steps, Unconfirmed
  <2> QED BY <1>2, <2>1, BecomeType DEF SweepStart, TypeOK
<1>3. ASSUME NEW k \in Keys, SweepFind(w, k) PROVE TypeOK'
  <2> DEFINE rest == job[w].todo \ {k}
  <2>1. PICK answer \in FindByNumber(rows[k].number) :
          IF answer = None
            THEN SweepOn(w, [job[w] EXCEPT !.todo = rest])
            ELSE Become(w, [job[w] EXCEPT !.step = "sweep_apply", !.shipment = k,
                                          !.found = answer, !.todo = rest])
    BY <1>3 DEF SweepFind
  <2>2. answer \in OrderIds \cup {None}
    BY DEF FindByNumber
  <2>3. [job[w] EXCEPT !.todo = rest] \in Job
    BY DEF Job
  <2>4. [job[w] EXCEPT !.step = "sweep_apply", !.shipment = k, !.found = answer, !.todo = rest] \in Job
    BY <2>2 DEF Job, Steps
  <2>5. job' \in [Workers -> Job]
    BY <1>1, <2>1, <2>3, <2>4, BecomeType
  <2> QED BY <1>3, <2>5 DEF SweepFind, TypeOK
<1>4. ASSUME NEW k \in Keys, SweepSkip(w, k) PROVE TypeOK'
  <2>1. [job[w] EXCEPT !.todo = @ \ {k}] \in Job
    BY DEF Job
  <2> QED BY <1>1, <1>4, <2>1 DEF SweepSkip, TypeOK
<1>5. ASSUME SweepApply(w) PROVE TypeOK'
  <2>1. PICK status \in {"CREATED", "ACCEPTED"} :
          rows' = [rows EXCEPT ![job[w].shipment] = Applied(@, job[w].found, status)]
    BY <1>5 DEF SweepApply
  <2>2. Applied(rows[job[w].shipment], job[w].found, status) \in Row
    BY <1>5, JobFacts, AppliedType DEF SweepApply, At, Statuses
  <2>3. [job[w] EXCEPT !.step = "sweep", !.shipment = None, !.found = None] \in Job
    BY DEF Job, Steps
  <2>4. job' \in [Workers -> Job]
    BY <1>1, <1>5, <2>3 DEF SweepApply
  <2> QED BY <1>5, <2>1, <2>2, <2>4 DEF SweepApply, TypeOK
<1> QED BY <1>2, <1>3, <1>4, <1>5 DEF Sweep

\* An open session has loaded rows with orders, and asks about rows it has loaded.
LEMMA SessionFacts ==
    ASSUME Inductive, NEW t \in Trackers, session[t] # Closed
    PROVE  /\ session[t] \in Session
           /\ \A k \in session[t].todo : /\ k \in Keys /\ rows[k] \in Row
                                         /\ rows[k].external_id # None
           /\ \A k \in Keys : session[t].loaded[k] # None =>
                /\ session[t].loaded[k] \in Row /\ rows[k] \in Row
                /\ rows[k].external_id # None
                /\ OrderOf(session[t].loaded[k].external_id, k)
                /\ orders[session[t].loaded[k].external_id] \in Order
           /\ \A k \in Keys : session[t].new[k] # None =>
                session[t].new[k] \in Row /\ session[t].loaded[k] # None
<1>1. TypeOK /\ SessionTrue(t)
  BY DEF Inductive, SessionsAreTrue
<1>2. session[t] \in Session
  BY <1>1 DEF TypeOK
<1>3. \A k \in Keys : Exists(k) => rows[k] \in Row
  BY <1>1 DEF TypeOK, Exists
<1>4. \A o \in OrderIds : Placed(o) => orders[o] \in Order
  BY <1>1 DEF TypeOK, Placed
<1>5. /\ session[t].todo \subseteq Keys
      /\ \A k \in Keys : session[t].loaded[k] \in Row \cup {None} /\ session[t].new[k] \in Row \cup {None}
  BY <1>2 DEF Session
<1> QED BY <1>1, <1>2, <1>3, <1>4, <1>5 DEF SessionTrue, OrderOf

\* The order that a session asks about is one of the shipment's.
Asked(t, k) == IF t \in Hooks THEN session[t].order ELSE session[t].loaded[k].external_id

LEMMA AskedIsOwn ==
    ASSUME Inductive, NEW t \in Trackers, NEW k \in session[t].todo, session[t] # Closed,
           session[t].step = "open"
    PROVE  /\ OrderOf(Asked(t, k), k) /\ orders[Asked(t, k)] \in Order
           /\ session[t].loaded[k] # None /\ session[t].loaded[k] \in Row
<1>1. SessionTrue(t) /\ TypeOK
  BY DEF Inductive, SessionsAreTrue
<1>2. k \in Keys
  BY SessionFacts
<1>3. session[t].loaded[k] # None
  BY <1>1 DEF SessionTrue
<1>4. OrderOf(Asked(t, k), k)
  BY <1>1, <1>2, <1>3 DEF SessionTrue, Asked
<1>5. orders[Asked(t, k)] \in Order
  BY <1>1, <1>4 DEF OrderOf, Placed, TypeOK
<1> QED BY <1>2, <1>3, <1>4, <1>5, SessionFacts

\* What a session projects on a row it has loaded.
LEMMA Projects ==
    ASSUME Inductive, NEW t \in Trackers, NEW k \in Keys, Track(t, k)
    PROVE  \E event \in orders[Asked(t, k)].events \cup {None} :
             /\ event \in CarrierStatuses \cup {None}
             /\ session' = [session EXCEPT ![t].todo = @ \ {k},
                                           ![t].new[k] = Projected(session[t].loaded[k], event)]
<1>1. session[t] # Closed /\ session[t].step = "open" /\ k \in session[t].todo
  BY DEF Track, Closed
<1>2. orders[Asked(t, k)].events \subseteq CarrierStatuses
  BY <1>1, AskedIsOwn DEF Order
<1> QED BY <1>2 DEF Track, Asked

\* A row keeps its number, its order and its cancellation when a session writes it.
LEMMA UpdatedFacts ==
    ASSUME NEW row \in Row, NEW loaded \in Row, NEW new \in Row
    PROVE  LET written == Updated(row, loaded, new)
           IN  /\ written \in Row /\ written.number = row.number
               /\ written.external_id = row.external_id /\ written.cancelled = row.cancelled
               /\ written.status \in {row.status, new.status}
               /\ written.polled \in {row.polled, new.polled}
BY DEF Updated, Row

\* What the commit of a session makes of a row.
LEMMA CommitFacts ==
    ASSUME Inductive, NEW t \in Trackers, TrackCommit(t), NEW k \in Keys
    PROVE  \/ rows'[k] = rows[k]
           \/ /\ session[t].new[k] # None /\ session[t].new[k] \in Row /\ rows[k] \in Row
              /\ session[t].loaded[k] \in Row
              /\ rows'[k] = Updated(rows[k], session[t].loaded[k], session[t].new[k])
<1>1. session[t] # Closed
  BY DEF TrackCommit, Closed
<1>2. rows'[k] = IF session[t].new[k] = None THEN rows[k]
                 ELSE Updated(rows[k], session[t].loaded[k], session[t].new[k])
  BY DEF TrackCommit
<1> QED BY <1>1, <1>2, SessionFacts

\* Polls and webhooks keep the types.
LEMMA TrackingType ==
    ASSUME Inductive, NEW t \in Trackers, Follow(t)
    PROVE  TypeOK'
<1> TypeOK /\ Closed \in {Closed}
  BY DEF Inductive
<1> DEFINE Types == session' \in [Trackers -> Session \cup {Closed}]
<1>1. ASSUME PollBegin(t) PROVE Types
  <2> DEFINE due == {k \in Keys : Exists(k) /\ rows[k].external_id # None /\ rows[k].polled}
             s == [step |-> "open", todo |-> due, order |-> None, new |-> Nothing,
                   loaded |-> [k \in Keys |-> IF k \in due THEN rows[k] ELSE None]]
  <2>1. s \in Session
    BY DEF Session, Nothing, TypeOK
  <2>2. session' = [session EXCEPT ![t] = s]
    BY <1>1 DEF PollBegin
  <2> HIDE DEF s
  <2> QED BY <2>1, <2>2 DEF TypeOK
<1>2. ASSUME NEW k \in Keys, HookFind(t, k) PROVE Types
  <2> DEFINE s == [step |-> "found", todo |-> {k}, order |-> rows[k].external_id,
                   loaded |-> Nothing, new |-> Nothing]
  <2>1. rows[k].external_id \in OrderIds
    BY <1>2 DEF HookFind, Exists, TypeOK, Row
  <2>2. s \in Session
    BY <2>1 DEF Session, Nothing
  <2>3. session' = [session EXCEPT ![t] = s]
    BY <1>2 DEF HookFind
  <2> HIDE DEF s
  <2> QED BY <2>2, <2>3 DEF TypeOK
<1>3. ASSUME HookBegin(t) PROVE Types
  <2>1. session[t] # Closed
    BY <1>3 DEF HookBegin, Closed
  <2>2. session[t] \in Session
    BY <2>1, SessionFacts
  <2> QED BY <1>3, <2>2 DEF HookBegin, Session, TypeOK
<1>4. ASSUME NEW k \in Keys, Track(t, k) PROVE Types
  <2>1. session[t] # Closed /\ session[t].step = "open" /\ k \in session[t].todo
    BY <1>4 DEF Track, Closed
  <2>2. session[t] \in Session /\ session[t].loaded[k] \in Row
    BY <2>1, SessionFacts, AskedIsOwn
  <2>3. PICK event \in CarrierStatuses \cup {None} :
          session' = [session EXCEPT ![t].todo = @ \ {k},
                                     ![t].new[k] = Projected(session[t].loaded[k], event)]
    BY <1>4, Projects
  <2>4. Projected(session[t].loaded[k], event) \in Row
    BY <2>2, ProjectedType
  <2> QED BY <2>2, <2>3, <2>4 DEF Session, TypeOK
<1>5. ASSUME NEW k \in Keys, TrackSkip(t, k) PROVE Types
  <2>1. session[t] # Closed
    BY <1>5 DEF TrackSkip, Closed
  <2>2. session[t] \in Session
    BY <2>1, SessionFacts
  <2> QED BY <1>5, <2>2 DEF TrackSkip, Session, TypeOK
<1>6. ASSUME TrackCommit(t) \/ TrackRollback(t) PROVE Types
  BY <1>6 DEF TrackCommit, TrackRollback, TypeOK
<1>7. Types
  BY <1>1, <1>2, <1>3, <1>4, <1>5, <1>6 DEF Follow
<1>8. rows' \in [Keys -> Row \cup {None}]
  <2>1. CASE TrackCommit(t)
    <3>1. \A k \in Keys : rows'[k] \in Row \cup {None}
      BY <2>1, CommitFacts, UpdatedFacts DEF TypeOK
    <3>2. rows' = [k \in Keys |-> rows'[k]]
      BY <2>1 DEF TrackCommit
    <3> QED BY <3>1, <3>2
  <2>2. CASE ~TrackCommit(t)
    BY <2>2 DEF Follow, PollBegin, HookFind, HookBegin, Track, TrackSkip, TrackRollback, TypeOK
  <2> QED BY <2>1, <2>2
<1>9. orders' = orders /\ late' = late /\ job' = job
  BY DEF Follow, PollBegin, HookFind, HookBegin, Track, TrackSkip, TrackCommit, TrackRollback
<1> HIDE DEF Types
<1> QED BY <1>7, <1>8, <1>9 DEF Types, TypeOK

\* Failures and the carrier keep the types.
LEMMA RestType ==
    ASSUME Inductive, Carrier \/ \E w \in Workers : Abort(w)
    PROVE  TypeOK'
<1> TypeOK
  BY DEF Inductive
<1>2. ASSUME NEW w \in Workers, Abort(w) PROVE TypeOK'
  BY <1>2, IdleType, BecomeType, JobFacts DEF Abort, At, Finish, TypeOK
<1>3. ASSUME NEW n \in Numbers, NEW o \in OrderIds, LateOrder(n, o) PROVE TypeOK'
  BY <1>3 DEF LateOrder, NewOrder, Order, TypeOK
<1>4. ASSUME NEW n \in Numbers, LateDropped(n) PROVE TypeOK'
  BY <1>4 DEF LateDropped, TypeOK
<1>5. ASSUME NEW o \in OrderIds, CarrierEvent(o) PROVE TypeOK'
  BY <1>5 DEF CarrierEvent, Placed, Order, TypeOK
<1> QED BY <1>2, <1>3, <1>4, <1>5 DEF Carrier

\* Every step keeps the types.
LEMMA TypeStep ==
    ASSUME Inductive, Next
    PROVE  TypeOK'
BY CreateType, CancelType, SweepType, TrackingType, RestType DEF Next, Handler, Sweeper, Tracking, Workers

-----------------------------------------------------------------------------
(* What a step does to the tables.                                           *)

\* k's first row: a draft, whose number no other row has.
Draft(k, row) == ~Exists(k) /\ ~HasRow(row.number) /\ row.external_id = None

\* k's row is written again: with its number, and with its order or another of
\* the orders the carrier holds for it.
Rewrite(k, row) ==
    /\ Exists(k) /\ row.number = rows[k].number
    /\ rows[k].cancelled => row.cancelled
    /\ row.external_id = rows[k].external_id \/ OrderOf(row.external_id, k)

Written(k, row) == Draft(k, row) \/ Rewrite(k, row)

\* A poll or a webhook writes many rows and leaves each its number, its order
\* and its cancellation.
Tracked ==
    /\ rows' \in [Keys -> Row \cup {None}]
    /\ \A k \in Keys :
          /\ Exists(k)' <=> Exists(k)
          /\ Exists(k) => /\ rows'[k].number = rows[k].number
                          /\ rows'[k].external_id = rows[k].external_id
                          /\ rows'[k].cancelled = rows[k].cancelled

\* The commit of a session is such a step.
LEMMA CommitTracks ==
    ASSUME Inductive, NEW t \in Trackers, TrackCommit(t)
    PROVE  Tracked
<1>1. TypeOK' /\ TypeOK
  BY TrackingType DEF Follow, Inductive
<1>2. ASSUME NEW k \in Keys
      PROVE  /\ Exists(k)' <=> Exists(k)
             /\ Exists(k) => /\ rows'[k].number = rows[k].number
                             /\ rows'[k].external_id = rows[k].external_id
                             /\ rows'[k].cancelled = rows[k].cancelled
  <2>1. CASE rows'[k] = rows[k]
    BY <2>1 DEF Exists
  <2>2. CASE rows'[k] # rows[k]
    <3> DEFINE loaded == session[t].loaded[k]
               new == session[t].new[k]
    <3>1. /\ rows[k] \in Row /\ loaded \in Row /\ new \in Row
          /\ rows'[k] = Updated(rows[k], loaded, new)
      BY <2>2, CommitFacts
    <3> HIDE DEF loaded, new
    <3>2. rows'[k] \in Row /\ rows'[k].number = rows[k].number
          /\ rows'[k].external_id = rows[k].external_id /\ rows'[k].cancelled = rows[k].cancelled
      BY <3>1, UpdatedFacts
    <3> QED BY <3>1, <3>2, NoneIsNoValue DEF Exists
  <2> QED BY <2>1, <2>2
<1> QED BY <1>1, <1>2 DEF Tracked, TypeOK

\* A step that changes rows drafts one, writes one again or tracks them, and
\* leaves the carrier's orders alone.
LEMMA RowsStep ==
    ASSUME Inductive, Next
    PROVE  \/ rows' = rows
           \/ orders' = orders /\ Tracked
           \/ /\ orders' = orders
              /\ \E k \in Keys, row \in Row : /\ rows' = [rows EXCEPT ![k] = row]
                                            /\ Written(k, row)
<1> DEFINE Goal == \/ rows' = rows
                   \/ orders' = orders /\ Tracked
                   \/ /\ orders' = orders
                      /\ \E k \in Keys, row \in Row : /\ rows' = [rows EXCEPT ![k] = row]
                                                    /\ Written(k, row)
<1> TypeOK
  BY DEF Inductive
<1>1. ASSUME NEW w \in Workers, CommitDraft(w) PROVE Goal
  <2> DEFINE draft == [number |-> job[w].number, decision |-> job[w].request.decision,
                       status |-> "DRAFT", external_id |-> None, polled |-> FALSE,
                       cancelled |-> FALSE, created_at |-> Cardinality({k \in Keys : Exists(k)})]
  <2>1. draft \in Row /\ job[w].shipment \in Keys
    BY <1>1, JobFacts, CreatedAtType DEF CommitDraft, At, Row, Statuses
  <2>2. \/ /\ rows' = [rows EXCEPT ![job[w].shipment] = draft] /\ ~Exists(job[w].shipment)
           /\ ~HasRow(job[w].number)
        \/ rows' = rows
    BY <1>1 DEF CommitDraft, HasRow
  <2>3. draft.number = job[w].number /\ draft.external_id = None
    OBVIOUS
  <2> HIDE DEF draft
  <2> QED BY <1>1, <2>1, <2>2, <2>3 DEF CommitDraft, Written, Draft
<1>2. ASSUME NEW w \in Workers, Apply(w) \/ SweepApply(w) PROVE Goal
  <2> DEFINE k == job[w].shipment
             o == job[w].found
  <2>1. PICK status \in {"CREATED", "ACCEPTED"} : rows' = [rows EXCEPT ![k] = Applied(@, o, status)]
    BY <1>2 DEF Apply, SweepApply
  <2> DEFINE row == Applied(rows[k], o, status)
  <2>2. k \in Keys /\ rows[k] \in Row /\ o \in OrderIds /\ status \in Statuses
    BY <1>2, JobFacts DEF Apply, SweepApply, At, Statuses
  <2>3. /\ row \in Row /\ row.number = rows[k].number /\ row.external_id = o
        /\ row.cancelled = rows[k].cancelled
    BY <2>2, AppliedType DEF Applied, Row
  <2>4. Exists(k) /\ OrderOf(o, k)
    BY <1>2 DEF Apply, SweepApply, At, Inductive, JobsAreTrue, JobTrue
  <2>5. rows' = [rows EXCEPT ![k] = row] /\ orders' = orders
    BY <1>2, <2>1 DEF Apply, SweepApply
  <2> HIDE DEF k, o, row
  <2> QED BY <2>2, <2>3, <2>4, <2>5 DEF Written, Rewrite
<1>3. ASSUME NEW w \in Workers, CancelStore(w) PROVE Goal
  <2> DEFINE k == job[w].shipment
             o == job[w].found
             row == [rows[k] EXCEPT !.status = "CANCELLED", !.cancelled = TRUE,
                                    !.external_id = IF o = None THEN @ ELSE o]
  <2>1. k \in Keys /\ rows[k] \in Row /\ o \in OrderIds \cup {None}
    BY <1>3, JobFacts DEF CancelStore, At, Job
  <2>2. /\ row \in Row /\ row.number = rows[k].number /\ row.cancelled
        /\ row.external_id = IF o = None THEN rows[k].external_id ELSE o
    BY <2>1 DEF Row, Statuses, CarrierStatuses, FinalStatuses
  <2>3. Exists(k) /\ (o # None => OrderOf(o, k))
    BY <1>3 DEF CancelStore, At, Inductive, JobsAreTrue, JobTrue
  <2>4. rows' = [rows EXCEPT ![k] = row] /\ orders' = orders
    BY <1>3, <2>1 DEF CancelStore, TypeOK, Row
  <2> HIDE DEF k, o, row
  <2> QED BY <2>1, <2>2, <2>3, <2>4 DEF Written, Rewrite
<1>4. ASSUME NEW t \in Trackers, Follow(t) PROVE Goal
  BY <1>4, CommitTracks
     DEF Follow, PollBegin, HookFind, HookBegin, Track, TrackSkip, TrackCommit, TrackRollback
<1>5. ASSUME NEW w \in Workers, Create(w) PROVE Goal
  BY <1>1, <1>2, <1>5
     DEF Create, LookupNew, LookupUnconfirmed, Prepare, FindBeforeCreate, OrderCreated, CreateTimeout
<1>6. ASSUME NEW w \in Workers, Cancel(w) PROVE Goal
  BY <1>3, <1>6 DEF Cancel, CancelRead, CancelFind, CancelCall
<1>7. ASSUME NEW w \in Workers, Sweep(w) \/ Abort(w) PROVE Goal
  BY <1>2, <1>7 DEF Sweep, SweepStart, SweepFind, SweepSkip, Abort
<1>8. ASSUME Carrier PROVE Goal
  BY <1>8 DEF Carrier, LateOrder, LateDropped, CarrierEvent
<1> HIDE DEF Goal
<1>9. Goal
  BY <1>4, <1>5, <1>6, <1>7, <1>8 DEF Next, Handler, Sweeper, Tracking, Workers
<1> QED BY <1>9 DEF Goal

\* The order o is placed with a number that has a row, or written again with
\* its number and its events.
Booked(o, order) ==
    IF Placed(o) THEN order.number = orders[o].number /\ orders[o].events \subseteq order.events
    ELSE HasRow(order.number)

\* A POST is sent for a committed draft only.
LEMMA CreatingHasRow ==
    ASSUME Inductive, NEW w \in Workers, At(w, "creating")
    PROVE  HasRow(job[w].number) /\ job[w].number \in Numbers
BY JobFacts, NoneIsNoValue DEF At, HasRow, Exists

\* A step that changes an order places it for a number that has a row or leaves
\* it its number, and leaves the rows alone.
LEMMA OrdersStep ==
    ASSUME Inductive, Next
    PROVE  \/ orders' = orders
           \/ /\ rows' = rows
              /\ \E o \in OrderIds, order \in Order :
                    orders' = [orders EXCEPT ![o] = order] /\ Booked(o, order)
<1> DEFINE Goal == \/ orders' = orders
                   \/ /\ rows' = rows
                      /\ \E o \in OrderIds, order \in Order :
                            orders' = [orders EXCEPT ![o] = order] /\ Booked(o, order)
<1> TypeOK /\ NoOrderWithoutRow
  BY DEF Inductive
<1>1. ASSUME NEW n \in Numbers PROVE NewOrder(n) \in Order /\ NewOrder(n).number = n
  BY DEF NewOrder, Order
<1>2. ASSUME NEW w \in Workers, NEW o \in OrderIds, OrderCreated(w, o) PROVE Goal
  BY <1>1, <1>2, CreatingHasRow DEF OrderCreated, Booked
<1>3. ASSUME NEW n \in Numbers, NEW o \in OrderIds, LateOrder(n, o) PROVE Goal
  <2>1. /\ orders' = [orders EXCEPT ![o] = NewOrder(n)] /\ rows' = rows
        /\ ~Placed(o) /\ HasRow(n)
    BY <1>3 DEF LateOrder, NoOrderWithoutRow
  <2> QED BY <1>1, <2>1 DEF Booked
<1>4. ASSUME NEW w \in Workers, CancelCall(w) PROVE Goal
  <2> DEFINE o == job[w].found
             order == [orders[o] EXCEPT !.refused = TRUE]
  <2>1. o \in OrderIds /\ orders[o] \in Order /\ Placed(o)
    BY <1>4, JobFacts DEF CancelCall, At, Inductive, JobsAreTrue, JobTrue, OrderOf
  <2>2. order \in Order /\ order.number = orders[o].number /\ order.events = orders[o].events
    BY <2>1 DEF Order
  <2>3. orders' = [orders EXCEPT ![o] = order] /\ rows' = rows
    BY <1>4 DEF CancelCall
  <2> HIDE DEF o, order
  <2> QED BY <2>1, <2>2, <2>3 DEF Booked
<1>5. ASSUME NEW o \in OrderIds, CarrierEvent(o) PROVE Goal
  <2>1. PICK event \in CarrierStatuses : orders' = [orders EXCEPT ![o].events = @ \cup {event}]
    BY <1>5 DEF CarrierEvent
  <2> DEFINE order == [orders[o] EXCEPT !.events = @ \cup {event}]
  <2>2. /\ order \in Order /\ order.number = orders[o].number /\ Placed(o)
        /\ orders[o].events \subseteq order.events
    BY <1>5 DEF CarrierEvent, Placed, TypeOK, Order
  <2>3. orders' = [orders EXCEPT ![o] = order] /\ rows' = rows
    BY <1>5, <2>1 DEF CarrierEvent
  <2> HIDE DEF order
  <2> QED BY <2>2, <2>3 DEF Booked
<1>6. ASSUME NEW w \in Workers, Create(w) PROVE Goal
  BY <1>2, <1>6
     DEF Create, LookupNew, LookupUnconfirmed, Prepare, CommitDraft, FindBeforeCreate, CreateTimeout, Apply
<1>7. ASSUME NEW w \in Workers, Cancel(w) PROVE Goal
  BY <1>4, <1>7 DEF Cancel, CancelRead, CancelFind, CancelStore
<1>8. ASSUME NEW w \in Workers, Sweep(w) \/ Abort(w) PROVE Goal
  BY <1>8 DEF Sweep, SweepStart, SweepFind, SweepSkip, SweepApply, Abort
<1>9. ASSUME Tracking PROVE Goal
  BY <1>9 DEF Tracking, Follow, PollBegin, HookFind, HookBegin, Track, TrackSkip, TrackCommit, TrackRollback
<1>10. ASSUME Carrier PROVE Goal
  BY <1>3, <1>5, <1>10 DEF Carrier, LateDropped
<1> HIDE DEF Goal
<1>11. Goal
  BY <1>6, <1>7, <1>8, <1>9, <1>10 DEF Next, Handler, Sweeper, Workers
<1> QED BY <1>11 DEF Goal

\* What no step takes back: a row, its number, its link and its cancellation, an
\* order, its number and its events.
RowsKept ==
    \A k \in Keys : Exists(k) => /\ Exists(k)' /\ rows'[k].number = rows[k].number
                                 /\ rows[k].external_id # None => rows'[k].external_id # None
                                 /\ rows[k].cancelled => rows'[k].cancelled
OrdersKept ==
    \A o \in OrderIds : Placed(o) => /\ Placed(o)' /\ orders'[o].number = orders[o].number
                                     /\ orders[o].events \subseteq orders'[o].events

\* No step loses a row, its link or its cancellation, or changes its number.
LEMMA RowsKeptStep ==
    ASSUME Inductive, Next
    PROVE  RowsKept
<1> TypeOK
  BY DEF Inductive
<1>1. CASE rows' = rows
  BY <1>1 DEF RowsKept, Exists
<1>2. ASSUME NEW k \in Keys, NEW row \in Row, rows' = [rows EXCEPT ![k] = row],
             Written(k, row)
      PROVE  RowsKept
  BY <1>2, NoneIsNoValue DEF TypeOK, RowsKept, Exists, Written, Draft, Rewrite, OrderOf
<1>3. CASE Tracked
  BY <1>3 DEF Tracked, RowsKept
<1> QED BY <1>1, <1>2, <1>3, RowsStep

\* No step takes an order or an event of it back from the carrier, or renumbers it.
LEMMA OrdersKeptStep ==
    ASSUME Inductive, Next
    PROVE  OrdersKept
<1> TypeOK
  BY DEF Inductive
<1>1. CASE orders' = orders
  BY <1>1 DEF OrdersKept, Placed
<1>2. ASSUME NEW o \in OrderIds, NEW order \in Order, orders' = [orders EXCEPT ![o] = order],
             Booked(o, order)
      PROVE  OrdersKept
  BY <1>2, NoneIsNoValue DEF TypeOK, OrdersKept, Placed, Booked
<1> QED BY <1>1, <1>2, OrdersStep

-----------------------------------------------------------------------------
(* What a worker remembers across an await stays true while others work.     *)

\* A worker that does nothing remembers nothing that could be wrong.
LEMMA IdleIsTrue ==
    ASSUME NEW w \in Workers, job'[w] = Idle
    PROVE  JobTrue(w)'
BY DEF JobTrue, Idle

\* A worker that waits is not disturbed: rows and orders are only added.
LEMMA WaitingIsTrue ==
    ASSUME TypeOK, RowsKept, OrdersKept, NEW w \in Workers, JobTrue(w), job'[w] = job[w]
    PROVE  JobTrue(w)'
<1> job[w] \in Job
  BY DEF TypeOK
<1>1. \A k \in Keys : Exists(k) => Exists(k)' /\ rows'[k].number = rows[k].number
  BY DEF RowsKept
<1>2. ASSUME NEW o, NEW k \in Keys, OrderOf(o, k), Exists(k) PROVE OrderOf(o, k)'
  BY <1>1, <1>2 DEF OrderOf, OrdersKept
<1>3. job[w].step = "cancel_store" => job[w].shipment \in Keys /\ Exists(job[w].shipment)
  BY DEF JobTrue
<1>4. job[w].step \in {"apply", "cancel_call", "sweep_apply"} =>
        job[w].shipment \in Keys /\ Exists(job[w].shipment)
  BY DEF JobTrue
<1>5. job[w].todo \subseteq Keys
  BY DEF Job
<1> QED BY <1>1, <1>2, <1>3, <1>4, <1>5 DEF JobTrue

\* When one worker goes on, what all of them remember is true if its own is.
LEMMA OneJobChanges ==
    ASSUME Inductive, RowsKept, OrdersKept, NEW w \in Workers, NEW j, Become(w, j),
           JobTrue(w)'
    PROVE  JobsAreTrue'
<1> TypeOK /\ JobsAreTrue
  BY DEF Inductive
<1>1. \A v \in Workers \ {w} : job'[v] = job[v]
  BY DEF Become, TypeOK
<1> QED BY <1>1, WaitingIsTrue DEF JobsAreTrue

\* When nobody goes on, what they remember stays true.
LEMMA NoJobChanges ==
    ASSUME Inductive, RowsKept, OrdersKept, job' = job
    PROVE  JobsAreTrue'
BY WaitingIsTrue DEF Inductive, JobsAreTrue

\* A worker that ends leaves what the others remember true.
LEMMA Finished ==
    ASSUME Inductive, RowsKept, OrdersKept, NEW w \in Workers, Finish(w)
    PROVE  JobsAreTrue'
BY OneJobChanges, IdleIsTrue DEF Finish, Become, Inductive, TypeOK

\* A worker that goes on has the job it goes on with.
LEMMA Became ==
    ASSUME TypeOK, NEW w \in Workers, NEW j, Become(w, j)
    PROVE  job'[w] = j
BY DEF TypeOK, Become

\* An answer of the carrier is an order of the shipment it was asked for.
LEMMA AnswerIsOwn ==
    ASSUME TypeOK, NEW k \in Keys, NEW answer \in FindByNumber(rows[k].number), answer # None
    PROVE  OrderOf(answer, k)
BY DEF FindByNumber, OrderOf

\* The handlers that create shipments keep true what they remember.
LEMMA CreateJobs ==
    ASSUME Inductive, RowsKept, OrdersKept, NEW w \in Workers, Create(w)
    PROVE  JobsAreTrue'
<1> TypeOK /\ JobTrue(w) /\ job[w] \in Job
  BY JobFacts DEF Inductive, JobsAreTrue
<1>1. ASSUME NEW r \in Requests, LookupNew(w, r) PROVE JobsAreTrue'
  <2> DEFINE j == [Idle EXCEPT !.step = "prepare", !.request = r,
                               !.shipment = r.key, !.number = Number(r)]
  <2>1. Become(w, j)
    BY <1>1 DEF LookupNew
  <2>2. job'[w] = j
    BY <2>1, Became
  <2>3. JobTrue(w)'
    BY <2>2 DEF JobTrue, Idle, Number
  <2> QED BY <2>1, <2>3, OneJobChanges
<1>2. ASSUME NEW r \in Requests, LookupUnconfirmed(w, r) PROVE JobsAreTrue'
  <2> DEFINE j == [Idle EXCEPT !.step = "find", !.shipment = r.key, !.number = Number(r)]
  <2>1. Become(w, j)
    BY <1>2 DEF LookupUnconfirmed
  <2>2. job'[w] = j
    BY <2>1, Became
  <2>3. JobTrue(w)'
    BY <1>2, <2>2, NumberType DEF LookupUnconfirmed, JobTrue, Idle, Exists
  <2> QED BY <2>1, <2>3, OneJobChanges
<1>3. ASSUME Prepare(w) PROVE JobsAreTrue'
  <2> DEFINE j == [job[w] EXCEPT !.step = "draft"]
  <2>1. CASE Become(w, Idle)
    BY <2>1, Finished DEF Finish
  <2>2. CASE Become(w, j)
    <3>1. job'[w] = j /\ At(w, "prepare") /\ rows' = rows
      BY <1>3, <2>2, Became DEF Prepare
    <3>2. JobTrue(w)'
      BY <3>1 DEF JobTrue, At, Job, Exists, Number
    <3> QED BY <2>2, <3>2, OneJobChanges
  <2> QED BY <1>3, <2>1, <2>2 DEF Prepare
<1>4. ASSUME CommitDraft(w) PROVE JobsAreTrue'
  <2> DEFINE j == [job[w] EXCEPT !.step = "creating", !.request = None, !.attempt = 1]
             draft == [number |-> job[w].number, decision |-> job[w].request.decision,
                       status |-> "DRAFT", external_id |-> None, polled |-> FALSE,
                       cancelled |-> FALSE, created_at |-> Cardinality({k \in Keys : Exists(k)})]
  <2>1. CASE Finish(w)
    BY <2>1, Finished
  <2>2. CASE Become(w, j) /\ rows' = [rows EXCEPT ![job[w].shipment] = draft]
    <3>1. job'[w] = j
      BY <2>2, Became
    <3>2. draft \in Row /\ job[w].shipment \in Keys
      BY <1>4, JobFacts, CreatedAtType DEF CommitDraft, At, Row, Statuses
    <3>3. rows'[job[w].shipment] = draft /\ draft # None
      BY <2>2, <3>2, NoneIsNoValue DEF TypeOK
    <3>4. \A k \in job[w].todo : Exists(k)'
      BY DEF RowsKept, JobTrue, Job
    <3>5. /\ j.step = "creating" /\ j.shipment = job[w].shipment
          /\ j.number = job[w].number /\ j.todo = job[w].todo
      BY DEF Job
    <3> HIDE DEF j
    <3>6. JobTrue(w)'
      BY <3>1, <3>2, <3>3, <3>4, <3>5 DEF JobTrue, Exists
    <3> QED BY <2>2, <3>6, OneJobChanges
  <2> QED BY <1>4, <2>1, <2>2 DEF CommitDraft
<1>5. ASSUME FindBeforeCreate(w) PROVE JobsAreTrue'
  <2>1. PICK answer \in FindByNumber(job[w].number) :
          Become(w, IF answer = None
                      THEN [job[w] EXCEPT !.step = "creating", !.attempt = 1]
                      ELSE [job[w] EXCEPT !.step = "apply", !.found = answer])
    BY <1>5 DEF FindBeforeCreate
  <2> DEFINE j == IF answer = None
                    THEN [job[w] EXCEPT !.step = "creating", !.attempt = 1]
                    ELSE [job[w] EXCEPT !.step = "apply", !.found = answer]
  <2>2. Become(w, j) /\ job'[w] = j
    BY <2>1, Became
  <2>3. /\ job[w].shipment \in Keys /\ Exists(job[w].shipment)
        /\ job[w].number = rows[job[w].shipment].number
    BY <1>5 DEF FindBeforeCreate, At, JobTrue
  <2>4. answer # None => OrderOf(answer, job[w].shipment)
    BY <2>3, AnswerIsOwn
  <2>5. /\ j.shipment = job[w].shipment /\ j.number = job[w].number /\ j.todo = job[w].todo
        /\ answer = None => j.step = "creating"
        /\ answer # None => j.step = "apply" /\ j.found = answer
    BY DEF Job
  <2>6. rows' = rows /\ orders' = orders
    BY <1>5 DEF FindBeforeCreate
  <2> HIDE DEF j
  <2>7. JobTrue(w)'
    BY <2>2, <2>3, <2>4, <2>5, <2>6 DEF JobTrue, Exists, OrderOf, Placed
  <2> QED BY <2>2, <2>7, OneJobChanges
<1>6. ASSUME NEW o \in OrderIds, OrderCreated(w, o) PROVE JobsAreTrue'
  <2> DEFINE j == [job[w] EXCEPT !.step = "apply", !.found = o, !.attempt = 0]
  <2>1. Become(w, j) /\ job'[w] = j
    BY <1>6, Became DEF OrderCreated
  <2>2. /\ job[w].shipment \in Keys /\ Exists(job[w].shipment)
        /\ job[w].number = rows[job[w].shipment].number
    BY <1>6 DEF OrderCreated, At, JobTrue
  <2>3. /\ j.shipment = job[w].shipment /\ j.number = job[w].number /\ j.todo = job[w].todo
        /\ j.step = "apply" /\ j.found = o
    BY DEF Job
  <2>4. NewOrder(job[w].number) \in Order
    BY <1>6, JobFacts DEF OrderCreated, At, NewOrder, Order
  <2>5. /\ orders'[o] # None /\ orders'[o].number = job[w].number
        /\ rows' = rows
    BY <1>6, <2>4, NoneIsNoValue DEF OrderCreated, TypeOK, NewOrder
  <2> HIDE DEF j
  <2>6. JobTrue(w)'
    BY <2>1, <2>2, <2>3, <2>5 DEF JobTrue, Exists, OrderOf, Placed
  <2> QED BY <2>1, <2>6, OneJobChanges
<1>7. ASSUME CreateTimeout(w) PROVE JobsAreTrue'
  <2> DEFINE j == [job[w] EXCEPT !.attempt = @ + 1]
  <2>1. CASE Finish(w)
    BY <2>1, Finished
  <2>2. CASE Become(w, j)
    <3>1. job'[w] = j
      BY <2>2, Became
    <3>2. /\ j.shipment = job[w].shipment /\ j.number = job[w].number /\ j.todo = job[w].todo
          /\ j.step = "creating" /\ job[w].step = "creating"
      BY <1>7 DEF CreateTimeout, At, Job
    <3> HIDE DEF j
    <3>3. JobTrue(w)'
      BY <1>7, <3>1, <3>2 DEF CreateTimeout, JobTrue, Exists
    <3> QED BY <2>2, <3>3, OneJobChanges
  <2> QED BY <1>7, <2>1, <2>2 DEF CreateTimeout
<1>8. ASSUME Apply(w) PROVE JobsAreTrue'
  BY <1>8, Finished DEF Apply
<1> QED BY <1>1, <1>2, <1>3, <1>4, <1>5, <1>6, <1>7, <1>8 DEF Create

\* Cancellation keeps true what it remembers.
LEMMA CancelJobs ==
    ASSUME Inductive, RowsKept, OrdersKept, NEW w \in Workers, Cancel(w)
    PROVE  JobsAreTrue'
<1> TypeOK /\ JobTrue(w) /\ job[w] \in Job
  BY JobFacts DEF Inductive, JobsAreTrue
<1>1. ASSUME NEW k \in Keys, CancelRead(w, k) PROVE JobsAreTrue'
  <2> DEFINE o == rows[k].external_id
             j == [Idle EXCEPT !.step = IF o = None THEN "cancel_find" ELSE "cancel_call",
                               !.shipment = k, !.number = rows[k].number, !.found = o]
  <2>1. Become(w, j) /\ job'[w] = j
    BY <1>1, Became DEF CancelRead
  <2>2. /\ j.shipment = k /\ j.number = rows[k].number /\ j.found = o /\ j.todo = {}
        /\ o = None => j.step = "cancel_find"
        /\ o # None => j.step = "cancel_call"
    BY DEF Idle
  <2>3. Exists(k) /\ rows' = rows /\ orders' = orders /\ rows[k] \in Row
    BY <1>1 DEF CancelRead, Exists, TypeOK
  <2>4. o # None => OrderOf(o, k)
    BY <2>3 DEF Inductive, LinkIsTrue, OrderOf, Row
  <2> HIDE DEF j, o
  <2>5. JobTrue(w)'
    BY <2>1, <2>2, <2>3, <2>4 DEF JobTrue, Exists, OrderOf, Placed
  <2> QED BY <2>1, <2>5, OneJobChanges
<1>2. ASSUME CancelFind(w) PROVE JobsAreTrue'
  <2>1. PICK answer \in FindByNumber(job[w].number) :
          Become(w, [job[w] EXCEPT !.step = IF answer = None THEN "cancel_store" ELSE "cancel_call",
                                   !.found = answer])
    BY <1>2 DEF CancelFind
  <2> DEFINE j == [job[w] EXCEPT !.step = IF answer = None THEN "cancel_store" ELSE "cancel_call",
                                 !.found = answer]
  <2>2. Become(w, j) /\ job'[w] = j
    BY <2>1, Became
  <2>3. /\ job[w].shipment \in Keys /\ Exists(job[w].shipment)
        /\ job[w].number = rows[job[w].shipment].number
    BY <1>2 DEF CancelFind, At, JobTrue
  <2>4. answer # None => OrderOf(answer, job[w].shipment)
    BY <2>3, AnswerIsOwn
  <2>5. /\ j.shipment = job[w].shipment /\ j.number = job[w].number /\ j.todo = job[w].todo
        /\ j.found = answer
        /\ answer = None => j.step = "cancel_store"
        /\ answer # None => j.step = "cancel_call"
    BY DEF Job
  <2>6. rows' = rows /\ orders' = orders
    BY <1>2 DEF CancelFind
  <2> HIDE DEF j
  <2>7. JobTrue(w)'
    BY <2>2, <2>3, <2>4, <2>5, <2>6 DEF JobTrue, Exists, OrderOf, Placed
  <2> QED BY <2>2, <2>7, OneJobChanges
<1>3. ASSUME CancelCall(w) PROVE JobsAreTrue'
  <2> DEFINE j == [job[w] EXCEPT !.step = "cancel_store"]
  <2>1. CASE Finish(w)
    BY <2>1, Finished
  <2>2. CASE Become(w, j)
    <3>1. job'[w] = j
      BY <2>2, Became
    <3>2. /\ j.shipment = job[w].shipment /\ j.number = job[w].number /\ j.todo = job[w].todo
          /\ j.step = "cancel_store" /\ j.found = job[w].found
      BY DEF Job
    <3>3. /\ job[w].shipment \in Keys /\ Exists(job[w].shipment)
          /\ job[w].number = rows[job[w].shipment].number
          /\ OrderOf(job[w].found, job[w].shipment)
          /\ rows' = rows
      BY <1>3 DEF CancelCall, At, JobTrue
    <3> HIDE DEF j
    <3>4. JobTrue(w)'
      BY <3>1, <3>2, <3>3 DEF JobTrue, Exists, OrderOf, OrdersKept
    <3> QED BY <2>2, <3>4, OneJobChanges
  <2> QED BY <1>3, <2>1, <2>2 DEF CancelCall
<1>4. ASSUME CancelStore(w) PROVE JobsAreTrue'
  BY <1>4, Finished DEF CancelStore
<1> QED BY <1>1, <1>2, <1>3, <1>4 DEF Cancel

\* Reconciliation keeps true what it remembers.
LEMMA SweepJobs ==
    ASSUME Inductive, RowsKept, OrdersKept, NEW w \in Workers, Sweep(w)
    PROVE  JobsAreTrue'
<1> TypeOK /\ JobTrue(w) /\ job[w] \in Job
  BY JobFacts DEF Inductive, JobsAreTrue
<1>1. ASSUME NEW j \in Job, SweepOn(w, j), j.step = "sweep", j.todo \subseteq job[w].todo
      PROVE  JobsAreTrue'
  <2>1. CASE Become(w, Idle)
    BY <2>1, Finished DEF Finish
  <2>2. CASE Become(w, j)
    <3>1. job'[w] = j
      BY <2>2, Became
    <3>2. \A k \in j.todo : Exists(k)'
      BY <1>1 DEF JobTrue, RowsKept, Job
    <3>3. JobTrue(w)'
      BY <1>1, <3>1, <3>2 DEF JobTrue
    <3> QED BY <2>2, <3>3, OneJobChanges
  <2> QED BY <1>1, <2>1, <2>2 DEF SweepOn
<1>2. ASSUME SweepStart(w) PROVE JobsAreTrue'
  <2> DEFINE j == [Idle EXCEPT !.step = "sweep", !.todo = Unconfirmed]
  <2>1. Become(w, j) /\ job'[w] = j
    BY <1>2, Became DEF SweepStart
  <2>2. j.step = "sweep" /\ j.todo = Unconfirmed
    BY DEF Idle
  <2>3. \A k \in Unconfirmed : Exists(k)'
    BY DEF Unconfirmed, IsDraft, RowsKept
  <2> HIDE DEF j
  <2>4. JobTrue(w)'
    BY <2>1, <2>2, <2>3 DEF JobTrue
  <2> QED BY <2>1, <2>4, OneJobChanges
<1>3. ASSUME NEW k \in Keys, SweepFind(w, k) PROVE JobsAreTrue'
  <2> DEFINE rest == job[w].todo \ {k}
  <2>1. PICK answer \in FindByNumber(rows[k].number) :
          IF answer = None
            THEN SweepOn(w, [job[w] EXCEPT !.todo = rest])
            ELSE Become(w, [job[w] EXCEPT !.step = "sweep_apply", !.shipment = k,
                                          !.found = answer, !.todo = rest])
    BY <1>3 DEF SweepFind
  <2>2. CASE answer = None
    <3>1. /\ [job[w] EXCEPT !.todo = rest] \in Job
          /\ [job[w] EXCEPT !.todo = rest].step = "sweep"
          /\ [job[w] EXCEPT !.todo = rest].todo \subseteq job[w].todo
      BY <1>3 DEF SweepFind, At, Job
    <3> QED BY <1>1, <2>1, <2>2, <3>1
  <2>3. CASE answer # None
    <3> DEFINE j == [job[w] EXCEPT !.step = "sweep_apply", !.shipment = k,
                                   !.found = answer, !.todo = rest]
    <3>1. Become(w, j) /\ job'[w] = j
      BY <2>1, <2>3, Became
    <3>2. j.step = "sweep_apply" /\ j.shipment = k /\ j.found = answer /\ j.todo = rest
      BY DEF Job
    <3>3. Exists(k) /\ OrderOf(answer, k) /\ \A i \in rest : Exists(i)
      BY <1>3, <2>3, AnswerIsOwn DEF SweepFind, JobTrue
    <3>4. rows' = rows /\ orders' = orders
      BY <1>3 DEF SweepFind
    <3> HIDE DEF j, rest
    <3>5. JobTrue(w)'
      BY <3>1, <3>2, <3>3, <3>4 DEF JobTrue, Exists, OrderOf, Placed
    <3> QED BY <3>1, <3>5, OneJobChanges
  <2> QED BY <2>2, <2>3
<1>4. ASSUME NEW k \in Keys, SweepSkip(w, k) PROVE JobsAreTrue'
  <2> DEFINE j == [job[w] EXCEPT !.todo = @ \ {k}]
  <2>1. j \in Job /\ j.step = "sweep" /\ j.todo \subseteq job[w].todo
    BY <1>4 DEF SweepSkip, At, Job
  <2>2. SweepOn(w, j)
    BY <1>4 DEF SweepSkip
  <2> QED BY <1>1, <2>1, <2>2
<1>5. ASSUME SweepApply(w) PROVE JobsAreTrue'
  <2> DEFINE j == [job[w] EXCEPT !.step = "sweep", !.shipment = None, !.found = None]
  <2>1. j \in Job /\ j.step = "sweep" /\ j.todo \subseteq job[w].todo
    BY DEF Job, Steps
  <2>2. SweepOn(w, j)
    BY <1>5 DEF SweepApply
  <2> QED BY <1>1, <2>1, <2>2
<1> QED BY <1>2, <1>3, <1>4, <1>5 DEF Sweep

\* What the workers remember stays true in every step.
LEMMA JobsStep ==
    ASSUME Inductive, Next
    PROVE  JobsAreTrue'
<1> RowsKept /\ OrdersKept
  BY RowsKeptStep, OrdersKeptStep
<1>1. ASSUME NEW w \in Workers, Abort(w) PROVE JobsAreTrue'
  BY <1>1, Finished DEF Abort
<1>2. ASSUME Tracking \/ Carrier PROVE JobsAreTrue'
  BY <1>2, NoJobChanges
     DEF Tracking, Follow, PollBegin, HookFind, HookBegin, Track, TrackSkip, TrackCommit, TrackRollback,
         Carrier, LateOrder, LateDropped, CarrierEvent
<1> QED BY <1>1, <1>2, CreateJobs, CancelJobs, SweepJobs DEF Next, Handler, Sweeper, Workers

-----------------------------------------------------------------------------
(* Orders, rows and links. *)

\* A number that has a row has one for ever.
LEMMA HasRowKept ==
    ASSUME RowsKept, NEW n, HasRow(n)
    PROVE  HasRow(n)'
BY DEF HasRow, RowsKept

\* Every step that places an order does it for a shipment that has a row.
LEMMA NoOrderWithoutRowStep ==
    ASSUME Inductive, Next
    PROVE  NoOrderWithoutRow'
<1> TypeOK /\ NoOrderWithoutRow
  BY DEF Inductive
<1> RowsKept
  BY RowsKeptStep
<1>1. \/ late' \subseteq late
      \/ \E w \in Workers : At(w, "creating") /\ late' = late \cup {job[w].number}
  BY DEF Next, Handler, Sweeper, Tracking, Carrier, Workers, Create, Cancel, Sweep, Abort,
         LookupNew, LookupUnconfirmed, Prepare, CommitDraft, FindBeforeCreate, OrderCreated,
         CreateTimeout, Apply, CancelRead, CancelFind, CancelCall, CancelStore, SweepStart,
         SweepFind, SweepSkip, SweepApply, Follow, PollBegin, HookFind, HookBegin, Track, TrackSkip,
         TrackCommit, TrackRollback, LateOrder, LateDropped, CarrierEvent
<1>2. \A n \in late' : HasRow(n)
  BY <1>1, CreatingHasRow DEF NoOrderWithoutRow
<1>3. ASSUME NEW o \in OrderIds, Placed(o)' PROVE HasRow(orders'[o].number)
  <2>1. CASE orders' = orders
    BY <1>3, <2>1 DEF NoOrderWithoutRow, Placed
  <2>2. ASSUME NEW p \in OrderIds, NEW order \in Order, orders' = [orders EXCEPT ![p] = order],
               Booked(p, order)
        PROVE  HasRow(orders'[o].number)
    BY <1>3, <2>2 DEF NoOrderWithoutRow, Placed, Booked, TypeOK
  <2> QED BY <2>1, <2>2, OrdersStep
<1> QED BY <1>2, <1>3, HasRowKept DEF NoOrderWithoutRow

\* Every step that adds a row gives it a number nobody has.
LEMMA NumbersAreUniqueStep ==
    ASSUME Inductive, Next
    PROVE  NumbersAreUnique'
<1> TypeOK /\ NumbersAreUnique
  BY DEF Inductive
<1>1. CASE rows' = rows
  BY <1>1 DEF NumbersAreUnique, Exists
<1>2. ASSUME NEW k \in Keys, NEW row \in Row, rows' = [rows EXCEPT ![k] = row],
             Written(k, row)
      PROVE  NumbersAreUnique'
  BY <1>2 DEF NumbersAreUnique, Exists, TypeOK, Written, Draft, Rewrite, HasRow
<1>3. CASE Tracked
  BY <1>3 DEF NumbersAreUnique, Tracked
<1> QED BY <1>1, <1>2, <1>3, RowsStep

\* Every step that links a row does it to an order with the number of the row.
LEMMA LinkIsTrueStep ==
    ASSUME Inductive, Next
    PROVE  LinkIsTrue'
<1> TypeOK /\ LinkIsTrue
  BY DEF Inductive
<1>1. CASE rows' = rows
  <2>1. OrdersKept
    BY OrdersKeptStep
  <2>2. \A k \in Keys : Exists(k) => rows[k].external_id \in OrderIds \cup {None}
    BY DEF TypeOK, Exists, Row
  <2> QED BY <1>1, <2>1, <2>2 DEF LinkIsTrue, OrdersKept, Exists
<1>2. ASSUME NEW k \in Keys, NEW row \in Row, rows' = [rows EXCEPT ![k] = row],
             Written(k, row), orders' = orders
      PROVE  LinkIsTrue'
  BY <1>2 DEF LinkIsTrue, Exists, Placed, TypeOK, Written, Draft, Rewrite, OrderOf
<1>3. CASE Tracked /\ orders' = orders
  BY <1>3 DEF LinkIsTrue, Tracked, Placed
<1> QED BY <1>1, <1>2, <1>3, RowsStep

-----------------------------------------------------------------------------
(* What a session has loaded stays true while others write.                  *)

\* An order of a shipment is one for ever.
LEMMA OrderOfKept ==
    ASSUME RowsKept, OrdersKept, NEW k \in Keys, Exists(k), NEW o, OrderOf(o, k)
    PROVE  OrderOf(o, k)'
BY DEF OrderOf, RowsKept, OrdersKept

\* A session that waits is not disturbed.
LEMMA OpenIsTrue ==
    ASSUME TypeOK, RowsKept, OrdersKept, NEW t \in Trackers, SessionTrue(t), session'[t] = session[t]
    PROVE  SessionTrue(t)'
<1>1. CASE session[t] = Closed
  BY <1>1 DEF SessionTrue
<1>2. CASE session[t] # Closed
  <2>1. session[t] \in Session
    BY <1>2 DEF TypeOK
  <2>2. session[t].todo \subseteq Keys
    BY <2>1 DEF Session
  <2>3. \A k \in session[t].todo : Exists(k)' /\ rows'[k].external_id # None
    BY <1>2, <2>2 DEF SessionTrue, RowsKept
  <2>4. t \in Hooks => \A k \in session[t].todo : OrderOf(session[t].order, k)'
    BY <1>2, <2>2, OrderOfKept DEF SessionTrue
  <2>5. \A k \in Keys : session[t].loaded[k] # None =>
           /\ Exists(k)' /\ rows'[k].external_id # None
           /\ OrderOf(session[t].loaded[k].external_id, k)'
    BY <1>2, OrderOfKept DEF SessionTrue, RowsKept
  <2>6. /\ session[t].step = "open" => \A k \in session[t].todo : session[t].loaded[k] # None
        /\ \A k \in Keys : session[t].new[k] # None => session[t].loaded[k] # None
    BY <1>2 DEF SessionTrue
  <2> QED BY <1>2, <2>3, <2>4, <2>5, <2>6 DEF SessionTrue
<1> QED BY <1>1, <1>2

\* What the sessions have loaded stays true in every step.
LEMMA SessionsStep ==
    ASSUME Inductive, Next
    PROVE  SessionsAreTrue'
<1> TypeOK /\ SessionsAreTrue /\ LinkIsTrue
  BY DEF Inductive
<1> RowsKept /\ OrdersKept
  BY RowsKeptStep, OrdersKeptStep
<1>1. CASE session' = session
  BY <1>1, OpenIsTrue DEF SessionsAreTrue
<1>2. ASSUME NEW t \in Trackers, Follow(t) PROVE SessionsAreTrue'
  <2> DEFINE s == session'[t]
  <2>1. \A u \in Trackers \ {t} : session'[u] = session[u]
    BY <1>2 DEF Follow, PollBegin, HookFind, HookBegin, Track, TrackSkip, TrackCommit, TrackRollback, TypeOK
  <2>2. ASSUME PollBegin(t) PROVE SessionTrue(t)'
    <3> DEFINE due == {k \in Keys : Exists(k) /\ rows[k].external_id # None /\ rows[k].polled}
    <3>1. /\ s.todo = due /\ s.step = "open" /\ t \notin Hooks
          /\ \A k \in Keys : /\ s.loaded[k] = IF k \in due THEN rows[k] ELSE None
                             /\ s.new[k] = None
      BY <2>2, TrackersDiffer DEF PollBegin, TypeOK, Nothing
    <3>2. \A k \in due : Exists(k) /\ rows[k].external_id # None /\ OrderOf(rows[k].external_id, k)
      BY DEF LinkIsTrue, OrderOf, TypeOK, Exists, Row
    <3>3. rows' = rows /\ orders' = orders
      BY <2>2 DEF PollBegin
    <3>4. \A k \in Keys : s.loaded[k] # None => k \in due /\ s.loaded[k] = rows[k]
      BY <3>1
    <3>5. \A k \in due : k \in Keys /\ s.loaded[k] # None
      BY <3>1 DEF Exists
    <3>6. \A k \in due : Exists(k)' /\ rows'[k].external_id # None /\ OrderOf(rows[k].external_id, k)'
      BY <3>2, <3>3 DEF Exists, OrderOf, Placed
    <3> HIDE DEF due
    <3>7. \A k \in Keys : s.loaded[k] # None => OrderOf(session[t].loaded[k].external_id, k)'
      BY <3>3, <3>4, <3>6 DEF OrderOf, Placed
    <3> QED BY <3>1, <3>4, <3>5, <3>6, <3>7 DEF SessionTrue
  <2>3. ASSUME NEW k \in Keys, HookFind(t, k) PROVE SessionTrue(t)'
    <3>1. /\ s.todo = {k} /\ s.step = "found" /\ s.order = rows[k].external_id
          /\ \A j \in Keys : s.loaded[j] = None /\ s.new[j] = None
      BY <2>3 DEF HookFind, TypeOK, Nothing
    <3>2. Exists(k) /\ rows[k].external_id # None /\ OrderOf(rows[k].external_id, k)
      BY <2>3 DEF HookFind, LinkIsTrue, OrderOf, TypeOK, Exists, Row
    <3>3. rows' = rows /\ orders' = orders
      BY <2>3 DEF HookFind
    <3> QED BY <3>1, <3>2, <3>3 DEF SessionTrue, Exists, OrderOf, Placed
  <2>4. ASSUME HookBegin(t) PROVE SessionTrue(t)'
    <3>0. session[t] # Closed /\ session[t].step = "found"
      BY <2>4 DEF HookBegin, Closed
    <3>1. session[t] \in Session
      BY <3>0, SessionFacts
    <3>2. /\ s.todo = session[t].todo /\ s.order = session[t].order /\ s.new = session[t].new
          /\ \A k \in Keys : s.loaded[k] = IF k \in session[t].todo THEN rows[k] ELSE None
      BY <2>4, <3>1 DEF HookBegin, TypeOK, Session
    <3>3. \A k \in session[t].todo :
             /\ k \in Keys /\ Exists(k) /\ rows[k].external_id # None /\ rows[k] # None
             /\ OrderOf(rows[k].external_id, k)
      BY <3>0, SessionFacts DEF SessionTrue, SessionsAreTrue, LinkIsTrue, OrderOf, Exists, Row
    <3>4. \A k \in Keys : s.new[k] = None
      BY <3>0, <3>2 DEF SessionsAreTrue, SessionTrue
    <3>5. t \in Hooks => \A k \in s.todo : OrderOf(s.order, k)
      BY <3>0, <3>2 DEF SessionsAreTrue, SessionTrue
    <3>6. rows' = rows /\ orders' = orders
      BY <2>4 DEF HookBegin
    <3> HIDE DEF s
    <3>7. s = session'[t]
      BY DEF s
    <3> QED BY <3>2, <3>3, <3>4, <3>5, <3>6, <3>7 DEF SessionTrue, Exists, OrderOf, Placed
  <2>5. ASSUME NEW k \in Keys, Track(t, k) \/ TrackSkip(t, k) PROVE SessionTrue(t)'
    <3>0. /\ session[t] # Closed /\ session[t].step = "open" /\ k \in session[t].todo
          /\ SessionTrue(t)
      BY <2>5 DEF Track, TrackSkip, Closed, SessionsAreTrue
    <3>1. session[t] \in Session
      BY <3>0, SessionFacts
    <3>2. /\ s.todo = session[t].todo \ {k} /\ s.order = session[t].order
          /\ s.step = session[t].step /\ s.loaded = session[t].loaded
          /\ \A j \in Keys \ {k} : s.new[j] = session[t].new[j]
      BY <2>5, <3>1 DEF Track, TrackSkip, TypeOK, Session
    <3>3. session[t].loaded[k] # None
      BY <3>0 DEF SessionTrue
    <3>4. rows' = rows /\ orders' = orders
      BY <2>5 DEF Track, TrackSkip
    <3> HIDE DEF s
    <3>5. s = session'[t]
      BY DEF s
    <3> QED BY <3>0, <3>2, <3>3, <3>4, <3>5 DEF SessionTrue, Exists, OrderOf, Placed
  <2>6. ASSUME TrackCommit(t) \/ TrackRollback(t) PROVE SessionTrue(t)'
    BY <2>6 DEF TrackCommit, TrackRollback, TypeOK, SessionTrue
  <2>7. SessionTrue(t)'
    BY <1>2, <2>2, <2>3, <2>4, <2>5, <2>6 DEF Follow
  <2>8. \A u \in Trackers \ {t} : SessionTrue(u)'
    BY <2>1, OpenIsTrue DEF SessionsAreTrue
  <2> QED BY <2>7, <2>8 DEF SessionsAreTrue
<1>3. session' = session \/ \E t \in Trackers : Follow(t)
  BY DEF Next, Handler, Sweeper, Tracking, Carrier, Create, Cancel, Sweep, Abort,
         LookupNew, LookupUnconfirmed, Prepare, CommitDraft, FindBeforeCreate, OrderCreated,
         CreateTimeout, Apply, CancelRead, CancelFind, CancelCall, CancelStore, SweepStart,
         SweepFind, SweepSkip, SweepApply, LateOrder, LateDropped, CarrierEvent
<1> QED BY <1>1, <1>2, <1>3

-----------------------------------------------------------------------------
(* Theorems *)

\* The invariant holds before anybody has asked for anything.
LEMMA InductiveInit == Init => Inductive
<1> SUFFICES ASSUME Init PROVE Inductive
  OBVIOUS
<1>1. TypeOK
  BY IdleType DEF Init, TypeOK
<1>2. JobsAreTrue
  BY DEF Init, JobsAreTrue, JobTrue, Idle
<1>3. SessionsAreTrue
  BY DEF Init, SessionsAreTrue, SessionTrue
<1> QED BY <1>1, <1>2, <1>3 DEF Init, Inductive, NoOrderWithoutRow, NumbersAreUnique, LinkIsTrue, Placed, Exists

\* Every step preserves the invariant.
LEMMA InductiveStep == Inductive /\ [Next]_vars => Inductive'
<1> SUFFICES ASSUME Inductive, [Next]_vars PROVE Inductive'
  OBVIOUS
<1>1. CASE Next
  BY <1>1, TypeStep, JobsStep, SessionsStep, NoOrderWithoutRowStep, NumbersAreUniqueStep, LinkIsTrueStep
     DEF Inductive
<1>2. CASE UNCHANGED vars
  BY <1>2 DEF vars, Inductive, TypeOK, NoOrderWithoutRow, NumbersAreUnique, LinkIsTrue,
              JobsAreTrue, JobTrue, SessionsAreTrue, SessionTrue, OrderOf, HasRow, Exists, Placed
<1> QED BY <1>1, <1>2

\* The rows name true orders, and what workers and sessions remember survives their awaits.
THEOREM Safety == Spec => []Inductive
BY InductiveInit, InductiveStep, PTL DEF Spec

\* Rows, orders, late POSTs, jobs and sessions have the shape their columns and
\* locals have, whatever the number of clients, handlers, sweeps and polls.
THEOREM TypeCorrect == Spec => []TypeOK
<1>1. Inductive => TypeOK
  BY DEF Inductive
<1> QED BY <1>1, Safety, PTL

\* No order without a row: the number of every order the carrier holds, and of
\* every POST still on its way, is that of a committed row (create and _prepare
\* commit the draft before the carrier is called).
THEOREM OrdersHaveRows == Spec => []NoOrderWithoutRow
<1>1. Inductive => NoOrderWithoutRow
  BY DEF Inductive
<1> QED BY <1>1, Safety, PTL

\* A row never names an order of another shipment: find_by_number and the
\* uniqueness of numbers keep uq_shipments_carrier_id_external_id.
THEOREM LinksAreOwn == Spec => []LinkedOrderIsOwn
<1>1. Inductive => LinkedOrderIsOwn
  BY DEF Inductive, LinkIsTrue, NumbersAreUnique, LinkedOrderIsOwn
<1> QED BY <1>1, Safety, PTL

-----------------------------------------------------------------------------
(* A draft has no order, and what has an order is polled until it ends.      *)

\* A shipment that has ended has ended for good.
LEMMA EndedKept ==
    ASSUME RowsKept, OrdersKept, NEW k \in Keys, Exists(k), Ended(k)
    PROVE  Ended(k)'
<1>1. CASE rows[k].cancelled
  BY <1>1 DEF RowsKept, Ended
<1>2. CASE Over(k)
  <2>1. PICK o \in OrderIds : OrderOf(o, k) /\ orders[o].events \cap FinalStatuses # {}
    BY <1>2 DEF Over
  <2>2. OrderOf(o, k)'
    BY <2>1, OrderOfKept
  <2>3. orders'[o].events \cap FinalStatuses # {}
    BY <2>1 DEF OrderOf, OrdersKept
  <2> QED BY <2>1, <2>2, <2>3 DEF Ended, Over
<1> QED BY <1>1, <1>2 DEF Ended

\* What is said of a row stays true of it.
LEMMA HonestKept ==
    ASSUME RowsKept, OrdersKept, NEW k \in Keys, Exists(k), NEW row, RowHonest(k, row)
    PROVE  RowHonest(k, row)'
BY EndedKept DEF RowHonest

\* A row that has taken an answer is polled and not a draft.
LEMMA AppliedHonest ==
    ASSUME NEW k \in Keys, NEW row \in Row, NEW o \in OrderIds, NEW status \in {"CREATED", "ACCEPTED"}
    PROVE  RowHonest(k, Applied(row, o, status))
<1>1. /\ Applied(row, o, status).status = status /\ Applied(row, o, status).external_id = o
      /\ Applied(row, o, status).polled = TRUE
  BY DEF Applied, Row
<1> QED BY <1>1, NoneIsNoValue DEF RowHonest, FinalStatuses

\* The status a poll reads from the carrier is never DRAFT, and a final one is
\* of an order that has ended; one it keeps was that of a row with an order.
LEMMA ProjectedHonest ==
    ASSUME NEW k \in Keys, NEW row \in Row, RowHonest(k, row), row.external_id # None,
           NEW event \in CarrierStatuses \cup {None}, event \in FinalStatuses => Ended(k)
    PROVE  Projected(row, event).external_id # None /\ RowHonest(k, Projected(row, event))
<1> DEFINE status == IF event = None THEN row.status ELSE event
           new == Projected(row, event)
<1>1. /\ new.status = status /\ new.external_id = row.external_id
      /\ new.polled = (status \notin FinalStatuses)
  BY DEF Projected, Row
<1>2. CASE event = None
  BY <1>1, <1>2 DEF RowHonest
<1>3. CASE event # None
  <2>1. status \in CarrierStatuses /\ status # "DRAFT" /\ (status \in FinalStatuses => Ended(k))
    BY <1>3 DEF CarrierStatuses, FinalStatuses
  <2> QED BY <1>1, <2>1 DEF RowHonest
<1> QED BY <1>2, <1>3

\* A row that a session writes takes its columns from two honest rows.
LEMMA UpdatedHonest ==
    ASSUME NEW k \in Keys, NEW row \in Row, NEW loaded \in Row, NEW new \in Row,
           row.external_id # None, new.external_id # None, RowHonest(k, row), RowHonest(k, new)
    PROVE  RowHonest(k, Updated(row, loaded, new))
<1> DEFINE written == Updated(row, loaded, new)
<1>1. /\ written.external_id = row.external_id
      /\ written.status \in {row.status, new.status} /\ written.polled \in {row.polled, new.polled}
  BY UpdatedFacts
<1> HIDE DEF written
<1>2. RowHonest(k, written)
  BY <1>1 DEF RowHonest
<1> QED BY <1>2 DEF written

\* Whatever rows a step writes are honest.
LEMMA RowsHonest ==
    ASSUME Inductive, AllHonest, Next, NEW k \in Keys, Exists(k)', NEW row, row = rows'[k]
    PROVE  RowHonest(k, row)'
<1> TypeOK /\ RowsKept /\ OrdersKept
  BY RowsKeptStep, OrdersKeptStep DEF Inductive
<1> DEFINE Goal == RowHonest(k, row)'
<1>0. CASE rows'[k] = rows[k]
  BY <1>0, HonestKept DEF AllHonest, Exists
<1>1. ASSUME NEW w \in Workers, CommitDraft(w), rows'[k] # rows[k] PROVE Goal
  <2>1. rows'[k].status = "DRAFT" /\ rows'[k].external_id = None
    BY <1>1 DEF CommitDraft, TypeOK
  <2> QED BY <2>1, NoneIsNoValue DEF RowHonest, FinalStatuses
<1>2. ASSUME NEW w \in Workers, Apply(w) \/ SweepApply(w), rows'[k] # rows[k] PROVE Goal
  <2> DEFINE o == job[w].found
  <2>1. PICK status \in {"CREATED", "ACCEPTED"} :
           rows' = [rows EXCEPT ![job[w].shipment] = Applied(@, o, status)]
    BY <1>2 DEF Apply, SweepApply
  <2>2. k = job[w].shipment /\ rows'[k] = Applied(rows[k], o, status)
    BY <1>2, <2>1 DEF TypeOK
  <2>3. rows[k] \in Row /\ o \in OrderIds /\ Exists(k)
    BY <1>2, <2>2, JobFacts, NoneIsNoValue DEF Apply, SweepApply, At, Exists
  <2>4. RowHonest(k, Applied(rows[k], o, status))
    BY <2>3, AppliedHonest
  <2> HIDE DEF o
  <2> QED BY <2>2, <2>3, <2>4, HonestKept
<1>3. ASSUME NEW w \in Workers, CancelStore(w), rows'[k] # rows[k] PROVE Goal
  <2>1. rows[job[w].shipment] \in Row /\ job[w].shipment \in Keys
    BY <1>3, JobFacts DEF CancelStore, At
  <2>2. rows'[k].status = "CANCELLED" /\ rows'[k].cancelled = TRUE
    BY <1>3, <2>1 DEF CancelStore, TypeOK, Row
  <2> QED BY <2>2 DEF RowHonest, Ended
<1>4. ASSUME NEW t \in Trackers, TrackCommit(t), rows'[k] # rows[k] PROVE Goal
  <2> DEFINE loaded == session[t].loaded[k]
             new == session[t].new[k]
  <2>1. /\ new # None /\ new \in Row /\ rows[k] \in Row /\ loaded \in Row
        /\ rows'[k] = Updated(rows[k], loaded, new)
    BY <1>4, CommitFacts
  <2>2. session[t] # Closed
    BY <1>4 DEF TrackCommit, Closed
  <2>3. rows[k].external_id # None
    BY <2>1, <2>2, SessionFacts
  <2>4. Exists(k) /\ RowHonest(k, rows[k]) /\ new.external_id # None /\ RowHonest(k, new)
    BY <2>1, <2>2, NoneIsNoValue DEF AllHonest, Exists
  <2> HIDE DEF loaded, new
  <2>5. RowHonest(k, Updated(rows[k], loaded, new))
    BY <2>1, <2>3, <2>4, UpdatedHonest
  <2> QED BY <2>1, <2>4, <2>5, HonestKept
<1>5. ASSUME NEW w \in Workers, Create(w), rows'[k] # rows[k] PROVE Goal
  BY <1>1, <1>2, <1>5
     DEF Create, LookupNew, LookupUnconfirmed, Prepare, FindBeforeCreate, OrderCreated, CreateTimeout
<1>6. ASSUME NEW w \in Workers, Cancel(w), rows'[k] # rows[k] PROVE Goal
  BY <1>3, <1>6 DEF Cancel, CancelRead, CancelFind, CancelCall
<1>7. ASSUME NEW w \in Workers, Sweep(w) \/ Abort(w), rows'[k] # rows[k] PROVE Goal
  BY <1>2, <1>7 DEF Sweep, SweepStart, SweepFind, SweepSkip, Abort
<1>8. ASSUME Carrier PROVE rows'[k] = rows[k]
  BY <1>8 DEF Carrier, LateOrder, LateDropped, CarrierEvent
<1>9. ASSUME NEW t \in Trackers, Follow(t), rows'[k] # rows[k] PROVE Goal
  BY <1>4, <1>9 DEF Follow, PollBegin, HookFind, HookBegin, Track, TrackSkip, TrackRollback
<1> HIDE DEF Goal
<1>10. CASE rows'[k] # rows[k]
  BY <1>5, <1>6, <1>7, <1>8, <1>9, <1>10 DEF Next, Handler, Sweeper, Tracking, Workers, Goal
<1>11. CASE rows'[k] = rows[k]
  BY <1>0, <1>11 DEF Goal
<1> QED BY <1>10, <1>11 DEF Goal

\* What a session has loaded or is about to write.
InSession(t, k, row) == session[t] # Closed /\ row \in {session[t].loaded[k], session[t].new[k]} /\ row # None

\* Whatever rows a session loads or projects are honest.
LEMMA SessionsHonest ==
    ASSUME Inductive, AllHonest, Next, NEW t \in Trackers, NEW k \in Keys, NEW row,
           InSession(t, k, row)'
    PROVE  row.external_id # None /\ RowHonest(k, row)'
<1> TypeOK /\ RowsKept /\ OrdersKept
  BY RowsKeptStep, OrdersKeptStep DEF Inductive
<1> DEFINE Goal == row.external_id # None /\ RowHonest(k, row)'
<1>1. CASE InSession(t, k, row)
  <2>1. row.external_id # None /\ RowHonest(k, row)
    BY <1>1 DEF InSession, AllHonest
  <2>2. Exists(k)
    BY <1>1, SessionFacts, NoneIsNoValue DEF InSession, Exists
  <2> QED BY <2>1, <2>2, HonestKept
<1>2. ASSUME PollBegin(t) PROVE Goal
  <2>1. row = rows[k] /\ Exists(k) /\ rows[k].external_id # None
    BY <1>2 DEF PollBegin, TypeOK, InSession, Nothing
  <2> QED BY <2>1, HonestKept DEF AllHonest
<1>3. ASSUME NEW j \in Keys, HookFind(t, j) PROVE FALSE
  BY <1>3 DEF HookFind, InSession, Nothing, TypeOK
<1>4. ASSUME HookBegin(t), ~InSession(t, k, row) PROVE Goal
  <2>0. session[t] # Closed
    BY <1>4 DEF HookBegin, Closed
  <2>1. session[t] \in Session /\ \A j \in session[t].todo : rows[j] \in Row /\ rows[j].external_id # None
    BY <2>0, SessionFacts
  <2>2. /\ session'[t].new = session[t].new
        /\ session'[t].loaded[k] = IF k \in session[t].todo THEN rows[k] ELSE None
    BY <1>4, <2>1 DEF HookBegin, TypeOK, Session
  <2>3. row = rows[k] /\ k \in session[t].todo
    BY <1>4, <2>0, <2>2 DEF InSession
  <2>4. Exists(k) /\ rows[k].external_id # None
    BY <2>1, <2>3, NoneIsNoValue DEF Exists
  <2> QED BY <2>3, <2>4, HonestKept DEF AllHonest
<1>5. ASSUME NEW j \in Keys, Track(t, j), ~InSession(t, k, row) PROVE Goal
  <2>0. session[t] # Closed /\ session[t].step = "open" /\ j \in session[t].todo
    BY <1>5 DEF Track, Closed
  <2>1. session[t] \in Session
    BY <2>0, SessionFacts
  <2>2. PICK event \in orders[Asked(t, j)].events \cup {None} :
           /\ event \in CarrierStatuses \cup {None}
           /\ session' = [session EXCEPT ![t].todo = @ \ {j},
                                         ![t].new[j] = Projected(session[t].loaded[j], event)]
    BY <1>5, Projects
  <2>3. j = k /\ row = Projected(session[t].loaded[k], event)
    BY <1>5, <2>0, <2>1, <2>2 DEF InSession, TypeOK, Session
  <2> DEFINE loaded == session[t].loaded[k]
  <2>4. loaded # None /\ loaded \in Row /\ OrderOf(Asked(t, k), k)
    BY <2>0, <2>3, AskedIsOwn
  <2>5. loaded.external_id # None /\ RowHonest(k, loaded)
    BY <2>0, <2>4 DEF AllHonest
  <2>6. event \in FinalStatuses => Ended(k)
    <3>1. None \notin FinalStatuses
      BY NoneIsNoValue DEF Statuses, CarrierStatuses
    <3>2. ASSUME event \in FinalStatuses PROVE Over(k)
      <4>1. event \in orders[Asked(t, k)].events
        BY <2>2, <2>3, <3>1, <3>2
      <4> QED BY <2>4, <3>2, <4>1 DEF Over, OrderOf
    <3> QED BY <3>2 DEF Ended
  <2>7. Exists(k)
    BY <2>0, <2>4, SessionFacts, NoneIsNoValue DEF Exists
  <2> HIDE DEF loaded
  <2>8. Projected(loaded, event).external_id # None /\ RowHonest(k, Projected(loaded, event))
    BY <2>2, <2>4, <2>5, <2>6, ProjectedHonest
  <2>9. row = Projected(loaded, event)
    BY <2>3 DEF loaded
  <2> QED BY <2>7, <2>8, <2>9, HonestKept
<1>6. ASSUME NEW j \in Keys, TrackSkip(t, j) PROVE InSession(t, k, row)
  <2>0. session[t] # Closed
    BY <1>6 DEF TrackSkip, Closed
  <2>1. session[t] \in Session
    BY <2>0, SessionFacts
  <2> QED BY <1>6, <2>0, <2>1 DEF TrackSkip, InSession, TypeOK, Session
<1>7. ASSUME TrackCommit(t) \/ TrackRollback(t) PROVE FALSE
  BY <1>7 DEF TrackCommit, TrackRollback, InSession, TypeOK
<1>8. ASSUME session'[t] = session[t] PROVE InSession(t, k, row)
  BY <1>8 DEF InSession
<1>9. session'[t] = session[t] \/ Follow(t)
  <2>1. session' = session \/ \E u \in Trackers : Follow(u)
    BY DEF Next, Handler, Sweeper, Tracking, Carrier, Create, Cancel, Sweep, Abort,
           LookupNew, LookupUnconfirmed, Prepare, CommitDraft, FindBeforeCreate, OrderCreated,
           CreateTimeout, Apply, CancelRead, CancelFind, CancelCall, CancelStore, SweepStart,
           SweepFind, SweepSkip, SweepApply, LateOrder, LateDropped, CarrierEvent
  <2>2. ASSUME NEW u \in Trackers, Follow(u), u # t PROVE session'[t] = session[t]
    BY <2>2 DEF Follow, PollBegin, HookFind, HookBegin, Track, TrackSkip, TrackCommit, TrackRollback, TypeOK
  <2> QED BY <2>1, <2>2
<1> HIDE DEF Goal
<1>10. Goal
  BY <1>1, <1>2, <1>3, <1>4, <1>5, <1>6, <1>7, <1>8, <1>9 DEF Follow, Goal
<1> QED BY <1>10 DEF Goal

\* Every step leaves all rows honest, the stored and the loaded ones.
LEMMA AllHonestStep == Inductive /\ AllHonest /\ [Next]_vars => AllHonest'
<1> SUFFICES ASSUME Inductive, AllHonest, [Next]_vars PROVE AllHonest'
  OBVIOUS
<1>1. CASE Next
  <2>1. ASSUME NEW k \in Keys, Exists(k)' PROVE RowHonest(k, rows[k])'
    <3>1. PICK row : row = rows'[k]
      OBVIOUS
    <3>2. RowHonest(k, row)'
      BY <1>1, <2>1, <3>1, RowsHonest
    <3> QED BY <3>1, <3>2 DEF RowHonest
  <2>2. ASSUME NEW t \in Trackers, NEW k \in Keys, NEW row, InSession(t, k, row)'
        PROVE  row.external_id # None /\ RowHonest(k, row)'
    BY <1>1, <2>2, SessionsHonest
  <2>3. ASSUME NEW t \in Trackers, NEW k \in Keys, session'[t] # Closed,
               session'[t].loaded[k] # None
        PROVE  session'[t].loaded[k].external_id # None /\ RowHonest(k, session[t].loaded[k])'
    <3>1. PICK row : row = session'[t].loaded[k]
      OBVIOUS
    <3>2. InSession(t, k, row)'
      BY <2>3, <3>1 DEF InSession
    <3>3. row.external_id # None /\ RowHonest(k, row)'
      BY <2>2, <3>2
    <3> QED BY <3>1, <3>3 DEF RowHonest
  <2>4. ASSUME NEW t \in Trackers, NEW k \in Keys, session'[t] # Closed,
               session'[t].new[k] # None
        PROVE  session'[t].new[k].external_id # None /\ RowHonest(k, session[t].new[k])'
    <3>1. PICK row : row = session'[t].new[k]
      OBVIOUS
    <3>2. InSession(t, k, row)'
      BY <2>4, <3>1 DEF InSession
    <3>3. row.external_id # None /\ RowHonest(k, row)'
      BY <2>2, <3>2
    <3> QED BY <3>1, <3>3 DEF RowHonest
  <2> QED BY <2>1, <2>3, <2>4 DEF AllHonest
<1>2. CASE UNCHANGED vars
  BY <1>2 DEF vars, AllHonest, RowHonest, Ended, Over, OrderOf, Exists, Placed
<1> QED BY <1>1, <1>2

\* In every reachable state the columns of a row tell the truth of its shipment.
THEOREM RowsAreHonest == Spec => []AllHonest
<1>1. Init => AllHonest
  BY DEF Init, AllHonest, Exists
<1> QED BY <1>1, AllHonestStep, Safety, PTL DEF Spec

\* ShipmentRepository.unconfirmed finds every row without an order that was
\* not cancelled, and no other, so the reconciliation overlooks no draft.
THEOREM DraftsAreFound == Spec => []UnconfirmedIsDraft
<1>1. AllHonest => UnconfirmedIsDraft
  BY DEF AllHonest, RowHonest, UnconfirmedIsDraft
<1> QED BY <1>1, RowsAreHonest, PTL

\* A shipment with an order that nobody has cancelled is in the polling queue
\* until an order of it has ended, however the sessions of polls and webhooks,
\* which load a row, wait for the carrier and write the changed columns later,
\* overlap each other, the handlers and the sweep.
THEOREM OrdersArePolled == Spec => []PolledUntilTheEnd
<1>1. AllHonest => PolledUntilTheEnd
  BY DEF AllHonest, RowHonest, Ended, PolledUntilTheEnd
<1> QED BY <1>1, RowsAreHonest, PTL

-----------------------------------------------------------------------------
(* Refinement: the ledger is kept. *)

\* The intentions of the ledger are the numbers of the rows.
LEMMA IntentsAre == \A n : n \in Intents <=> HasRow(n)
BY DEF Intents, HasRow

\* The placements of the ledger are the orders and their numbers.
LEMMA PlacementsAre ==
    \A p : p \in Placements <=> \E o \in OrderIds : Placed(o) /\ p = <<o, orders[o].number>>
BY DEF Placements

\* The links of the ledger are the numbers of the rows and their orders.
LEMMA LinksAre ==
    \A l : l \in Links <=> \E k \in Keys : /\ Exists(k) /\ rows[k].external_id # None
                                         /\ l = <<rows[k].number, rows[k].external_id>>
BY DEF Links

\* A first row is an intention.
LEMMA DraftIntends ==
    ASSUME TypeOK, NEW k \in Keys, NEW row \in Row, rows' = [rows EXCEPT ![k] = row],
           orders' = orders, Draft(k, row)
    PROVE  Ledger!Intend(row.number)
<1>1. \A j \in Keys : Exists(j)' <=> Exists(j) \/ j = k
  BY NoneIsNoValue DEF TypeOK, Exists
<1>2. \A j \in Keys \ {k} : rows'[j] = rows[j]
  BY DEF TypeOK
<1>3. rows'[k] = row
  BY DEF TypeOK
<1>4. Intents' = Intents \cup {row.number}
  <2>1. \A n : HasRow(n)' <=> HasRow(n) \/ n = row.number
    BY <1>1, <1>2, <1>3 DEF HasRow, Draft
  <2>2. \A n : n \in Intents' <=> HasRow(n)'
    BY DEF Intents, HasRow
  <2> QED BY <2>1, <2>2, IntentsAre
<1>5. Links' = Links
  <2>1. \A l : l \in Links' <=> \E j \in Keys : /\ Exists(j)' /\ rows'[j].external_id # None
                                              /\ l = <<rows'[j].number, rows'[j].external_id>>
    BY DEF Links
  <2>2. \A l : l \in Links' <=> l \in Links
    BY <1>1, <1>2, <1>3, <2>1, LinksAre DEF Draft
  <2> QED BY <2>2
<1>6. Placements' = Placements
  BY DEF Placements, Placed
<1> QED BY <1>4, <1>5, <1>6, IntentsAre DEF Ledger!Intend, Draft

\* A row that is written again links its number to its order, or changes nothing.
LEMMA RewriteLinks ==
    ASSUME TypeOK, NumbersAreUnique, NEW k \in Keys, NEW row \in Row,
           rows' = [rows EXCEPT ![k] = row], orders' = orders, Rewrite(k, row)
    PROVE  \/ Ledger!Link(row.number, row.external_id) /\ row.external_id \in OrderIds
           \/ UNCHANGED Ledger!ledger
<1>1. \A j \in Keys : Exists(j)' <=> Exists(j)
  BY NoneIsNoValue DEF TypeOK, Exists, Rewrite
<1>2. \A j \in Keys \ {k} : rows'[j] = rows[j]
  BY DEF TypeOK
<1>3. rows'[k] = row /\ Exists(k) /\ row.number = rows[k].number
  BY DEF TypeOK, Rewrite
<1>4. Intents' = Intents
  <2>1. \A n : HasRow(n)' <=> HasRow(n)
    BY <1>1, <1>2, <1>3 DEF HasRow
  <2>2. \A n : n \in Intents' <=> HasRow(n)'
    BY DEF Intents, HasRow
  <2> QED BY <2>1, <2>2, IntentsAre
<1>5. Placements' = Placements
  BY DEF Placements, Placed
<1>6. \A l : l \in Links' <=> \E j \in Keys : /\ Exists(j)' /\ rows'[j].external_id # None
                                            /\ l = <<rows'[j].number, rows'[j].external_id>>
  BY DEF Links
<1>7. CASE row.external_id = rows[k].external_id
  <2>1. \A l : l \in Links' <=> l \in Links
    BY <1>1, <1>2, <1>3, <1>6, <1>7, LinksAre
  <2> QED BY <1>4, <1>5, <2>1 DEF Ledger!ledger
<1>8. CASE row.external_id # rows[k].external_id
  <2> DEFINE n == row.number
             o == row.external_id
  <2>1. OrderOf(o, k) /\ o \in OrderIds /\ o # None
    BY <1>8, NoneIsNoValue DEF Rewrite, OrderOf
  <2>2. <<o, n>> \in Placements
    BY <1>3, <2>1, PlacementsAre DEF OrderOf
  <2>3. \A j \in Keys : Exists(j) /\ j # k => rows[j].number # n
    BY <1>3 DEF NumbersAreUnique
  <2>4. ASSUME NEW l \in Links' PROVE l \in {m \in Links : m[1] # n} \cup {<<n, o>>}
    <3>1. PICK j \in Keys : /\ Exists(j)' /\ rows'[j].external_id # None
                            /\ l = <<rows'[j].number, rows'[j].external_id>>
      BY <1>6
    <3>2. CASE j = k
      BY <1>3, <3>1, <3>2
    <3>3. CASE j # k
      BY <1>1, <1>2, <2>3, <3>1, <3>3, LinksAre
    <3> QED BY <3>2, <3>3
  <2>5. ASSUME NEW l \in Links, l[1] # n PROVE l \in Links'
    <3>1. PICK j \in Keys : /\ Exists(j) /\ rows[j].external_id # None
                            /\ l = <<rows[j].number, rows[j].external_id>>
      BY LinksAre
    <3>2. j # k
      BY <1>3, <2>5, <3>1
    <3> QED BY <1>1, <1>2, <1>6, <3>1, <3>2
  <2>6. <<n, o>> \in Links'
    BY <1>1, <1>3, <1>6, <2>1
  <2>7. Links' = {m \in Links : m[1] # n} \cup {<<n, o>>}
    BY <2>4, <2>5, <2>6
  <2> QED BY <1>4, <1>5, <2>1, <2>2, <2>7 DEF Ledger!Link
<1> QED BY <1>7, <1>8

\* A poll or a webhook changes nothing in the ledger.
LEMMA TrackedLinks ==
    ASSUME Tracked, orders' = orders
    PROVE  UNCHANGED Ledger!ledger
<1>1. \A k \in Keys :
         /\ Exists(k)' <=> Exists(k)
         /\ Exists(k) => /\ rows'[k].number = rows[k].number
                         /\ rows'[k].external_id = rows[k].external_id
  BY DEF Tracked
<1>2. ASSUME NEW n PROVE HasRow(n)' <=> HasRow(n)
  <2>1. ASSUME NEW k \in Keys, Exists(k)', rows'[k].number = n PROVE HasRow(n)
    BY <1>1, <2>1 DEF HasRow
  <2>2. ASSUME NEW k \in Keys, Exists(k), rows[k].number = n PROVE HasRow(n)'
    BY <1>1, <2>2 DEF HasRow
  <2> QED BY <2>1, <2>2 DEF HasRow
<1>3. \A n : n \in Intents' <=> n \in Intents
  <2>1. \A n : n \in Intents' <=> HasRow(n)'
    BY DEF Intents, HasRow
  <2> QED BY <1>2, <2>1, IntentsAre
<1>4. \A l : l \in Links' <=> l \in Links
  <2>1. \A l : l \in Links' <=> \E k \in Keys : /\ Exists(k)' /\ rows'[k].external_id # None
                                                /\ l = <<rows'[k].number, rows'[k].external_id>>
    BY DEF Links
  <2>2. ASSUME NEW l \in Links' PROVE l \in Links
    <3>1. PICK k \in Keys : /\ Exists(k)' /\ rows'[k].external_id # None
                            /\ l = <<rows'[k].number, rows'[k].external_id>>
      BY <2>1
    <3> QED BY <1>1, <3>1, LinksAre
  <2>3. ASSUME NEW l \in Links PROVE l \in Links'
    <3>1. PICK k \in Keys : /\ Exists(k) /\ rows[k].external_id # None
                            /\ l = <<rows[k].number, rows[k].external_id>>
      BY LinksAre
    <3> QED BY <1>1, <2>1, <3>1
  <2> QED BY <2>2, <2>3
<1>5. Placements' = Placements
  BY DEF Placements, Placed
<1>6. Intents' = Intents /\ Links' = Links
  BY <1>3, <1>4
<1> QED BY <1>5, <1>6 DEF Ledger!ledger

\* An order that is booked is placed for an intention, or changes nothing.
LEMMA BookPlaces ==
    ASSUME TypeOK, NEW o \in OrderIds, NEW order \in Order, orders' = [orders EXCEPT ![o] = order],
           rows' = rows, Booked(o, order)
    PROVE  Ledger!Place(o, order.number) \/ UNCHANGED Ledger!ledger
<1>1. Intents' = Intents /\ Links' = Links
  BY DEF Intents, Links, Exists
<1>2. \A p \in OrderIds : Placed(p)' <=> Placed(p) \/ p = o
  BY NoneIsNoValue DEF TypeOK, Placed
<1>3. (\A p \in OrderIds \ {o} : orders'[p] = orders[p]) /\ orders'[o] = order
  BY DEF TypeOK
<1>4. \A q : q \in Placements' <=> \E p \in OrderIds : Placed(p)' /\ q = <<p, orders'[p].number>>
  BY DEF Placements
<1>5. CASE Placed(o)
  <2>1. \A q : q \in Placements' <=> q \in Placements
    BY <1>2, <1>3, <1>4, <1>5, PlacementsAre DEF Booked
  <2> QED BY <1>1, <2>1 DEF Ledger!ledger
<1>6. CASE ~Placed(o)
  <2>1. Placements' = Placements \cup {<<o, order.number>>}
    <3>1. \A q : q \in Placements' <=> q \in Placements \/ q = <<o, order.number>>
      BY <1>2, <1>3, <1>4, <1>6, PlacementsAre
    <3> QED BY <3>1
  <2>2. \A m \in Numbers : <<o, m>> \notin Placements
    BY <1>6, PlacementsAre
  <2>3. order.number \in Intents
    BY <1>6, IntentsAre DEF Booked
  <2> QED BY <1>1, <2>1, <2>2, <2>3 DEF Ledger!Place
<1> QED BY <1>5, <1>6

\* Every step of the service is a step of the ledger or none.
LEMMA LedgerStep ==
    ASSUME Inductive, Next
    PROVE  Ledger!Next \/ UNCHANGED Ledger!ledger
<1> TypeOK /\ NumbersAreUnique
  BY DEF Inductive
<1>1. ASSUME NEW k \in Keys, NEW row \in Row, rows' = [rows EXCEPT ![k] = row],
             Written(k, row), orders' = orders
      PROVE  Ledger!Next \/ UNCHANGED Ledger!ledger
  <2>1. row.number \in Numbers
    BY DEF Row
  <2>2. CASE Draft(k, row)
    BY <1>1, <2>1, <2>2, DraftIntends DEF Ledger!Next
  <2>3. CASE Rewrite(k, row)
    BY <1>1, <2>1, <2>3, RewriteLinks DEF Ledger!Next
  <2> QED BY <1>1, <2>2, <2>3 DEF Written
<1>2. ASSUME NEW o \in OrderIds, NEW order \in Order, orders' = [orders EXCEPT ![o] = order],
             rows' = rows, Booked(o, order)
      PROVE  Ledger!Next \/ UNCHANGED Ledger!ledger
  <2>1. order.number \in Numbers
    BY DEF Order
  <2> QED BY <1>2, <2>1, BookPlaces DEF Ledger!Next
<1>3. CASE rows' = rows /\ orders' = orders
  BY <1>3 DEF Ledger!ledger, Intents, Placements, Links, Exists, Placed
<1>6. CASE Tracked /\ orders' = orders
  BY <1>6, TrackedLinks
<1>4. CASE rows' # rows
  BY <1>1, <1>4, <1>6, RowsStep
<1>5. CASE rows' = rows /\ orders' # orders
  BY <1>2, <1>5, OrdersStep
<1> QED BY <1>3, <1>4, <1>5

\* The shipments module implements the ledger: the draft is on record before
\* the carrier is asked, no row loses its order or takes another shipment's,
\* whatever crashes, times out or races.
THEOREM LedgerIsKept == Spec => LedgerKept
<1>1. Init => Ledger!Init
  BY DEF Init, Ledger!Init, Intents, Placements, Links, Exists, Placed
<1>2. Inductive /\ [Next]_vars => [Ledger!Next]_(Ledger!ledger)
  <2> SUFFICES ASSUME Inductive, [Next]_vars PROVE [Ledger!Next]_(Ledger!ledger)
    OBVIOUS
  <2>1. CASE Next
    BY <2>1, LedgerStep
  <2>2. CASE UNCHANGED vars
    BY <2>2 DEF vars, Ledger!ledger, Intents, Placements, Links, Exists, Placed
  <2> QED BY <2>1, <2>2
<1> QED BY <1>1, <1>2, Safety, PTL DEF Spec, LedgerKept, Ledger!Spec

=============================================================================
