------------------------------- MODULE Tracking -------------------------------
(***************************************************************************)
(* Acceptance of carrier events by concurrent transactions: the minute     *)
(* task that polls all due shipments of a tenant in one session            *)
(* (worker/tasks.py, shipments/service.py) and the inbound webhook         *)
(* (tracking/inbound.py), both ending in TrackingService.ingest            *)
(* (tracking/service.py).                                                  *)
(*                                                                         *)
(* PostgreSQL runs them at READ COMMITTED: a session loads a shipment's    *)
(* row once, reads the timeline later, and its UPDATE names only the       *)
(* columns whose value differs from the one it had loaded.                 *)
(***************************************************************************)
EXTENDS Naturals, FiniteSets, Sequences

CONSTANTS
    Ships,      \* confirmed shipments of one tenant
    Events,     \* what the carrier may report of a shipment; the dedup key
    OccurredAt, \* Events -> time the event happened
    StatusOf,   \* Events -> normalized status
    Deadline,   \* the deadline promised in the quote, or None
    Polls,      \* runs of poll_shipment_statuses (they may overlap)
    Hooks,      \* inbound webhook requests being handled
    None

Sessions == Polls \cup Hooks

FinalStatuses == {"DELIVERED", "RETURNED", "CANCELLED"}
Statuses ==
    {"DRAFT", "CREATED", "ACCEPTED", "PICKED_UP", "AT_ORIGIN_HUB", "IN_TRANSIT",
     "AT_DESTINATION_HUB", "OUT_FOR_DELIVERY", "READY_FOR_PICKUP",
     "DELIVERY_ATTEMPT_FAILED", "RETURN_IN_PROGRESS", "EXCEPTION"} \cup FinalStatuses

ASSUME EventsWellFormed ==
    /\ OccurredAt \in [Events -> Nat]
    /\ StatusOf \in [Events -> Statuses]
    /\ IsFiniteSet(Events)
    /\ \A d, e \in Events : OccurredAt[d] = OccurredAt[e] => d = e
ASSUME NoneIsNoEvent == None \notin Events /\ None \notin Nat

\* The columns of a shipment that tracking writes, and its DeliveryOutcome.
Row == [status : Statuses, last : Events \cup {None}, picked_up : Events \cup {None},
        polled : BOOLEAN, incident : BOOLEAN, late : BOOLEAN, outcome : Events \cup {None}]

VARIABLES
    rows,       \* committed shipment rows
    timeline,   \* committed shipment_events: pairs <<ship, event>>
    notices,    \* per ship: the statuses announced by shipment.status_changed
    reported,   \* what the carrier knows of each ship
    session     \* the open transactions

vars == <<rows, timeline, notices, reported, session>>

Closed == [step |-> "closed"]

Fresh(ship) == [status |-> "CREATED", last |-> None, picked_up |-> None, polled |-> TRUE,
                incident |-> FALSE, late |-> FALSE, outcome |-> None]

Init ==
    /\ rows = [ship \in Ships |-> Fresh(ship)]
    /\ timeline = {}
    /\ notices = [ship \in Ships |-> << >>]
    /\ reported = [ship \in Ships |-> {}]
    /\ session = [s \in Sessions |-> Closed]

-----------------------------------------------------------------------------
\* Mutant of Latest: the timeline sorted the other way round.
LatestReversed(S) == CHOOSE e \in S : \A d \in S : OccurredAt[e] <= OccurredAt[d]

\* The event of a set that occurred last, or first.
Latest(S) == CHOOSE e \in S : \A d \in S : OccurredAt[d] <= OccurredAt[e]
First(S) == CHOOSE e \in S : \A d \in S : OccurredAt[e] <= OccurredAt[d]

\* Mutant of FirstWith: only the newest event of the timeline is looked at.
NewestWith(S, status) == IF StatusOf[Latest(S)] = status THEN Latest(S) ELSE None

\* The first event of a set with a status, or None.
FirstWith(S, status) ==
    LET hits == {e \in S : StatusOf[e] = status} IN IF hits = {} THEN None ELSE First(hits)

EventsOf(S, ship) == {e \in Events : <<ship, e>> \in S}

\* _project and _settle: the row recomputed from a whole timeline. Silence for
\* more than five days (stale) is possible only while the status is not final.
Projection(row, S, stale) ==
    IF S = {} THEN [row EXCEPT !.polled = row.status \notin FinalStatuses]
    ELSE LET latest == Latest(S)
             pickup == FirstWith(S, "PICKED_UP")
             delivered == FirstWith(S, "DELIVERED")
             final == StatusOf[latest] \in FinalStatuses
         IN  [status |-> StatusOf[latest],
              last |-> latest,
              picked_up |-> IF row.picked_up = None THEN pickup ELSE row.picked_up,
              polled |-> ~final,
              incident |-> row.incident \/ (stale /\ ~final),
              late |-> IF delivered = None \/ Deadline = None THEN row.late
                       ELSE OccurredAt[delivered] > Deadline,
              outcome |-> IF delivered = None THEN row.outcome ELSE delivered]

\* The UPDATE of a session that loaded `loaded` and leaves `new`: next_poll_at
\* is a new moment whenever it is set, every other column only if it differs.
Updated(row, loaded, new) ==
    [c \in DOMAIN row |->
        IF new[c] # loaded[c] \/ (c = "polled" /\ new.polled) THEN new[c] ELSE row[c]]

Open(s) == session[s].step # "closed"

\* Events another open transaction has inserted: an INSERT of the same key waits.
HeldByOthers(s) == UNION {session[t].fresh : t \in {u \in Sessions \ {s} : Open(u)}}

-----------------------------------------------------------------------------
\* due_for_poll: one session loads every shipment due.
PollBegin(s) ==
    LET due == {ship \in Ships : rows[ship].polled}
    IN  /\ s \in Polls /\ ~Open(s)
        /\ due # {}
        /\ session' = [session EXCEPT ![s] =
              [step |-> "next", todo |-> due, ship |-> None, batch |-> {}, fresh |-> {},
               loaded |-> rows, new |-> rows, taken |-> {}]]
        /\ UNCHANGED <<rows, timeline, notices, reported>>

\* adapter.track answers with everything the carrier knows of the shipment.
PollAsk(s, ship) ==
    /\ s \in Polls /\ session[s].step = "next" /\ ship \in session[s].todo
    /\ session' = [session EXCEPT ![s].step = "known", ![s].ship = ship,
                                  ![s].todo = @ \ {ship}, ![s].batch = reported[ship]]
    /\ UNCHANGED <<rows, timeline, notices, reported>>

\* The carrier's call raises: the poll goes on to the next shipment.
PollSkip(s, ship) ==
    /\ s \in Polls /\ session[s].step = "next" /\ ship \in session[s].todo
    /\ session' = [session EXCEPT ![s].todo = @ \ {ship}]
    /\ UNCHANGED <<rows, timeline, notices, reported>>

\* The second transaction of an inbound webhook: one event of one shipment,
\* delivered late, twice, or out of order.
HookBegin(s, ship, e) ==
    /\ s \in Hooks /\ ~Open(s)
    /\ e \in reported[ship]
    /\ session' = [session EXCEPT ![s] =
          [step |-> "known", todo |-> {}, ship |-> ship, batch |-> {e}, fresh |-> {},
           loaded |-> rows, new |-> rows, taken |-> {}]]
    /\ UNCHANGED <<rows, timeline, notices, reported>>

\* ingest: known_keys, after which events already in the timeline are dropped.
Known(s) ==
    /\ Open(s) /\ session[s].step = "known"
    /\ session' = [session EXCEPT ![s].step = "take",
                                  ![s].batch = @ \ EventsOf(timeline, session[s].ship)]
    /\ UNCHANGED <<rows, timeline, notices, reported>>

\* ingest: insert the new events, read the timeline, project it on the row. The
\* INSERT waits for a transaction that holds the same key.
Take(s) ==
    LET ship == session[s].ship
        new == {ship} \X session[s].batch
        visible == EventsOf(timeline \cup new, ship)
        \* the outcome row is read now, not with the shipment
        row == [session[s].loaded[ship] EXCEPT !.outcome = rows[ship].outcome]
    IN  /\ Open(s) /\ session[s].step = "take"
        /\ new \cap HeldByOthers(s) = {}
        /\ new \cap timeline = {}
        /\ \E stale \in BOOLEAN :
              session' = [session EXCEPT ![s] =
                  [session[s] EXCEPT !.step = "next", !.fresh = @ \cup new, !.taken = @ \cup {ship},
                                      !.loaded[ship] = row, !.new[ship] = Projection(row, visible, stale)]]
        /\ UNCHANGED <<rows, timeline, notices, reported>>

\* A delivery_outcomes row that appeared since the session looked for it.
OutcomeTaken(s) ==
    \E ship \in session[s].taken :
        /\ session[s].loaded[ship].outcome = None /\ session[s].new[ship].outcome # None
        /\ rows[ship].outcome # None

\* Another transaction committed one of the keys after known_keys was read, or
\* the outcome row: the IntegrityError leaves the session unusable, and all it
\* did, for other shipments too, is rolled back.
Conflict(s) ==
    /\ Open(s)
    /\ \/ /\ session[s].step = "take"
          /\ ({session[s].ship} \X session[s].batch) \cap timeline # {}
       \/ OutcomeTaken(s)
    /\ session' = [session EXCEPT ![s] = Closed]
    /\ UNCHANGED <<rows, timeline, notices, reported>>

\* Mutant of Changed: the previous status is taken after the assignment.
ChangedAfter(s, ship) == session[s].new[ship].status # session[s].new[ship].status

\* _notify compares the new status with the one the session had loaded.
Changed(s, ship) == session[s].new[ship].status # session[s].loaded[ship].status

Commit(s) ==
    /\ Open(s) /\ session[s].step = "next" /\ session[s].todo = {}
    /\ ~OutcomeTaken(s)
    /\ timeline' = timeline \cup session[s].fresh
    /\ rows' = [ship \in Ships |->
          IF ship \in session[s].taken
            THEN Updated(rows[ship], session[s].loaded[ship], session[s].new[ship])
            ELSE rows[ship]]
    /\ notices' = [ship \in Ships |->
          IF ship \in session[s].taken /\ Changed(s, ship)
            THEN Append(notices[ship], session[s].new[ship].status)
            ELSE notices[ship]]
    /\ session' = [session EXCEPT ![s] = Closed]
    /\ UNCHANGED reported

\* The process dies, the connection breaks, or the database ends a deadlock:
\* everything of the session is undone.
Rollback(s) ==
    /\ Open(s)
    /\ session' = [session EXCEPT ![s] = Closed]
    /\ UNCHANGED <<rows, timeline, notices, reported>>

\* The carrier learns of an event, not necessarily in the order they happened.
Report(ship, e) ==
    /\ e \notin reported[ship]
    /\ reported' = [reported EXCEPT ![ship] = @ \cup {e}]
    /\ UNCHANGED <<rows, timeline, notices, session>>

Poll(s) ==
    \/ PollBegin(s)
    \/ \E ship \in Ships : PollAsk(s, ship) \/ PollSkip(s, ship)

Hook(s) == \E ship \in Ships, e \in Events : HookBegin(s, ship, e)

Ingest(s) == Known(s) \/ Take(s) \/ Conflict(s) \/ Commit(s) \/ Rollback(s)

Next ==
    \/ \E s \in Polls : Poll(s)
    \/ \E s \in Hooks : Hook(s)
    \/ \E s \in Sessions : Ingest(s)
    \/ \E ship \in Ships, e \in Events : Report(ship, e)

Spec == Init /\ [][Next]_vars

\* The task runs every minute, a carrier that is asked again and again answers
\* some day, every transaction ends, and some day the processes stop dying. Of
\* webhooks nothing is assumed except that a handler that runs ends.
Fairness ==
    /\ \A s \in Polls : /\ WF_vars(PollBegin(s))
                        /\ \A ship \in Ships : SF_vars(PollAsk(s, ship))
    /\ \A s \in Sessions : WF_vars(Known(s) \/ Take(s) \/ Conflict(s)) /\ WF_vars(Commit(s))
    /\ <>[][\A s \in Sessions : Rollback(s) => Commit(s) \/ Conflict(s)]_vars

FairSpec == Spec /\ Fairness

-----------------------------------------------------------------------------
(* Properties *)

Session == [step : {"next", "known", "take"}, todo : SUBSET Ships, ship : Ships \cup {None},
            batch : SUBSET Events, fresh : SUBSET (Ships \X Events),
            loaded : [Ships -> Row], new : [Ships -> Row], taken : SUBSET Ships]

\* Rows, timelines, notices and sessions have the shape the tables and locals have.
TypeOK ==
    /\ rows \in [Ships -> Row]
    /\ timeline \subseteq Ships \X Events
    /\ notices \in [Ships -> Seq(Statuses)]
    /\ reported \in [Ships -> SUBSET Events]
    /\ session \in [Sessions -> Session \cup {Closed}]

\* _project: a pick-up or a delivery that is in the timeline is on record, even
\* if its event came after the later ones, and whichever transactions overlapped;
\* and there is no outcome of a delivery nobody reported.
FactsRecorded ==
    \A ship \in Ships :
        LET has(status) == \E e \in EventsOf(timeline, ship) : StatusOf[e] = status
        IN  /\ has("PICKED_UP") => rows[ship].picked_up # None
            /\ has("DELIVERED") <=> rows[ship].outcome # None

\* _notify: the tenant is told of every status a shipment takes, in order: the
\* notice is queued by the transaction that changes the status.
ChangeIsAnnounced ==
    [][\A ship \in Ships : rows'[ship].status # rows[ship].status =>
            notices'[ship] = Append(notices[ship], rows'[ship].status)]_vars

\* Once the carrier has nothing new to say, the shipment shows its last event.
ShowsLast(ship) ==
    \A e \in reported[ship] :
        (\A d \in reported[ship] : OccurredAt[d] <= OccurredAt[e]) => rows[ship].status = StatusOf[e]

\* The docstring of the module: the status follows the time of the events. A
\* session that saw fewer of them may commit last and a column may keep what no
\* session computed, but each poll mends it: a shipment that does not leave the
\* polling queue shows its last event for good some day.
StatusConverges ==
    \A ship \in Ships : <>[]ShowsLast(ship) \/ <>[](~rows[ship].polled)

\* The same with nothing said of the queue: false, the older status may be
\* written over that of a shipment that has left the queue.
StatusAlwaysConverges == \A ship \in Ships : <>[]ShowsLast(ship)

\* POLL_INTERVALS: polling ends at a final status and only there.
StoppedIsFinal ==
    \A ship \in Ships : ~rows[ship].polled => rows[ship].status \in FinalStatuses

\* _project: a late old event does not roll the status back.
StatusNeverGoesBack ==
    [][\A ship \in Ships : rows[ship].last # None =>
            OccurredAt[rows'[ship].last] >= OccurredAt[rows[ship].last]]_vars

\* _project and _notify: "status changed" about a status that did not change is
\* noise, so no status is announced twice in a row.
NoRepeatedNotice ==
    \A ship \in Ships : \A i \in 1..(Len(notices[ship]) - 1) :
        notices[ship][i] # notices[ship][i + 1]

\* _poll_tenant: a failure on one shipment does not take the updates of the
\* others, whose events the pass had already accepted.
FailureIsContained ==
    [][\A s \in Polls : Conflict(s) => session[s].fresh \subseteq timeline']_vars
=============================================================================
