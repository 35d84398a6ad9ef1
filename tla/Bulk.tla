-------------------------------- MODULE Bulk ----------------------------------
(***************************************************************************)
(* One bulk run: BulkService of bulk/service.py over bulk_runs and         *)
(* bulk_rows. Its requests quote, select and create go through the rows in *)
(* order; each is one transaction over rows it has read at its start, in   *)
(* which only the shipments are committed on their own (ShipmentService,   *)
(* the module Shipments). Requests overlap, die and are repeated.          *)
(***************************************************************************)
EXTENDS Naturals, FiniteSets

CONSTANTS
    Positions,    \* positions of the list
    RowQuotes,    \* rate requests a row may get
    Callers,      \* handlers of the requests for this run
    MaxRequests,  \* bound on requests, which also number themselves
    Nil

VARIABLES
    runStatus,     \* bulk_runs.status
    runRows,       \* bulk_rows by position
    rowDecisions,  \* committed decisions by idempotency key, or Nil: their recommendation
    rowShipments,  \* committed shipments by idempotency key, or Nil: their decision's key
    caller,        \* the requests
    requests,      \* how many there were
    overlapped     \* history: two requests for this run were open at once

bulkVars == <<runStatus, runRows, rowDecisions, rowShipments, caller, requests, overlapped>>

Resting == [step |-> "idle"]
Calling(h) == caller[h].step # "idle"
CallAt(h, step) == caller[h].step = step
GoesOn(h, r) == caller' = [caller EXCEPT ![h] = r]
RunData == <<runStatus, runRows, rowDecisions, rowShipments, requests, overlapped>>

\* Mutant of RowKey: every request has keys of its own.
RowKeyAnew(row, request) == <<row, request>>

\* row_idempotency_key, the same for whoever repeats the run.
RowKey(row, request) == <<row, 0>>

RowKeys == Positions \X (0..MaxRequests)
Recommendations == [request : 1..MaxRequests, quote : RowQuotes]

\* A list has a row at least (BulkRunCreateIn).
ASSUME BulkAssumption ==
    /\ Positions \subseteq Nat /\ Positions # {} /\ IsFiniteSet(Positions) /\ MaxRequests \in Nat
    /\ Nil \notin RowKeys \cup Recommendations

NewRow == [status |-> "new", quote |-> Nil, rec |-> Nil, decision |-> Nil,
           shipment |-> Nil, error |-> FALSE]

\* create: a draft with its rows.
BulkInit ==
    /\ runStatus = "draft"
    /\ runRows = [r \in Positions |-> NewRow]
    /\ rowDecisions = [k \in RowKeys |-> Nil]
    /\ rowShipments = [k \in RowKeys |-> Nil]
    /\ caller = [h \in Callers |-> Resting]
    /\ requests = 0 /\ overlapped = FALSE

-----------------------------------------------------------------------------
\* What each request does with a row, and what it needs.
Takes(kind, row) ==
    \/ kind = "quote" /\ row.status = "new"
    \/ kind = "select" /\ row.status = "quoted" /\ row.quote # Nil
    \/ kind = "create" /\ row.status = "selected" /\ row.decision # Nil

\* get_run loads the run and its rows; later reads return the same objects.
Begin(h, kind) ==
    /\ ~Calling(h) /\ requests < MaxRequests
    /\ requests' = requests + 1
    /\ overlapped' = (overlapped \/ \E g \in Callers : Calling(g))
    /\ GoesOn(h, [step |-> "rows", kind |-> kind, request |-> requests + 1, seen |-> runRows,
              new |-> runRows, todo |-> {r \in Positions : Takes(kind, runRows[r])}, inserted |-> {}])
    /\ UNCHANGED <<runStatus, runRows, rowDecisions, rowShipments>>

\* The row the loop has come to.
First(h, r) == r \in caller[h].todo /\ \A s \in caller[h].todo : r <= s
Current(h, r) == CallAt(h, "rows") /\ First(h, r)

\* _fail: any exception marks the row, and the loop goes on.
Failed(row) == [row EXCEPT !.status = "failed", !.error = TRUE]

\* The loop is through with r.
Done(h, r, row) ==
    GoesOn(h, [caller[h] EXCEPT !.step = "rows", !.new[r] = row, !.todo = @ \ {r}])

Fail(h, r) == Current(h, r) /\ Done(h, r, Failed(caller[h].new[r])) /\ UNCHANGED RunData

\* quote_all: an answer, new or reused.
QuoteRow(h, r, q) ==
    /\ Current(h, r) /\ caller[h].kind = "quote"
    /\ Done(h, r, [caller[h].new[r] EXCEPT !.quote = q, !.status = "quoted"])
    /\ UNCHANGED RunData

\* Mutant of SelectRow: a decision of this key is taken whatever its body.
SelectRowAnyBody(h, r) ==
    /\ Current(h, r) /\ caller[h].kind = "select"
    /\ LET key == RowKey(r, caller[h].request)
           row == caller[h].new[r]
       IN  IF rowDecisions[key] # Nil
             THEN Done(h, r, [row EXCEPT !.decision = key, !.status = "selected",
                                !.rec = [request |-> caller[h].request, quote |-> row.quote]])
             ELSE GoesOn(h, [caller[h] EXCEPT !.step = "insert"])
    /\ UNCHANGED RunData

\* select_all: a recommendation of its own, whose body the decision has; a
\* decision that exists under the key has another body, and the row fails.
SelectRow(h, r) ==
    /\ Current(h, r) /\ caller[h].kind = "select"
    /\ IF rowDecisions[RowKey(r, caller[h].request)] # Nil
         THEN Done(h, r, Failed(caller[h].new[r]))
         ELSE GoesOn(h, [caller[h] EXCEPT !.step = "insert"])
    /\ UNCHANGED RunData

\* Requests that have written this key and are not through.
Inserting(key) == {h \in Callers : Calling(h) /\ key \in caller[h].inserted}

\* The flush waits for another session with this key. If that one has committed
\* it, the session is unusable: every row left fails in memory, then the flush
\* of _run_status, and the request is rolled back.
InsertDecision(h, r) ==
    /\ CallAt(h, "insert") /\ First(h, r)
    /\ LET key == RowKey(r, caller[h].request)
           row == caller[h].new[r]
       IN  /\ Inserting(key) \ {h} = {}
           /\ IF rowDecisions[key] # Nil
                THEN GoesOn(h, Resting)
                ELSE GoesOn(h, [caller[h] EXCEPT
                        !.step = "rows", !.todo = @ \ {r}, !.inserted = @ \cup {key},
                        !.new[r] = [row EXCEPT !.decision = key, !.status = "selected",
                                      !.rec = [request |-> caller[h].request, quote |-> row.quote]]])
    /\ UNCHANGED RunData

\* create_all: the shipment of this key, found or made, is committed at once;
\* create may raise after that.
CreateRow(h, r, raises) ==
    /\ Current(h, r) /\ caller[h].kind = "create"
    /\ LET key == RowKey(r, caller[h].request)
           row == caller[h].new[r]
       IN  /\ rowShipments' = [rowShipments EXCEPT ![key] = IF @ = Nil THEN row.decision ELSE @]
           /\ Done(h, r, IF raises THEN Failed(row)
                         ELSE [row EXCEPT !.shipment = key, !.status = "created"])
    /\ UNCHANGED <<runStatus, runRows, rowDecisions, requests, overlapped>>

\* The UPDATE: the columns that differ from what the session had read.
Updated(row, seen, new) == [c \in DOMAIN row |-> IF new[c] # seen[c] THEN new[c] ELSE row[c]]
Merged(h) == [r \in Positions |-> Updated(runRows[r], caller[h].seen[r], caller[h].new[r])]

WhenBusy(kind) == IF kind = "create" THEN "creating" ELSE "quoted"

\* Mutant of RunStatus: the rows are counted without the flush.
RunStatusUnflushed(h) ==
    IF \E r \in Positions : runRows[r].status \notin {"created", "failed"} THEN WhenBusy(caller[h].kind)
    ELSE IF Positions # {} /\ \A r \in Positions : runRows[r].status = "failed" THEN "failed"
    ELSE "completed"

\* _run_status, after its flush.
RunStatus(h) ==
    LET table == Merged(h)
    IN  IF \E r \in Positions : table[r].status \notin {"created", "failed"}
          THEN WhenBusy(caller[h].kind)
        ELSE IF Positions # {} /\ \A r \in Positions : table[r].status = "failed" THEN "failed"
        ELSE "completed"

\* The commit.
Finish(h) ==
    /\ CallAt(h, "rows") /\ caller[h].todo = {}
    /\ runRows' = Merged(h) /\ runStatus' = RunStatus(h)
    /\ rowDecisions' = [k \in RowKeys |-> IF k \in caller[h].inserted
                                           THEN caller[h].new[k[1]].rec ELSE rowDecisions[k]]
    /\ GoesOn(h, Resting)
    /\ UNCHANGED <<rowShipments, requests, overlapped>>

\* The request dies, its transaction is rolled back; its shipments are not.
AbortCall(h) == Calling(h) /\ GoesOn(h, Resting) /\ UNCHANGED RunData

BulkNext ==
    \E h \in Callers :
        \/ \E kind \in {"quote", "select", "create"} : Begin(h, kind)
        \/ \E r \in Positions : \/ Fail(h, r)
                                \/ \E q \in RowQuotes : QuoteRow(h, r, q)
                                \/ SelectRow(h, r)
                                \/ InsertDecision(h, r)
                                \/ \E raises \in BOOLEAN : CreateRow(h, r, raises)
        \/ Finish(h) \/ AbortCall(h)

BulkSpec == BulkInit /\ [][BulkNext]_bulkVars

-----------------------------------------------------------------------------
(* Properties *)

Quiet == \A h \in Callers : ~Calling(h)

\* row_idempotency_key: however often a run is quoted, selected and created, in
\* parallel or after a crash, a row of the list is decided and shipped once.
NothingTwice ==
    \A r \in Positions :
        /\ Cardinality({k \in RowKeys : k[1] = r /\ rowDecisions[k] # Nil}) <= 1
        /\ Cardinality({k \in RowKeys : k[1] = r /\ rowShipments[k] # Nil}) <= 1

\* The columns of a row belong together even if requests overlap: the decision
\* it names is committed and of the recommendation it names, and the shipment
\* it names is committed and of that decision.
RowBelongsTogether ==
    \A r \in Positions :
        /\ runRows[r].decision # Nil => rowDecisions[runRows[r].decision] = runRows[r].rec /\ runRows[r].rec # Nil
        /\ runRows[r].shipment # Nil => rowShipments[runRows[r].shipment] = runRows[r].decision
                                      /\ runRows[r].decision # Nil

\* ADR-0022: as long as requests do not overlap, whatever dies or raises, a row
\* that has not come so far is neither decided nor shipped, one that is created
\* names its shipment, a shipment is of the decision that its row still names (so
\* that a repeated create finds it), the recommendation of a row is of its quote,
\* and the state of the run sums up its rows. That a shipped row says so is not
\* promised: see ShippedIsSaid.
RunTellsTheTruth ==
    ~overlapped /\ Quiet =>
        /\ \A r \in Positions :
              /\ runRows[r].status \in {"new", "quoted"} =>
                    \A k \in RowKeys : k[1] = r => rowDecisions[k] = Nil /\ rowShipments[k] = Nil
              /\ runRows[r].status \in {"selected", "created"} =>
                    runRows[r].decision # Nil /\ runRows[r].rec.quote = runRows[r].quote
              /\ runRows[r].status = "created" => runRows[r].shipment # Nil
              /\ \A k \in RowKeys : k[1] = r /\ rowShipments[k] # Nil =>
                    rowShipments[k] = runRows[r].decision
        /\ runStatus = "completed" <=> /\ \A r \in Positions : runRows[r].status \in {"created", "failed"}
                                       /\ \E r \in Positions : runRows[r].status = "created"
        /\ runStatus = "failed" <=> \A r \in Positions : runRows[r].status = "failed"

\* What the status of a row suggests: a row whose shipment is committed is
\* created. It is not so: a request that dies after create leaves the row
\* selected, and a create that raises after its commit leaves it failed, which no
\* later request takes up.
ShippedIsSaid ==
    ~overlapped /\ Quiet => \A k \in RowKeys : rowShipments[k] # Nil => runRows[k[1]].status = "created"
=============================================================================
