------------------------------ MODULE Documents ------------------------------
(***************************************************************************)
(* Labels of one tenant's shipments and their files: documents/service.py, *)
(* documents/repository.py, documents/storage.py and the tasks             *)
(* fetch_pending_documents and expire_document_files of worker/tasks.py.   *)
(*                                                                         *)
(* Rows are written by transactions, the object storage is not one of      *)
(* them: what a session put or deleted there stays when it is rolled back. *)
(***************************************************************************)
EXTENDS Naturals, FiniteSets

CONSTANTS
    Ships,      \* confirmed shipments
    Docs,       \* identifiers of documents (a bound); a file's key is its document's
    Requests,   \* handlers that order labels, of one shipment or of a bulk run
    Sweeps,     \* runs of fetch_pending_documents
    Cleanups,   \* runs of expire_document_files
    None

Sessions == Requests \cup Sweeps \cup Cleanups

\* A row: stored says that s3_key is set; the age counts from created_at, up to
\* PENDING_DELAY, up to GIVE_UP_AFTER, and beyond.
Row == [ship : Ships, status : {"pending", "ready", "failed", "expired"},
        stored : BOOLEAN, age : {"new", "due", "old"}]

ASSUME NoneIsNoDocument == None \notin Docs /\ None \notin Row
\* The tasks and the handlers are different code, shipments and documents
\* different tables.
ASSUME KindsAreDistinct ==
    /\ Requests \cap Sweeps = {} /\ Requests \cap Cleanups = {} /\ Sweeps \cap Cleanups = {}
    /\ Ships \cap Docs = {}

VARIABLES
    docs,       \* committed rows of documents, or None
    store,      \* the documents that have a file in the object storage
    graced,     \* shipments that came to their end more than FILE_GRACE ago
    session     \* the open transactions

vars == <<docs, store, graced, session>>

Closed == [step |-> "closed"]
Open(s) == session[s].step # "closed"
At(s, step) == session[s].step = step
Exists(d) == docs[d] # None

Init ==
    /\ docs = [d \in Docs |-> None]
    /\ store = {}
    /\ graced = {}
    /\ session = [s \in Sessions |-> Closed]

-----------------------------------------------------------------------------
WithStatus(status) == {d \in Docs : Exists(d) /\ docs[d].status = status}

\* DocumentRepository.pending; the limit of a pass is not reached.
Pending == {d \in WithStatus("pending") : docs[d].age # "new"}

\* Mutants of ExpiredFiles: the grace is forgotten; the files of refused labels.
ExpiredFilesEarly == {d \in WithStatus("ready") : docs[d].stored}
ExpiredFilesFailed == {d \in WithStatus("failed") : docs[d].stored /\ docs[d].ship \in graced}

\* DocumentRepository.expired_files.
ExpiredFiles == {d \in WithStatus("ready") : docs[d].stored /\ docs[d].ship \in graced}

\* Mutant of GivenUp: the sweep asks for ever.
GivenUpNever(row) == FALSE

\* More than GIVE_UP_AFTER since the order.
GivenUp(row) == row.age = "old"

\* The INSERT of a new row, or the UPDATE of the columns that differ from what
\* the session had loaded.
Updated(row, loaded, new) ==
    IF loaded = None THEN (IF new = None THEN row ELSE new)
    ELSE [c \in DOMAIN row |-> IF new[c] # loaded[c] THEN new[c] ELSE row[c]]

\* Identifiers that no row and no open session uses.
Unused == {d \in Docs : ~Exists(d) /\ \A s \in Sessions : Open(s) => session[s].new[d] = None}

\* A session starts on its work with the rows it reads for it.
Begin(s, todo) ==
    LET read == [d \in Docs |-> IF d \in todo THEN docs[d] ELSE None]
    IN  session' = [session EXCEPT ![s] =
            [step |-> "next", todo |-> todo, doc |-> None, loaded |-> read, new |-> read]]
Close(s) == session' = [session EXCEPT ![s] = Closed]

-----------------------------------------------------------------------------
\* label of one shipment, or order_labels of several in one transaction.
LabelBegin(s, ships) ==
    /\ ~Open(s) /\ ships # {}
    /\ Begin(s, ships)
    /\ UNCHANGED <<docs, store, graced>>

\* label: a document of the shipment is returned as it is, whatever its status.
LabelFound(s, ship) ==
    /\ At(s, "next") /\ ship \in session[s].todo
    /\ \E d \in Docs : Exists(d) /\ docs[d].ship = ship
    /\ session' = [session EXCEPT ![s].todo = @ \ {ship}]
    /\ UNCHANGED <<docs, store, graced>>

\* label: the row is inserted (and not committed) before the carrier is asked.
LabelInsert(s, ship, d) ==
    /\ At(s, "next") /\ ship \in session[s].todo
    /\ \A c \in Docs : Exists(c) => docs[c].ship # ship
    /\ d \in Unused
    /\ session' = [session EXCEPT
          ![s].step = "ask", ![s].todo = @ \ {ship}, ![s].doc = d,
          ![s].new[d] = [ship |-> ship, status |-> "pending", stored |-> FALSE, age |-> "new"]]
    /\ UNCHANGED <<docs, store, graced>>

SweepBegin(s) ==
    /\ ~Open(s) /\ Pending # {}
    /\ Begin(s, Pending)
    /\ UNCHANGED <<docs, store, graced>>

\* fetch_pending: a document too old is given up, another is pulled.
SweepNext(s, d) ==
    /\ At(s, "next") /\ d \in session[s].todo
    /\ session' =
          IF GivenUp(session[s].loaded[d])
            THEN [session EXCEPT ![s].todo = @ \ {d}, ![s].new[d].status = "failed"]
            ELSE [session EXCEPT ![s].todo = @ \ {d}, ![s].step = "ask", ![s].doc = d]
    /\ UNCHANGED <<docs, store, graced>>

\* _pull: the carrier refuses, is still preparing the form, or gives it. Every
\* exception of the adapter is a refusal.
Ask(s) ==
    /\ At(s, "ask")
    /\ \/ session' = [session EXCEPT ![s].step = "next", ![s].doc = None,
                                     ![s].new[session[s].doc].status = "failed"]
       \/ session' = [session EXCEPT ![s].step = "next", ![s].doc = None]
       \/ session' = [session EXCEPT ![s].step = "put"]
    /\ UNCHANGED <<docs, store, graced>>

\* _pull: the file is stored, then the row says so.
Put(s) ==
    /\ At(s, "put")
    /\ store' = store \cup {session[s].doc}
    /\ session' = [session EXCEPT ![s].step = "next", ![s].doc = None,
              ![s].new[session[s].doc] = [@ EXCEPT !.status = "ready", !.stored = TRUE]]
    /\ UNCHANGED <<docs, graced>>

\* StorageUnavailable, with the file stored or not: nobody catches it before the
\* transaction ends.
PutFails(s) ==
    /\ At(s, "put")
    /\ store' \in {store, store \cup {session[s].doc}}
    /\ Close(s)
    /\ UNCHANGED <<docs, graced>>

CleanupBegin(s) ==
    /\ ~Open(s) /\ ExpiredFiles # {}
    /\ Begin(s, ExpiredFiles)
    /\ UNCHANGED <<docs, store, graced>>

\* expire_files: the file goes, then the row says so.
Delete(s, d) ==
    /\ At(s, "next") /\ d \in session[s].todo
    /\ store' = store \ {d}
    /\ session' = [session EXCEPT ![s].todo = @ \ {d},
              ![s].new[d] = [@ EXCEPT !.status = "expired", !.stored = FALSE]]
    /\ UNCHANGED <<docs, graced>>

\* The storage does not answer: the file is left to the next run, even if it is
\* gone.
DeleteDeferred(s, d) ==
    /\ At(s, "next") /\ d \in session[s].todo
    /\ store' \in {store, store \ {d}}
    /\ session' = [session EXCEPT ![s].todo = @ \ {d}]
    /\ UNCHANGED <<docs, graced>>

Commit(s) ==
    /\ At(s, "next") /\ session[s].todo = {}
    /\ docs' = [d \in Docs |-> Updated(docs[d], session[s].loaded[d], session[s].new[d])]
    /\ Close(s)
    /\ UNCHANGED <<store, graced>>

\* The process dies or the database refuses: the rows are as before.
Rollback(s) ==
    /\ Open(s)
    /\ Close(s)
    /\ UNCHANGED <<docs, store, graced>>

\* Time passes for a document...
Age(d) ==
    /\ Exists(d) /\ docs[d].age # "old"
    /\ docs' = [docs EXCEPT ![d].age = IF @ = "new" THEN "due" ELSE "old"]
    /\ UNCHANGED <<store, graced, session>>

\* ... and for a shipment that has come to its end.
GraceOver(ship) ==
    /\ ship \notin graced
    /\ graced' = graced \cup {ship}
    /\ UNCHANGED <<docs, store, session>>

Label(s) ==
    \/ \E ships \in SUBSET Ships : LabelBegin(s, ships)
    \/ \E ship \in Ships : LabelFound(s, ship) \/ \E d \in Docs : LabelInsert(s, ship, d)

Sweep(s) == SweepBegin(s) \/ \E d \in Docs : SweepNext(s, d)
Pull(s) == Ask(s) \/ Put(s)
Cleanup(s) == CleanupBegin(s) \/ \E d \in Docs : Delete(s, d) \/ DeleteDeferred(s, d)

Next ==
    \/ \E s \in Requests : Label(s)
    \/ \E s \in Sweeps : Sweep(s)
    \/ \E s \in Requests \cup Sweeps : Pull(s) \/ PutFails(s)
    \/ \E s \in Cleanups : Cleanup(s)
    \/ \E s \in Sessions : Commit(s) \/ Rollback(s)
    \/ \E d \in Docs : Age(d)
    \/ \E ship \in Ships : GraceOver(ship)

Spec == Init /\ [][Next]_vars

\* The tasks run every five minutes and every night and go on until they end,
\* time passes, and some day the storage answers and processes stop dying.
\* Nothing is assumed of requests, nor that a carrier ever has the form.
Fairness ==
    /\ \A s \in Sweeps : WF_vars(Sweep(s) \/ Pull(s)) /\ WF_vars(Commit(s))
    /\ \A s \in Cleanups : WF_vars(Cleanup(s)) /\ WF_vars(Commit(s))
    /\ \A d \in Docs : WF_vars(Age(d))
    /\ <>[][\A s \in Sessions : session'[s] = Closed => session[s] = Closed \/ Commit(s)]_vars
    /\ <>[][\A s \in Cleanups, d \in Docs : DeleteDeferred(s, d) => Delete(s, d)]_vars

FairSpec == Spec /\ Fairness

-----------------------------------------------------------------------------
(* Properties *)

Session == [step : {"next", "ask", "put"}, todo : SUBSET (Docs \cup Ships), doc : Docs \cup {None},
            loaded : [Docs -> Row \cup {None}], new : [Docs -> Row \cup {None}]]

\* Rows and sessions have the shape of the table and the locals.
TypeOK ==
    /\ docs \in [Docs -> Row \cup {None}]
    /\ store \subseteq Docs /\ graced \subseteq Ships
    /\ session \in [Sessions -> Session \cup {Closed}]

\* A document that is ready can be printed while its shipment is under way and
\* until FILE_GRACE is over: its key is known and its file is in the storage,
\* whatever failed and whichever runs overlapped.
ReadyHasFile ==
    \A d \in WithStatus("ready") : docs[d].stored /\ (d \in store \/ docs[d].ship \in graced)

\* fetch_pending: no document stays pending for ever, even if the carrier never
\* has the form.
PendingEnds == \A d \in Docs : d \in WithStatus("pending") ~> d \notin WithStatus("pending")

\* expire_files: after the grace the file of a ready document that no open run
\* has loaded is removed some day, however often runs fail and the storage does
\* not answer. A sweep that loaded the row before it became ready is excepted:
\* it may write a refusal over the row, of which the cleanup knows nothing, or
\* store the file once more behind the cleanup's back.
FilesExpire ==
    \A d \in Docs : /\ d \in WithStatus("ready") /\ docs[d].ship \in graced
                     /\ \A s \in Sessions : Open(s) => session[s].loaded[d] = None
                    ~> d \notin store

\* The law the docstring quotes, with no exception: false for two sweeps.
NoFileIsKept ==
    \A d \in Docs : d \in WithStatus("ready") /\ docs[d].ship \in graced ~> d \notin store

\* ADR-0016: there are no orphaned objects, so nothing sweeps them. A file that
\* no open session works on is named by the key of a row.
NoOrphanedFile ==
    \A d \in store :
        \/ Exists(d) /\ docs[d].stored
        \/ \E s \in Sessions : Open(s) /\ (session[s].doc = d \/ session[s].new[d] # session[s].loaded[d])
=============================================================================
