----------------------------- MODULE WebhookQueue -----------------------------
(***************************************************************************)
(* The queue of outgoing webhooks: tracking/webhooks.py, the task          *)
(* deliver_webhooks of worker/tasks.py that empties it every minute, and   *)
(* deliver of tracking/outgoing.py.                                        *)
(*                                                                         *)
(* A run visits the tenants one after another. All deliveries of a tenant  *)
(* are sent in one transaction,   whose UPDATEs name only the columns that *)
(* differ from what it had loaded; nothing keeps two runs apart.           *)
(***************************************************************************)
EXTENDS Naturals, FiniteSets, Sequences

CONSTANTS
    Tenants,       \* the tenants, in the order the database lists them
    Subscriptions, \* their subscriptions
    Deliveries,    \* the notices that may be queued (fewer than the limit of due_deliveries)
    TenantOf,      \* Subscriptions -> tenant
    SubOf,         \* Deliveries -> subscription
    Answers,       \* Subscriptions -> what may come of an attempt
    Runs,          \* runs of deliver_webhooks (they may overlap)
    MaxAttempts,   \* MAX_ATTEMPTS
    Patience,      \* silent receivers a run outlives: task_soft_time_limit over TIMEOUT_SECONDS
    Cap,           \* the counters of attempts and of answers stop here (a bound of the model)
    None

\* What comes of a call of deliver: the receiver's answer, none in time, or no
\* POST at all, since validate_url refuses the address or DNS does not know it.
AnswerKinds == {"accepted", "refused", "silent", "unsent"}

ASSUME QueueWellFormed ==
    /\ Tenants \in Seq({Tenants[i] : i \in DOMAIN Tenants}) /\ Tenants # << >>
    /\ TenantOf \in [Subscriptions -> {Tenants[i] : i \in DOMAIN Tenants}]
    /\ SubOf \in [Deliveries -> Subscriptions]
    /\ Answers \in [Subscriptions -> SUBSET AnswerKinds]
    /\ MaxAttempts \in Nat \ {0} /\ Patience \in Nat /\ Cap \in Nat \ {0}

\* A row of webhook_deliveries; `next` is next_attempt_at: passed, to come, NULL.
Row == [attempt : Nat, next : {"now", "later", "never"}, delivered : BOOLEAN]

ASSUME NoneIsNoRow == None \notin Row

\* The rows of some deliveries: of the table, or as a session knows them.
Rows == [Deliveries -> Row \cup {None}]
NoRows == [d \in Deliveries |-> None]

VARIABLES
    deliveries, \* committed rows, None while the notice is not queued
    active,     \* is_active of the committed subscriptions
    run,        \* what each run is doing
    tries,      \* calls of deliver for each delivery, counted up to Cap
    accepted    \* 2xx answers to them, counted up to Cap

vars == <<deliveries, active, run, tries, accepted>>

\* A run: the tenants it still has to visit (the first is the one it is at),
\* whether a transaction is open, the deliveries of it still to be sent, the
\* rows as loaded and as changed, the subscriptions read in this session (they
\* stay in its identity map), and the silent receivers waited for.
Idle == [tenants |-> << >>, open |-> FALSE, todo |-> {}, loaded |-> NoRows, new |-> NoRows,
         seen |-> [s \in Subscriptions |-> None], silent |-> 0]

Init ==
    /\ deliveries = NoRows
    /\ active = [s \in Subscriptions |-> TRUE]
    /\ run = [r \in Runs |-> Idle]
    /\ tries = [d \in Deliveries |-> 0]
    /\ accepted = [d \in Deliveries |-> 0]

Queued(d) == deliveries[d] # None
Due(d) == Queued(d) /\ ~deliveries[d].delivered /\ deliveries[d].next = "now"
Count(n) == IF n < Cap THEN n + 1 ELSE Cap

-----------------------------------------------------------------------------
\* Mutant of NextAttempt: one attempt too few.
NextAttemptEarly(attempt) == IF attempt >= MaxAttempts - 1 THEN "never" ELSE "later"

\* next_attempt_after: wait, or give up.
NextAttempt(attempt) == IF attempt >= MaxAttempts THEN "never" ELSE "later"

\* Mutants of Attempted: the attempt is counted only when it succeeds; any
\* answer is taken for an acceptance.
AttemptedUncounted(row, answer) ==
    IF answer = "accepted"
      THEN [attempt |-> row.attempt + 1, next |-> "never", delivered |-> TRUE]
      ELSE [row EXCEPT !.next = NextAttempt(row.attempt + 1)]
AttemptedAnyAnswer(row, answer) ==
    IF answer # "silent"
      THEN [attempt |-> row.attempt + 1, next |-> "never", delivered |-> TRUE]
      ELSE [row EXCEPT !.attempt = @ + 1, !.next = NextAttempt(row.attempt + 1)]

\* _attempt and _failed: the row after one call of deliver.
Attempted(row, answer) ==
    IF answer = "accepted"
      THEN [attempt |-> row.attempt + 1, next |-> "never", delivered |-> TRUE]
      ELSE [row EXCEPT !.attempt = @ + 1, !.next = NextAttempt(row.attempt + 1)]

\* The UPDATE of the columns a session changed.
Updated(row, loaded, new) ==
    [c \in DOMAIN row |-> IF new[c] # loaded[c] THEN new[c] ELSE row[c]]

\* get_subscription: the identity map answers before the table.
Sees(r, s) == IF run[r].seen[s] = None THEN active[s] ELSE run[r].seen[s]

Sending(r, d) == run[r].open /\ d \in run[r].todo

-----------------------------------------------------------------------------
\* enqueue, in the transaction that changed the shipment.
Enqueue(d) ==
    /\ ~Queued(d) /\ active[SubOf[d]]
    /\ deliveries' = [deliveries EXCEPT ![d] = [attempt |-> 0, next |-> "now", delivered |-> FALSE]]
    /\ UNCHANGED <<active, run, tries, accepted>>

Unsubscribe(s) ==
    /\ active[s]
    /\ active' = [active EXCEPT ![s] = FALSE]
    /\ UNCHANGED <<deliveries, run, tries, accepted>>

\* The moment next_attempt_at comes.
WaitOver(d) ==
    /\ Queued(d) /\ deliveries[d].next = "later"
    /\ deliveries' = [deliveries EXCEPT ![d].next = "now"]
    /\ UNCHANGED <<active, run, tries, accepted>>

\* Celery starts a run, whatever the other runs are doing.
Start(r) ==
    /\ run[r] = Idle
    /\ \E d \in Deliveries : Due(d)
    /\ run' = [run EXCEPT ![r].tenants = Tenants]
    /\ UNCHANGED <<deliveries, active, tries, accepted>>

\* due_deliveries of the next tenant, in a transaction of its own.
Open(r) ==
    /\ run[r].tenants # << >> /\ ~run[r].open
    /\ LET due == {d \in Deliveries : Due(d) /\ TenantOf[SubOf[d]] = Head(run[r].tenants)}
           rows == [d \in Deliveries |-> IF d \in due THEN deliveries[d] ELSE None]
       IN  run' = [run EXCEPT ![r].open = TRUE, ![r].todo = due, ![r].loaded = rows, ![r].new = rows]
    /\ UNCHANGED <<deliveries, active, tries, accepted>>

\* The subscription was switched off while the delivery waited: out of the queue.
Skip(r, d) ==
    /\ Sending(r, d) /\ ~Sees(r, SubOf[d])
    /\ run' = [run EXCEPT ![r].todo = @ \ {d}, ![r].new[d].next = "never",
                          ![r].seen[SubOf[d]] = FALSE]
    /\ UNCHANGED <<deliveries, active, tries, accepted>>

\* _attempt: one call of deliver, as long as the run has time left. The attempt
\* is counted even if deliver raises before it has sent anything.
Attempt(r, d) ==
    /\ Sending(r, d) /\ Sees(r, SubOf[d]) /\ run[r].silent < Patience
    /\ \E answer \in Answers[SubOf[d]] :
          /\ run' = [run EXCEPT ![r].todo = @ \ {d}, ![r].new[d] = Attempted(@, answer),
                                ![r].seen[SubOf[d]] = TRUE,
                                ![r].silent = IF answer = "silent" THEN @ + 1 ELSE @]
          /\ accepted' = [accepted EXCEPT ![d] = IF answer = "accepted" THEN Count(@) ELSE @]
    /\ tries' = [tries EXCEPT ![d] = Count(@)]
    /\ UNCHANGED <<deliveries, active>>

\* On to the next tenant: a new session, with an empty identity map.
Onward(r) == IF Len(run[r].tenants) = 1 THEN Idle
             ELSE [Idle EXCEPT !.tenants = Tail(run[r].tenants), !.silent = run[r].silent]

\* Everything of the tenant is committed at once.
Commit(r) ==
    /\ run[r].open /\ run[r].todo = {}
    /\ deliveries' = [d \in Deliveries |->
          IF run[r].new[d] # None
            THEN Updated(deliveries[d], run[r].loaded[d], run[r].new[d])
            ELSE deliveries[d]]
    /\ run' = [run EXCEPT ![r] = Onward(r)]
    /\ UNCHANGED <<active, tries, accepted>>

\* The time limit of the task ends the run; the open transaction is undone.
TimeUp(r) ==
    /\ run[r].open /\ run[r].todo # {} /\ run[r].silent = Patience
    /\ run' = [run EXCEPT ![r] = Idle]
    /\ UNCHANGED <<deliveries, active, tries, accepted>>

\* The transaction of one tenant fails; the run goes on to the next tenant...
TenantFailed(r) ==
    /\ run[r].open
    /\ run' = [run EXCEPT ![r] = Onward(r)]
    /\ UNCHANGED <<deliveries, active, tries, accepted>>

\* ... or its process dies.
Crash(r) ==
    /\ run[r] # Idle
    /\ run' = [run EXCEPT ![r] = Idle]
    /\ UNCHANGED <<deliveries, active, tries, accepted>>

Step(r) ==
    \/ Start(r) \/ Open(r) \/ Commit(r) \/ TimeUp(r)
    \/ \E d \in Deliveries : Skip(r, d) \/ Attempt(r, d)

Next ==
    \/ \E d \in Deliveries : Enqueue(d) \/ WaitOver(d)
    \/ \E s \in Subscriptions : Unsubscribe(s)
    \/ \E r \in Runs : Step(r) \/ TenantFailed(r) \/ Crash(r)

Spec == Init /\ [][Next]_vars

\* Celery starts a run every minute and every run goes on until it ends, time
\* passes, and some day transactions stop failing and processes stop dying; the
\* time limit of the task is not a failure and never stops.
Fairness ==
    /\ \A r \in Runs : WF_vars(Step(r))
    /\ \A d \in Deliveries : WF_vars(WaitOver(d))
    /\ \A r \in Runs : <>[][TenantFailed(r) \/ Crash(r) => Commit(r) \/ TimeUp(r)]_vars

FairSpec == Spec /\ Fairness

-----------------------------------------------------------------------------
(* Properties *)

Run == [tenants : Seq({Tenants[i] : i \in DOMAIN Tenants}), open : BOOLEAN,
        todo : SUBSET Deliveries, loaded : Rows, new : Rows,
        seen : [Subscriptions -> BOOLEAN \cup {None}], silent : 0..Patience]

\* Rows, subscriptions, runs and counters have the shape their columns and locals have.
TypeOK ==
    /\ deliveries \in Rows
    /\ active \in [Subscriptions -> BOOLEAN]
    /\ tries \in [Deliveries -> 0..Cap] /\ accepted \in [Deliveries -> 0..Cap]
    /\ run \in [Runs -> Run]

\* next_attempt_at is NULL for a reason only: the delivery was accepted, its
\* attempts are used up, or its subscription is off - however the column-wise
\* UPDATEs of overlapping runs combine.
LeftForAReason ==
    \A d \in Deliveries :
        Queued(d) /\ deliveries[d].next = "never" =>
            \/ deliveries[d].delivered
            \/ deliveries[d].attempt = MaxAttempts
            \/ ~active[SubOf[d]]

\* The books never claim more than happened: a delivery marked as delivered was
\* accepted, and no more attempts are counted than there were calls of deliver,
\* however the counts of overlapping runs overwrite each other. A call is not
\* always a POST: one whose address is refused counts as well.
BooksAreTrue ==
    \A d \in Deliveries :
        Queued(d) => /\ deliveries[d].delivered => accepted[d] > 0
                     /\ deliveries[d].attempt <= tries[d]

Settled(d) == Queued(d) /\ (deliveries[d].delivered \/ deliveries[d].next = "never")

\* MAX_ATTEMPTS: every queued delivery some day is delivered or given up.
EventuallySettled == \A d \in Deliveries : Queued(d) ~> Settled(d)

\* The test of an accepted delivery: it is not sent again.
AcceptedOnce == \A d \in Deliveries : accepted[d] <= 1

\* deliver_due and its test: nothing is sent to a subscription that is off.
UnsubscribedIsLeftAlone ==
    [][\A d \in Deliveries : tries'[d] # tries[d] => active[SubOf[d]]]_vars

\* TIMEOUT_SECONDS: silent receivers do not hold up the deliveries to receivers
\* that answer.
OthersAreServed ==
    \A d \in Deliveries : "silent" \notin Answers[SubOf[d]] => (Queued(d) ~> Settled(d))
=============================================================================
