-------------------------- MODULE WebhookQueueProofs --------------------------
(* Theorems about WebhookQueue, for every value of the constants.             *)
EXTENDS WebhookQueue, TLAPS

\* A committed row: the attempts of a delivery that will be sent again are not
\* used up, and one that will not be was left for a reason.
RowTrue(d) ==
    /\ deliveries[d].attempt <= MaxAttempts
    /\ deliveries[d].next # "never" => deliveries[d].attempt < MaxAttempts
    /\ deliveries[d].next = "never" =>
          \/ deliveries[d].delivered
          \/ deliveries[d].attempt = MaxAttempts
          \/ ~active[SubOf[d]]

\* What an open run makes of a row that was due when it was loaded: nothing yet,
\* the outcome of one attempt, or the end of a delivery whose subscription is off.
ChangeTrue(d, loaded, new) ==
    /\ loaded.next = "now" /\ ~loaded.delivered /\ loaded.attempt < MaxAttempts
    /\ \/ new = loaded
       \/ new = [attempt |-> loaded.attempt + 1, next |-> "never", delivered |-> TRUE]
       \/ new = [attempt |-> loaded.attempt + 1, next |-> NextAttempt(loaded.attempt + 1),
                 delivered |-> FALSE]
       \/ new = [loaded EXCEPT !.next = "never"] /\ ~active[SubOf[d]]

\* A run: it is at a tenant while it is open, what it has read of the subscriptions is still true of those that were
\* off, and its changes are ChangeTrue.
RunTrue(r) ==
    /\ run[r].open => run[r].tenants # << >>
    /\ \A s \in Subscriptions : run[r].seen[s] \in {None, TRUE} \/ ~active[s]
    /\ \A d \in Deliveries :
          /\ run[r].loaded[d] # None =>
                Queued(d) /\ ChangeTrue(d, run[r].loaded[d], run[r].new[d])
          /\ run[r].loaded[d] = None <=> run[r].new[d] = None
          /\ d \in run[r].todo =>
                run[r].loaded[d] # None /\ run[r].new[d] = run[r].loaded[d]

Inductive ==
    /\ TypeOK
    /\ \A d \in Deliveries : Queued(d) => RowTrue(d)
    /\ \A r \in Runs : RunTrue(r)

-----------------------------------------------------------------------------
\* A run that starts, or has ended, has nothing loaded.
LEMMA IdleRun == Idle \in Run
<1>1. Idle.tenants \in Seq({Tenants[i] : i \in DOMAIN Tenants})
  BY DEF Idle
<1>2. Idle.silent \in 0..Patience
  BY QueueWellFormed DEF Idle
<1> QED BY <1>1, <1>2 DEF Idle, Run, Rows, NoRows

\* NextAttempt waits only while attempts are left.
LEMMA NextAttemptType ==
    ASSUME NEW n \in Nat
    PROVE  /\ NextAttempt(n) \in {"later", "never"}
           /\ NextAttempt(n) = "later" <=> n < MaxAttempts
BY QueueWellFormed DEF NextAttempt

\* One attempt at a row that is due is a true change, and a row again.
LEMMA AttemptedIsTrue ==
    ASSUME NEW d \in Deliveries, NEW row \in Row, NEW answer \in AnswerKinds,
           row.next = "now", ~row.delivered, row.attempt < MaxAttempts
    PROVE  /\ Attempted(row, answer) \in Row /\ ChangeTrue(d, row, Attempted(row, answer))
           /\ Attempted(row, answer).attempt = row.attempt + 1
           /\ answer # "accepted" => Attempted(row, answer).delivered = FALSE
<1>1. row.attempt + 1 \in Nat /\ NextAttempt(row.attempt + 1) \in {"later", "never"}
  BY NextAttemptType DEF Row
<1>2. CASE answer = "accepted"
  BY <1>1, <1>2 DEF Attempted, ChangeTrue, Row
<1>3. CASE answer # "accepted"
  <2>1. Attempted(row, answer) = [attempt |-> row.attempt + 1,
                                  next |-> NextAttempt(row.attempt + 1), delivered |-> FALSE]
    BY <1>3 DEF Attempted, Row
  <2> QED BY <1>1, <2>1 DEF ChangeTrue, Row
<1> QED BY <1>2, <1>3

\* The UPDATE of a row, column by column.
LEMMA UpdatedColumns ==
    ASSUME NEW row \in Row, NEW loaded \in Row, NEW new \in Row
    PROVE  Updated(row, loaded, new) =
              [attempt |-> IF new.attempt # loaded.attempt THEN new.attempt ELSE row.attempt,
               next |-> IF new.next # loaded.next THEN new.next ELSE row.next,
               delivered |-> IF new.delivered # loaded.delivered THEN new.delivered
                             ELSE row.delivered]
<1>1. DOMAIN row = {"attempt", "next", "delivered"}
  BY DEF Row
<1> QED BY <1>1 DEF Updated, Row

\* The UPDATE of a true change leaves a true row, whatever was committed since
\* the row was loaded.
LEMMA UpdatedIsTrue ==
    ASSUME NEW d \in Deliveries, deliveries[d] \in Row, RowTrue(d),
           NEW loaded \in Row, NEW new \in Row, ChangeTrue(d, loaded, new),
           deliveries'[d] = Updated(deliveries[d], loaded, new), active' = active
    PROVE  deliveries'[d] \in Row /\ RowTrue(d)'
<1> DEFINE row == deliveries[d]
<1>1. deliveries'[d] =
              [attempt |-> IF new.attempt # loaded.attempt THEN new.attempt ELSE row.attempt,
               next |-> IF new.next # loaded.next THEN new.next ELSE row.next,
               delivered |-> IF new.delivered # loaded.delivered THEN new.delivered
                             ELSE row.delivered]
  BY UpdatedColumns
<1>2. deliveries'[d] \in Row
  BY <1>1 DEF Row
<1>3. MaxAttempts \in Nat \ {0} /\ loaded.attempt \in Nat /\ loaded.attempt < MaxAttempts
  BY QueueWellFormed DEF ChangeTrue, Row
<1> SUFFICES RowTrue(d)'
  BY <1>2
<1>4. CASE new = loaded
  <2>1. /\ deliveries'[d].attempt = row.attempt /\ deliveries'[d].next = row.next
        /\ deliveries'[d].delivered = row.delivered
    BY <1>1, <1>4
  <2> QED BY <2>1 DEF RowTrue
<1>5. CASE new = [attempt |-> loaded.attempt + 1, next |-> "never", delivered |-> TRUE]
  <2>1. new.attempt = loaded.attempt + 1 /\ new.next = "never" /\ new.delivered = TRUE
    BY <1>5
  <2>2. loaded.next = "now" /\ loaded.delivered = FALSE
    BY DEF ChangeTrue, Row
  <2>3. deliveries'[d].delivered = TRUE
    <3>1. deliveries'[d].delivered = IF new.delivered # loaded.delivered THEN new.delivered
                                     ELSE row.delivered
      BY <1>1
    <3>2. new.delivered # loaded.delivered
      BY <2>1, <2>2
    <3> QED BY <2>1, <3>1, <3>2, Zenon
  <2>4. deliveries'[d].attempt = loaded.attempt + 1 /\ deliveries'[d].next = "never"
    BY <1>1, <1>3, <2>1, <2>2
  <2> QED BY <1>3, <2>3, <2>4 DEF RowTrue
<1>6. CASE new = [attempt |-> loaded.attempt + 1, next |-> NextAttempt(loaded.attempt + 1),
                  delivered |-> FALSE]
  <2>1. /\ NextAttempt(loaded.attempt + 1) \in {"later", "never"}
        /\ NextAttempt(loaded.attempt + 1) = "later" <=> loaded.attempt + 1 < MaxAttempts
    BY <1>3, NextAttemptType
  <2>2. /\ deliveries'[d].attempt = loaded.attempt + 1
        /\ deliveries'[d].next = NextAttempt(loaded.attempt + 1)
    BY <1>1, <1>3, <1>6, <2>1 DEF ChangeTrue
  <2> QED BY <1>3, <2>1, <2>2 DEF RowTrue
<1>7. CASE new = [loaded EXCEPT !.next = "never"] /\ ~active[SubOf[d]]
  <2>1. new.attempt = loaded.attempt /\ new.next = "never" /\ loaded.next = "now"
    BY <1>7 DEF ChangeTrue, Row
  <2>2. deliveries'[d].attempt = row.attempt /\ deliveries'[d].next = "never"
    BY <1>1, <2>1
  <2> QED BY <1>7, <2>2 DEF RowTrue
<1> QED BY <1>4, <1>5, <1>6, <1>7 DEF ChangeTrue

-----------------------------------------------------------------------------
\* What is true of a run stays true while others work: no notice leaves the
\* table, and no subscription is switched on again.
LEMMA RunKept ==
    ASSUME NEW r \in Runs, RunTrue(r), run'[r] = run[r],
           \A d \in Deliveries : Queued(d) => Queued(d)',
           \A s \in Subscriptions : ~active[s] => ~active'[s],
           SubOf \in [Deliveries -> Subscriptions]
    PROVE  RunTrue(r)'
BY DEF RunTrue, ChangeTrue

\* A run that has nothing loaded and has read no subscription.
LEMMA FreshRun ==
    ASSUME NEW r \in Runs, ~run'[r].open, run'[r].seen = [s \in Subscriptions |-> None],
           run'[r].todo = {}, run'[r].loaded = NoRows, run'[r].new = NoRows
    PROVE  RunTrue(r)'
BY DEF RunTrue, NoRows

\* A step that only gives one run a true new value keeps the invariant.
LEMMA OneRunChanges ==
    ASSUME Inductive, NEW r \in Runs, NEW j \in Run, run' = [run EXCEPT ![r] = j],
           RunTrue(r)', UNCHANGED <<deliveries, active>>,
           tries' \in [Deliveries -> 0..Cap], accepted' \in [Deliveries -> 0..Cap]
    PROVE  Inductive'
<1>1. TypeOK'
  BY DEF Inductive, TypeOK
<1>2. \A d \in Deliveries : Queued(d)' => RowTrue(d)'
  BY DEF Inductive, Queued, RowTrue
<1>3. ASSUME NEW q \in Runs PROVE RunTrue(q)'
  <2>1. CASE q = r
    BY <2>1
  <2>2. CASE q # r
    <3>1. run'[q] = run[q]
      BY <2>2 DEF Inductive, TypeOK
    <3>2. \A d \in Deliveries : Queued(d) => Queued(d)'
      BY DEF Queued
    <3> QED BY <3>1, <3>2, RunKept, QueueWellFormed DEF Inductive
  <2> QED BY <2>1, <2>2
<1> QED BY <1>1, <1>2, <1>3 DEF Inductive

\* The counters stay within Cap.
LEMMA CountType == \A n \in 0..Cap : Count(n) \in 0..Cap
BY QueueWellFormed DEF Count

\* A run that goes on to the next tenant, or ends.
LEMMA OnwardRun ==
    ASSUME Inductive, NEW r \in Runs, run[r].open, run[r].tenants # << >>
    PROVE  /\ Onward(r) \in Run /\ ~Onward(r).open
           /\ Onward(r).seen = [s \in Subscriptions |-> None] /\ Onward(r).todo = {}
           /\ Onward(r).loaded = NoRows /\ Onward(r).new = NoRows
<1>1. run[r] \in Run
  BY DEF Inductive, TypeOK
<1>2. Tail(run[r].tenants) \in Seq({Tenants[i] : i \in DOMAIN Tenants})
  BY <1>1 DEF Run
<1>3. [Idle EXCEPT !.tenants = Tail(run[r].tenants), !.silent = run[r].silent] \in Run
  BY <1>1, <1>2, IdleRun DEF Run
<1> QED BY <1>3, IdleRun DEF Onward, Idle

\* An empty queue satisfies the invariant.
LEMMA InductiveInit == Init => Inductive
<1> SUFFICES ASSUME Init PROVE Inductive
  OBVIOUS
<1>1. TypeOK
  BY IdleRun, QueueWellFormed DEF Init, TypeOK, Rows, NoRows
<1>2. \A r \in Runs : RunTrue(r)
  BY DEF Init, Idle, RunTrue, NoRows
<1> QED BY <1>1, <1>2 DEF Init, Inductive, Queued, NoRows

\* The rows of a delivery that a run has loaded.
LEMMA LoadedRows ==
    ASSUME Inductive, NEW r \in Runs, NEW d \in Deliveries, run[r].loaded[d] # None
    PROVE  /\ run[r].loaded[d] \in Row /\ run[r].new[d] \in Row
           /\ Queued(d) /\ deliveries[d] \in Row /\ RowTrue(d)
           /\ ChangeTrue(d, run[r].loaded[d], run[r].new[d])
<1>1. run[r] \in Run /\ RunTrue(r) /\ deliveries \in Rows
  BY DEF Inductive, TypeOK
<1>2. run[r].loaded \in Rows /\ run[r].new \in Rows
  BY <1>1 DEF Run
<1>3. run[r].loaded[d] \in Row \cup {None} /\ run[r].new[d] \in Row \cup {None}
      /\ deliveries[d] \in Row \cup {None}
  BY <1>1, <1>2 DEF Rows
<1>4. /\ Queued(d) /\ ChangeTrue(d, run[r].loaded[d], run[r].new[d])
      /\ run[r].new[d] # None
  BY <1>1 DEF RunTrue
<1> QED BY <1>3, <1>4 DEF Queued, Inductive

\* A run that has handled one of its deliveries: the row it changed is its own.
LEMMA Handled ==
    ASSUME Inductive, NEW r \in Runs, NEW d \in Deliveries, Sending(r, d), NEW j,
           NEW row \in Row, ChangeTrue(d, run[r].loaded[d], row), NEW seen \in BOOLEAN,
           seen \/ ~active[SubOf[d]], NEW silent \in 0..Patience,
           j = [run[r] EXCEPT !.todo = @ \ {d}, !.new = [@ EXCEPT ![d] = row],
                              !.seen = [@ EXCEPT ![SubOf[d]] = seen], !.silent = silent],
           run' = [run EXCEPT ![r] = j], UNCHANGED <<deliveries, active>>
    PROVE  j \in Run /\ RunTrue(r)'
<1>1. run[r] \in Run /\ RunTrue(r) /\ SubOf[d] \in Subscriptions /\ d \in run[r].todo /\ run[r].open
  BY QueueWellFormed DEF Inductive, TypeOK, Sending
<1>2. /\ run[r].new \in Rows /\ run[r].seen \in [Subscriptions -> BOOLEAN \cup {None}]
      /\ run[r].todo \subseteq Deliveries
  BY <1>1 DEF Run
<1>3. /\ [run[r].new EXCEPT ![d] = row] \in Rows
      /\ [run[r].seen EXCEPT ![SubOf[d]] = seen] \in [Subscriptions -> BOOLEAN \cup {None}]
  BY <1>2 DEF Rows
<1>4. j \in Run
  BY <1>1, <1>3 DEF Run
<1>5. /\ run'[r].open = run[r].open /\ run'[r].tenants = run[r].tenants
      /\ run'[r].loaded = run[r].loaded /\ run'[r].todo = run[r].todo \ {d}
      /\ run'[r].new = [run[r].new EXCEPT ![d] = row]
      /\ run'[r].seen = [run[r].seen EXCEPT ![SubOf[d]] = seen]
  BY <1>1 DEF Inductive, TypeOK, Run
<1>6. run'[r].open => run'[r].tenants # << >>
  BY <1>1, <1>5 DEF RunTrue
<1>7. ASSUME NEW s \in Subscriptions PROVE run'[r].seen[s] \in {None, TRUE} \/ ~active'[s]
  <2>1. CASE s = SubOf[d]
    BY <1>1, <1>2, <1>5, <2>1
  <2>2. CASE s # SubOf[d]
    <3>1. run'[r].seen[s] = run[r].seen[s]
      BY <1>1, <1>2, <1>5, <2>2
    <3>2. run[r].seen[s] \in {None, TRUE} \/ ~active[s]
      BY <1>1 DEF RunTrue
    <3> QED BY <3>1, <3>2
  <2> QED BY <2>1, <2>2
<1>8. ASSUME NEW e \in Deliveries
      PROVE  /\ run'[r].loaded[e] # None =>
                    Queued(e)' /\ ChangeTrue(e, run[r].loaded[e], run[r].new[e])'
             /\ run'[r].loaded[e] = None <=> run'[r].new[e] = None
             /\ e \in run'[r].todo =>
                    run'[r].loaded[e] # None /\ run'[r].new[e] = run'[r].loaded[e]
  <2>1. CASE e = d
    <3>1. run'[r].new[e] = row /\ run'[r].loaded[e] # None /\ e \notin run'[r].todo /\ Queued(e)
      BY <1>1, <1>2, <1>5, <2>1 DEF RunTrue, Rows
    <3>2. row # None
      BY NoneIsNoRow
    <3> QED BY <1>5, <2>1, <3>1, <3>2 DEF ChangeTrue, Queued
  <2>2. CASE e # d
    <3>1. run'[r].new[e] = run[r].new[e]
      BY <1>2, <1>5, <2>2 DEF Rows
    <3> QED BY <1>1, <1>5, <2>2, <3>1 DEF RunTrue, ChangeTrue, Queued
  <2> QED BY <2>1, <2>2
<1> QED BY <1>4, <1>6, <1>7, <1>8 DEF RunTrue

\* Every step of the queue preserves it.
LEMMA InductiveStep == Inductive /\ [Next]_vars => Inductive'
<1> SUFFICES ASSUME Inductive, [Next]_vars PROVE Inductive'
  OBVIOUS
<1> USE QueueWellFormed
<1>1. TypeOK /\ \A r \in Runs : run[r] \in Run /\ RunTrue(r)
  BY DEF Inductive, TypeOK
<1>2. ASSUME NEW d \in Deliveries, Enqueue(d) PROVE Inductive'
  <2> DEFINE row == [attempt |-> 0, next |-> "now", delivered |-> FALSE]
  <2>1. row \in Row /\ deliveries' = [deliveries EXCEPT ![d] = row]
    BY <1>2 DEF Enqueue, Row
  <2>2. TypeOK'
    BY <1>1, <1>2, <2>1 DEF Enqueue, TypeOK, Rows
  <2>3. \A e \in Deliveries : (e # d /\ deliveries'[e] = deliveries[e]) \/ (e = d /\ deliveries'[e] = row)
    BY <1>1, <2>1 DEF TypeOK, Rows
  <2>4. \A e \in Deliveries : Queued(e) => Queued(e)'
    BY <2>1, <2>3, NoneIsNoRow DEF Queued
  <2>5. ASSUME NEW e \in Deliveries, Queued(e)' PROVE RowTrue(e)'
    BY <1>2, <2>3, <2>5 DEF Enqueue, Inductive, Queued, RowTrue
  <2>6. \A r \in Runs : RunTrue(r)'
    BY <1>1, <1>2, <2>4, RunKept DEF Enqueue
  <2> QED BY <2>2, <2>5, <2>6 DEF Inductive
<1>3. ASSUME NEW d \in Deliveries, WaitOver(d) PROVE Inductive'
  <2> DEFINE row == [deliveries[d] EXCEPT !.next = "now"]
  <2>1. deliveries[d] \in Row /\ Queued(d) /\ deliveries[d].next = "later"
    BY <1>1, <1>3 DEF WaitOver, TypeOK, Queued, Rows
  <2>2. /\ row \in Row /\ row.next = "now" /\ row.attempt = deliveries[d].attempt
        /\ deliveries' = [deliveries EXCEPT ![d] = row]
    BY <1>3, <2>1 DEF WaitOver, Row
  <2>3. TypeOK'
    BY <1>1, <1>3, <2>2 DEF WaitOver, TypeOK, Rows
  <2>4. \A e \in Deliveries : (e # d /\ deliveries'[e] = deliveries[e]) \/ (e = d /\ deliveries'[e] = row)
    BY <1>1, <2>2 DEF TypeOK, Rows
  <2>5. \A e \in Deliveries : Queued(e) => Queued(e)'
    BY <2>2, <2>4, NoneIsNoRow DEF Queued
  <2>6. ASSUME NEW e \in Deliveries, Queued(e)' PROVE RowTrue(e)'
    BY <1>3, <2>1, <2>2, <2>4, <2>6 DEF WaitOver, Inductive, Queued, RowTrue
  <2>7. \A r \in Runs : RunTrue(r)'
    BY <1>1, <1>3, <2>5, RunKept DEF WaitOver
  <2> QED BY <2>3, <2>6, <2>7 DEF Inductive
<1>4. ASSUME NEW s \in Subscriptions, Unsubscribe(s) PROVE Inductive'
  <2>1. TypeOK'
    BY <1>1, <1>4 DEF Unsubscribe, TypeOK
  <2>2. \A t \in Subscriptions : ~active[t] => ~active'[t]
    BY <1>1, <1>4 DEF Unsubscribe, TypeOK
  <2>3. \A d \in Deliveries : Queued(d)' => RowTrue(d)'
    BY <1>4, <2>2 DEF Unsubscribe, Inductive, Queued, RowTrue
  <2>4. \A r \in Runs : RunTrue(r)'
    BY <1>1, <1>4, <2>2, RunKept DEF Unsubscribe, Queued
  <2> QED BY <2>1, <2>3, <2>4 DEF Inductive
<1>5. ASSUME NEW r \in Runs, Start(r) PROVE Inductive'
  <2> DEFINE j == [run[r] EXCEPT !.tenants = Tenants]
  <2>1. j \in Run /\ run' = [run EXCEPT ![r] = j] /\ run[r] = Idle
    BY <1>5, IdleRun DEF Start, Run
  <2>2. RunTrue(r)'
    BY <1>1, <2>1, FreshRun DEF TypeOK, Idle
  <2> QED BY <1>1, <1>5, <2>1, <2>2, OneRunChanges DEF Start, TypeOK
<1>6. ASSUME NEW r \in Runs, Open(r) PROVE Inductive'
  <2> DEFINE due == {d \in Deliveries : Due(d) /\ TenantOf[SubOf[d]] = Head(run[r].tenants)}
             rows == [d \in Deliveries |-> IF d \in due THEN deliveries[d] ELSE None]
             j == [run[r] EXCEPT !.open = TRUE, !.todo = due, !.loaded = rows, !.new = rows]
  <2>1. run' = [run EXCEPT ![r] = j]
    BY <1>6 DEF Open
  <2>2. rows \in Rows /\ due \in SUBSET Deliveries
    BY <1>1 DEF TypeOK, Rows
  <2>3. j \in Run
    BY <1>1, <2>2 DEF Run
  <2>4. /\ run'[r].open /\ run'[r].tenants = run[r].tenants /\ run'[r].seen = run[r].seen
        /\ run'[r].todo = due /\ run'[r].loaded = rows /\ run'[r].new = rows
    BY <1>1, <2>1 DEF TypeOK, Run
  <2>5. \A d \in due : Queued(d) /\ ChangeTrue(d, deliveries[d], deliveries[d])
    BY DEF Inductive, Due, RowTrue, ChangeTrue
  <2>6. RunTrue(r)'
    <3>1. run[r].tenants # << >> /\ UNCHANGED <<deliveries, active>>
      BY <1>6 DEF Open
    <3>2. ASSUME NEW d \in due
          PROVE  /\ run'[r].loaded[d] # None /\ run'[r].new[d] = run'[r].loaded[d]
                 /\ Queued(d)' /\ ChangeTrue(d, run[r].loaded[d], run[r].new[d])'
      <4>1. run'[r].loaded[d] = deliveries[d] /\ run'[r].new[d] = deliveries[d]
        BY <2>4
      <4>2. Queued(d) /\ ChangeTrue(d, deliveries[d], deliveries[d])
        BY <2>5
      <4> QED BY <3>1, <4>1, <4>2 DEF Queued, ChangeTrue
    <3>3. \A d \in Deliveries \ due : run'[r].loaded[d] = None /\ run'[r].new[d] = None
      BY <2>4
    <3>4. \A s \in Subscriptions : run'[r].seen[s] \in {None, TRUE} \/ ~active'[s]
      BY <1>1, <2>4, <3>1 DEF RunTrue
    <3> HIDE DEF due, rows, j
    <3> QED BY <2>4, <3>1, <3>2, <3>3, <3>4 DEF RunTrue
  <2> QED BY <1>1, <1>6, <2>1, <2>3, <2>6, OneRunChanges DEF Open, TypeOK
<1>7. ASSUME NEW r \in Runs, NEW d \in Deliveries, Skip(r, d) PROVE Inductive'
  <2> DEFINE row == [run[r].new[d] EXCEPT !.next = "never"]
             j == [run[r] EXCEPT !.todo = @ \ {d}, !.new = [@ EXCEPT ![d] = row],
                                 !.seen = [@ EXCEPT ![SubOf[d]] = FALSE], !.silent = @]
  <2>1. /\ run[r].loaded[d] \in Row /\ run[r].new[d] = run[r].loaded[d]
        /\ ChangeTrue(d, run[r].loaded[d], run[r].new[d])
    <3>1. run[r].loaded[d] # None /\ run[r].new[d] = run[r].loaded[d]
      BY <1>1, <1>7 DEF Skip, Sending, RunTrue
    <3> QED BY <3>1, LoadedRows
  <2>2. ~active[SubOf[d]] /\ SubOf[d] \in Subscriptions
    BY <1>1, <1>7 DEF Skip, Sees, RunTrue
  <2>3. row \in Row /\ ChangeTrue(d, run[r].loaded[d], row)
    BY <2>1, <2>2 DEF ChangeTrue, Row
  <2>4. run' = [run EXCEPT ![r] = j] /\ run[r].silent \in 0..Patience
    BY <1>1, <1>7 DEF Skip, Run
  <2>5. j \in Run /\ RunTrue(r)'
    BY <1>7, <2>2, <2>3, <2>4, Handled DEF Skip
  <2> QED BY <1>1, <1>7, <2>4, <2>5, OneRunChanges DEF Skip, TypeOK
<1>8. ASSUME NEW r \in Runs, NEW d \in Deliveries, Attempt(r, d) PROVE Inductive'
  <2>1. PICK answer \in Answers[SubOf[d]] :
          /\ run' = [run EXCEPT ![r].todo = @ \ {d}, ![r].new[d] = Attempted(@, answer),
                                ![r].seen[SubOf[d]] = TRUE,
                                ![r].silent = IF answer = "silent" THEN @ + 1 ELSE @]
          /\ accepted' = [accepted EXCEPT ![d] = IF answer = "accepted" THEN Count(@) ELSE @]
    BY <1>8 DEF Attempt
  <2> DEFINE row == Attempted(run[r].new[d], answer)
             silent == IF answer = "silent" THEN run[r].silent + 1 ELSE run[r].silent
             j == [run[r] EXCEPT !.todo = @ \ {d}, !.new = [@ EXCEPT ![d] = row],
                                 !.seen = [@ EXCEPT ![SubOf[d]] = TRUE], !.silent = silent]
  <2>2. /\ run[r].loaded[d] \in Row /\ run[r].new[d] = run[r].loaded[d]
        /\ ChangeTrue(d, run[r].loaded[d], run[r].new[d])
    <3>1. run[r].loaded[d] # None /\ run[r].new[d] = run[r].loaded[d]
      BY <1>1, <1>8 DEF Attempt, Sending, RunTrue
    <3> QED BY <3>1, LoadedRows
  <2>3. answer \in AnswerKinds
    <3>1. SubOf[d] \in Subscriptions
      OBVIOUS
    <3>2. Answers[SubOf[d]] \in SUBSET AnswerKinds
      BY <3>1
    <3> QED BY <3>2
  <2>4. row \in Row /\ ChangeTrue(d, run[r].loaded[d], row)
    <3>1. /\ run[r].loaded[d].next = "now" /\ ~run[r].loaded[d].delivered
          /\ run[r].loaded[d].attempt < MaxAttempts
      BY <2>2 DEF ChangeTrue
    <3> QED BY <2>2, <2>3, <3>1, AttemptedIsTrue
  <2>5. silent \in 0..Patience
    BY <1>1, <1>8 DEF Attempt, Run
  <2>6. run' = [run EXCEPT ![r] = j]
    BY <2>1
  <2>7. j \in Run /\ RunTrue(r)'
    <3> HIDE DEF row, silent
    <3> QED BY <1>8, <2>4, <2>5, <2>6, Handled DEF Attempt
  <2>8. tries' \in [Deliveries -> 0..Cap] /\ accepted' \in [Deliveries -> 0..Cap]
    BY <1>1, <1>8, <2>1, CountType DEF Attempt, TypeOK
  <2> QED BY <1>8, <2>6, <2>7, <2>8, OneRunChanges DEF Attempt
<1>9. ASSUME NEW r \in Runs, Commit(r) PROVE Inductive'
  <2>1. Onward(r) \in Run /\ RunTrue(r)' /\ run' = [run EXCEPT ![r] = Onward(r)]
    <3>1. run[r].open /\ run[r].tenants # << >> /\ run' = [run EXCEPT ![r] = Onward(r)]
      BY <1>1, <1>9 DEF Commit, RunTrue
    <3>2. run'[r] = Onward(r)
      BY <1>1, <3>1 DEF TypeOK
    <3> QED BY <3>1, <3>2, OnwardRun, FreshRun
  <2>2. ASSUME NEW d \in Deliveries
        PROVE  /\ deliveries'[d] \in Row \cup {None} /\ (Queued(d) => Queued(d)')
               /\ Queued(d)' => RowTrue(d)'
    <3>1. CASE run[r].new[d] # None
      <4>1. run[r].loaded[d] # None
        BY <1>1, <3>1 DEF RunTrue
      <4>2. /\ run[r].loaded[d] \in Row /\ run[r].new[d] \in Row
            /\ deliveries[d] \in Row /\ RowTrue(d)
            /\ ChangeTrue(d, run[r].loaded[d], run[r].new[d])
        BY <3>1, <4>1, LoadedRows
      <4>4. deliveries'[d] = Updated(deliveries[d], run[r].loaded[d], run[r].new[d])
        BY <1>9, <3>1 DEF Commit
      <4>5. deliveries'[d] \in Row /\ RowTrue(d)'
        BY <1>9, <4>2, <4>4, UpdatedIsTrue DEF Commit
      <4> QED BY <4>5, NoneIsNoRow DEF Queued
    <3>2. CASE run[r].new[d] = None
      BY <1>1, <1>9, <3>2 DEF Commit, TypeOK, Rows, Inductive, Queued, RowTrue
    <3> QED BY <3>1, <3>2
  <2>3. TypeOK'
    BY <1>1, <1>9, <2>1, <2>2 DEF Commit, TypeOK, Rows
  <2>4. ASSUME NEW q \in Runs PROVE RunTrue(q)'
    <3>1. CASE q = r
      BY <2>1, <3>1
    <3>2. CASE q # r
      BY <1>1, <1>9, <2>1, <2>2, <3>2, RunKept DEF Commit, TypeOK
    <3> QED BY <3>1, <3>2
  <2> QED BY <2>2, <2>3, <2>4 DEF Inductive
<1>10. ASSUME NEW r \in Runs, TimeUp(r) \/ Crash(r) PROVE Inductive'
  <2>1. run' = [run EXCEPT ![r] = Idle] /\ run'[r] = Idle
    BY <1>1, <1>10 DEF TimeUp, Crash, TypeOK
  <2>2. RunTrue(r)'
    BY <2>1, FreshRun DEF Idle
  <2> QED BY <1>1, <1>10, <2>1, <2>2, IdleRun, OneRunChanges DEF TimeUp, Crash, TypeOK
<1>11. ASSUME NEW r \in Runs, TenantFailed(r) PROVE Inductive'
  <2>1. run[r].open /\ run[r].tenants # << >> /\ run' = [run EXCEPT ![r] = Onward(r)]
    BY <1>1, <1>11 DEF TenantFailed, RunTrue
  <2>2. run'[r] = Onward(r)
    BY <1>1, <2>1 DEF TypeOK
  <2>3. Onward(r) \in Run /\ RunTrue(r)'
    BY <2>1, <2>2, OnwardRun, FreshRun
  <2> QED BY <1>1, <1>11, <2>1, <2>3, OneRunChanges DEF TenantFailed, TypeOK
<1>12. CASE UNCHANGED vars
  <2>1. TypeOK' /\ \A d \in Deliveries : Queued(d)' => RowTrue(d)'
    BY <1>12 DEF vars, Inductive, TypeOK, Queued, RowTrue
  <2>2. \A r \in Runs : RunTrue(r)'
    BY <1>1, <1>12, RunKept DEF vars, Queued
  <2> QED BY <2>1, <2>2 DEF Inductive
<1> QED BY <1>2, <1>3, <1>4, <1>5, <1>6, <1>7, <1>8, <1>9, <1>10, <1>11, <1>12 DEF Next, Step

\* The inductive invariant holds in every state.
LEMMA Safety == Spec => []Inductive
BY InductiveInit, InductiveStep, PTL DEF Spec

\* Rows, runs and counters have their types: no attempt is counted that has no
\* row, and a run that fails or dies leaves nothing half-read behind.
THEOREM TypeCorrect == Spec => []TypeOK
<1>1. Inductive => TypeOK
  BY DEF Inductive
<1> QED BY <1>1, Safety, PTL

\* next_attempt_at is NULL for a reason only, for any number of overlapping
\* runs, tenants, receivers and attempts.
THEOREM NothingIsForgotten == Spec => []LeftForAReason
<1>1. Inductive => LeftForAReason
  BY DEF Inductive, RowTrue, LeftForAReason
<1> QED BY <1>1, Safety, PTL

-----------------------------------------------------------------------------
(* What the books claim, and what the rows of open runs will claim.          *)

Counted(d) ==
    /\ Queued(d) => /\ deliveries[d].delivered => accepted[d] > 0
                    /\ deliveries[d].attempt <= tries[d]
    /\ \A r \in Runs : run[r].loaded[d] # None =>
          /\ run[r].loaded[d].attempt <= tries[d]
          /\ run[r].new[d].attempt <= tries[d]
          /\ run[r].new[d].delivered => accepted[d] > 0

Books == \A d \in Deliveries : Counted(d)

\* A step that makes no attempt counts no attempt, in the row of a delivery or in
\* what the runs have made of it.
LEMMA CountedKept ==
    ASSUME NEW d \in Deliveries, Counted(d), tries'[d] = tries[d], accepted'[d] = accepted[d],
           Queued(d)' =>
              \/ /\ Queued(d) /\ deliveries'[d].attempt = deliveries[d].attempt
                 /\ deliveries'[d].delivered = deliveries[d].delivered
              \/ ~deliveries'[d].delivered /\ deliveries'[d].attempt <= tries[d],
           \A r \in Runs : run'[r].loaded[d] # None =>
              \/ /\ run'[r].loaded[d] = run[r].loaded[d]
                 /\ run'[r].new[d].attempt = run[r].new[d].attempt
                 /\ run'[r].new[d].delivered = run[r].new[d].delivered
              \/ /\ Queued(d) /\ run'[r].loaded[d] = deliveries[d]
                 /\ run'[r].new[d] = deliveries[d]
    PROVE  Counted(d)'
BY DEF Counted, Queued

\* The other runs are as they were.
LEMMA OtherRuns ==
    ASSUME TypeOK, NEW r \in Runs, NEW j, run' = [run EXCEPT ![r] = j]
    PROVE  run'[r] = j /\ \A q \in Runs \ {r} : run'[q] = run[q]
BY DEF TypeOK

\* Every step keeps the count of the attempts and the mark of the accepted.
LEMMA BooksStep ==
    ASSUME MaxAttempts <= Cap
    PROVE  Inductive /\ Books /\ [Next]_vars => Books'
<1> SUFFICES ASSUME Inductive, Books, [Next]_vars, NEW d \in Deliveries PROVE Counted(d)'
  BY DEF Books
<1> USE QueueWellFormed
<1>1. /\ TypeOK /\ Counted(d) /\ deliveries[d] \in Row \cup {None}
      /\ tries[d] \in 0..Cap /\ accepted[d] \in 0..Cap
      /\ \A r \in Runs : run[r] \in Run /\ RunTrue(r)
  BY DEF Inductive, TypeOK, Rows, Books
<1>2. ASSUME NEW e \in Deliveries, Enqueue(e) PROVE Counted(d)'
  <2>1. CASE e = d
    <3>1. ~deliveries'[d].delivered /\ deliveries'[d].attempt = 0
      BY <1>1, <1>2, <2>1 DEF Enqueue, TypeOK, Rows
    <3>2. ~deliveries'[d].delivered /\ deliveries'[d].attempt <= tries[d]
      BY <1>1, <3>1
    <3>3. UNCHANGED <<run, tries, accepted>>
      BY <1>2 DEF Enqueue
    <3> QED BY <1>1, <3>2, <3>3, CountedKept
  <2>2. CASE e # d
    <3>1. deliveries'[d] = deliveries[d]
      BY <1>1, <1>2, <2>2 DEF Enqueue, TypeOK, Rows
    <3> QED BY <1>1, <1>2, <3>1, CountedKept DEF Enqueue, Queued
  <2> QED BY <2>1, <2>2
<1>3. ASSUME NEW e \in Deliveries, WaitOver(e) PROVE Counted(d)'
  <2>1. Queued(d)' => /\ Queued(d) /\ deliveries'[d].attempt = deliveries[d].attempt
                      /\ deliveries'[d].delivered = deliveries[d].delivered
    <3>1. CASE e = d
      <4>1. deliveries[d] \in Row /\ Queued(d)
        BY <1>1, <1>3, <3>1 DEF WaitOver, Queued
      <4>2. deliveries'[d] = [deliveries[d] EXCEPT !.next = "now"]
        BY <1>1, <1>3, <3>1 DEF WaitOver, TypeOK, Rows
      <4> QED BY <4>1, <4>2 DEF Row
    <3>2. CASE e # d
      BY <1>1, <1>3, <3>2 DEF WaitOver, TypeOK, Rows, Queued
    <3> QED BY <3>1, <3>2
  <2> QED BY <1>1, <1>3, <2>1, CountedKept DEF WaitOver
<1>4. ASSUME NEW s \in Subscriptions, Unsubscribe(s) PROVE Counted(d)'
  BY <1>1, <1>4, CountedKept DEF Unsubscribe, Queued
<1>5. ASSUME NEW r \in Runs, UNCHANGED <<deliveries, tries, accepted>>, NEW j \in Run,
             run' = [run EXCEPT ![r] = j],
             j.loaded[d] # None =>
                \/ /\ j.loaded[d] = run[r].loaded[d]
                   /\ j.new[d].attempt = run[r].new[d].attempt
                   /\ j.new[d].delivered = run[r].new[d].delivered
                \/ /\ Queued(d) /\ j.loaded[d] = deliveries[d] /\ j.new[d] = deliveries[d]
      PROVE  Counted(d)'
  <2>1. run'[r] = j /\ \A q \in Runs \ {r} : run'[q] = run[q]
    BY <1>1, <1>5, OtherRuns
  <2>2. ASSUME NEW q \in Runs, run'[q].loaded[d] # None
        PROVE  \/ /\ run'[q].loaded[d] = run[q].loaded[d]
                  /\ run'[q].new[d].attempt = run[q].new[d].attempt
                  /\ run'[q].new[d].delivered = run[q].new[d].delivered
               \/ /\ Queued(d) /\ run'[q].loaded[d] = deliveries[d]
                  /\ run'[q].new[d] = deliveries[d]
    <3>1. CASE q = r
      BY <1>5, <2>1, <2>2, <3>1
    <3>2. CASE q # r
      BY <2>1, <3>2
    <3> QED BY <3>1, <3>2
  <2>3. Queued(d)' => /\ Queued(d) /\ deliveries'[d].attempt = deliveries[d].attempt
                      /\ deliveries'[d].delivered = deliveries[d].delivered
    BY <1>5 DEF Queued
  <2> QED BY <1>1, <1>5, <2>2, <2>3, CountedKept
<1>6. ASSUME NEW r \in Runs, Start(r) PROVE Counted(d)'
  <2>1. [run[r] EXCEPT !.tenants = Tenants] \in Run /\ run[r] = Idle
    BY <1>6, IdleRun DEF Start, Run
  <2>2. [run[r] EXCEPT !.tenants = Tenants].loaded[d] = None
    BY <2>1 DEF Idle, NoRows
  <2> QED BY <1>5, <1>6, <2>1, <2>2 DEF Start
<1>7. ASSUME NEW r \in Runs, Open(r) PROVE Counted(d)'
  <2> DEFINE due == {e \in Deliveries : Due(e) /\ TenantOf[SubOf[e]] = Head(run[r].tenants)}
             rows == [e \in Deliveries |-> IF e \in due THEN deliveries[e] ELSE None]
             j == [run[r] EXCEPT !.open = TRUE, !.todo = due, !.loaded = rows, !.new = rows]
  <2>1. j \in Run /\ j.loaded = rows /\ j.new = rows
    <3>1. rows \in Rows
      BY <1>1 DEF TypeOK, Rows
    <3> QED BY <1>1, <3>1 DEF Run
  <2>2. rows[d] # None => Queued(d) /\ rows[d] = deliveries[d]
    BY DEF Due
  <2>3. run' = [run EXCEPT ![r] = j]
    BY <1>7 DEF Open
  <2> HIDE DEF j, rows
  <2> QED BY <1>5, <1>7, <2>1, <2>2, <2>3 DEF Open
<1>8. ASSUME NEW r \in Runs, NEW e \in Deliveries, Skip(r, e) PROVE Counted(d)'
  <2> DEFINE new == [run[r].new EXCEPT ![e] = [@ EXCEPT !.next = "never"]]
             j == [run[r] EXCEPT !.todo = @ \ {e}, !.new = new,
                                 !.seen = [@ EXCEPT ![SubOf[e]] = FALSE]]
  <2>1. run[r].new \in Rows /\ run[r].loaded[e] # None /\ run[r].new[e] \in Row
    <3>1. run[r].loaded[e] # None /\ run[r].new[e] = run[r].loaded[e]
      BY <1>1, <1>8 DEF Skip, Sending, RunTrue
    <3>2. run[r].new \in Rows
      BY <1>1 DEF Run
    <3> QED BY <3>1, <3>2, LoadedRows
  <2>2. [run[r].new[e] EXCEPT !.next = "never"] \in Row
    BY <2>1 DEF Row
  <2>3. new \in Rows
    BY <2>1, <2>2 DEF Rows
  <2>4. new[d].attempt = run[r].new[d].attempt /\ new[d].delivered = run[r].new[d].delivered
    <3>1. CASE d = e
      <4>1. new[d] = [run[r].new[d] EXCEPT !.next = "never"]
        BY <2>1, <3>1 DEF Rows
      <4> QED BY <2>1, <3>1, <4>1 DEF Row
    <3>2. CASE d # e
      BY <2>1, <3>2 DEF Rows
    <3> QED BY <3>1, <3>2
  <2>5. j \in Run /\ j.loaded = run[r].loaded /\ j.new = new
    BY <1>1, <2>3 DEF Run
  <2>6. run' = [run EXCEPT ![r] = j] /\ UNCHANGED <<deliveries, tries, accepted>>
    BY <1>8 DEF Skip
  <2> HIDE DEF j, new
  <2> QED BY <1>5, <2>4, <2>5, <2>6
<1>9. ASSUME NEW r \in Runs, NEW e \in Deliveries, Attempt(r, e) PROVE Counted(d)'
  <2>1. PICK answer \in Answers[SubOf[e]] :
          /\ run' = [run EXCEPT ![r].todo = @ \ {e}, ![r].new[e] = Attempted(@, answer),
                                ![r].seen[SubOf[e]] = TRUE,
                                ![r].silent = IF answer = "silent" THEN @ + 1 ELSE @]
          /\ accepted' = [accepted EXCEPT ![e] = IF answer = "accepted" THEN Count(@) ELSE @]
    BY <1>9 DEF Attempt
  <2>2. /\ run'[r].loaded = run[r].loaded
        /\ run'[r].new = [run[r].new EXCEPT ![e] = Attempted(@, answer)]
        /\ \A q \in Runs \ {r} : run'[q] = run[q]
    BY <1>1, <2>1 DEF TypeOK, Run
  <2>3. /\ tries' = [tries EXCEPT ![e] = Count(@)] /\ deliveries' = deliveries
        /\ run[r].loaded[e] # None /\ run[r].new[e] = run[r].loaded[e]
    BY <1>1, <1>9 DEF Attempt, Sending, RunTrue
  <2>4. CASE e # d
    <3>1. run'[r].new[d] = run[r].new[d]
      BY <1>1, <2>2, <2>4 DEF Run, Rows
    <3>2. tries'[d] = tries[d] /\ accepted'[d] = accepted[d]
      BY <1>1, <2>1, <2>3, <2>4 DEF TypeOK
    <3> QED BY <1>1, <2>2, <2>3, <3>1, <3>2, CountedKept DEF Queued
  <2>5. CASE e = d
    <3>1. /\ tries'[d] = Count(tries[d]) /\ tries[d] <= tries'[d]
          /\ tries[d] \in Nat /\ tries'[d] \in Nat
      BY <1>1, <2>3, <2>5 DEF TypeOK, Count
    <3>2. /\ accepted[d] <= accepted'[d] /\ accepted'[d] \in Nat
          /\ answer = "accepted" => accepted'[d] > 0
      BY <1>1, <2>1, <2>5 DEF TypeOK, Count
    <3>3. /\ run[r].loaded[d] \in Row /\ run[r].loaded[d].attempt < MaxAttempts
          /\ run[r].loaded[d].attempt <= tries[d]
      BY <1>1, <2>3, <2>5, LoadedRows DEF ChangeTrue, Counted
    <3>4. run'[r].new[d] = Attempted(run[r].loaded[d], answer)
      BY <1>1, <2>2, <2>3, <2>5 DEF Run, Rows
    <3>5. /\ run'[r].new[d].attempt = run[r].loaded[d].attempt + 1
          /\ run'[r].new[d].delivered => answer = "accepted"
      <4>1. answer \in AnswerKinds /\ run[r].loaded[d].next = "now"
        <5>1. SubOf[e] \in Subscriptions
          OBVIOUS
        <5>2. answer \in AnswerKinds
          BY <2>1, <5>1
        <5> QED BY <2>3, <2>5, <5>2, LoadedRows DEF ChangeTrue
      <4>2. ~run[r].loaded[d].delivered
        BY <2>3, <2>5, LoadedRows DEF ChangeTrue
      <4> DEFINE row == run[r].loaded[d]
      <4>3. row \in Row /\ row.attempt < MaxAttempts /\ row.next = "now" /\ ~row.delivered
        BY <3>3, <4>1, <4>2
      <4> HIDE DEF row
      <4>4. /\ Attempted(row, answer).attempt = row.attempt + 1
            /\ answer # "accepted" => Attempted(row, answer).delivered = FALSE
        BY <4>1, <4>3, AttemptedIsTrue
      <4>5. run'[r].new[d] = Attempted(row, answer) /\ row = run[r].loaded[d]
        BY <3>4 DEF row
      <4> QED BY <4>4, <4>5
    <3>6. run'[r].new[d].attempt <= tries'[d]
      <4>1. run[r].loaded[d].attempt \in Nat
        BY <3>3 DEF Row
      <4>2. \A n, a \in Nat : n <= Cap /\ a <= n /\ a < Cap => a + 1 <= Count(n)
        BY DEF Count
      <4>3. tries[d] \in Nat /\ tries[d] <= Cap /\ run[r].loaded[d].attempt < Cap
        BY <1>1, <3>3, <4>1
      <4> QED BY <3>1, <3>3, <3>5, <4>1, <4>2, <4>3
    <3>7. ASSUME NEW q \in Runs, run'[q].loaded[d] # None
          PROVE  /\ run'[q].loaded[d].attempt <= tries'[d]
                 /\ run'[q].new[d].attempt <= tries'[d]
                 /\ run'[q].new[d].delivered => accepted'[d] > 0
      <4>1. CASE q = r
        <5>1. run'[r].loaded[d].attempt <= tries'[d]
          <6>1. run[r].loaded[d].attempt \in Nat /\ run[r].loaded[d].attempt <= tries[d]
            BY <3>3 DEF Row
          <6>2. tries[d] <= tries'[d] /\ tries[d] \in Nat /\ tries'[d] \in Nat
            BY <3>1
          <6> QED BY <2>2, <6>1, <6>2
        <5> QED BY <3>2, <3>5, <3>6, <4>1, <5>1
      <4>2. CASE q # r
        <5>1. run'[q] = run[q] /\ run[q].loaded[d] \in Row /\ run[q].new[d] \in Row
          BY <2>2, <3>7, <4>2, LoadedRows
        <5>2. run[q].loaded[d].attempt <= tries[d] /\ run[q].new[d].attempt <= tries[d]
          BY <1>1, <3>7, <5>1 DEF Counted
        <5>3. run[q].new[d].delivered => accepted[d] > 0
          BY <1>1, <3>7, <5>1 DEF Counted
        <5>4. run[q].loaded[d].attempt \in Nat /\ run[q].new[d].attempt \in Nat
          BY <5>1 DEF Row
        <5>5. tries[d] <= tries'[d] /\ tries[d] \in Nat /\ tries'[d] \in Nat
          BY <3>1
        <5>6. run[q].loaded[d].attempt <= tries'[d] /\ run[q].new[d].attempt <= tries'[d]
          BY <5>2, <5>4, <5>5
        <5>7. accepted[d] <= accepted'[d] /\ accepted'[d] \in Nat /\ accepted[d] \in Nat
          BY <1>1, <3>2
        <5>8. accepted[d] > 0 => accepted'[d] > 0
          BY <5>7
        <5> QED BY <5>1, <5>3, <5>6, <5>8
      <4> QED BY <4>1, <4>2
    <3>8. Queued(d)' => /\ deliveries'[d].delivered => accepted'[d] > 0
                        /\ deliveries'[d].attempt <= tries'[d]
      BY <1>1, <2>3, <3>1, <3>2 DEF Counted, Queued, Row, Count
    <3> QED BY <3>7, <3>8 DEF Counted
  <2> QED BY <2>4, <2>5
<1>10. ASSUME NEW r \in Runs, Commit(r) PROVE Counted(d)'
  <2>1. run[r].open /\ run[r].tenants # << >> /\ run' = [run EXCEPT ![r] = Onward(r)]
    BY <1>1, <1>10 DEF Commit, RunTrue
  <2>2. \A q \in Runs : run'[q].loaded[d] # None => run'[q] = run[q]
    <3>1. run'[r] = Onward(r) /\ \A q \in Runs \ {r} : run'[q] = run[q]
      BY <1>1, <2>1, OtherRuns
    <3>2. run'[r].loaded[d] = None
      BY <2>1, <3>1, OnwardRun DEF NoRows
    <3> QED BY <3>1, <3>2
  <2>3. CASE run[r].new[d] = None
    <3>1. deliveries'[d] = deliveries[d] /\ UNCHANGED <<tries, accepted>>
      BY <1>10, <2>3 DEF Commit
    <3> QED BY <1>1, <2>2, <3>1, CountedKept DEF Queued
  <2>4. CASE run[r].new[d] # None
    <3>1. run[r].loaded[d] # None
      BY <1>1, <2>4 DEF RunTrue
    <3> DEFINE row == deliveries[d]
               loaded == run[r].loaded[d]
               new == run[r].new[d]
    <3>2. row \in Row /\ loaded \in Row /\ new \in Row /\ Queued(d)
      BY <3>1, LoadedRows
    <3>3. deliveries'[d] = Updated(row, loaded, new) /\ UNCHANGED <<tries, accepted>>
      BY <1>10, <2>4 DEF Commit
    <3>4. /\ deliveries'[d].attempt \in {new.attempt, row.attempt}
          /\ deliveries'[d].delivered \in {new.delivered, row.delivered}
      BY <3>2, <3>3, UpdatedColumns
    <3>5. /\ row.attempt <= tries[d] /\ new.attempt <= tries[d]
          /\ row.delivered => accepted[d] > 0
          /\ new.delivered => accepted[d] > 0
      BY <1>1, <3>1, <3>2 DEF Counted
    <3>6. /\ deliveries'[d].attempt <= tries'[d]
          /\ deliveries'[d].delivered => accepted'[d] > 0
      BY <3>3, <3>4, <3>5
    <3>7. \A q \in Runs : run'[q].loaded[d] # None =>
            /\ run'[q].loaded[d].attempt <= tries'[d]
            /\ run'[q].new[d].attempt <= tries'[d]
            /\ run'[q].new[d].delivered => accepted'[d] > 0
      BY <1>1, <2>2, <3>3 DEF Counted
    <3> QED BY <3>6, <3>7 DEF Counted
  <2> QED BY <2>3, <2>4
<1>11. ASSUME NEW r \in Runs, TimeUp(r) \/ Crash(r) PROVE Counted(d)'
  <2>1. Idle.loaded[d] = None
    BY DEF Idle, NoRows
  <2> QED BY <1>5, <1>11, <2>1, IdleRun DEF TimeUp, Crash
<1>12. ASSUME NEW r \in Runs, TenantFailed(r) PROVE Counted(d)'
  <2>1. run[r].open /\ run[r].tenants # << >> /\ run' = [run EXCEPT ![r] = Onward(r)]
    BY <1>1, <1>12 DEF TenantFailed, RunTrue
  <2>2. Onward(r) \in Run /\ Onward(r).loaded[d] = None
    BY <2>1, OnwardRun DEF NoRows
  <2> QED BY <1>5, <1>12, <2>1, <2>2 DEF TenantFailed
<1>13. CASE UNCHANGED vars
  BY <1>1, <1>13, CountedKept DEF vars, Queued
<1> QED BY <1>2, <1>3, <1>4, <1>6, <1>7, <1>8, <1>9, <1>10, <1>11, <1>12, <1>13 DEF Next, Step

\* A delivery marked as delivered was accepted, and no more attempts are counted
\* than there were calls of deliver, sent or refused before they sent anything,
\* however the runs overlap. The counter of the model must be able to count as
\* many calls as one delivery may take.
THEOREM BooksAreKept ==
    ASSUME MaxAttempts <= Cap
    PROVE  Spec => []BooksAreTrue
<1>1. Init => Books
  BY DEF Init, Idle, NoRows, Books, Counted, Queued
<1>2. Books => BooksAreTrue
  BY DEF Books, Counted, BooksAreTrue
<1>3. Inductive /\ Books /\ [Next]_vars => Books'
  BY BooksStep
<1> QED BY <1>1, <1>2, <1>3, Safety, PTL DEF Spec
=============================================================================
