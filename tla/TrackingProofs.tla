---------------------------- MODULE TrackingProofs ----------------------------
(* Theorems about Tracking, for every value of the constants.                 *)
EXTENDS Tracking, FiniteSetTheorems, WellFoundedInduction, TLAPS

\* A set of natural numbers that is not empty has a least one.
LEMMA LeastNumber ==
    ASSUME NEW T \in SUBSET Nat, T # {}
    PROVE  \E m \in T : \A n \in T : m <= n
<1>1. \E m \in T : \A n \in T : ~(<<n, m>> \in OpToRel(<, Nat))
  <2>1. IsWellFoundedOn(OpToRel(<, Nat), Nat)
    BY NatLessThanWellFounded
  <2> HIDE DEF OpToRel
  <2> QED BY <2>1, WFMin
<1>2. PICK m \in T : \A n \in T : ~(n < m)
  BY <1>1 DEF OpToRel
<1> QED BY <1>2

\* The numbers of a finite set of events are bounded.
LEMMA Bounded ==
    ASSUME NEW S \in SUBSET Events
    PROVE  \E b \in Nat : \A e \in S : OccurredAt[e] <= b
<1>1. IsFiniteSet(S) /\ \A e \in S : OccurredAt[e] \in Nat
  BY EventsWellFormed, FS_Subset
<1>2. PICK size \in Nat : \E g \in [1..size -> S] : \A e \in S : \E i \in 1..size : g[i] = e
  <2>1. Cardinality(S) \in Nat /\ ExistsBijection(1..Cardinality(S), S)
    BY <1>1, FS_CardinalityType
  <2>2. PICK f \in Bijection(1..Cardinality(S), S) : TRUE
    BY <2>1 DEF ExistsBijection
  <2>3. f \in [1..Cardinality(S) -> S] /\ \A e \in S : \E i \in 1..Cardinality(S) : f[i] = e
    BY <2>2 DEF Bijection, Surjection, Injection
  <2> QED BY <2>1, <2>3
<1>3. PICK f \in [1..size -> S] : \A e \in S : \E i \in 1..size : f[i] = e
  BY <1>2
<1> DEFINE BoundedUpTo(k) == \E b \in Nat : \A i \in 1..k : OccurredAt[f[i]] <= b
           Bad == {k \in 0..size : ~BoundedUpTo(k)}
<1>4. BoundedUpTo(0)
  <2>1. 0 \in Nat /\ \A i \in 1..0 : OccurredAt[f[i]] <= 0
    OBVIOUS
  <2> QED BY <2>1
<1>5. ASSUME NEW k \in 1..size, BoundedUpTo(k - 1) PROVE BoundedUpTo(k)
  <2>1. PICK b \in Nat : \A i \in 1..(k - 1) : OccurredAt[f[i]] <= b
    BY <1>5
  <2>2. PICK c \in Nat : c = OccurredAt[f[k]]
    BY <1>1
  <2>3. ASSUME NEW i \in 1..k PROVE OccurredAt[f[i]] <= b + c
    <3>1. OccurredAt[f[i]] \in Nat
      BY <1>1
    <3>2. CASE i = k
      BY <2>2, <3>2
    <3>3. CASE i # k
      <4>1. i \in 1..(k - 1)
        BY <3>3
      <4> QED BY <2>1, <3>1, <4>1
    <3> QED BY <3>2, <3>3
  <2> QED BY <2>3
<1> HIDE DEF BoundedUpTo
<1>6. Bad = {}
  <2> SUFFICES ASSUME Bad # {} PROVE FALSE
    OBVIOUS
  <2>1. Bad \in SUBSET Nat
    OBVIOUS
  <2> HIDE DEF Bad
  <2>2. PICK k \in Bad : \A j \in Bad : k <= j
    BY <2>1, LeastNumber
  <2> USE DEF Bad
  <2>3. k \in 1..size /\ ~BoundedUpTo(k)
    BY <1>4, <2>2
  <2>4. k - 1 \in 0..size /\ k - 1 \notin Bad
    BY <2>2, <2>3
  <2> QED BY <1>5, <2>3, <2>4
<1>7. BoundedUpTo(size)
  BY <1>6
<1> QED BY <1>3, <1>7 DEF BoundedUpTo

\* The first and the latest of some events are among them.
LEMMA FirstIsOne == ASSUME NEW S \in SUBSET Events, S # {} PROVE First(S) \in S
<1>1. \A e \in S : OccurredAt[e] \in Nat
  BY EventsWellFormed
<1> DEFINE T == {OccurredAt[e] : e \in S}
<1>2. PICK m \in T : \A n \in T : m <= n
  BY <1>1, LeastNumber
<1>3. \E e \in S : \A d \in S : OccurredAt[e] <= OccurredAt[d]
  BY <1>2
<1> QED BY <1>3 DEF First

\* The latest of some events is one of them.
LEMMA LatestIsOne == ASSUME NEW S \in SUBSET Events, S # {} PROVE Latest(S) \in S
<1>1. \A e \in S : OccurredAt[e] \in Nat
  BY EventsWellFormed
<1> DEFINE Bounds == {n \in Nat : \A e \in S : OccurredAt[e] <= n}
<1>2. PICK m \in Bounds : \A n \in Bounds : m <= n
  BY Bounded, LeastNumber
<1>3. \E e \in S : OccurredAt[e] = m
  <2> SUFFICES ASSUME \A e \in S : OccurredAt[e] # m PROVE FALSE
    OBVIOUS
  <2>1. \A e \in S : OccurredAt[e] <= m - 1
    BY <1>1, <1>2
  <2>2. m - 1 \in Nat
    BY <1>1, <2>1
  <2> QED BY <1>2, <2>1, <2>2
<1>4. \E e \in S : \A d \in S : OccurredAt[d] <= OccurredAt[e]
  BY <1>2, <1>3
<1> QED BY <1>4 DEF Latest

\* What projecting a timeline makes of a row: a pick-up on record stays, a pick-up
\* or a delivery of the timeline is put on record, and no other delivery is.
LEMMA ProjectionRow ==
    ASSUME NEW row \in Row, NEW S \in SUBSET Events, NEW stale \in BOOLEAN
    PROVE  LET new == Projection(row, S, stale)
           IN  /\ new \in Row
               /\ row.picked_up # None => new.picked_up = row.picked_up
               /\ (\E e \in S : StatusOf[e] = "PICKED_UP") => new.picked_up # None
               /\ new.outcome # None <=> row.outcome # None \/ \E e \in S : StatusOf[e] = "DELIVERED"
<1> DEFINE new == Projection(row, S, stale)
<1>1. CASE S = {}
  <2>1. new = [row EXCEPT !.polled = row.status \notin FinalStatuses]
    BY <1>1 DEF Projection
  <2>2. new \in Row
    BY <2>1 DEF Row
  <2>3. new.picked_up = row.picked_up /\ new.outcome = row.outcome
    BY <2>1 DEF Row
  <2> QED BY <1>1, <2>2, <2>3
<1>2. CASE S # {}
  <2> DEFINE latest == Latest(S)
             pickup == FirstWith(S, "PICKED_UP")
             delivered == FirstWith(S, "DELIVERED")
             final == StatusOf[latest] \in FinalStatuses
             late == IF delivered = None \/ Deadline = None THEN row.late
                     ELSE OccurredAt[delivered] > Deadline
  <2>1. latest \in Events /\ StatusOf[latest] \in Statuses
    BY <1>2, LatestIsOne, EventsWellFormed
  <2>2. ASSUME NEW status
        PROVE  /\ FirstWith(S, status) \in Events \cup {None}
               /\ FirstWith(S, status) # None <=> \E e \in S : StatusOf[e] = status
    <3> DEFINE hits == {e \in S : StatusOf[e] = status}
    <3>1. hits # {} => First(hits) \in hits /\ First(hits) \in Events
      BY FirstIsOne
    <3>2. FirstWith(S, status) = IF hits = {} THEN None ELSE First(hits)
      BY DEF FirstWith
    <3> QED BY <3>1, <3>2, NoneIsNoEvent
  <2>3. late \in BOOLEAN
    <3>1. row.late \in BOOLEAN
      BY DEF Row
    <3>2. CASE delivered = None \/ Deadline = None
      BY <3>1, <3>2
    <3>3. CASE delivered # None /\ Deadline # None
      <4>1. late = (OccurredAt[delivered] > Deadline)
        BY <3>3
      <4> HIDE DEF late, delivered
      <4> QED BY <4>1
    <3> QED BY <3>2, <3>3
  <2>4. (row.incident \/ (stale /\ ~final)) \in BOOLEAN /\ (~final) \in BOOLEAN
    <3> HIDE DEF final
    <3> QED OBVIOUS
  <2> DEFINE picked_up == IF row.picked_up = None THEN pickup ELSE row.picked_up
             outcome == IF delivered = None THEN row.outcome ELSE delivered
  <2>5. new = [status |-> StatusOf[latest], last |-> latest, picked_up |-> picked_up,
               polled |-> ~final, incident |-> row.incident \/ (stale /\ ~final),
               late |-> late, outcome |-> outcome]
    BY <1>2 DEF Projection
  <2>6. picked_up \in Events \cup {None} /\ outcome \in Events \cup {None}
    <3>1. row.picked_up \in Events \cup {None} /\ row.outcome \in Events \cup {None}
      BY DEF Row
    <3> QED BY <2>2, <3>1
  <2> HIDE DEF latest, final, late, new
  <2>7. new \in Row
    <3> HIDE DEF picked_up, outcome
    <3> QED BY <2>1, <2>3, <2>4, <2>5, <2>6 DEF Row
  <2>8. new.picked_up = picked_up /\ new.outcome = outcome
    BY <2>5
  <2>9. pickup # None <=> \E e \in S : StatusOf[e] = "PICKED_UP"
    BY <2>2
  <2>10. delivered # None <=> \E e \in S : StatusOf[e] = "DELIVERED"
    BY <2>2
  <2> HIDE DEF pickup, delivered
  <2>11. /\ row.picked_up # None => new.picked_up = row.picked_up
         /\ pickup # None => new.picked_up # None
         /\ new.outcome # None <=> row.outcome # None \/ delivered # None
    BY <2>8
  <2> QED BY <2>7, <2>9, <2>10, <2>11 DEF new
<1> QED BY <1>1, <1>2

-----------------------------------------------------------------------------
Has(S, ship, status) == \E e \in EventsOf(S, ship) : StatusOf[e] = status

\* What a session has loaded of a shipment is not undone meanwhile.
LoadedTrue(s, ship) ==
    /\ session[s].loaded[ship].picked_up # None => rows[ship].picked_up # None
    /\ session[s].loaded[ship].outcome # None => rows[ship].outcome # None

\* What it has made of a shipment whose events it took.
TakenTrue(s, ship) ==
    LET loaded == session[s].loaded[ship]
        new == session[s].new[ship]
    IN  /\ loaded.picked_up # None => new.picked_up = loaded.picked_up
        /\ Has(session[s].fresh, ship, "PICKED_UP") => new.picked_up # None
        /\ new.outcome # None <=> loaded.outcome # None \/ Has(session[s].fresh, ship, "DELIVERED")

\* A session takes each shipment once, and inserts events of these only.
SessionTrue(s) ==
    Open(s) =>
        /\ session[s].step # "next" =>
              session[s].ship \in Ships \ (session[s].todo \cup session[s].taken)
        /\ session[s].todo \cap session[s].taken = {}
        /\ session[s].fresh \subseteq session[s].taken \X Events
        /\ \A ship \in Ships : LoadedTrue(s, ship)
        /\ \A ship \in session[s].taken : TakenTrue(s, ship)

Recorded(ship) ==
    /\ Has(timeline, ship, "PICKED_UP") => rows[ship].picked_up # None
    /\ Has(timeline, ship, "DELIVERED") <=> rows[ship].outcome # None

Inductive ==
    /\ TypeOK
    /\ \A ship \in Ships : Recorded(ship)
    /\ \A s \in Sessions : SessionTrue(s)

-----------------------------------------------------------------------------
\* What is known of a session that is open.
LEMMA OpenType ==
    ASSUME TypeOK, NEW s \in Sessions
    PROVE  /\ Open(s) <=> session[s] # Closed
           /\ Open(s) => session[s] \in Session
           /\ session[s].step # "closed" => Open(s)
BY DEF TypeOK, Open, Closed, Session

\* A session whose record did not change, while no pick-up and no outcome was undone.
LEMMA SessionKept ==
    ASSUME NEW s \in Sessions, SessionTrue(s), session'[s] = session[s],
           \A ship \in Ships :
              /\ rows[ship].picked_up # None => rows'[ship].picked_up # None
              /\ rows[ship].outcome # None => rows'[ship].outcome # None
    PROVE  SessionTrue(s)'
BY DEF SessionTrue, Open, LoadedTrue, TakenTrue, Has, EventsOf

\* A step of one session that commits nothing.
LEMMA OneSession ==
    ASSUME Inductive, NEW s \in Sessions, NEW j \in Session \cup {Closed},
           session' = [session EXCEPT ![s] = j], UNCHANGED <<rows, timeline, notices, reported>>,
           SessionTrue(s)'
    PROVE  Inductive'
<1>1. TypeOK /\ \A t \in Sessions \ {s} : session'[t] = session[t]
  BY DEF Inductive, TypeOK
<1>2. TypeOK'
  BY <1>1 DEF TypeOK
<1>3. ASSUME NEW t \in Sessions, t # s PROVE SessionTrue(t)'
  BY <1>1, <1>3, SessionKept DEF Inductive
<1>4. \A ship \in Ships : Recorded(ship)'
  BY DEF Inductive, Recorded, Has, EventsOf
<1> QED BY <1>2, <1>3, <1>4 DEF Inductive

\* A session that ends without a commit.
LEMMA Closing ==
    ASSUME Inductive, NEW s \in Sessions, session' = [session EXCEPT ![s] = Closed],
           UNCHANGED <<rows, timeline, notices, reported>>
    PROVE  Inductive'
<1>1. session'[s] = Closed
  BY DEF Inductive, TypeOK
<1>2. SessionTrue(s)'
  BY <1>1 DEF SessionTrue, Open, Closed
<1> QED BY <1>2, OneSession

\* A session that begins.
LEMMA Began ==
    ASSUME Inductive, NEW s \in Sessions, NEW step \in {"next", "known"},
           NEW todo \in SUBSET Ships, NEW ship \in Ships \cup {None}, NEW batch \in SUBSET Events,
           session' = [session EXCEPT ![s] =
              [step |-> step, todo |-> todo, ship |-> ship, batch |-> batch, fresh |-> {},
               loaded |-> rows, new |-> rows, taken |-> {}]],
           UNCHANGED <<rows, timeline, notices, reported>>,
           step # "next" => ship \in Ships \ todo
    PROVE  Inductive'
<1> DEFINE j == [step |-> step, todo |-> todo, ship |-> ship, batch |-> batch, fresh |-> {},
                 loaded |-> rows, new |-> rows, taken |-> {}]
<1>1. TypeOK /\ j \in Session
  BY DEF Inductive, TypeOK, Session
<1>2. session'[s] = j
  BY <1>1 DEF TypeOK
<1>3. SessionTrue(s)'
  BY <1>2 DEF SessionTrue, Open, LoadedTrue
<1> QED BY <1>1, <1>3, OneSession

\* A session that goes on without taking events.
LEMMA Moved ==
    ASSUME Inductive, NEW s \in Sessions, Open(s), NEW step \in {"next", "known", "take"},
           NEW todo, todo \subseteq session[s].todo, NEW ship \in Ships \cup {None},
           NEW batch \in SUBSET Events,
           session' = [session EXCEPT ![s] =
              [session[s] EXCEPT !.step = step, !.todo = todo, !.ship = ship, !.batch = batch]],
           UNCHANGED <<rows, timeline, notices, reported>>,
           step # "next" => ship \in Ships \ (todo \cup session[s].taken)
    PROVE  Inductive'
<1> DEFINE j == [session[s] EXCEPT !.step = step, !.todo = todo, !.ship = ship, !.batch = batch]
<1>1. TypeOK /\ session[s] \in Session /\ SessionTrue(s)
  BY OpenType DEF Inductive
<1>2. /\ j \in Session /\ session' = [session EXCEPT ![s] = j]
      /\ j.loaded = session[s].loaded /\ j.new = session[s].new /\ j.fresh = session[s].fresh
      /\ j.taken = session[s].taken /\ j.step = step /\ j.todo = todo /\ j.ship = ship
  BY <1>1 DEF Session
<1>3. session'[s] = j
  BY <1>1 DEF TypeOK
<1> HIDE DEF j
<1>4. SessionTrue(s)'
  <2>1. /\ j.step # "next" => j.ship \in Ships \ (j.todo \cup j.taken)
        /\ j.todo \cap j.taken = {}
        /\ j.fresh \subseteq j.taken \X Events
    BY <1>1, <1>2 DEF SessionTrue
  <2>2. \A sh \in Ships : LoadedTrue(s, sh)'
    BY <1>1, <1>2, <1>3 DEF SessionTrue, LoadedTrue, EventsOf, Has
  <2>3. \A sh \in j.taken : TakenTrue(s, sh)'
    BY <1>1, <1>2, <1>3 DEF SessionTrue, TakenTrue, EventsOf, Has
  <2>4. QED
    BY <1>3, <2>1, <2>2, <2>3 DEF SessionTrue
<1> QED BY <1>2, <1>4, OneSession

\* The record of a session, with the columns a step names and those it does not.
LEMMA Record ==
    ASSUME NEW r \in Session, NEW step, NEW ship, NEW todo, NEW batch
    PROVE  /\ [r EXCEPT !.todo = todo] =
                 [r EXCEPT !.step = r.step, !.todo = todo, !.ship = r.ship, !.batch = r.batch]
           /\ [r EXCEPT !.step = step, !.ship = ship, !.todo = todo, !.batch = batch] =
                 [r EXCEPT !.step = step, !.todo = todo, !.ship = ship, !.batch = batch]
           /\ [r EXCEPT !.step = step, !.batch = batch] =
                 [r EXCEPT !.step = step, !.todo = r.todo, !.ship = r.ship, !.batch = batch]
BY DEF Session

\* Taking the events of a shipment.
LEMMA TakeStep ==
    ASSUME Inductive, NEW s \in Sessions, Take(s), NEW ship, ship = session[s].ship
    PROVE  Inductive'
<1> DEFINE r == session[s]
           new == {ship} \X r.batch
           visible == EventsOf(timeline \cup new, ship)
           row == [r.loaded[ship] EXCEPT !.outcome = rows[ship].outcome]
<1>1. /\ TypeOK /\ r \in Session /\ SessionTrue(s) /\ Open(s) /\ r.step = "take"
      /\ UNCHANGED <<rows, timeline, notices, reported>>
  BY OpenType DEF Inductive, Take
<1>2. ship \in Ships /\ ship \notin r.todo /\ ship \notin r.taken
  BY <1>1 DEF SessionTrue
<1>3. PICK stale \in BOOLEAN :
         session' = [session EXCEPT ![s] =
            [session[s] EXCEPT !.step = "next", !.fresh = @ \cup new, !.taken = @ \cup {ship},
                      !.loaded[ship] = row, !.new[ship] = Projection(row, visible, stale)]]
  BY DEF Take
<1>4. PICK loaded : loaded = row
  OBVIOUS
<1>5. PICK projected : projected = Projection(loaded, visible, stale)
  OBVIOUS
<1>6. /\ rows[ship] \in Row /\ r.loaded[ship] \in Row /\ r.loaded \in [Ships -> Row]
      /\ r.new \in [Ships -> Row] /\ r.fresh \subseteq Ships \X Events /\ r.batch \subseteq Events
      /\ r.taken \subseteq Ships
  BY <1>1, <1>2 DEF TypeOK, Session
<1>7. loaded \in Row /\ loaded.outcome = rows[ship].outcome /\ loaded.picked_up = r.loaded[ship].picked_up
  BY <1>4, <1>6 DEF Row
<1>8. visible \in SUBSET Events
  BY DEF EventsOf
<1>9. /\ projected \in Row
      /\ loaded.picked_up # None => projected.picked_up = loaded.picked_up
      /\ (\E e \in visible : StatusOf[e] = "PICKED_UP") => projected.picked_up # None
      /\ projected.outcome # None <=> loaded.outcome # None \/ \E e \in visible : StatusOf[e] = "DELIVERED"
  BY <1>5, <1>7, <1>8, ProjectionRow
<1>10. PICK j : j = [r EXCEPT !.step = "next", !.fresh = r.fresh \cup new, !.taken = r.taken \cup {ship},
                              !.loaded = [r.loaded EXCEPT ![ship] = loaded],
                              !.new = [r.new EXCEPT ![ship] = projected]]
  OBVIOUS
<1>11. session' = [session EXCEPT ![s] = j]
  <2>1. j = [r EXCEPT !.step = "next", !.fresh = @ \cup new, !.taken = @ \cup {ship},
                      !.loaded[ship] = loaded, !.new[ship] = projected]
    BY <1>1, <1>10 DEF Session
  <2> HIDE DEF new, visible, row
  <2>2. Projection(row, visible, stale) = projected
    BY <1>4, <1>5
  <2> QED BY <1>3, <1>4, <2>1, <2>2
<1> HIDE DEF row
<1>12. /\ j.step = "next" /\ j.todo = r.todo /\ j.fresh = r.fresh \cup new
       /\ j.taken = r.taken \cup {ship} /\ j.loaded = [r.loaded EXCEPT ![ship] = loaded]
       /\ j.new = [r.new EXCEPT ![ship] = projected] /\ j.ship = r.ship /\ j.batch = r.batch
  BY <1>1, <1>10 DEF Session
<1>13. j \in Session
  <2>1. /\ j.loaded \in [Ships -> Row] /\ j.new \in [Ships -> Row] /\ j.taken \subseteq Ships
        /\ j.fresh \subseteq Ships \X Events
    BY <1>2, <1>6, <1>7, <1>9, <1>12
  <2> QED BY <1>1, <1>10, <1>12, <2>1 DEF Session
<1>14. session'[s] = j
  BY <1>1, <1>11 DEF TypeOK
<1>15. \A other \in Ships \ {ship} :
          /\ j.loaded[other] = r.loaded[other] /\ j.new[other] = r.new[other]
          /\ EventsOf(j.fresh, other) = EventsOf(r.fresh, other)
  BY <1>6, <1>12 DEF EventsOf
<1>16. j.loaded[ship] = loaded /\ j.new[ship] = projected
  BY <1>2, <1>6, <1>12
<1>17. EventsOf(j.fresh, ship) = r.batch /\ visible = EventsOf(timeline, ship) \cup r.batch
  <2>1. EventsOf(r.fresh, ship) = {}
    BY <1>1, <1>2 DEF SessionTrue, EventsOf
  <2> QED BY <1>6, <1>12, <2>1 DEF EventsOf
<1>18. LoadedTrue(s, ship)'
  <2>1. LoadedTrue(s, ship)
    BY <1>1, <1>2 DEF SessionTrue
  <2> QED BY <1>1, <1>7, <1>14, <1>16, <2>1 DEF LoadedTrue
<1>19. TakenTrue(s, ship)'
  <2>1. Has(timeline, ship, "DELIVERED") => loaded.outcome # None
    BY <1>2, <1>7 DEF Inductive, Recorded
  <2>2. \A status : Has(session'[s].fresh, ship, status) <=> \E e \in r.batch : StatusOf[e] = status
    BY <1>14, <1>17 DEF Has
  <2>3. \A status : (\E e \in visible : StatusOf[e] = status)
                      <=> \/ \E e \in r.batch : StatusOf[e] = status
                          \/ Has(timeline, ship, status)
    BY <1>17 DEF Has
  <2> HIDE DEF visible, r
  <2> QED BY <1>9, <1>14, <1>16, <2>1, <2>2, <2>3 DEF TakenTrue
<1>20. SessionTrue(s)'
  <2>1. session'[s].todo \cap session'[s].taken = {}
    BY <1>1, <1>2, <1>12, <1>14 DEF SessionTrue
  <2>2. session'[s].fresh \subseteq session'[s].taken \X Events
    BY <1>1, <1>6, <1>12, <1>14 DEF SessionTrue
  <2>3. \A other \in Ships : LoadedTrue(s, other)'
    <3>1. \A other \in Ships \ {ship} : LoadedTrue(s, other)'
      BY <1>1, <1>14, <1>15 DEF SessionTrue, LoadedTrue
    <3> QED BY <1>18, <3>1
  <2>4. \A other \in session'[s].taken : TakenTrue(s, other)'
    <3>1. \A other \in r.taken : TakenTrue(s, other)'
      BY <1>1, <1>2, <1>6, <1>14, <1>15 DEF SessionTrue, TakenTrue, Has
    <3> QED BY <1>12, <1>14, <1>19, <3>1
  <2> QED BY <1>12, <1>14, <2>1, <2>2, <2>3, <2>4 DEF SessionTrue
<1> QED BY <1>1, <1>11, <1>13, <1>20, OneSession

\* The UPDATE of a row, column by column.
LEMMA UpdatedColumns ==
    ASSUME NEW row \in Row, NEW loaded \in Row, NEW new \in Row
    PROVE  /\ Updated(row, loaded, new) \in Row
           /\ Updated(row, loaded, new).status =
                 IF new.status # loaded.status THEN new.status ELSE row.status
           /\ Updated(row, loaded, new).picked_up =
                 IF new.picked_up # loaded.picked_up THEN new.picked_up ELSE row.picked_up
           /\ Updated(row, loaded, new).outcome =
                 IF new.outcome # loaded.outcome THEN new.outcome ELSE row.outcome
<1> DEFINE columns == {"status", "last", "picked_up", "polled", "incident", "late", "outcome"}
           value == [c \in columns |-> IF new[c] # loaded[c] \/ (c = "polled" /\ new.polled)
                                         THEN new[c] ELSE row[c]]
<1>1. DOMAIN row = columns
  BY DEF Row
<1>2. Updated(row, loaded, new) = value
  BY <1>1 DEF Updated
<1>3. \A c \in columns : value[c] = new[c] \/ value[c] = row[c]
  OBVIOUS
<1>4. value = [status |-> value["status"], last |-> value["last"], picked_up |-> value["picked_up"],
               polled |-> value["polled"], incident |-> value["incident"], late |-> value["late"],
               outcome |-> value["outcome"]]
  OBVIOUS
<1>5. /\ value["status"] \in Statuses /\ value["last"] \in Events \cup {None}
      /\ value["picked_up"] \in Events \cup {None} /\ value["outcome"] \in Events \cup {None}
  <2> HIDE DEF value
  <2> QED BY <1>3 DEF Row
<1>6. value["polled"] \in BOOLEAN /\ value["incident"] \in BOOLEAN /\ value["late"] \in BOOLEAN
  <2> HIDE DEF value
  <2>1. /\ new["polled"] \in BOOLEAN /\ new["incident"] \in BOOLEAN /\ new["late"] \in BOOLEAN
        /\ row["polled"] \in BOOLEAN /\ row["incident"] \in BOOLEAN /\ row["late"] \in BOOLEAN
    BY DEF Row
  <2> QED BY <1>3, <2>1
<1>7. value \in Row
  <2> HIDE DEF value
  <2> QED BY <1>4, <1>5, <1>6 DEF Row
<1> QED BY <1>2, <1>7

\* What COMMIT makes of a row: no pick-up and no outcome is lost, and those of the
\* events it inserts are on record.
LEMMA CommittedRow ==
    ASSUME Inductive, NEW s \in Sessions, Commit(s), NEW ship \in Ships
    PROVE  /\ rows'[ship] \in Row /\ Recorded(ship)'
           /\ rows[ship].picked_up # None => rows'[ship].picked_up # None
           /\ rows[ship].outcome # None => rows'[ship].outcome # None
<1> DEFINE row == rows[ship]
           loaded == session[s].loaded[ship]
           new == session[s].new[ship]
<1>1. /\ TypeOK /\ Open(s) /\ session[s] \in Session /\ SessionTrue(s)
      /\ timeline' = timeline \cup session[s].fresh
  BY OpenType DEF Inductive, Commit
<1>2. row \in Row /\ loaded \in Row /\ new \in Row
  BY <1>1 DEF TypeOK, Session
<1>3. Recorded(ship)
  BY DEF Inductive
<1>4. \A status : Has(timeline, ship, status)' <=>
                      Has(timeline, ship, status) \/ Has(session[s].fresh, ship, status)
  BY <1>1 DEF Has, EventsOf
<1>5. CASE ship \notin session[s].taken
  <2>1. rows'[ship] = row
    BY <1>5 DEF Commit
  <2>2. \A status : ~Has(session[s].fresh, ship, status)
    BY <1>1, <1>5 DEF SessionTrue, Has, EventsOf
  <2>3. \A status : Has(timeline, ship, status)' <=> Has(timeline, ship, status)
    BY <1>4, <2>2
  <2> QED BY <1>2, <1>3, <2>1, <2>3 DEF Recorded
<1>6. CASE ship \in session[s].taken
  <2>1. rows'[ship] = Updated(row, loaded, new)
    BY <1>6 DEF Commit
  <2>2. /\ rows'[ship] \in Row
        /\ rows'[ship].picked_up = IF new.picked_up # loaded.picked_up THEN new.picked_up ELSE row.picked_up
        /\ rows'[ship].outcome = IF new.outcome # loaded.outcome THEN new.outcome ELSE row.outcome
    BY <1>2, <2>1, UpdatedColumns
  <2>3. LoadedTrue(s, ship) /\ TakenTrue(s, ship)
    BY <1>1, <1>6 DEF SessionTrue
  <2>4. /\ loaded.picked_up # None => row.picked_up # None /\ new.picked_up = loaded.picked_up
        /\ loaded.outcome # None => row.outcome # None
        /\ Has(session[s].fresh, ship, "PICKED_UP") => new.picked_up # None
        /\ new.outcome # None <=> loaded.outcome # None \/ Has(session[s].fresh, ship, "DELIVERED")
    BY <2>3 DEF LoadedTrue, TakenTrue
  <2>5. rows'[ship].picked_up # None <=> row.picked_up # None \/ new.picked_up # None
    BY <2>2, <2>4
  <2>6. rows'[ship].outcome # None <=> row.outcome # None \/ new.outcome # None
    BY <2>2, <2>4
  <2>7. Recorded(ship)'
    <3>1. Has(timeline, ship, "PICKED_UP")' => rows'[ship].picked_up # None
      BY <1>3, <1>4, <2>4, <2>5 DEF Recorded
    <3>2. Has(timeline, ship, "DELIVERED")' <=> rows'[ship].outcome # None
      BY <1>3, <1>4, <2>4, <2>6 DEF Recorded
    <3> QED BY <3>1, <3>2 DEF Recorded
  <2> QED BY <2>2, <2>5, <2>6, <2>7
<1> QED BY <1>5, <1>6

\* COMMIT keeps the invariant, whatever was committed since the session began.
LEMMA CommitStep ==
    ASSUME Inductive, NEW s \in Sessions, Commit(s)
    PROVE  Inductive'
<1>1. /\ TypeOK /\ session[s] \in Session /\ session' = [session EXCEPT ![s] = Closed]
      /\ session'[s] = Closed /\ \A t \in Sessions \ {s} : session'[t] = session[t]
  BY OpenType DEF Inductive, Commit, TypeOK
<1>2. TypeOK'
  <2>1. rows' \in [Ships -> Row]
    <3>1. rows' = [ship \in Ships |-> rows'[ship]]
      BY DEF Commit
    <3> QED BY <3>1, CommittedRow
  <2>2. notices' \in [Ships -> Seq(Statuses)]
    <3>1. \A ship \in Ships : session[s].new[ship].status \in Statuses
      BY <1>1 DEF Session, Row
    <3> QED BY <1>1, <3>1 DEF Commit, TypeOK
  <2>3. timeline' \subseteq Ships \X Events /\ reported' = reported
    BY <1>1 DEF Commit, TypeOK, Session
  <2> QED BY <1>1, <2>1, <2>2, <2>3 DEF TypeOK
<1>3. ASSUME NEW t \in Sessions PROVE SessionTrue(t)'
  <2>1. CASE t = s
    BY <1>1, <2>1 DEF SessionTrue, Open, Closed
  <2>2. CASE t # s
    BY <1>1, <2>2, CommittedRow, SessionKept DEF Inductive
  <2> QED BY <2>1, <2>2
<1> QED BY <1>2, <1>3, CommittedRow DEF Inductive

\* At the start nothing is reported and no session is open.
LEMMA InductiveInit == Init => Inductive
<1> SUFFICES ASSUME Init PROVE Inductive
  OBVIOUS
<1>1. \A ship \in Ships : Fresh(ship) \in Row
  BY DEF Fresh, Row, Statuses
<1>2. TypeOK
  BY <1>1 DEF Init, TypeOK
<1>3. \A ship \in Ships : Recorded(ship)
  BY DEF Init, Recorded, Has, EventsOf, Fresh
<1>4. \A s \in Sessions : SessionTrue(s)
  BY DEF Init, SessionTrue, Open, Closed
<1> QED BY <1>2, <1>3, <1>4 DEF Inductive

\* Every step of every session keeps the invariant.
LEMMA InductiveStep == Inductive /\ [Next]_vars => Inductive'
<1> SUFFICES ASSUME Inductive, [Next]_vars PROVE Inductive'
  OBVIOUS
<1>1. TypeOK /\ \A s \in Sessions : Open(s) => session[s] \in Session /\ SessionTrue(s)
  BY OpenType DEF Inductive
<1>2. ASSUME NEW s \in Polls, PollBegin(s) PROVE Inductive'
  <2> DEFINE due == {ship \in Ships : rows[ship].polled}
  <2>1. /\ s \in Sessions /\ UNCHANGED <<rows, timeline, notices, reported>>
        /\ session' = [session EXCEPT ![s] =
              [step |-> "next", todo |-> due, ship |-> None, batch |-> {}, fresh |-> {},
               loaded |-> rows, new |-> rows, taken |-> {}]]
    BY <1>2 DEF PollBegin, Sessions
  <2>2. due \in SUBSET Ships /\ None \in Ships \cup {None} /\ {} \in SUBSET Events
    OBVIOUS
  <2> HIDE DEF due
  <2> QED BY <2>1, <2>2, Began
<1>3. ASSUME NEW s \in Polls, NEW ship \in Ships, PollAsk(s, ship) PROVE Inductive'
  <2> DEFINE r == session[s]
             todo == r.todo \ {ship}
  <2>1. /\ s \in Sessions /\ Open(s) /\ r \in Session /\ SessionTrue(s) /\ ship \in r.todo
        /\ UNCHANGED <<rows, timeline, notices, reported>>
    BY <1>1, <1>3, OpenType DEF PollAsk, Sessions
  <2>2. PICK batch \in SUBSET Events : batch = reported[ship]
    BY <1>1 DEF TypeOK
  <2>3. session' = [session EXCEPT ![s] =
           [r EXCEPT !.step = "known", !.ship = ship, !.todo = todo, !.batch = batch]]
    BY <1>3, <2>2 DEF PollAsk
  <2>4. session' = [session EXCEPT ![s] =
           [r EXCEPT !.step = "known", !.todo = todo, !.ship = ship, !.batch = batch]]
    BY <2>1, <2>3, Record
  <2>5. todo \subseteq r.todo /\ ship \in Ships \ (todo \cup r.taken)
    BY <2>1 DEF SessionTrue
  <2> HIDE DEF r, todo
  <2> QED BY <2>1, <2>2, <2>4, <2>5, Moved DEF r
<1>4. ASSUME NEW s \in Polls, NEW ship \in Ships, PollSkip(s, ship) PROVE Inductive'
  <2> DEFINE r == session[s]
             todo == r.todo \ {ship}
  <2>1. /\ s \in Sessions /\ Open(s) /\ r \in Session /\ r.step = "next"
        /\ UNCHANGED <<rows, timeline, notices, reported>>
    BY <1>1, <1>4, OpenType DEF PollSkip, Sessions
  <2>2. session' = [session EXCEPT ![s] = [r EXCEPT !.todo = todo]]
    BY <1>4 DEF PollSkip
  <2>3. session' = [session EXCEPT ![s] =
           [r EXCEPT !.step = r.step, !.todo = todo, !.ship = r.ship, !.batch = r.batch]]
    BY <2>1, <2>2, Record
  <2>4. r.batch \in SUBSET Events /\ r.ship \in Ships \cup {None} /\ todo \subseteq r.todo
    BY <2>1 DEF Session
  <2> HIDE DEF r, todo
  <2> QED BY <2>1, <2>3, <2>4, Moved DEF r
<1>5. ASSUME NEW s \in Hooks, NEW ship \in Ships, NEW e \in Events, HookBegin(s, ship, e)
      PROVE  Inductive'
  <2>1. /\ s \in Sessions /\ UNCHANGED <<rows, timeline, notices, reported>>
        /\ session' = [session EXCEPT ![s] =
              [step |-> "known", todo |-> {}, ship |-> ship, batch |-> {e}, fresh |-> {},
               loaded |-> rows, new |-> rows, taken |-> {}]]
    BY <1>5 DEF HookBegin, Sessions
  <2>2. {} \in SUBSET Ships /\ ship \in Ships \ {} /\ {e} \in SUBSET Events
    OBVIOUS
  <2> QED BY <2>1, <2>2, Began
<1>6. ASSUME NEW s \in Sessions, Known(s) PROVE Inductive'
  <2> DEFINE r == session[s]
             batch == r.batch \ EventsOf(timeline, r.ship)
  <2>1. /\ Open(s) /\ r \in Session /\ SessionTrue(s) /\ r.step # "next"
        /\ UNCHANGED <<rows, timeline, notices, reported>>
    BY <1>1, <1>6 DEF Known
  <2>2. session' = [session EXCEPT ![s] = [r EXCEPT !.step = "take", !.batch = batch]]
    BY <1>6 DEF Known
  <2>3. session' = [session EXCEPT ![s] =
           [r EXCEPT !.step = "take", !.todo = r.todo, !.ship = r.ship, !.batch = batch]]
    BY <2>1, <2>2, Record
  <2>4. batch \in SUBSET Events /\ r.ship \in Ships \ (r.todo \cup r.taken)
    BY <2>1 DEF Session, SessionTrue
  <2> HIDE DEF r, batch
  <2> QED BY <2>1, <2>3, <2>4, Moved DEF r
<1>7. ASSUME NEW s \in Sessions, Take(s) PROVE Inductive'
  BY <1>7, TakeStep
<1>8. ASSUME NEW s \in Sessions, Conflict(s) \/ Rollback(s) PROVE Inductive'
  BY <1>8, Closing DEF Conflict, Rollback
<1>9. ASSUME NEW s \in Sessions, Commit(s) PROVE Inductive'
  BY <1>9, CommitStep
<1>10. ASSUME NEW ship \in Ships, NEW e \in Events, Report(ship, e) PROVE Inductive'
  <2>1. reported' \in [Ships -> SUBSET Events] /\ UNCHANGED <<rows, timeline, notices, session>>
    BY <1>1, <1>10 DEF Report, TypeOK
  <2>2. TypeOK'
    BY <1>1, <2>1 DEF TypeOK
  <2>3. \A s \in Sessions : SessionTrue(s)'
    BY <2>1, SessionKept DEF Inductive
  <2> QED BY <2>1, <2>2, <2>3 DEF Inductive, Recorded, Has, EventsOf
<1>11. CASE UNCHANGED vars
  <2>1. TypeOK'
    BY <1>1, <1>11 DEF vars, TypeOK
  <2>2. \A s \in Sessions : SessionTrue(s)'
    BY <1>11, SessionKept DEF Inductive, vars
  <2> QED BY <1>11, <2>1, <2>2 DEF vars, Inductive, Recorded, Has, EventsOf
<1>12. ASSUME NEW s \in Sessions, Ingest(s) PROVE Inductive'
  BY <1>6, <1>7, <1>8, <1>9, <1>12 DEF Ingest
<1> QED BY <1>2, <1>3, <1>4, <1>5, <1>10, <1>11, <1>12 DEF Next, Poll, Hook

\* The invariant holds in every reachable state.
LEMMA Safety == Spec => []Inductive
<1> QED BY InductiveInit, InductiveStep, PTL DEF Spec

\* Rows, timelines, notices and sessions have the shape of the tables and locals.
THEOREM TypeCorrect == Spec => []TypeOK
<1>1. Inductive => TypeOK
  BY DEF Inductive
<1> QED BY <1>1, Safety, PTL

\* _project: whatever transactions overlap and however the events are ordered, a
\* pick-up or a delivery of the timeline is on record, and no other delivery is.
THEOREM FactsAreRecorded == Spec => []FactsRecorded
<1>1. Inductive => FactsRecorded
  BY DEF Inductive, FactsRecorded, Recorded, Has
<1> QED BY <1>1, Safety, PTL

\* _notify: a status that a transaction changes is announced by that transaction,
\* even if what it had loaded is no longer what is committed.
THEOREM ChangesAreAnnounced == Spec => ChangeIsAnnounced
<1> DEFINE Announced == \A ship \in Ships : rows'[ship].status # rows[ship].status =>
                            notices'[ship] = Append(notices[ship], rows'[ship].status)
<1>1. ASSUME Inductive, [Next]_vars, NEW ship \in Ships, rows'[ship].status # rows[ship].status
      PROVE  notices'[ship] = Append(notices[ship], rows'[ship].status)
  <2>1. rows' # rows
    BY <1>1
  <2>2. PICK s \in Sessions : Commit(s)
    <3>1. CASE UNCHANGED vars
      BY <2>1, <3>1 DEF vars
    <3>2. CASE Next
      BY <2>1, <3>2 DEF Next, Poll, Hook, Ingest, PollBegin, PollAsk, PollSkip, HookBegin,
                        Known, Take, Conflict, Rollback, Report
    <3> QED BY <1>1, <3>1, <3>2
  <2>3. ship \in session[s].taken
    BY <1>1, <2>2 DEF Commit
  <2>4. /\ rows[ship] \in Row /\ session[s].loaded[ship] \in Row /\ session[s].new[ship] \in Row
    BY <1>1, <2>2, OpenType DEF Inductive, Commit, TypeOK, Session
  <2>5. rows'[ship] = Updated(rows[ship], session[s].loaded[ship], session[s].new[ship])
    BY <2>2, <2>3 DEF Commit
  <2>6. Changed(s, ship) /\ rows'[ship].status = session[s].new[ship].status
    BY <1>1, <2>4, <2>5, UpdatedColumns DEF Changed
  <2> QED BY <2>2, <2>3, <2>6 DEF Commit
<1>2. Inductive /\ [Next]_vars => [Announced]_vars
  BY <1>1
<1> QED BY <1>2, Safety, PTL DEF Spec, ChangeIsAnnounced
=============================================================================
