---------------------------- MODULE DocumentsProofs ----------------------------
(* Theorems about Documents, for every value of the constants.                *)
EXTENDS Documents, TLAPS

\* What printing relies on: the key of a ready document, and its file unless the
\* grace of the shipment is over.
Printable(row, d) == row.stored /\ (d \in store \/ row.ship \in graced)

\* A committed row: it is printable when it is ready, and has no key before.
RowTrue(d) ==
    /\ docs[d].status = "ready" => Printable(docs[d], d)
    /\ docs[d].status = "pending" => ~docs[d].stored

\* The row of a document in a session that asks for labels: still to be asked
\* for, refused, or printable.
Asked(row, d) ==
    \/ row.status \in {"pending", "failed"} /\ ~row.stored
    \/ row.status = "ready" /\ Printable(row, d)

\* What a session has made of a document. A row it had loaded is still in the
\* table, of the same shipment; a row it inserted is nobody else's.
WorkTrue(s, d) ==
    LET loaded == session[s].loaded[d]
        new == session[s].new[d]
    IN  /\ loaded # None =>
              /\ new # None /\ Exists(d)
              /\ docs[d].ship = loaded.ship /\ new.ship = loaded.ship /\ new.age = loaded.age
              /\ s \in Sweeps => loaded.status = "pending" /\ ~loaded.stored
              /\ s \in Cleanups =>
                    /\ loaded.status = "ready" /\ loaded.stored /\ loaded.ship \in graced
                    /\ new = loaded \/ (new.status = "expired" /\ ~new.stored)
        /\ loaded = None /\ new # None =>
              /\ s \in Requests /\ ~Exists(d)
              /\ \A t \in Sessions \ {s} : Open(t) => session[t].new[d] = None
        /\ s \notin Cleanups /\ new # None => Asked(new, d)

\* An open session: the document it asks for is pending, and what it still has
\* to do is as it was loaded.
SessionTrue(s) ==
    Open(s) =>
        /\ ~At(s, "next") =>
              /\ s \notin Cleanups /\ session[s].doc \in Docs \ session[s].todo
              /\ session[s].new[session[s].doc] # None
              /\ session[s].new[session[s].doc].status = "pending"
        /\ s \in Requests => session[s].todo \subseteq Ships /\ \A d \in Docs : session[s].loaded[d] = None
        /\ s \notin Requests => session[s].todo \subseteq Docs
        /\ \A d \in session[s].todo \cap Docs :
              session[s].loaded[d] # None /\ session[s].new[d] = session[s].loaded[d]
        /\ \A d \in Docs : WorkTrue(s, d)

Inductive ==
    /\ TypeOK
    /\ \A d \in Docs : Exists(d) => RowTrue(d)
    /\ \A s \in Sessions : SessionTrue(s)

-----------------------------------------------------------------------------
\* What is known of a session that is open.
LEMMA OpenType ==
    ASSUME TypeOK, NEW s \in Sessions
    PROVE  /\ Open(s) => session[s] \in Session
           /\ \A step \in {"next", "ask", "put"} : At(s, step) => Open(s)
           /\ Open(s) => session[s].step \in {"next", "ask", "put"}
BY DEF TypeOK, Open, At, Closed, Session

\* The UPDATE of a row, column by column.
LEMMA UpdatedColumns ==
    ASSUME NEW row \in Row, NEW loaded \in Row, NEW new \in Row
    PROVE  Updated(row, loaded, new) =
              [ship |-> IF new.ship # loaded.ship THEN new.ship ELSE row.ship,
               status |-> IF new.status # loaded.status THEN new.status ELSE row.status,
               stored |-> IF new.stored # loaded.stored THEN new.stored ELSE row.stored,
               age |-> IF new.age # loaded.age THEN new.age ELSE row.age]
<1>1. DOMAIN row = {"ship", "status", "stored", "age"} /\ loaded # None
  BY NoneIsNoDocument DEF Row
<1> QED BY <1>1 DEF Updated, Row

\* What a session has made of a document stays true while others work.
LEMMA WorkKept ==
    ASSUME NEW s \in Sessions, NEW d \in Docs, WorkTrue(s, d),
           session'[s].loaded[d] = session[s].loaded[d], session'[s].new[d] = session[s].new[d],
           graced \subseteq graced',
           Exists(d) => Exists(d)' /\ docs'[d].ship = docs[d].ship,
           session[s].loaded[d] = None /\ session[s].new[d] # None =>
              ~Exists(d)' /\ \A t \in Sessions \ {s} : Open(t)' => session'[t].new[d] = None,
           session[s].new[d] # None /\ d \in store =>
              d \in store' \/ session[s].new[d].ship \in graced'
    PROVE  WorkTrue(s, d)'
<1> DEFINE loaded == session[s].loaded[d]
           new == session[s].new[d]
<1>1. s \notin Cleanups /\ new # None => Asked(new, d)'
  BY DEF WorkTrue, Asked, Printable
<1>2. loaded # None =>
              /\ new # None /\ Exists(d)'
              /\ docs'[d].ship = loaded.ship /\ new.ship = loaded.ship /\ new.age = loaded.age
              /\ s \in Sweeps => loaded.status = "pending" /\ ~loaded.stored
              /\ s \in Cleanups =>
                    /\ loaded.status = "ready" /\ loaded.stored /\ loaded.ship \in graced'
                    /\ new = loaded \/ (new.status = "expired" /\ ~new.stored)
  BY DEF WorkTrue
<1>3. loaded = None /\ new # None => s \in Requests
  BY DEF WorkTrue
<1> QED BY <1>1, <1>2, <1>3 DEF WorkTrue, Asked, Printable

\* A session whose record did not change.
LEMMA SessionKept ==
    ASSUME NEW s \in Sessions, SessionTrue(s), session'[s] = session[s],
           Open(s) => \A d \in Docs : WorkTrue(s, d)'
    PROVE  SessionTrue(s)'
BY DEF SessionTrue, Open, At

\* A step of one session keeps the invariant, if the session stays true, takes no
\* document that another has inserted, and deletes files after the grace only.
LEMMA OneSession ==
    ASSUME Inductive, NEW s \in Sessions, NEW j \in Session \cup {Closed},
           session' = [session EXCEPT ![s] = j], UNCHANGED <<docs, graced>>,
           store' \subseteq Docs, SessionTrue(s)',
           \A d \in store : d \in store' \/ (Exists(d) /\ docs[d].ship \in graced),
           \A d \in Docs : j # Closed /\ j.new[d] # None =>
              \/ Open(s) /\ session[s].new[d] # None
              \/ Exists(d)
              \/ d \in Unused
    PROVE  Inductive'
<1>1. TypeOK /\ session'[s] = j /\ \A t \in Sessions \ {s} : session'[t] = session[t]
  BY DEF Inductive, TypeOK
<1>2. TypeOK'
  BY <1>1 DEF TypeOK
<1>3. ASSUME NEW d \in Docs, Exists(d)' PROVE RowTrue(d)'
  <2>1. Exists(d) /\ RowTrue(d) /\ docs'[d] = docs[d]
    BY <1>3 DEF Inductive, Exists
  <2>2. Printable(docs[d], d) => Printable(docs[d], d)'
    BY DEF Printable
  <2> QED BY <2>1, <2>2 DEF RowTrue, Printable
<1>4. ASSUME NEW t \in Sessions, t # s PROVE SessionTrue(t)'
  <2> SUFFICES ASSUME Open(t), NEW d \in Docs PROVE WorkTrue(t, d)'
    BY <1>1, <1>4, SessionKept DEF Inductive
  <2>1. SessionTrue(t) /\ WorkTrue(t, d) /\ session'[t] = session[t]
    BY <1>1, <1>4 DEF Inductive, SessionTrue
  <2>2. Exists(d) => Exists(d)' /\ docs'[d].ship = docs[d].ship
    BY DEF Exists
  <2>3. ASSUME session[t].loaded[d] = None, session[t].new[d] # None
        PROVE  ~Exists(d)' /\ \A u \in Sessions \ {t} : Open(u)' => session'[u].new[d] = None
    <3>1. ~Exists(d) /\ \A u \in Sessions \ {t} : Open(u) => session[u].new[d] = None
      BY <2>1, <2>3 DEF WorkTrue
    <3>2. d \notin Unused
      BY <2>3 DEF Unused
    <3>3. ASSUME NEW u \in Sessions \ {t}, Open(u)' PROVE session'[u].new[d] = None
      <4>1. CASE u = s
        BY <1>1, <1>4, <3>1, <3>2, <3>3, <4>1 DEF Open, Closed
      <4>2. CASE u # s
        BY <1>1, <3>1, <3>3, <4>2 DEF Open
      <4> QED BY <4>1, <4>2
    <3> QED BY <3>1, <3>3 DEF Exists
  <2>4. ASSUME session[t].new[d] # None, d \in store
        PROVE  d \in store' \/ session[t].new[d].ship \in graced'
    BY <2>1, <2>4 DEF WorkTrue
  <2> QED BY <2>1, <2>2, <2>3, <2>4, WorkKept
<1>5. \A t \in Sessions : SessionTrue(t)'
  BY <1>4
<1> QED BY <1>2, <1>3, <1>5 DEF Inductive

\* A session that begins has loaded rows of the right kind and changed none.
LEMMA Began ==
    ASSUME Inductive, NEW s \in Sessions, ~Open(s), NEW todo \in SUBSET (Docs \cup Ships),
           Begin(s, todo), UNCHANGED <<docs, store, graced>>,
           s \in Requests => todo \subseteq Ships, s \notin Requests => todo \subseteq Docs,
           \A d \in todo \cap Docs :
              /\ Exists(d)
              /\ s \in Sweeps => docs[d].status = "pending"
              /\ s \in Cleanups =>
                    docs[d].status = "ready" /\ docs[d].stored /\ docs[d].ship \in graced
    PROVE  Inductive'
<1> DEFINE read == [d \in Docs |-> IF d \in todo THEN docs[d] ELSE None]
           j == [step |-> "next", todo |-> todo, doc |-> None, loaded |-> read, new |-> read]
<1>1. TypeOK /\ session' = [session EXCEPT ![s] = j]
  BY DEF Inductive, Begin
<1>2. read \in [Docs -> Row \cup {None}]
  BY <1>1 DEF TypeOK
<1>3. j \in Session
  BY <1>2 DEF Session
<1>4. session'[s] = j
  BY <1>1 DEF TypeOK
<1>5. ASSUME NEW d \in Docs PROVE WorkTrue(s, d)'
  <2>1. CASE d \in todo
    <3>1. read[d] = docs[d] /\ Exists(d) /\ docs[d] \in Row /\ read[d] # None /\ RowTrue(d)
      BY <1>1, <2>1 DEF TypeOK, Exists, Inductive
    <3>2. s \notin Requests
      BY <2>1, KindsAreDistinct
    <3>3. /\ s \in Sweeps => docs[d].status = "pending" /\ ~docs[d].stored
          /\ s \notin Cleanups => s \in Sweeps
      BY <2>1, <3>1, <3>2 DEF RowTrue, Sessions
    <3>4. s \notin Cleanups => Asked(docs[d], d)'
      BY <3>3 DEF Asked
    <3> HIDE DEF read
    <3> QED BY <1>4, <2>1, <3>1, <3>3, <3>4 DEF WorkTrue, Exists, Asked, Printable
  <2>2. CASE d \notin todo
    BY <1>4, <2>2 DEF WorkTrue
  <2> QED BY <2>1, <2>2
<1>6. SessionTrue(s)'
  <2>1. /\ session'[s].step = "next" /\ session'[s].todo = todo
        /\ session'[s].loaded = read /\ session'[s].new = read
    BY <1>4
  <2>2. s \in Requests => \A d \in Docs : read[d] = None
    BY KindsAreDistinct
  <2>3. \A d \in todo \cap Docs : read[d] # None
    BY DEF Exists
  <2> HIDE DEF read, j
  <2> QED BY <1>5, <2>1, <2>2, <2>3 DEF SessionTrue, At
<1>7. \A d \in Docs : j # Closed /\ j.new[d] # None =>
            (Open(s) /\ session[s].new[d] # None) \/ Exists(d) \/ d \in Unused
  BY DEF Exists
<1>8. store' \subseteq Docs /\ \A d \in store : d \in store' \/ (Exists(d) /\ docs[d].ship \in graced)
  BY <1>1 DEF TypeOK
<1> HIDE DEF read, j
<1> QED BY <1>1, <1>3, <1>6, <1>7, <1>8, OneSession

\* A session that goes on without changing a row.
LEMMA Moved ==
    ASSUME Inductive, NEW s \in Sessions, Open(s), NEW step \in {"next", "ask", "put"},
           NEW todo, todo \subseteq session[s].todo, NEW doc \in Docs \cup {None},
           session' = [session EXCEPT ![s] =
              [session[s] EXCEPT !.step = step, !.todo = todo, !.doc = doc]],
           UNCHANGED <<docs, graced>>, store' \subseteq Docs,
           \A d \in store : d \in store' \/ (Exists(d) /\ docs[d].ship \in graced),
           step # "next" =>
              /\ s \notin Cleanups /\ doc \in Docs \ todo
              /\ session[s].new[doc] # None /\ session[s].new[doc].status = "pending"
    PROVE  Inductive'
<1> DEFINE j == [session[s] EXCEPT !.step = step, !.todo = todo, !.doc = doc]
<1>1. TypeOK /\ session[s] \in Session /\ SessionTrue(s)
  BY OpenType DEF Inductive
<1>2. /\ j \in Session /\ session' = [session EXCEPT ![s] = j]
      /\ j.loaded = session[s].loaded /\ j.new = session[s].new /\ j.step = step
      /\ j.todo = todo /\ j.doc = doc
  BY <1>1 DEF Session
<1>3. session'[s] = j
  BY <1>1 DEF TypeOK
<1> HIDE DEF j
<1>4. ASSUME NEW d \in Docs PROVE WorkTrue(s, d)'
  <2>1. WorkTrue(s, d)
    BY <1>1 DEF SessionTrue
  <2>2. ASSUME session[s].loaded[d] = None, session[s].new[d] # None
        PROVE  ~Exists(d)' /\ \A t \in Sessions \ {s} : Open(t)' => session'[t].new[d] = None
    BY <1>1, <2>1, <2>2 DEF WorkTrue, Open, Exists, TypeOK
  <2>3. ASSUME session[s].new[d] # None, d \in store
        PROVE  d \in store' \/ session[s].new[d].ship \in graced'
    BY <2>1, <2>3 DEF WorkTrue
  <2>4. Exists(d) => Exists(d)' /\ docs'[d].ship = docs[d].ship
    BY DEF Exists
  <2> QED BY <1>2, <1>3, <2>1, <2>2, <2>3, <2>4, WorkKept
<1>5. SessionTrue(s)'
  BY <1>1, <1>2, <1>3, <1>4 DEF SessionTrue, At
<1>6. \A d \in Docs : j # Closed /\ j.new[d] # None =>
            (Open(s) /\ session[s].new[d] # None) \/ Exists(d) \/ d \in Unused
  BY <1>2
<1> QED BY <1>2, <1>5, <1>6, OneSession

\* A session that changes the row of one document, its own to change.
LEMMA Worked ==
    ASSUME Inductive, NEW s \in Sessions, Open(s), NEW step \in {"next", "ask"},
           NEW todo, todo \subseteq session[s].todo, NEW doc \in Docs \cup {None},
           NEW d \in Docs, d \notin todo, NEW row \in Row,
           session' = [session EXCEPT ![s] =
              [session[s] EXCEPT !.step = step, !.todo = todo, !.doc = doc,
                                 !.new = [@ EXCEPT ![d] = row]]],
           UNCHANGED <<docs, graced>>, store' \subseteq Docs,
           \A e \in store : e \in store' \/ (Exists(e) /\ docs[e].ship \in graced),
           step = "ask" => s \notin Cleanups /\ doc = d /\ row.status = "pending",
           session[s].new[d] = None => s \in Requests /\ d \in Unused,
           session[s].new[d] # None =>
              row.ship = session[s].new[d].ship /\ row.age = session[s].new[d].age,
           s \notin Cleanups => Asked(row, d)',
           s \in Cleanups => row.status = "expired" /\ ~row.stored
    PROVE  Inductive'
<1> DEFINE j == [session[s] EXCEPT !.step = step, !.todo = todo, !.doc = doc,
                                   !.new = [@ EXCEPT ![d] = row]]
<1>1. TypeOK /\ session[s] \in Session /\ SessionTrue(s)
  BY OpenType DEF Inductive
<1>2. session[s].new \in [Docs -> Row \cup {None}]
  BY <1>1 DEF Session
<1>3. /\ j \in Session /\ session' = [session EXCEPT ![s] = j]
      /\ j.loaded = session[s].loaded /\ j.new = [session[s].new EXCEPT ![d] = row]
      /\ j.step = step /\ j.todo = todo /\ j.doc = doc
  <2>1. [session[s].new EXCEPT ![d] = row] \in [Docs -> Row \cup {None}]
    BY <1>2
  <2> QED BY <1>1, <2>1 DEF Session
<1>4. session'[s] = j
  BY <1>1 DEF TypeOK
<1> HIDE DEF j
<1>5. j.new[d] = row /\ row # None /\ \A e \in Docs \ {d} : j.new[e] = session[s].new[e]
  BY <1>2, <1>3, NoneIsNoDocument
<1>6. ASSUME NEW e \in Docs, e # d PROVE WorkTrue(s, e)'
  <2>1. WorkTrue(s, e)
    BY <1>1 DEF SessionTrue
  <2>2. ASSUME session[s].loaded[e] = None, session[s].new[e] # None
        PROVE  ~Exists(e)' /\ \A t \in Sessions \ {s} : Open(t)' => session'[t].new[e] = None
    BY <1>1, <1>3, <2>1, <2>2 DEF WorkTrue, Open, Exists, TypeOK
  <2>3. ASSUME session[s].new[e] # None, e \in store
        PROVE  e \in store' \/ session[s].new[e].ship \in graced'
    BY <2>1, <2>3 DEF WorkTrue
  <2>4. Exists(e) => Exists(e)' /\ docs'[e].ship = docs[e].ship
    BY DEF Exists
  <2> QED BY <1>3, <1>4, <1>5, <1>6, <2>1, <2>2, <2>3, <2>4, WorkKept
<1>7. WorkTrue(s, d)'
  <2>1. WorkTrue(s, d)
    BY <1>1 DEF SessionTrue
  <2>2. ASSUME session[s].loaded[d] = None
        PROVE  /\ s \in Requests /\ ~Exists(d)'
               /\ \A t \in Sessions \ {s} : Open(t)' => session'[t].new[d] = None
    <3>1. s \in Requests /\ ~Exists(d)
      BY <2>1, <2>2 DEF WorkTrue, Unused
    <3>2. \A t \in Sessions \ {s} : Open(t) => session[t].new[d] = None
      BY <2>1, <2>2 DEF WorkTrue, Unused
    <3> QED BY <1>1, <1>3, <3>1, <3>2 DEF Open, Exists, TypeOK
  <2>3. ASSUME session[s].loaded[d] # None
        PROVE  /\ Exists(d)' /\ docs'[d].ship = session[s].loaded[d].ship
               /\ row.ship = session[s].loaded[d].ship /\ row.age = session[s].loaded[d].age
               /\ s \in Sweeps =>
                     session[s].loaded[d].status = "pending" /\ ~session[s].loaded[d].stored
               /\ s \in Cleanups =>
                     /\ session[s].loaded[d].status = "ready" /\ session[s].loaded[d].stored
                     /\ session[s].loaded[d].ship \in graced'
    BY <2>1, <2>3 DEF WorkTrue, Exists
  <2> QED BY <1>3, <1>4, <1>5, <2>2, <2>3 DEF WorkTrue
<1>8. SessionTrue(s)'
  <2>1. ~At(s, "next")' =>
           /\ s \notin Cleanups /\ session'[s].doc = d /\ d \notin session'[s].todo
           /\ session'[s].new[d] # None /\ session'[s].new[d].status = "pending"
    <3>1. /\ session'[s].step = step /\ session'[s].doc = doc /\ session'[s].new[d] = row
          /\ session'[s].todo = todo
      BY <1>3, <1>4, <1>5
    <3>2. step # "next" => step = "ask"
      OBVIOUS
    <3> QED BY <1>5, <3>1, <3>2 DEF At
  <2>2. /\ s \in Requests => session'[s].todo \subseteq Ships
                             /\ \A e \in Docs : session'[s].loaded[e] = None
        /\ s \notin Requests => session'[s].todo \subseteq Docs
    BY <1>1, <1>3, <1>4 DEF SessionTrue
  <2>3. \A e \in session'[s].todo \cap Docs :
           session'[s].loaded[e] # None /\ session'[s].new[e] = session'[s].loaded[e]
    BY <1>1, <1>3, <1>4, <1>5 DEF SessionTrue
  <2> QED BY <1>6, <1>7, <2>1, <2>2, <2>3 DEF SessionTrue
<1>9. \A e \in Docs : j # Closed /\ j.new[e] # None =>
            (Open(s) /\ session[s].new[e] # None) \/ Exists(e) \/ e \in Unused
  BY <1>5
<1> QED BY <1>3, <1>8, <1>9, OneSession

\* A session that ends with its rows as they were.
LEMMA Closing ==
    ASSUME Inductive, NEW s \in Sessions, Close(s), UNCHANGED <<docs, graced>>,
           store \subseteq store', store' \subseteq Docs
    PROVE  Inductive'
<1>1. session' = [session EXCEPT ![s] = Closed] /\ session'[s] = Closed
  BY DEF Inductive, TypeOK, Close
<1>2. SessionTrue(s)'
  BY <1>1 DEF SessionTrue, Open, Closed
<1>3. \A d \in store : d \in store' \/ (Exists(d) /\ docs[d].ship \in graced)
  OBVIOUS
<1>4. \A d \in Docs : Closed # Closed /\ Closed.new[d] # None =>
            (Open(s) /\ session[s].new[d] # None) \/ Exists(d) \/ d \in Unused
  OBVIOUS
<1> QED BY <1>1, <1>2, <1>3, <1>4, OneSession

\* What the UPDATE of a session makes of a committed row.
LEMMA CommittedRow ==
    ASSUME Inductive, NEW s \in Sessions, Commit(s), NEW d \in Docs
    PROVE  /\ docs'[d] \in Row \cup {None} /\ (Exists(d)' => RowTrue(d)')
           /\ Exists(d) => Exists(d)' /\ docs'[d].ship = docs[d].ship
           /\ session[s].new[d] = None => docs'[d] = docs[d]
<1> DEFINE row == docs[d]
           loaded == session[s].loaded[d]
           new == session[s].new[d]
<1>1. /\ TypeOK /\ Open(s) /\ session[s] \in Session /\ WorkTrue(s, d)
      /\ docs'[d] = Updated(row, loaded, new) /\ UNCHANGED <<store, graced>>
  BY OpenType DEF Commit, Inductive, SessionTrue
<1>2. row \in Row \cup {None} /\ loaded \in Row \cup {None} /\ new \in Row \cup {None}
  BY <1>1 DEF TypeOK, Session
<1>3. Exists(d) => RowTrue(d)
  BY DEF Inductive
<1>4. CASE loaded = None /\ new = None
  <2>1. docs'[d] = docs[d]
    BY <1>1, <1>4 DEF Updated
  <2> QED BY <1>1, <1>2, <1>3, <2>1 DEF Exists, RowTrue, Printable
<1>5. CASE loaded = None /\ new # None
  <2>1. docs'[d] = new /\ ~Exists(d) /\ s \notin Cleanups /\ Asked(new, d)
    BY <1>1, <1>5, KindsAreDistinct DEF Updated, WorkTrue
  <2>2. RowTrue(d)'
    BY <1>1, <2>1 DEF RowTrue, Asked, Printable
  <2> QED BY <1>2, <1>5, <2>1, <2>2
<1>6. CASE loaded # None
  <2>1. /\ Exists(d) /\ new # None /\ RowTrue(d) /\ row \in Row /\ loaded \in Row /\ new \in Row
        /\ row.ship = loaded.ship /\ new.ship = loaded.ship /\ new.age = loaded.age
    BY <1>1, <1>2, <1>3, <1>6 DEF WorkTrue, Exists
  <2>2. docs'[d] =
              [ship |-> IF new.ship # loaded.ship THEN new.ship ELSE row.ship,
               status |-> IF new.status # loaded.status THEN new.status ELSE row.status,
               stored |-> IF new.stored # loaded.stored THEN new.stored ELSE row.stored,
               age |-> IF new.age # loaded.age THEN new.age ELSE row.age]
    BY <1>1, <2>1, UpdatedColumns
  <2>3. docs'[d] \in Row /\ docs'[d].ship = row.ship
    BY <2>1, <2>2 DEF Row
  <2>4. /\ docs'[d].status = IF new.status # loaded.status THEN new.status ELSE row.status
        /\ docs'[d].stored = IF new.stored # loaded.stored THEN new.stored ELSE row.stored
    BY <2>2
  <2>5. Exists(d)'
    BY <2>3, NoneIsNoDocument DEF Exists
  <2>6. CASE new = loaded
    <3>1. docs'[d].status = row.status /\ docs'[d].stored = row.stored
      BY <2>4, <2>6
    <3> QED BY <1>1, <2>1, <2>3, <2>5, <3>1 DEF RowTrue, Printable
  <2>7. CASE new # loaded /\ s \in Cleanups
    <3>1. loaded.status = "ready" /\ new.status = "expired"
      BY <1>1, <1>6, <2>7 DEF WorkTrue
    <3>2. docs'[d].status = "expired"
      BY <2>4, <3>1
    <3> QED BY <2>1, <2>3, <2>5, <3>2 DEF RowTrue
  <2>8. CASE new # loaded /\ s \notin Cleanups
    <3>1. s \in Sweeps
      BY <1>1, <1>6, <2>8 DEF WorkTrue, Sessions, SessionTrue, Inductive
    <3>2. loaded.status = "pending" /\ loaded.stored = FALSE /\ Asked(new, d)
      BY <1>1, <1>6, <2>1, <2>8, <3>1 DEF WorkTrue, Row
    <3>3. CASE new.status = "ready" /\ new.stored /\ (d \in store \/ new.ship \in graced)
      <4>1. docs'[d].status = "ready"
        BY <2>4, <3>2, <3>3
      <4>2. docs'[d].stored
        BY <2>4, <3>2, <3>3
      <4> QED BY <1>1, <2>1, <2>3, <2>5, <3>3, <4>1, <4>2 DEF RowTrue, Printable
    <3>4. CASE new.status = "failed"
      <4>1. docs'[d].status = "failed"
        BY <2>4, <3>2, <3>4
      <4> QED BY <2>1, <2>3, <2>5, <4>1 DEF RowTrue
    <3>5. CASE new.status = "pending" /\ ~new.stored
      <4>1. docs'[d].status = row.status /\ docs'[d].stored = row.stored
        <5>1. new.stored = loaded.stored
          BY <2>1, <3>2, <3>5 DEF Row
        <5> QED BY <2>4, <3>2, <3>5, <5>1
      <4> QED BY <1>1, <2>1, <2>3, <2>5, <4>1 DEF RowTrue, Printable
    <3> QED BY <3>2, <3>3, <3>4, <3>5 DEF Asked, Printable
  <2> QED BY <2>6, <2>7, <2>8
<1> QED BY <1>4, <1>5, <1>6

\* At the start there are no rows and no sessions.
LEMMA InductiveInit == Init => Inductive
BY DEF Init, Inductive, TypeOK, SessionTrue, Open, Closed, Exists

\* COMMIT keeps the invariant, whatever was committed since the session began.
LEMMA CommitStep ==
    ASSUME Inductive, NEW s \in Sessions, Commit(s)
    PROVE  Inductive'
<1>1. /\ TypeOK /\ Open(s) /\ UNCHANGED <<store, graced>>
      /\ session' = [session EXCEPT ![s] = Closed]
      /\ session'[s] = Closed /\ \A t \in Sessions \ {s} : session'[t] = session[t]
  BY OpenType DEF Inductive, Commit, Close, TypeOK
<1>2. docs' = [d \in Docs |-> docs'[d]]
  BY DEF Commit
<1>3. TypeOK'
  <2>1. \A d \in Docs : docs'[d] \in Row \cup {None}
    BY CommittedRow
  <2>2. docs' \in [Docs -> Row \cup {None}]
    BY <1>2, <2>1
  <2> QED BY <1>1, <2>2 DEF TypeOK
<1>4. ASSUME NEW t \in Sessions PROVE SessionTrue(t)'
  <2>1. CASE t = s
    BY <1>1, <2>1 DEF SessionTrue, Open, Closed
  <2>2. CASE t # s
    <3> SUFFICES ASSUME Open(t), NEW d \in Docs PROVE WorkTrue(t, d)'
      BY <1>1, <2>2, SessionKept DEF Inductive
    <3>1. WorkTrue(t, d) /\ session'[t] = session[t]
      BY <1>1, <2>2 DEF Inductive, SessionTrue
    <3>2. Exists(d) => Exists(d)' /\ docs'[d].ship = docs[d].ship
      BY CommittedRow
    <3>3. ASSUME session[t].loaded[d] = None, session[t].new[d] # None
          PROVE  ~Exists(d)' /\ \A u \in Sessions \ {t} : Open(u)' => session'[u].new[d] = None
      <4>1. ~Exists(d) /\ \A u \in Sessions \ {t} : Open(u) => session[u].new[d] = None
        BY <3>1, <3>3 DEF WorkTrue
      <4>2. session[s].new[d] = None
        BY <1>1, <2>2, <4>1
      <4>3. ~Exists(d)'
        BY <4>1, <4>2, CommittedRow DEF Exists
      <4> QED BY <1>1, <4>1, <4>3 DEF Open, Closed
    <3>4. ASSUME session[t].new[d] # None, d \in store
          PROVE  d \in store' \/ session[t].new[d].ship \in graced'
      BY <1>1, <3>4
    <3> QED BY <1>1, <3>1, <3>2, <3>3, <3>4, WorkKept
  <2> QED BY <2>1, <2>2
<1>5. \A d \in Docs : Exists(d)' => RowTrue(d)'
  BY CommittedRow
<1> QED BY <1>3, <1>4, <1>5 DEF Inductive

\* Time changes no session.
LEMMA TimeStep ==
    ASSUME Inductive, \/ \E d \in Docs : Age(d)
                      \/ \E ship \in Ships : GraceOver(ship)
    PROVE  Inductive'
<1>1. /\ TypeOK /\ UNCHANGED <<store, session>> /\ graced \subseteq graced'
      /\ graced' \subseteq Ships
  BY DEF Inductive, TypeOK, Age, GraceOver
<1> DEFINE Same(d) ==
              /\ docs'[d] \in Row \cup {None} /\ (Exists(d)' <=> Exists(d))
              /\ Exists(d) => /\ docs'[d].ship = docs[d].ship /\ docs'[d].stored = docs[d].stored
                              /\ docs'[d].status = docs[d].status
<1>2. \A d \in Docs : Same(d)
  <2>1. CASE docs' = docs
    BY <1>1, <2>1 DEF TypeOK, Exists
  <2>2. ASSUME NEW e \in Docs, Age(e), NEW d \in Docs PROVE Same(d)
    <3>1. docs \in [Docs -> Row \cup {None}] /\ Exists(e)
          /\ docs' = [docs EXCEPT ![e].age = IF @ = "new" THEN "due" ELSE "old"]
      BY <1>1, <2>2 DEF Age, TypeOK
    <3>2. CASE e = d
      <4>1. docs[d] \in Row
        BY <3>1, <3>2 DEF Exists
      <4>2. docs'[d] = [docs[d] EXCEPT !.age = IF @ = "new" THEN "due" ELSE "old"]
        BY <3>1, <3>2
      <4>3. docs'[d] \in Row
        BY <4>1, <4>2 DEF Row
      <4> QED BY <3>1, <3>2, <4>1, <4>2, <4>3, NoneIsNoDocument DEF Exists, Row
    <3>3. CASE e # d
      BY <3>1, <3>3 DEF Exists
    <3> QED BY <3>2, <3>3
  <2> QED BY <2>1, <2>2 DEF GraceOver
<1>3. TypeOK'
  <2>1. docs \in [Docs -> Row \cup {None}]
    BY <1>1 DEF TypeOK
  <2>2. docs' = [d \in Docs |-> docs'[d]]
    <3>1. ASSUME NEW e \in Docs, Age(e) PROVE docs' = [d \in Docs |-> docs'[d]]
      BY <2>1, <3>1 DEF Age
    <3>2. CASE docs' = docs
      BY <2>1, <3>2
    <3> QED BY <3>1, <3>2 DEF GraceOver
  <2> QED BY <1>1, <1>2, <2>2 DEF TypeOK
<1>4. ASSUME NEW d \in Docs, Exists(d)' PROVE RowTrue(d)'
  BY <1>1, <1>2, <1>4 DEF Inductive, RowTrue, Printable
<1>5. ASSUME NEW s \in Sessions PROVE SessionTrue(s)'
  <2> SUFFICES ASSUME Open(s), NEW d \in Docs PROVE WorkTrue(s, d)'
    BY <1>1, SessionKept DEF Inductive
  <2>1. WorkTrue(s, d)
    BY DEF Inductive, SessionTrue
  <2> QED BY <1>1, <1>2, <2>1, WorkKept DEF WorkTrue, Open
<1> QED BY <1>3, <1>4, <1>5 DEF Inductive

\* The record of a session, with the columns a step names and those it does not.
LEMMA Record ==
    ASSUME NEW r \in Session, NEW todo, NEW step, NEW doc, NEW new
    PROVE  /\ [r EXCEPT !.todo = todo] =
                 [r EXCEPT !.step = r.step, !.todo = todo, !.doc = r.doc]
           /\ [r EXCEPT !.step = step] =
                 [r EXCEPT !.step = step, !.todo = r.todo, !.doc = r.doc]
           /\ [r EXCEPT !.step = step, !.doc = doc] =
                 [r EXCEPT !.step = step, !.todo = r.todo, !.doc = doc]
           /\ [r EXCEPT !.todo = todo, !.step = step, !.doc = doc] =
                 [r EXCEPT !.step = step, !.todo = todo, !.doc = doc]
           /\ [r EXCEPT !.todo = todo, !.new = new] =
                 [r EXCEPT !.step = r.step, !.todo = todo, !.doc = r.doc, !.new = new]
           /\ [r EXCEPT !.step = step, !.doc = doc, !.new = new] =
                 [r EXCEPT !.step = step, !.todo = r.todo, !.doc = doc, !.new = new]
BY DEF Session

\* A row with another status, and with or without its key.
LEMMA Marked ==
    ASSUME NEW row \in Row, NEW status \in {"pending", "ready", "failed", "expired"}
    PROVE  LET new == [row EXCEPT !.status = status]
           IN  /\ new \in Row /\ new.status = status /\ (~row.stored => ~new.stored)
               /\ new.ship = row.ship /\ new.age = row.age
<1>1. [row EXCEPT !.status = status] \in Row
  BY DEF Row
<1> QED BY <1>1 DEF Row

\* A row that is marked together with its file is a row, and the same otherwise.
LEMMA MarkedStored ==
    ASSUME NEW row \in Row, NEW status \in {"pending", "ready", "failed", "expired"},
           NEW stored \in BOOLEAN
    PROVE  LET new == [row EXCEPT !.status = status, !.stored = stored]
           IN  /\ new \in Row /\ new.status = status /\ new.stored = stored
               /\ new.ship = row.ship /\ new.age = row.age
<1>1. [row EXCEPT !.status = status, !.stored = stored] \in Row
  BY DEF Row
<1> QED BY <1>1 DEF Row

\* Every step of every session, and of time, keeps the invariant.
LEMMA InductiveStep == Inductive /\ [Next]_vars => Inductive'
<1> SUFFICES ASSUME Inductive, [Next]_vars PROVE Inductive'
  OBVIOUS
<1>1. /\ TypeOK /\ \A s \in Sessions : Open(s) => session[s] \in Session /\ SessionTrue(s)
      /\ \A d \in store : d \in Docs
  BY OpenType DEF Inductive, TypeOK
\* What an open session knows of the document it asks for, and of one it has to do.
<1>2. ASSUME NEW s \in Sessions, Open(s), ~At(s, "next")
      PROVE  LET d == session[s].doc
             IN  /\ s \notin Cleanups /\ d \in Docs /\ d \notin session[s].todo
                 /\ session[s].new[d] \in Row /\ session[s].new[d].status = "pending"
                 /\ ~session[s].new[d].stored
  <2> DEFINE d == session[s].doc
  <2>1. /\ s \notin Cleanups /\ d \in Docs \ session[s].todo /\ session[s].new[d] # None
        /\ session[s].new[d].status = "pending" /\ session[s] \in Session
        /\ Asked(session[s].new[d], d)
    BY <1>1, <1>2 DEF SessionTrue, WorkTrue
  <2>2. session[s].new[d] \in Row
    BY <2>1 DEF Session
  <2>3. ~session[s].new[d].stored
    BY <2>1 DEF Asked
  <2> QED BY <2>1, <2>2, <2>3
<1>3. ASSUME NEW s \in Sessions, Open(s), NEW d \in session[s].todo \cap Docs
      PROVE  /\ s \notin Requests /\ Exists(d) /\ session[s].new[d] = session[s].loaded[d]
             /\ session[s].new[d] \in Row /\ session[s].new[d] # None
             /\ s \in Sweeps => ~session[s].new[d].stored
             /\ s \in Cleanups => docs[d].ship \in graced
  <2>1. /\ session[s].loaded[d] # None /\ session[s].new[d] = session[s].loaded[d]
        /\ WorkTrue(s, d) /\ session[s] \in Session /\ session[s].todo \subseteq Docs \cup Ships
        /\ s \in Requests => session[s].todo \subseteq Ships
    BY <1>1, <1>3 DEF SessionTrue, Session
  <2>2. s \notin Requests
    BY <1>3, <2>1, KindsAreDistinct
  <2>3. session[s].new[d] \in Row
    BY <2>1 DEF Session
  <2> QED BY <2>1, <2>2, <2>3 DEF WorkTrue
<1>5. ASSUME NEW s \in Requests, NEW ships \in SUBSET Ships, LabelBegin(s, ships) PROVE Inductive'
  BY <1>5, Began, KindsAreDistinct DEF LabelBegin, Sessions
<1>6. ASSUME NEW s \in Requests, NEW ship \in Ships, LabelFound(s, ship) PROVE Inductive'
  <2>1. s \in Sessions /\ Open(s) /\ At(s, "next") /\ session[s] \in Session
    BY <1>1, <1>6, OpenType DEF LabelFound, Sessions
  <2> DEFINE r == session[s]
             todo == r.todo \ {ship}
  <2>2. session' = [session EXCEPT ![s] = [r EXCEPT !.todo = todo]]
    BY <1>6 DEF LabelFound
  <2>3. session' = [session EXCEPT ![s] = [r EXCEPT !.step = r.step, !.todo = todo, !.doc = r.doc]]
    BY <2>1, <2>2, Record
  <2>4. r.step = "next" /\ r.doc \in Docs \cup {None}
    BY <2>1 DEF Session, At
  <2>5. UNCHANGED <<docs, store, graced>>
    BY <1>6 DEF LabelFound
  <2> HIDE DEF r
  <2> QED BY <1>1, <2>1, <2>3, <2>4, <2>5, Moved DEF r
<1>7. ASSUME NEW s \in Requests, NEW ship \in Ships, NEW d \in Docs, LabelInsert(s, ship, d)
      PROVE  Inductive'
  <2> DEFINE r == session[s]
             todo == r.todo \ {ship}
             row == [ship |-> ship, status |-> "pending", stored |-> FALSE, age |-> "new"]
  <2>1. s \in Sessions /\ Open(s) /\ r \in Session /\ s \notin Cleanups
    BY <1>1, <1>7, OpenType, KindsAreDistinct DEF LabelInsert, Sessions
  <2>2. session' = [session EXCEPT ![s] =
           [r EXCEPT !.step = "ask", !.todo = todo, !.doc = d, !.new = [@ EXCEPT ![d] = row]]]
    BY <1>7 DEF LabelInsert
  <2>3. row \in Row /\ row.status = "pending" /\ Asked(row, d)'
    BY DEF Row, Asked
  <2>4. d \notin todo /\ session[s].new[d] = None /\ d \in Unused
    BY <1>1, <1>7, <2>1, KindsAreDistinct DEF LabelInsert, Unused, SessionTrue
  <2>5. UNCHANGED <<docs, store, graced>>
    BY <1>7 DEF LabelInsert
  <2> HIDE DEF row
  <2> QED BY <1>1, <2>1, <2>2, <2>3, <2>4, <2>5, Worked
<1>8. ASSUME NEW s \in Sweeps, SweepBegin(s) PROVE Inductive'
  <2>1. Pending \in SUBSET (Docs \cup Ships) /\ Pending \subseteq Docs
    BY DEF Pending, WithStatus
  <2>2. \A d \in Pending \cap Docs : Exists(d) /\ docs[d].status = "pending"
    BY DEF Pending, WithStatus
  <2> HIDE DEF Pending
  <2> QED BY <1>8, <2>1, <2>2, Began, KindsAreDistinct DEF SweepBegin, Sessions
<1>9. ASSUME NEW s \in Cleanups, CleanupBegin(s) PROVE Inductive'
  <2>1. ExpiredFiles \in SUBSET (Docs \cup Ships) /\ ExpiredFiles \subseteq Docs
    BY DEF ExpiredFiles, WithStatus
  <2>2. \A d \in ExpiredFiles \cap Docs :
           Exists(d) /\ docs[d].status = "ready" /\ docs[d].stored /\ docs[d].ship \in graced
    BY DEF ExpiredFiles, WithStatus
  <2> HIDE DEF ExpiredFiles
  <2> QED BY <1>9, <2>1, <2>2, Began, KindsAreDistinct DEF CleanupBegin, Sessions
<1>10. ASSUME NEW s \in Sweeps, NEW d \in Docs, SweepNext(s, d) PROVE Inductive'
  <2> DEFINE r == session[s]
             todo == r.todo \ {d}
  <2>1. /\ s \in Sessions /\ Open(s) /\ r \in Session /\ s \notin Cleanups /\ d \in r.todo
        /\ r.step = "next" /\ r.doc \in Docs \cup {None}
    BY <1>1, <1>10, OpenType, KindsAreDistinct DEF SweepNext, Sessions, Session, At
  <2>2. /\ r.new[d] \in Row /\ r.new[d] # None /\ ~r.new[d].stored /\ Exists(d)
    BY <1>3, <1>10, <2>1
  <2>3. UNCHANGED <<docs, store, graced>>
    BY <1>10 DEF SweepNext
  <2>4. CASE GivenUp(session[s].loaded[d])
    <3>1. PICK row : row = [r.new[d] EXCEPT !.status = "failed"]
      OBVIOUS
    <3>2. /\ row \in Row /\ row.status = "failed" /\ ~row.stored
          /\ row.ship = r.new[d].ship /\ row.age = r.new[d].age
      BY <2>2, <3>1, Marked
    <3>3. session' = [session EXCEPT ![s] = [r EXCEPT !.todo = todo, !.new = [@ EXCEPT ![d] = row]]]
      BY <1>10, <2>4, <3>1 DEF SweepNext
    <3>4. session' = [session EXCEPT ![s] = [r EXCEPT !.step = r.step, !.todo = todo,
                                             !.doc = r.doc, !.new = [@ EXCEPT ![d] = row]]]
      BY <2>1, <3>3, Record
    <3>5. Asked(row, d)'
      BY <3>2 DEF Asked
    <3> QED BY <1>1, <2>1, <2>2, <2>3, <3>4, <3>5, <3>2, Worked
  <2>5. CASE ~GivenUp(session[s].loaded[d])
    <3>1. session' = [session EXCEPT ![s] = [r EXCEPT !.todo = todo, !.step = "ask", !.doc = d]]
      BY <1>10, <2>5 DEF SweepNext
    <3>2. session' = [session EXCEPT ![s] = [r EXCEPT !.step = "ask", !.todo = todo, !.doc = d]]
      BY <2>1, <3>1, Record
    <3>3. r.new[d].status = "pending"
      <4>1. WorkTrue(s, d) /\ r.new[d] = r.loaded[d]
        BY <1>1, <1>3, <2>1 DEF SessionTrue
      <4> QED BY <1>10, <2>2, <4>1 DEF WorkTrue
    <3> QED BY <1>1, <2>1, <2>2, <2>3, <3>2, <3>3, Moved
  <2> QED BY <2>4, <2>5
<1>11. ASSUME NEW s \in Requests \cup Sweeps, Ask(s) PROVE Inductive'
  <2> DEFINE r == session[s]
  <2>1. s \in Sessions /\ Open(s) /\ ~At(s, "next") /\ r \in Session
    BY <1>1, <1>11, OpenType DEF Ask, Sessions, At
  <2>2. PICK d \in Docs :
        /\ d = r.doc /\ s \notin Cleanups /\ d \notin r.todo
        /\ r.new[d] \in Row /\ r.new[d].status = "pending" /\ ~r.new[d].stored
    BY <1>2, <2>1
  <2>3. UNCHANGED <<docs, store, graced>> /\ r.new[d] # None
    BY <1>11, <2>2, NoneIsNoDocument DEF Ask
  <2>4. CASE session' = [session EXCEPT ![s].step = "next", ![s].doc = None,
                                        ![s].new[session[s].doc].status = "failed"]
    <3>1. PICK row : row = [r.new[d] EXCEPT !.status = "failed"]
      OBVIOUS
    <3>2. /\ row \in Row /\ row.status = "failed" /\ ~row.stored
          /\ row.ship = r.new[d].ship /\ row.age = r.new[d].age
      BY <2>2, <3>1, Marked
    <3>3. session' = [session EXCEPT ![s] = [r EXCEPT !.step = "next", !.doc = None,
                                                      !.new = [@ EXCEPT ![d] = row]]]
      BY <2>2, <2>4, <3>1
    <3>4. session' = [session EXCEPT ![s] = [r EXCEPT !.step = "next", !.todo = r.todo,
                                             !.doc = None, !.new = [@ EXCEPT ![d] = row]]]
      BY <2>1, <3>3, Record
    <3>5. Asked(row, d)'
      BY <3>2 DEF Asked
    <3> QED BY <1>1, <2>1, <2>2, <2>3, <3>4, <3>5, <3>2, Worked
  <2>5. CASE session' = [session EXCEPT ![s].step = "next", ![s].doc = None]
    <3>1. session' = [session EXCEPT ![s] = [r EXCEPT !.step = "next", !.doc = None]]
      BY <2>5
    <3>2. session' = [session EXCEPT ![s] = [r EXCEPT !.step = "next", !.todo = r.todo, !.doc = None]]
      BY <2>1, <3>1, Record
    <3> QED BY <1>1, <2>1, <2>3, <3>2, Moved
  <2>6. CASE session' = [session EXCEPT ![s].step = "put"]
    <3>1. session' = [session EXCEPT ![s] = [r EXCEPT !.step = "put"]]
      BY <2>6
    <3>2. session' = [session EXCEPT ![s] = [r EXCEPT !.step = "put", !.todo = r.todo, !.doc = r.doc]]
      BY <2>1, <3>1, Record
    <3> QED BY <1>1, <2>1, <2>2, <2>3, <3>2, Moved
  <2> QED BY <1>11, <2>4, <2>5, <2>6 DEF Ask
<1>12. ASSUME NEW s \in Requests \cup Sweeps, Put(s) PROVE Inductive'
  <2> DEFINE r == session[s]
  <2>1. s \in Sessions /\ Open(s) /\ ~At(s, "next") /\ r \in Session
    BY <1>1, <1>12, OpenType DEF Put, Sessions, At
  <2>2. PICK d \in Docs :
        /\ d = r.doc /\ s \notin Cleanups /\ d \notin r.todo
        /\ r.new[d] \in Row /\ r.new[d].status = "pending" /\ ~r.new[d].stored
    BY <1>2, <2>1
  <2>3. UNCHANGED <<docs, graced>> /\ store' = store \cup {d} /\ r.new[d] # None
    BY <1>12, <2>2, NoneIsNoDocument DEF Put
  <2>4. PICK row : row = [r.new[d] EXCEPT !.status = "ready", !.stored = TRUE]
    OBVIOUS
  <2>5. /\ row \in Row /\ row.status = "ready" /\ row.stored = TRUE
        /\ row.ship = r.new[d].ship /\ row.age = r.new[d].age
    BY <2>2, <2>4, MarkedStored
  <2>6. session' = [session EXCEPT ![s] = [r EXCEPT !.step = "next", !.doc = None,
                                                    !.new = [@ EXCEPT ![d] = row]]]
    BY <1>12, <2>2, <2>4 DEF Put
  <2>7. session' = [session EXCEPT ![s] = [r EXCEPT !.step = "next", !.todo = r.todo,
                                           !.doc = None, !.new = [@ EXCEPT ![d] = row]]]
    BY <2>1, <2>6, Record
  <2>8. Asked(row, d)'
    BY <2>3, <2>5 DEF Asked, Printable
  <2>9. store' \subseteq Docs /\ \A e \in store : e \in store'
    BY <1>1, <2>3
  <2> HIDE DEF r
  <2> QED BY <1>1, <2>1, <2>2, <2>3, <2>7, <2>8, <2>9, <2>5, Worked DEF r
<1>13. ASSUME NEW s \in Requests \cup Sweeps, PutFails(s) PROVE Inductive'
  <2>1. s \in Sessions /\ Open(s) /\ ~At(s, "next")
    BY <1>1, <1>13, OpenType DEF PutFails, Sessions, At
  <2>2. session[s].doc \in Docs
    BY <1>2, <2>1
  <2>3. /\ UNCHANGED <<docs, graced>> /\ store' \subseteq Docs /\ store \subseteq store'
        /\ Close(s)
    BY <1>1, <1>13, <2>2 DEF PutFails
  <2> QED BY <2>1, <2>3, Closing
<1>14. ASSUME NEW s \in Cleanups, NEW d \in Docs, Delete(s, d) PROVE Inductive'
  <2> DEFINE r == session[s]
             todo == r.todo \ {d}
  <2>1. /\ s \in Sessions /\ Open(s) /\ r \in Session /\ d \in r.todo
        /\ r.step = "next" /\ r.doc \in Docs \cup {None}
    BY <1>1, <1>14, OpenType DEF Delete, Sessions, Session, At
  <2>2. /\ r.new[d] \in Row /\ r.new[d] # None /\ Exists(d) /\ docs[d].ship \in graced
    BY <1>3, <1>14, <2>1
  <2>3. UNCHANGED <<docs, graced>> /\ store' = store \ {d}
    BY <1>14 DEF Delete
  <2>4. PICK row : row = [r.new[d] EXCEPT !.status = "expired", !.stored = FALSE]
    OBVIOUS
  <2>5. /\ row \in Row /\ row.status = "expired" /\ row.stored = FALSE
        /\ row.ship = r.new[d].ship /\ row.age = r.new[d].age
    BY <2>2, <2>4, MarkedStored
  <2>6. session' = [session EXCEPT ![s] = [r EXCEPT !.todo = todo, !.new = [@ EXCEPT ![d] = row]]]
    BY <1>14, <2>4 DEF Delete
  <2>7. session' = [session EXCEPT ![s] = [r EXCEPT !.step = r.step, !.todo = todo,
                                           !.doc = r.doc, !.new = [@ EXCEPT ![d] = row]]]
    BY <2>1, <2>6, Record
  <2>8. store' \subseteq Docs /\ \A e \in store : e \in store' \/ (Exists(e) /\ docs[e].ship \in graced)
    BY <1>1, <2>2, <2>3
  <2>9. d \notin todo /\ todo \subseteq r.todo
    OBVIOUS
  <2> HIDE DEF r, todo
  <2> QED BY <1>1, <2>1, <2>2, <2>3, <2>7, <2>8, <2>9, <2>5, Worked DEF r
<1>15. ASSUME NEW s \in Cleanups, NEW d \in Docs, DeleteDeferred(s, d) PROVE Inductive'
  <2> DEFINE r == session[s]
             todo == r.todo \ {d}
  <2>1. /\ s \in Sessions /\ Open(s) /\ r \in Session /\ d \in r.todo
        /\ r.step = "next" /\ r.doc \in Docs \cup {None}
    BY <1>1, <1>15, OpenType DEF DeleteDeferred, Sessions, Session, At
  <2>2. Exists(d) /\ docs[d].ship \in graced
    BY <1>3, <1>15, <2>1
  <2>3. /\ UNCHANGED <<docs, graced>> /\ store' \subseteq Docs
        /\ \A e \in store : e \in store' \/ (Exists(e) /\ docs[e].ship \in graced)
    BY <1>1, <1>15, <2>2 DEF DeleteDeferred
  <2>4. session' = [session EXCEPT ![s] = [r EXCEPT !.todo = todo]]
    BY <1>15 DEF DeleteDeferred
  <2>5. session' = [session EXCEPT ![s] = [r EXCEPT !.step = r.step, !.todo = todo, !.doc = r.doc]]
    BY <2>1, <2>4, Record
  <2>6. todo \subseteq r.todo
    OBVIOUS
  <2> HIDE DEF r, todo
  <2> QED BY <1>1, <2>1, <2>3, <2>5, <2>6, Moved DEF r
<1>16. ASSUME NEW s \in Sessions, Rollback(s) PROVE Inductive'
  <2>1. /\ UNCHANGED <<docs, store, graced>> /\ Close(s)
    BY <1>16 DEF Rollback
  <2>2. store' \subseteq Docs /\ store \subseteq store'
    BY <1>1, <2>1
  <2> QED BY <2>1, <2>2, Closing
<1>17. CASE UNCHANGED vars
  BY <1>17 DEF vars, Inductive, TypeOK, SessionTrue, WorkTrue, RowTrue, Asked, Printable, Exists, Open, At
<1>18. ASSUME NEW s \in Requests, Label(s) PROVE Inductive'
  BY <1>5, <1>6, <1>7, <1>18 DEF Label
<1>19. ASSUME NEW s \in Sweeps, Sweep(s) PROVE Inductive'
  BY <1>8, <1>10, <1>19 DEF Sweep
<1>20. ASSUME NEW s \in Cleanups, Cleanup(s) PROVE Inductive'
  BY <1>9, <1>14, <1>15, <1>20 DEF Cleanup
<1> QED BY <1>11, <1>12, <1>13, <1>16, <1>17, <1>18, <1>19, <1>20, CommitStep, TimeStep DEF Next, Pull

\* The invariant holds in every reachable state.
LEMMA Safety == Spec => []Inductive
<1> QED BY InductiveInit, InductiveStep, PTL DEF Spec

\* Rows and open transactions have the shape of the table and the locals.
THEOREM TypeCorrect == Spec => []TypeOK
<1>1. Inductive => TypeOK
  BY DEF Inductive
<1> QED BY <1>1, Safety, PTL

\* fetch_pending, label and expire_files: a document that is ready has its key
\* and its file until the grace of its shipment is over, however the sessions
\* overlap and wherever they fail.
THEOREM ReadyIsPrintable == Spec => []ReadyHasFile
<1>1. Inductive => ReadyHasFile
  BY DEF Inductive, ReadyHasFile, RowTrue, Printable, WithStatus
<1> QED BY <1>1, Safety, PTL
=============================================================================
