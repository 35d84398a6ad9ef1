------------------------------ MODULE CoreProofs ------------------------------
(* Theorems about Access, SecondFactor, AddressBook, Directory and            *)
(* CarrierScore, for any number of tenants, connections, requests, secrets,   *)
(* steps, counterparties, addresses, cities, catalogs, transactions,          *)
(* shipments, carriers and days.                                              *)
EXTENDS SecondFactor, Access, AddressBook, Directory, CarrierScore,
        FiniteSetTheorems, SequenceTheorems, WellFoundedInduction, TLAPS

(***************************************************************************)
(* Isolation of the tenants. The property speaks of the work of a request; *)
(* what makes it true is the state of the connections before it: who holds *)
(* one, what is set on it at each step of a request, and that nothing is   *)
(* left on a free one. The invariant says so step by step.                 *)
(***************************************************************************)
Steps == {"begun", "window", "found", "tenant", "work", "done"}
Busy == [pc : Steps, kind : Kinds, tenant : Tenants, conn : Connections, late : BOOLEAN]
Settings == [tenant : Tenants \cup {None}, scope : {None, "login", "api_key", "webhook"}]

Typed ==
    /\ settings \in [Connections -> Settings]
    /\ request \in [Requests -> Busy \cup {Idle}]
    /\ touched = [r \in Requests |-> touched[r]]

\* Two requests do not hold one connection, and a free one has nothing set.
Exclusive == \A r, q \in Holding : r # q => request[r].conn # request[q].conn
FreeIsUnset == \A c \in Connections : Free(c) => settings[c] = Unset

\* Nothing can be written while a window is open.
WindowHasNoTenant == \A c \in Connections : settings[c].scope # None => settings[c].tenant = None

\* What is set on the connection of a request at each of its steps.
Own(r) == IF request[r].kind = "platform" THEN None ELSE request[r].tenant
Sets(r) ==
    LET on == settings[request[r].conn]
    IN  /\ request[r].pc \in {"begun", "found"} => on = Unset
        /\ request[r].pc = "window" => on.tenant = None
        /\ request[r].pc \in {"tenant", "work"} => on = [tenant |-> Own(r), scope |-> None]
StepsSet == \A r \in Holding : Sets(r)

\* Who gets how far: a window is opened by three kinds of requests, and what
\* was revoked before a request began ends it before its work.
Reach(r) ==
    /\ request[r].pc \in {"window", "found"} => request[r].kind \in {"login", "key", "webhook"}
    /\ request[r].pc = "tenant" => request[r].kind = "token"
    /\ request[r].late => /\ request[r].kind \in {"login", "key", "token"}
                          /\ <<TableOf[request[r].kind], request[r].tenant>> \notin live
                          /\ request[r].pc \notin {"found", "work"}
Reached == \A r \in Requests : request[r] # Idle => Reach(r)

\* Only the work touches rows.
Touch(r) == touched[r] # {} =>
    /\ request[r] # Idle /\ request[r].pc = "done"
    /\ request[r].kind # "platform" /\ ~request[r].late
    /\ \A row \in touched[r] : row[2] = request[r].tenant
Touches == \A r \in Requests : Touch(r)

Inductive == Typed /\ Exclusive /\ FreeIsUnset /\ WindowHasNoTenant /\ StepsSet /\ Reached /\ Touches

-----------------------------------------------------------------------------
\* The tables of the look-ups.
LEMMA TableFacts ==
    /\ DOMAIN WindowOf = {"login", "key", "webhook"}
    /\ \A k \in {"login", "key", "webhook"} : WindowOf[k] \in {"login", "api_key", "webhook"}
    /\ \A k \in {"login", "key", "token"} : TableOf[k] \in {"users", "api_keys"}
    /\ \A t \in Tables : Window[t] \in {"login", "api_key", "webhook"}
BY DEF WindowOf, TableOf, Window, Tables

\* A request that is on its way is not idle, and one step changes its step.
LEMMA Going ==
    ASSUME Typed, NEW r \in Requests, request[r].pc # "idle", NEW pc \in Steps, Goes(r, pc)
    PROVE  /\ request[r] \in Busy
           /\ request' = [q \in Requests |-> IF q = r THEN [request[r] EXCEPT !.pc = pc] ELSE request[q]]
           /\ request'[r] \in Busy
           /\ request'[r].pc = pc
           /\ request'[r].kind = request[r].kind
           /\ request'[r].tenant = request[r].tenant
           /\ request'[r].conn = request[r].conn
           /\ request'[r].late = request[r].late
<1>1. request[r] \in Busy
  BY DEF Typed, Idle
<1>2. request' = [q \in Requests |-> IF q = r THEN [request[r] EXCEPT !.pc = pc] ELSE request[q]]
  BY DEF Goes, Typed
<1>3. request'[r] = [request[r] EXCEPT !.pc = pc]
  BY <1>2
<1>4. QED
  BY <1>1, <1>2, <1>3 DEF Busy

\* A request takes over the connection c, which it holds or which is free, or
\* gives it back with nothing set: the other requests do not notice.
LEMMA HandOver ==
    ASSUME Typed, Exclusive, FreeIsUnset, StepsSet,
           NEW r \in Requests, NEW c \in Connections, NEW on \in Settings, NEW new \in Busy,
           request' = [q \in Requests |-> IF q = r THEN new ELSE request[q]],
           settings' = [settings EXCEPT ![c] = on],
           IF r \in Holding THEN c = request[r].conn ELSE Free(c),
           r \in Holding' => new.conn = c /\ Sets(r)',
           r \notin Holding' => on = Unset
    PROVE  Exclusive' /\ FreeIsUnset' /\ StepsSet'
<1>1. \A q \in Requests : q # r => request'[q] = request[q] /\ (q \in Holding' <=> q \in Holding)
  BY DEF Holding, Between
<1>2. request'[r] = new
  OBVIOUS
<1>3. \A q \in Holding : q # r => request[q].conn # c
  BY DEF Free, Exclusive
<1>4. \A d \in Connections : settings'[d] = IF d = c THEN on ELSE settings[d]
  BY DEF Typed
<1>5. \A q \in Holding : q \in Requests /\ request[q] \in Busy /\ request[q].conn \in Connections
  BY DEF Holding, Typed, Idle, Busy
<1>6. Holding' \subseteq Requests
  BY DEF Holding
<1>7. Exclusive'
  BY <1>1, <1>2, <1>3, <1>6 DEF Exclusive
<1>8. FreeIsUnset'
  <2>1. ASSUME NEW d \in Connections, Free(d)' PROVE settings'[d] = Unset
    <3>1. CASE d = c
      <4>1. r \notin Holding'
        BY <1>2, <2>1, <3>1 DEF Free
      <4>2. QED
        BY <1>4, <3>1, <4>1
    <3>2. CASE d # c
      <4>1. ASSUME NEW q \in Holding PROVE request[q].conn # d
        <5>1. CASE q = r
          BY <3>2, <5>1
        <5>2. CASE q # r
          BY <1>1, <1>5, <2>1, <5>2 DEF Free
        <5>3. QED
          BY <5>1, <5>2
      <4>2. QED
        BY <1>4, <3>2, <4>1 DEF Free, FreeIsUnset
    <3>3. QED
      BY <3>1, <3>2
  <2>2. QED
    BY <2>1 DEF FreeIsUnset, Unset
<1>9. StepsSet'
  <2>1. ASSUME NEW q \in Holding', q # r PROVE Sets(q)'
    <3>1. q \in Holding /\ request'[q] = request[q] /\ Sets(q)
      BY <1>1, <1>6, <2>1 DEF StepsSet
    <3>2. settings'[request'[q].conn] = settings[request[q].conn]
      BY <1>3, <1>4, <1>5, <2>1, <3>1
    <3>3. QED
      BY <3>1, <3>2 DEF Sets, Own, Unset
  <2>2. QED
    BY <2>1 DEF StepsSet
<1>10. QED
  BY <1>7, <1>8, <1>9

\* The same for what does not concern the connections.
LEMMA Others ==
    ASSUME Typed, Reached, Touches, NEW r \in Requests, NEW new \in Busy,
           request' = [q \in Requests |-> IF q = r THEN new ELSE request[q]],
           UNCHANGED live, Reach(r)',
           \A q \in Requests : q # r => touched'[q] = touched[q],
           Touch(r)'
    PROVE  Reached' /\ Touches'
<1>1. \A q \in Requests : q # r => request'[q] = request[q]
  OBVIOUS
<1>2. Reached'
  BY <1>1 DEF Reached, Reach, Idle
<1>3. Touches'
  BY <1>1 DEF Touches, Touch, Idle
<1>4. QED
  BY <1>2, <1>3

\* The two together: what a step has to show of its own request.
LEMMA Passing ==
    ASSUME Inductive, NEW r \in Requests, NEW c \in Connections, NEW on \in Settings, NEW new \in Busy,
           request' = [q \in Requests |-> IF q = r THEN new ELSE request[q]],
           settings' = [settings EXCEPT ![c] = on],
           UNCHANGED live,
           touched' = [q \in Requests |-> touched'[q]],
           \A q \in Requests : q # r => touched'[q] = touched[q],
           IF r \in Holding THEN c = request[r].conn ELSE Free(c),
           r \in Holding' => new.conn = c /\ Sets(r)',
           r \notin Holding' => on = Unset,
           on.scope # None => on.tenant = None,
           Reach(r)', Touch(r)'
    PROVE  Inductive'
<1>1. Exclusive' /\ FreeIsUnset' /\ StepsSet'
  BY HandOver DEF Inductive
<1>2. Reached' /\ Touches'
  BY Others DEF Inductive
<1>3. Typed' /\ WindowHasNoTenant'
  BY DEF Inductive, Typed, WindowHasNoTenant
<1>4. QED
  BY <1>1, <1>2, <1>3 DEF Inductive

\* A step of a request that goes on, and leaves touched alone.
LEMMA GoingOn ==
    ASSUME Inductive, NEW r \in Holding, NEW pc \in Steps \ {"done"}, NEW on \in Settings,
           Goes(r, pc), settings' = [settings EXCEPT ![request[r].conn] = on], UNCHANGED <<live, touched>>,
           ~(pc = "found" /\ request[r].kind = "webhook"),
           pc \in {"begun", "found"} => on = Unset,
           pc = "window" => on.tenant = None,
           pc \in {"tenant", "work"} => on = [tenant |-> Own(r), scope |-> None],
           pc \in {"window", "found"} => request[r].kind \in {"login", "key", "webhook"},
           pc = "tenant" => request[r].kind = "token",
           request[r].late => pc \notin {"found", "work"}
    PROVE  Inductive'
<1> DEFINE c == request[r].conn
           new == [request[r] EXCEPT !.pc = pc]
<1>1. r \in Requests /\ request[r] # Idle /\ request[r].pc \notin {"idle", "done"}
  BY DEF Holding, Idle
<1>2. /\ request[r] \in Busy /\ new \in Busy /\ request'[r] = new
      /\ request' = [q \in Requests |-> IF q = r THEN new ELSE request[q]]
      /\ new.pc = pc /\ new.kind = request[r].kind /\ new.tenant = request[r].tenant
      /\ new.conn = c /\ new.late = request[r].late
  BY <1>1, Going DEF Inductive
<1>3. c \in Connections
  BY <1>2 DEF Busy
<1> HIDE DEF new
<1>4. settings'[request'[r].conn] = on
  BY <1>2, <1>3 DEF Inductive, Typed
<1>5. Own(r)' = Own(r)
  BY <1>2 DEF Own
<1>6. Sets(r)'
  BY <1>2, <1>4, <1>5 DEF Sets
<1>7. r \in Holding'
  BY <1>1, <1>2 DEF Holding, Between, Steps
<1>8. Reach(r)'
  BY <1>1, <1>2 DEF Inductive, Reached, Reach
<1>9. Touch(r)'
  BY <1>1, <1>2 DEF Inductive, Touches, Touch
<1>10. on.scope # None => on.tenant = None
  BY DEF Unset, Steps
<1>11. touched' = [q \in Requests |-> touched'[q]] /\ \A q \in Requests : q # r => touched'[q] = touched[q]
  BY DEF Inductive, Typed
<1>12. QED
  BY <1>1, <1>2, <1>3, <1>6, <1>7, <1>8, <1>9, <1>10, <1>11, Passing

\* A step after which a request holds no connection leaves nothing set on the
\* one it had.
LEMMA Leaving ==
    ASSUME Inductive, NEW r \in Holding, NEW pc \in {"found", "done"},
           Goes(r, pc), Ended(request[r].conn), UNCHANGED live,
           touched' = [q \in Requests |-> touched'[q]],
           \A q \in Requests : q # r => touched'[q] = touched[q],
           pc = "found" => request[r].kind = "webhook" /\ ~request[r].late /\ touched' = touched,
           pc = "done" => \/ touched' = touched
                          \/ /\ request[r].kind # "platform" /\ ~request[r].late
                             /\ \A row \in touched'[r] : row[2] = request[r].tenant
                          \/ touched'[r] = {}
    PROVE  Inductive'
<1> DEFINE c == request[r].conn
           new == [request[r] EXCEPT !.pc = pc]
           on == Unset
<1>1. r \in Requests /\ request[r] # Idle /\ request[r].pc \notin {"idle", "done"}
  BY DEF Holding, Idle
<1>2. /\ request[r] \in Busy /\ new \in Busy /\ request'[r] = new
      /\ request' = [q \in Requests |-> IF q = r THEN new ELSE request[q]]
      /\ new.pc = pc /\ new.kind = request[r].kind /\ new.tenant = request[r].tenant
      /\ new.conn = c /\ new.late = request[r].late
  BY <1>1, Going DEF Inductive, Steps
<1>3. c \in Connections /\ new # Idle
  BY <1>2 DEF Busy, Idle
<1> HIDE DEF new
<1>4. on = Unset /\ on \in Settings /\ settings' = [settings EXCEPT ![c] = on] /\ on.scope = None
  BY DEF Ended, Unset, Settings
<1>5. r \notin Holding'
  BY <1>1, <1>2 DEF Holding, Between
<1>6. Reach(r)'
  BY <1>1, <1>2 DEF Inductive, Reached, Reach
<1>7. Touch(r)'
  BY <1>1, <1>2, <1>3 DEF Inductive, Touches, Touch
<1> HIDE DEF on
<1>8. QED
  BY <1>1, <1>2, <1>3, <1>4, <1>5, <1>6, <1>7, Passing

\* What a request at a step holds.
LEMMA HeldBy ==
    ASSUME Inductive, NEW r \in Requests, request[r].pc \notin {"idle", "done"}, ~Between(r)
    PROVE  r \in Holding /\ request[r] \in Busy /\ request[r].conn \in Connections /\ Sets(r) /\ Reach(r)
<1>1. r \in Holding /\ request[r] # Idle
  BY DEF Holding, Idle
<1>2. QED
  BY <1>1 DEF Inductive, Typed, StepsSet, Reached, Busy

\* What a request may find: a row of its own tenant that was not revoked before.
LEMMA FoundIsNotLate ==
    ASSUME Inductive, NEW r \in Requests, request[r] # Idle, Found(r)
    PROVE  ~request[r].late
BY TableFacts DEF Inductive, Reached, Reach, Found

\* Every step keeps the invariant.
LEMMA InductiveStep ==
    ASSUME None \notin Tenants, None \notin {"login", "api_key", "webhook"}, Inductive, [Next]_vars
    PROVE  Inductive'
<1>1. ASSUME NEW r \in Requests, NEW kind \in Kinds, NEW t \in Tenants, NEW c \in Connections, Begin(r, kind, t, c)
      PROVE  Inductive'
  <2> DEFINE late == kind \in {"login", "key", "token"} /\ <<TableOf[kind], t>> \notin live
             new == [pc |-> "begun", kind |-> kind, tenant |-> t, conn |-> c, late |-> late]
  <2>1. new \in Busy
    BY DEF Busy, Steps
  <2>2. request' = [q \in Requests |-> IF q = r THEN new ELSE request[q]]
    BY <1>1 DEF Begin, Inductive, Typed
  <2>3. UNCHANGED <<settings, live, touched>> /\ request[r] = Idle /\ Free(c)
    BY <1>1 DEF Begin
  <2>4. settings[c] = Unset /\ settings' = [settings EXCEPT ![c] = Unset] /\ Unset \in Settings
    BY <2>3 DEF Inductive, FreeIsUnset, Typed, Unset, Settings
  <2>5. r \notin Holding /\ r \in Holding'
    BY <2>2, <2>3 DEF Holding, Idle, Between
  <2>6. Sets(r)' /\ Reach(r)' /\ Touch(r)'
    BY <2>2, <2>3, <2>4 DEF Sets, Reach, Inductive, Touches, Touch
  <2>7. touched' = [q \in Requests |-> touched'[q]] /\ \A q \in Requests : q # r => touched'[q] = touched[q]
    BY <2>3 DEF Inductive, Typed
  <2>8. new.conn = c /\ Unset.scope = None
    BY DEF Unset
  <2> DEFINE on == Unset
  <2>9. on = Unset /\ on \in Settings /\ settings' = [settings EXCEPT ![c] = on]
    BY <2>4
  <2> HIDE DEF new, on
  <2>10. QED
    BY <2>1, <2>2, <2>3, <2>5, <2>6, <2>7, <2>8, <2>9, Passing
<1>2. ASSUME NEW r \in Requests, OpenWindow(r) PROVE Inductive'
  <2> DEFINE c == request[r].conn
             scope == WindowOf[request[r].kind]
             on == [settings[c] EXCEPT !.scope = scope]
  <2>1. /\ request[r].pc = "begun" /\ request[r].kind \in {"login", "key", "webhook"}
        /\ settings' = [settings EXCEPT ![c] = on] /\ Goes(r, "window") /\ UNCHANGED <<live, touched>>
    BY <1>2, TableFacts DEF OpenWindow
  <2>2. r \in Holding /\ settings[c] = Unset
    BY <2>1, HeldBy DEF Between, Sets
  <2>3. scope \in {"login", "api_key", "webhook"}
    BY <2>1, TableFacts
  <2> HIDE DEF scope
  <2>4. on.tenant = None /\ on \in Settings
    BY <2>2, <2>3 DEF Unset, Settings
  <2> HIDE DEF on
  <2>5. QED
    BY <2>1, <2>2, <2>4, GoingOn DEF Steps
<1>3. ASSUME NEW r \in Requests, LookUp(r) PROVE Inductive'
  <2>1. request[r].pc = "window" /\ Found(r) /\ Goes(r, "found") /\ UNCHANGED <<live, touched>>
    BY <1>3 DEF LookUp
  <2>2. r \in Holding /\ settings[request[r].conn].tenant = None /\ request[r].kind \in {"login", "key", "webhook"}
    BY <2>1, HeldBy DEF Between, Sets, Reach
  <2>3. ~request[r].late
    BY <2>1, FoundIsNotLate DEF Idle
  <2>4. Unset \in Settings
    BY DEF Unset, Settings
  <2>5. CASE request[r].kind = "webhook"
    <3>1. Ended(request[r].conn)
      BY <1>3, <2>5 DEF LookUp
    <3>2. touched' = [q \in Requests |-> touched'[q]]
      BY <2>1 DEF Inductive, Typed
    <3>3. QED
      BY <2>1, <2>2, <2>3, <2>5, <3>1, <3>2, Leaving
  <2>6. CASE request[r].kind # "webhook"
    <3>1. settings' = [settings EXCEPT ![request[r].conn].scope = None]
      BY <1>3, <2>6 DEF LookUp
    <3>2. settings[request[r].conn] \in Settings
      BY <2>1, HeldBy DEF Between, Inductive, Typed
    <3>3. [settings[request[r].conn] EXCEPT !.scope = None] = Unset
      BY <2>2, <3>2 DEF Settings, Unset
    <3>4. settings' = [settings EXCEPT ![request[r].conn] = Unset]
      BY <3>1, <3>3
    <3>5. QED
      BY <2>1, <2>2, <2>3, <2>4, <2>6, <3>4, GoingOn DEF Steps
  <2>7. QED
    BY <2>5, <2>6
<1>4. ASSUME NEW r \in Requests, SetTenant(r) PROVE Inductive'
  <2> DEFINE pc == IF request[r].kind = "token" THEN "tenant" ELSE "work"
  <2>1. PICK c \in Connections :
           /\ IF Between(r) THEN Free(c) ELSE c = request[r].conn
           /\ settings' = [settings EXCEPT ![c].tenant = request[r].tenant]
           /\ request' = [request EXCEPT ![r].pc = pc, ![r].conn = c]
           /\ UNCHANGED <<live, touched>>
    BY <1>4 DEF SetTenant
  <2> DEFINE on == [tenant |-> request[r].tenant, scope |-> None]
             new == [request[r] EXCEPT !.pc = pc, !.conn = c]
  <2>2. \/ request[r].pc = "found"
        \/ request[r].pc = "begun" /\ request[r].kind \in {"token", "task"}
    BY <1>4 DEF SetTenant
  <2>3. request[r] \in Busy /\ request[r] # Idle
    BY <2>2 DEF Inductive, Typed, Idle
  <2>4. /\ request[r].kind # "platform" /\ request[r].tenant \in Tenants
        /\ request[r].late => request[r].kind = "token"
        /\ request[r].kind = "token" => request[r].pc = "begun"
    BY <2>2, <2>3 DEF Inductive, Reached, Reach, Busy
  <2>5. /\ new \in Busy /\ new.pc = pc /\ new.kind = request[r].kind /\ new.tenant = request[r].tenant
        /\ new.conn = c /\ new.late = request[r].late
    BY <2>3 DEF Busy, Steps
  <2>6. request' = [q \in Requests |-> IF q = r THEN new ELSE request[q]]
    BY <2>1 DEF Inductive, Typed
  <2> HIDE DEF new
  <2>7. settings[c] = Unset
    <3>1. CASE Between(r)
      BY <2>1, <3>1 DEF Inductive, FreeIsUnset
    <3>2. CASE ~Between(r)
      BY <2>1, <2>2, <3>2, HeldBy DEF Sets
    <3>3. QED
      BY <3>1, <3>2
  <2>8. [settings[c] EXCEPT !.tenant = request[r].tenant] = on
    BY <2>7 DEF Unset
  <2>9. settings' = [settings EXCEPT ![c] = on]
    BY <2>1, <2>8
  <2>10. on \in Settings /\ on.scope = None
    BY <2>4 DEF Settings
  <2>11. settings'[c] = on
    BY <2>9 DEF Inductive, Typed
  <2>12. r \in Holding' /\ Reach(r)'
    <3>1. request'[r] = new /\ pc \in {"tenant", "work"} /\ UNCHANGED live
      BY <2>1, <2>6
    <3>2. r \in Holding'
      BY <2>5, <3>1 DEF Holding, Between
    <3>3. Reach(r)'
      BY <2>3, <2>4, <2>5, <3>1 DEF Inductive, Reached, Reach
    <3>4. QED
      BY <3>2, <3>3
  <2>13. Sets(r)'
    BY <2>4, <2>5, <2>6, <2>11 DEF Sets, Own
  <2>14. Touch(r)'
    BY <2>1, <2>2 DEF Inductive, Touches, Touch
  <2>15. touched' = [q \in Requests |-> touched'[q]] /\ \A q \in Requests : q # r => touched'[q] = touched[q]
    BY <2>1 DEF Inductive, Typed
  <2>16. UNCHANGED live /\ IF r \in Holding THEN c = request[r].conn ELSE Free(c)
    BY <2>1, <2>2, HeldBy DEF Holding, Between
  <2> HIDE DEF on, pc
  <2>17. QED
    BY <2>5, <2>6, <2>9, <2>10, <2>12, <2>13, <2>14, <2>15, <2>16, Passing
<1>5. ASSUME NEW r \in Requests, CheckUser(r) PROVE Inductive'
  <2>1. request[r].pc = "tenant" /\ Found(r) /\ Goes(r, "work") /\ UNCHANGED <<settings, live, touched>>
    BY <1>5 DEF CheckUser
  <2>2. /\ r \in Holding /\ request[r].conn \in Connections
        /\ settings[request[r].conn] = [tenant |-> Own(r), scope |-> None]
    BY <2>1, HeldBy DEF Between, Sets
  <2>3. ~request[r].late
    BY <2>1, FoundIsNotLate DEF Idle
  <2> DEFINE on == settings[request[r].conn]
  <2>4. on \in Settings /\ settings' = [settings EXCEPT ![request[r].conn] = on]
    BY <2>1, <2>2 DEF Inductive, Typed
  <2>5. on = [tenant |-> Own(r), scope |-> None]
    BY <2>2
  <2> HIDE DEF on
  <2>6. QED
    BY <2>1, <2>2, <2>3, <2>4, <2>5, GoingOn DEF Steps
<1>6. ASSUME NEW r \in Requests, NoTenant(r) PROVE Inductive'
  <2>1. /\ request[r].pc = "begun" /\ request[r].kind = "platform" /\ Goes(r, "work")
        /\ UNCHANGED <<settings, live, touched>>
    BY <1>6 DEF NoTenant
  <2>2. r \in Holding /\ request[r].conn \in Connections /\ settings[request[r].conn] = Unset /\ ~request[r].late
    BY <2>1, HeldBy DEF Between, Sets, Reach
  <2>3. Unset = [tenant |-> Own(r), scope |-> None]
    BY <2>1 DEF Unset, Own
  <2>4. Unset \in Settings /\ settings' = [settings EXCEPT ![request[r].conn] = Unset]
    BY <2>1, <2>2 DEF Inductive, Typed, Unset, Settings
  <2>5. QED
    BY <2>1, <2>2, <2>3, <2>4, GoingOn DEF Steps
<1>7. ASSUME NEW r \in Requests, Work(r) PROVE Inductive'
  <2> DEFINE c == request[r].conn
             rows == Readable(c) \cup Writable(c)
  <2>1. /\ request[r].pc = "work" /\ Ended(c) /\ Goes(r, "done") /\ UNCHANGED live
        /\ touched' = [touched EXCEPT ![r] = rows]
    BY <1>7 DEF Work
  <2>2. r \in Holding /\ settings[c] = [tenant |-> Own(r), scope |-> None] /\ ~request[r].late
    BY <2>1, HeldBy DEF Between, Sets, Reach
  <2>3. \A row \in rows : row[1] \in Tables /\ row[2] \in Tenants /\ row[2] = Own(r)
    BY <2>2, TableFacts DEF Readable, Writable, Rows
  <2>4. request[r].kind = "platform" => rows = {}
    BY <2>3 DEF Own
  <2>5. request[r].kind # "platform" => \A row \in rows : row[2] = request[r].tenant
    BY <2>3 DEF Own
  <2> HIDE DEF rows
  <2>6. /\ touched' = [q \in Requests |-> touched'[q]] /\ touched'[r] = rows
        /\ \A q \in Requests : q # r => touched'[q] = touched[q]
    BY <2>1 DEF Inductive, Typed
  <2>7. QED
    BY <2>1, <2>2, <2>4, <2>5, <2>6, Leaving
<1>8. ASSUME NEW r \in Requests, Abort(r) PROVE Inductive'
  <2>1. request[r].pc \notin {"idle", "done"} /\ Goes(r, "done") /\ UNCHANGED <<live, touched>>
    BY <1>8 DEF Abort
  <2>2. CASE ~Between(r)
    <3>1. r \in Holding /\ Ended(request[r].conn)
      BY <1>8, <2>1, <2>2, HeldBy DEF Abort
    <3>2. touched' = [q \in Requests |-> touched'[q]]
      BY <2>1 DEF Inductive, Typed
    <3>3. QED
      BY <2>1, <3>1, <3>2, Leaving
  <2>3. CASE Between(r)
    <3> DEFINE new == [request[r] EXCEPT !.pc = "done"]
    <3>1. UNCHANGED settings /\ request[r] # Idle
      BY <1>8, <2>1, <2>3 DEF Abort, Idle
    <3>2. /\ new \in Busy /\ request' = [q \in Requests |-> IF q = r THEN new ELSE request[q]]
          /\ new.pc = "done" /\ new.kind = request[r].kind /\ new.tenant = request[r].tenant
          /\ new.late = request[r].late
      BY <2>1, Going DEF Inductive, Steps
    <3> HIDE DEF new
    <3>3. Reach(r)' /\ Touch(r)'
      BY <2>1, <3>1, <3>2 DEF Inductive, Reached, Reach, Touches, Touch
    <3>4. Reached' /\ Touches'
      BY <2>1, <3>2, <3>3, Others DEF Inductive
    <3>5. /\ r \notin Holding /\ Holding' = Holding
          /\ \A q \in Holding : q \in Requests /\ request'[q] = request[q]
      BY <2>3, <3>2 DEF Holding, Between
    <3>6. Exclusive' /\ FreeIsUnset' /\ StepsSet'
      BY <3>1, <3>5 DEF Inductive, Exclusive, FreeIsUnset, Free, StepsSet, Sets, Own
    <3>7. Typed' /\ WindowHasNoTenant'
      BY <2>1, <3>1, <3>2 DEF Inductive, Typed, WindowHasNoTenant
    <3>8. QED
      BY <3>4, <3>6, <3>7 DEF Inductive
  <2>4. QED
    BY <2>2, <2>3
<1>9. ASSUME NEW row \in live, Revoke(row) PROVE Inductive'
  <2>1. UNCHANGED <<settings, request, touched>> /\ live' \subseteq live
    BY <1>9 DEF Revoke
  <2>2. Typed' /\ WindowHasNoTenant'
    BY <2>1 DEF Inductive, Typed, WindowHasNoTenant
  <2>3. Holding' = Holding
    BY <2>1 DEF Holding, Between
  <2>4. Exclusive' /\ FreeIsUnset' /\ StepsSet'
    BY <2>1, <2>3 DEF Inductive, Exclusive, FreeIsUnset, Free, StepsSet, Sets, Own
  <2>5. Reached'
    BY <2>1 DEF Inductive, Reached, Reach
  <2>6. Touches'
    BY <2>1 DEF Inductive, Touches, Touch
  <2>7. QED
    BY <2>2, <2>4, <2>5, <2>6 DEF Inductive
<1>10. CASE UNCHANGED vars
  BY <1>10 DEF vars, Inductive, Typed, WindowHasNoTenant, Exclusive, FreeIsUnset, Free, StepsSet, Sets, Own,
               Reached, Reach, Touches, Touch, Holding, Between
<1>11. QED
  BY <1>1, <1>2, <1>3, <1>4, <1>5, <1>6, <1>7, <1>8, <1>9, <1>10 DEF Next

-----------------------------------------------------------------------------
\* For any number of tenants, connections and requests, in any order and with
\* every way a transaction may end: what the work of a request touches is of the
\* tenant it proved to act for, nothing if it acts for the platform or its
\* credential was revoked before, and no row can be written through a window
\* (db.py, core/service.py, the policies of the migrations).
THEOREM TenantsAreIsolated ==
    ASSUME None \notin Tenants, None \notin {"login", "api_key", "webhook"}
    PROVE  Spec => []OwnRowsOnly
<1>1. Init => Inductive
  <2> SUFFICES ASSUME Init PROVE Inductive
    OBVIOUS
  <2>1. Holding = {} /\ \A r \in Requests : request[r] = Idle /\ touched[r] = {}
    BY DEF Init, Holding, Idle
  <2>2. Typed /\ Reached /\ Touches
    BY <2>1 DEF Init, Typed, Settings, Unset, Reached, Touches, Touch
  <2>3. Exclusive /\ FreeIsUnset /\ WindowHasNoTenant /\ StepsSet
    BY <2>1 DEF Init, Exclusive, FreeIsUnset, WindowHasNoTenant, StepsSet, Unset
  <2>4. QED
    BY <2>2, <2>3 DEF Inductive
<1>2. Inductive /\ [Next]_vars => Inductive'
  BY InductiveStep
<1>3. Inductive => OwnRowsOnly
  <2> SUFFICES ASSUME Inductive PROVE OwnRowsOnly
    OBVIOUS
  <2>1. ASSUME NEW c \in Connections, settings[c].scope # None PROVE Writable(c) = {}
    BY <2>1 DEF Inductive, WindowHasNoTenant, Writable, Rows
  <2>2. QED
    BY <2>1 DEF Inductive, Touches, Touch, OwnRowsOnly
<1>4. QED
  BY <1>1, <1>2, <1>3, PTL DEF Spec

(***************************************************************************)
(* A code of the second factor works once. That the codes of the accepted  *)
(* requests differ is not inductive: the next accepted step must be newer  *)
(* than all of them, so the invariant adds that the burnt step bounds them *)
(* from above.                                                             *)
(***************************************************************************)
\* The row and the requests have their shape, an open request has its code.
Typical == \A s \in Sessions : attempt[s].kind \in {"login", "enable", "disable"} => attempt[s].code \in Codes
RowTyped == user \in [secret : {user.secret}, enabled : {user.enabled}, lastStep : Nat \cup {Null}]
SessionsTyped == attempt = [s \in Sessions |-> attempt[s]]

BurntBoundsAccepted ==
    \A a \in accepted : /\ user.lastStep # Null
                        /\ a.code.step \in Nat
                        /\ a.code.step <= user.lastStep

MfaInductive == RowTyped /\ SessionsTyped /\ Typical /\ BurntBoundsAccepted /\ CodeWorksOnce

-----------------------------------------------------------------------------
\* A request that is let in burns a step newer than all steps burnt before.
LEMMA AcceptedStep ==
    ASSUME Null \notin Nat, MfaInductive, NEW s \in Sessions, StepIsNew(s), attempt[s].code \in Codes,
           NEW on, user' = [user EXCEPT !.lastStep = attempt[s].code.step, !.enabled = on],
           accepted' = accepted \cup {[by |-> s, code |-> attempt[s].code]}
    PROVE  RowTyped' /\ BurntBoundsAccepted' /\ CodeWorksOnce'
<1> DEFINE step == attempt[s].code.step
<1>1. step \in Nat /\ step # Null
  BY DEF Codes
<1>2. user'.lastStep = step /\ RowTyped'
  BY <1>1 DEF MfaInductive, RowTyped
<1>3. \A a \in accepted : a.code.step \in Nat /\ a.code.step < step
  BY <1>1 DEF MfaInductive, RowTyped, BurntBoundsAccepted, StepIsNew
<1>4. BurntBoundsAccepted'
  BY <1>1, <1>2, <1>3 DEF BurntBoundsAccepted
<1>5. CodeWorksOnce'
  <2>1. \A a \in accepted : a.code # attempt[s].code
    BY <1>1, <1>3
  <2>2. QED
    BY <2>1 DEF CodeWorksOnce, MfaInductive
<1>6. QED
  BY <1>2, <1>4, <1>5

\* A step that ends a request leaves the codes of the others as they were.
LEMMA ClosedIsTyped ==
    ASSUME MfaInductive, NEW s \in Sessions, Closed(s)
    PROVE  SessionsTyped' /\ Typical'
BY DEF MfaInductive, SessionsTyped, Typical, Closed

\* Every step keeps the invariant.
LEMMA MfaStep ==
    ASSUME Null \notin Nat, MfaInductive, [MfaNext]_mfaVars
    PROVE  MfaInductive'
<1>1. ASSUME NEW s \in Sessions, NEW code \in Codes, NEW kind \in {"login", "setup", "enable", "disable"},
             Present(s, kind, code)
      PROVE  MfaInductive'
  <2>1. UNCHANGED <<user, accepted>>
    BY <1>1 DEF Present
  <2>2. SessionsTyped' /\ Typical'
    BY <1>1 DEF Present, MfaInductive, SessionsTyped, Typical
  <2>3. QED
    BY <2>1, <2>2 DEF MfaInductive, RowTyped, BurntBoundsAccepted, CodeWorksOnce
<1>2. ASSUME NEW s \in Sessions, Login(s) PROVE MfaInductive'
  <2>1. SessionsTyped' /\ Typical'
    BY <1>2, ClosedIsTyped DEF Login
  <2>2. CASE attempt[s].row.enabled /\ StepIsNew(s)
    <3>1. user' = [user EXCEPT !.lastStep = attempt[s].code.step, !.enabled = user.enabled]
      BY <1>2, <2>2 DEF Login, MfaInductive, RowTyped
    <3>2. attempt[s].code \in Codes /\ accepted' = accepted \cup {[by |-> s, code |-> attempt[s].code]}
      BY <1>2, <2>2 DEF Login, MfaInductive, Typical
    <3>3. QED
      BY <2>1, <2>2, <3>1, <3>2, AcceptedStep DEF MfaInductive
  <2>3. CASE ~(attempt[s].row.enabled /\ StepIsNew(s))
    <3>1. UNCHANGED <<user, accepted>>
      BY <1>2, <2>3 DEF Login
    <3>2. QED
      BY <2>1, <3>1 DEF MfaInductive, RowTyped, BurntBoundsAccepted, CodeWorksOnce
  <2>4. QED
    BY <2>2, <2>3
<1>3. ASSUME NEW s \in Sessions, Setup(s) PROVE MfaInductive'
  <2>1. SessionsTyped' /\ Typical'
    BY <1>3, ClosedIsTyped DEF Setup
  <2>2. accepted' = {} /\ RowTyped'
    BY <1>3 DEF Setup, MfaInductive, RowTyped
  <2>3. QED
    BY <2>1, <2>2 DEF MfaInductive, BurntBoundsAccepted, CodeWorksOnce
<1>4. ASSUME NEW s \in Sessions, Enable(s) PROVE MfaInductive'
  <2>1. SessionsTyped' /\ Typical'
    BY <1>4, ClosedIsTyped DEF Enable
  <2>2. CASE StepIsNew(s)
    <3>1. attempt[s].code \in Codes /\ accepted' = accepted \cup {[by |-> s, code |-> attempt[s].code]}
      BY <1>4, <2>2 DEF Enable, MfaInductive, Typical
    <3>2. user' = [user EXCEPT !.lastStep = attempt[s].code.step, !.enabled = TRUE]
      BY <1>4, <2>2 DEF Enable
    <3>3. QED
      BY <2>1, <2>2, <3>1, <3>2, AcceptedStep DEF MfaInductive
  <2>3. CASE ~StepIsNew(s)
    <3>1. UNCHANGED <<user, accepted>>
      BY <1>4, <2>3 DEF Enable
    <3>2. QED
      BY <2>1, <3>1 DEF MfaInductive, RowTyped, BurntBoundsAccepted, CodeWorksOnce
  <2>4. QED
    BY <2>2, <2>3
<1>5. ASSUME NEW s \in Sessions, Disable(s) PROVE MfaInductive'
  <2>1. SessionsTyped' /\ Typical'
    BY <1>5, ClosedIsTyped DEF Disable
  <2>2. CASE StepIsNew(s)
    BY <1>5, <2>1, <2>2 DEF Disable, MfaInductive, RowTyped, BurntBoundsAccepted, CodeWorksOnce
  <2>3. CASE ~StepIsNew(s)
    BY <1>5, <2>1, <2>3 DEF Disable, MfaInductive, RowTyped, BurntBoundsAccepted, CodeWorksOnce
  <2>4. QED
    BY <2>2, <2>3
<1>6. CASE Tick
  BY <1>6 DEF Tick, MfaInductive, RowTyped, SessionsTyped, Typical, BurntBoundsAccepted, CodeWorksOnce
<1>7. CASE UNCHANGED mfaVars
  BY <1>7 DEF mfaVars, MfaInductive, RowTyped, SessionsTyped, Typical, BurntBoundsAccepted, CodeWorksOnce
<1>8. QED
  BY <1>1, <1>2, <1>3, <1>4, <1>5, <1>6, <1>7 DEF MfaNext

\* MfaService and consume_mfa_step: whoever presents a code, and however the
\* requests overlap with each other and with a change of the secret, it lets at
\* most one of them in.
THEOREM CodesWorkOnce ==
    ASSUME Null \notin Nat
    PROVE  MfaSpec => []CodeWorksOnce
<1>1. MfaInit => MfaInductive
  BY DEF MfaInit, MfaInductive, RowTyped, SessionsTyped, Typical, BurntBoundsAccepted, CodeWorksOnce
<1>2. MfaInductive /\ [MfaNext]_mfaVars => MfaInductive'
  BY MfaStep
<1>3. MfaInductive => CodeWorksOnce
  BY DEF MfaInductive
<1>4. QED
  BY <1>1, <1>2, <1>3, PTL DEF MfaSpec

(***************************************************************************)
(* The address book. The property needs three more facts: what a           *)
(* transaction has read is still there, a new row has a number of its own, *)
(* and, as long as no two requests have crossed, what one has read and     *)
(* will write over is what the rows still say.                             *)
(***************************************************************************)
BookRows == [owner : Counterparties, fields : [{"city", "house", "foreign"} -> BOOLEAN], default : BOOLEAN,
             fitness : {"unusable", "door", "locality"}, alive : BOOLEAN]
PartyRows == [key : Keys \cup {NoValue}, alive : BOOLEAN]
Creations == [pc : {"commit"}, op : {"create"}, party : Counterparties, key : Keys \cup {NoValue}, cleared : {{}}]
Additions == [pc : {"clear", "commit"}, op : {"add"}, party : Counterparties, address : Addresses,
              cleared : SUBSET Addresses, row : BookRows]
Updates == [pc : {"clear", "commit"}, op : {"update"}, party : Counterparties, address : Addresses,
            cleared : SUBSET Addresses, loaded : BookRows, row : BookRows]
Deletions == [pc : {"commit"}, op : {"delete"}, party : Counterparties, cleared : {{}}, addresses : SUBSET Addresses]
Open == Creations \cup Additions \cup Updates \cup Deletions
BookTyped ==
    /\ party \in [Counterparties -> PartyRows \cup {Absent}]
    /\ address \in [Addresses -> BookRows \cup {Absent}]
    /\ session \in [Transactions -> Open \cup {Resting}]

\* Rows that a transaction has read are there for good, and a new one has a
\* number of its own.
Reads(t) ==
    /\ \A a \in t.cleared : address[a] \in BookRows
    /\ t.op = "add" => address[t.address] = Absent
    /\ t.op = "update" => address[t.address] \in BookRows /\ t.address \notin t.cleared
    /\ t.op = "delete" => party[t.party] \in PartyRows /\ \A a \in t.addresses : address[a] \in BookRows
ReadsLast == \A s \in Transactions : session[s] # Resting => Reads(session[s])
NewOnesDiffer ==
    \A s, q \in Transactions :
        (session[s] # Resting /\ session[q] # Resting /\ session[s].op = "add" /\ session[q].op = "add"
         /\ session[s].address = session[q].address) => s = q

\* As long as no two requests have crossed, what one has read is what the rows
\* still say: the owner of an address to be added lives, the fields of one that is
\* edited are the same, and one that is to be deleted with its owner was listed.
Current(t) ==
    /\ t.op = "add" => LiveParty(t.party) /\ t.row.owner = t.party /\ t.row.fitness = Fitness(t.row.fields)
    /\ t.op = "update" => /\ t.row.fitness = Fitness(t.row.fields)
                          /\ address[t.address].fields = t.loaded.fields
                          /\ address[t.address].fitness = t.loaded.fitness
    /\ t.op = "delete" => \A a \in Addresses : LiveAddress(a) /\ address[a].owner = t.party => a \in t.addresses
Apart ==
    \A s, q \in Transactions :
        session[s] # Resting /\ session[q] # Resting /\ s # q => ~Crosses(session[s], session[q])
ReadsAreCurrent == ~crossed => Apart /\ \A s \in Transactions : session[s] # Resting => Current(session[s])
BookInductive == BookTyped /\ ReadsLast /\ NewOnesDiffer /\ ReadsAreCurrent /\ BookIsConsistent

\* What is not there is no row, and an open transaction is of its operation.
LEMMA KindsOfRecords ==
    /\ Absent \notin BookRows /\ Absent \notin PartyRows
    /\ \A t \in Open : /\ t # Resting /\ t.pc # "idle" /\ t.party \in Counterparties
                       /\ t.op \in {"create", "add", "update", "delete"}
                       /\ t.op = "create" => t \in Creations
                       /\ t.op = "add" => t \in Additions
                       /\ t.op = "update" => t \in Updates
                       /\ t.op = "delete" => t \in Deletions
<1>1. Absent \notin BookRows
  <2>1. \A r \in BookRows : "owner" \in DOMAIN r
    BY DEF BookRows
  <2>2. "owner" \notin DOMAIN Absent
    BY DEF Absent
  <2>3. QED
    BY <2>1, <2>2
<1>2. Absent \notin PartyRows
  <2>1. \A r \in PartyRows : "key" \in DOMAIN r
    BY DEF PartyRows
  <2>2. "key" \notin DOMAIN Absent
    BY DEF Absent
  <2>3. QED
    BY <2>1, <2>2
<1>3. \A t \in Creations : t.pc # "idle" /\ t.op = "create" /\ t.party \in Counterparties
  BY DEF Creations
<1>4. \A t \in Additions : t.pc # "idle" /\ t.op = "add" /\ t.party \in Counterparties
  BY DEF Additions
<1>5. \A t \in Updates : t.pc # "idle" /\ t.op = "update" /\ t.party \in Counterparties
  BY DEF Updates
<1>6. \A t \in Deletions : t.pc # "idle" /\ t.op = "delete" /\ t.party \in Counterparties
  BY DEF Deletions
<1>7. Resting.pc = "idle"
  BY DEF Resting
<1>8. QED
  BY <1>1, <1>2, <1>3, <1>4, <1>5, <1>6, <1>7 DEF Open

\* A session is at rest or open.
LEMMA AtRestOrOpen ==
    ASSUME BookInductive, NEW s \in Transactions, session[s] # Resting
    PROVE  session[s] \in Open /\ Reads(session[s]) /\ (~crossed => Current(session[s]))
BY DEF BookInductive, BookTyped, ReadsLast, ReadsAreCurrent

\* A request that has begun has read the rows as they are, and is alone with its
\* counterparty or is counted as crossing another.
LEMMA Starting ==
    ASSUME BookInductive, NEW s \in Transactions, NEW t \in Open, Starts(s, t), Reads(t), Current(t),
           t.op = "add" => \A q \in Transactions :
               session[q] # Resting /\ session[q].op = "add" => session[q].address # t.address
    PROVE  BookInductive'
<1>1. /\ session' = [q \in Transactions |-> IF q = s THEN t ELSE session[q]]
      /\ UNCHANGED <<party, address>> /\ crossed' = (crossed \/ \E q \in Transactions : session[q] # Resting /\ Crosses(session[q], t))
  BY DEF Starts, BookInductive, BookTyped
<1>2. BookTyped'
  BY <1>1 DEF BookInductive, BookTyped
<1>3. \A u : Reads(u)' = Reads(u) /\ Current(u)' = Current(u)
  BY <1>1 DEF Reads, Current, LiveParty, LiveAddress
<1>4. ReadsLast'
  BY <1>1, <1>3 DEF BookInductive, ReadsLast
<1>5. NewOnesDiffer'
  BY <1>1 DEF BookInductive, NewOnesDiffer
<1>6. ReadsAreCurrent'
  <2> SUFFICES ASSUME ~crossed' PROVE Apart' /\ \A q \in Transactions : session'[q] # Resting => Current(session'[q])
    BY <1>3 DEF ReadsAreCurrent
  <2>1. ~crossed /\ \A q \in Transactions : session[q] # Resting => ~Crosses(session[q], t)
    BY <1>1
  <2>2. \A q \in Transactions : session[q] # Resting => ~Crosses(t, session[q])
    BY <2>1 DEF Crosses
  <2>3. Apart'
    BY <1>1, <2>1, <2>2 DEF BookInductive, ReadsAreCurrent, Apart
  <2>4. QED
    BY <1>1, <2>1, <2>3 DEF BookInductive, ReadsAreCurrent
<1>7. BookIsConsistent'
  BY <1>1 DEF BookInductive, BookIsConsistent, LiveAddress, LiveParty
<1>8. QED
  BY <1>2, <1>4, <1>5, <1>6, <1>7 DEF BookInductive

\* A transaction that ends without a trace leaves the others as they were.
LEMMA Forgetting ==
    ASSUME BookInductive, NEW s \in Transactions, session' = [session EXCEPT ![s] = Resting],
           UNCHANGED <<party, address, crossed>>
    PROVE  BookInductive'
<1>1. session' = [q \in Transactions |-> IF q = s THEN Resting ELSE session[q]]
  BY DEF BookInductive, BookTyped
<1>2. BookTyped'
  BY <1>1 DEF BookInductive, BookTyped
<1>3. \A u : Reads(u)' = Reads(u) /\ Current(u)' = Current(u)
  BY DEF Reads, Current, LiveParty, LiveAddress
<1>4. ReadsLast' /\ NewOnesDiffer'
  BY <1>1, <1>3 DEF BookInductive, ReadsLast, NewOnesDiffer
<1>5. ReadsAreCurrent'
  BY <1>1, <1>3 DEF BookInductive, ReadsAreCurrent, Apart
<1>6. BookIsConsistent'
  BY DEF BookInductive, BookIsConsistent, LiveAddress, LiveParty
<1>7. QED
  BY <1>2, <1>4, <1>5, <1>6 DEF BookInductive

\* create.
LEMMA BeginCreateStep ==
    ASSUME BookInductive, NEW s \in Transactions, NEW p \in Counterparties, NEW key \in Keys \cup {NoValue},
           BeginCreate(s, p, key)
    PROVE  BookInductive'
<1> DEFINE t == [pc |-> "commit", op |-> "create", party |-> p, key |-> key, cleared |-> {}]
<1>1. t \in Open
  BY DEF Open, Creations
<1>2. Reads(t) /\ Current(t) /\ t.op = "create"
  BY DEF Reads, Current
<1>3. Starts(s, t)
  BY DEF BeginCreate
<1> HIDE DEF t
<1>4. QED
  BY <1>1, <1>2, <1>3, Starting

\* add_address.
LEMMA BeginAddStep ==
    ASSUME BookInductive, NEW s \in Transactions, NEW p \in Counterparties, NEW a \in Addresses,
           NEW fields \in Fields, NEW default \in BOOLEAN, BeginAdd(s, p, a, fields, default)
    PROVE  BookInductive'
<1> DEFINE row == [owner |-> p, fields |-> fields, default |-> default, fitness |-> Fitness(fields), alive |-> TRUE]
           t == [pc |-> IF default THEN "clear" ELSE "commit", op |-> "add", party |-> p,
                 address |-> a, cleared |-> {}, row |-> row]
<1>1. Fitness(fields) \in {"unusable", "door", "locality"}
  BY DEF Fitness
<1>2. row \in BookRows
  BY <1>1, BookAssumption DEF BookRows
<1>3. row.owner = p /\ row.fitness = Fitness(row.fields)
  OBVIOUS
<1>4. Starts(s, t) /\ address[a] = Absent /\ LiveParty(p)
  BY DEF BeginAdd
<1>5. \A q \in Transactions : session[q] # Resting /\ session[q].op = "add" => session[q].address # a
  BY KindsOfRecords, AtRestOrOpen DEF BeginAdd
<1> HIDE DEF row
<1>6. t \in Open
  BY <1>2 DEF Open, Additions
<1>7. Reads(t) /\ Current(t) /\ t.address = a
  BY <1>3, <1>4 DEF Reads, Current
<1> HIDE DEF t
<1>8. QED
  BY <1>4, <1>5, <1>6, <1>7, Starting

\* update_address.
LEMMA BeginUpdateStep ==
    ASSUME BookInductive, NEW s \in Transactions, NEW p \in Counterparties, NEW a \in Addresses,
           NEW fields \in Fields, NEW default \in {"yes", "no", NoValue}, BeginUpdate(s, p, a, fields, default)
    PROVE  BookInductive'
<1> DEFINE row == [address[a] EXCEPT !.fields = fields, !.fitness = Fitness(fields),
                                     !.default = IF default = NoValue THEN address[a].default ELSE default = "yes"]
           t == [pc |-> IF default = "yes" THEN "clear" ELSE "commit", op |-> "update",
                 party |-> p, address |-> a, cleared |-> {}, loaded |-> address[a], row |-> row]
<1>1. LiveParty(p) /\ LiveAddress(a) /\ address[a].owner = p
  BY DEF BeginUpdate
<1>2. address[a] \in BookRows
  BY <1>1 DEF BookInductive, BookTyped, LiveAddress, Absent
<1>3. Fitness(fields) \in {"unusable", "door", "locality"} /\ fields \in [{"city", "house", "foreign"} -> BOOLEAN]
  BY BookAssumption DEF Fitness
<1>4. (IF default = NoValue THEN address[a].default ELSE default = "yes") \in BOOLEAN
  BY <1>2 DEF BookRows
<1>5. row \in BookRows
  BY <1>2, <1>3, <1>4 DEF BookRows
<1>6. row.owner = p /\ row.alive /\ row.fields = fields /\ row.fitness = Fitness(fields)
  BY <1>1, <1>2 DEF BookRows, LiveAddress
<1>7. Starts(s, t)
  BY DEF BeginUpdate
<1> HIDE DEF row
<1>8. t \in Open
  BY <1>2, <1>5 DEF Open, Updates
<1>9. Reads(t) /\ Current(t) /\ t.op = "update"
  BY <1>1, <1>2, <1>6 DEF Reads, Current, LiveAddress
<1> HIDE DEF t
<1>10. QED
  BY <1>7, <1>8, <1>9, Starting

\* soft_delete.
LEMMA BeginDeleteStep ==
    ASSUME BookInductive, NEW s \in Transactions, NEW p \in Counterparties, BeginDelete(s, p)
    PROVE  BookInductive'
<1> DEFINE t == [pc |-> "commit", op |-> "delete", party |-> p, cleared |-> {},
                 addresses |-> {a \in Addresses : LiveAddress(a) /\ address[a].owner = p}]
<1>1. t \in Open
  BY DEF Open, Deletions
<1>2. party[p] \in PartyRows /\ \A a \in Addresses : LiveAddress(a) => address[a] \in BookRows
  BY DEF BeginDelete, BookInductive, BookTyped, LiveParty, LiveAddress, Absent
<1>3. Reads(t) /\ Current(t) /\ t.op = "delete"
  BY <1>2 DEF BeginDelete, Reads, Current
<1>4. Starts(s, t)
  BY DEF BeginDelete
<1> HIDE DEF t
<1>5. QED
  BY <1>1, <1>3, <1>4, Starting

\* clear_default_sender: the transaction goes on with what it has read.
LEMMA ClearDefaultStep ==
    ASSUME BookInductive, NEW s \in Transactions, ClearDefault(s)
    PROVE  BookInductive'
<1>1. session[s].pc = "clear" /\ UNCHANGED <<party, address, crossed>>
  BY DEF ClearDefault
<1>2. session[s] \in Additions \cup Updates
  <2>1. session[s] # Resting
    BY <1>1 DEF Resting
  <2>2. session[s] \in Open
    BY <2>1, AtRestOrOpen
  <2>3. \A t \in Creations \cup Deletions : t.pc = "commit"
    BY DEF Creations, Deletions
  <2>4. QED
    BY <1>1, <2>2, <2>3 DEF Open
<1>3. PICK marked \in SUBSET Addresses :
        /\ session' = [session EXCEPT ![s].pc = "commit", ![s].cleared = marked]
        /\ \A a \in marked : address[a].alive
        /\ session[s].op = "update" => session[s].address \notin marked
  <2> DEFINE marked == IF session[s].op = "update" THEN DefaultSenders \ {session[s].address} ELSE DefaultSenders
  <2>1. /\ marked \in SUBSET Addresses /\ \A a \in marked : address[a].alive
        /\ session[s].op = "update" => session[s].address \notin marked
    BY DEF DefaultSenders, LiveAddress
  <2>2. session' = [session EXCEPT ![s].pc = "commit", ![s].cleared = marked]
    BY DEF ClearDefault
  <2> HIDE DEF marked
  <2>3. QED
    BY <2>1, <2>2
<1> DEFINE t == [session[s] EXCEPT !.pc = "commit", !.cleared = marked]
<1>4. session' = [q \in Transactions |-> IF q = s THEN t ELSE session[q]]
  BY <1>3 DEF BookInductive, BookTyped
<1>5. \A a \in marked : address[a] \in BookRows
  BY <1>3 DEF BookInductive, BookTyped, Absent
<1>6. /\ t \in Additions \cup Updates /\ t.op = session[s].op /\ t.party = session[s].party
      /\ t.cleared = marked /\ t.address = session[s].address /\ t.row = session[s].row
      /\ t.op = "update" => t.loaded = session[s].loaded
  <2>1. CASE session[s] \in Additions
    <3>1. t \in Additions /\ t.op = "add" /\ session[s].op = "add"
      BY <2>1 DEF Additions
    <3>2. QED
      BY <2>1, <3>1 DEF Additions
  <2>2. CASE session[s] \in Updates
    <3>1. t \in Updates
      BY <2>2 DEF Updates
    <3>2. QED
      BY <2>2, <3>1 DEF Updates
  <2> HIDE DEF t
  <2>3. QED
    BY <1>2, <2>1, <2>2
<1> HIDE DEF t
<1>7. t.op \in {"add", "update"} /\ session[s] # Resting /\ t # Resting
  <2>1. t.op \in {"add", "update"}
    BY <1>6 DEF Additions, Updates
  <2>2. t \in Open /\ session[s] \in Open
    BY <1>2, <1>6 DEF Open
  <2>3. QED
    BY <2>1, <2>2, KindsOfRecords
<1>8. Reads(t) /\ (~crossed => Current(t))
  BY <1>3, <1>5, <1>6, <1>7, AtRestOrOpen DEF Reads, Current
<1>9. \A u : Reads(u)' = Reads(u) /\ Current(u)' = Current(u)
  BY <1>1 DEF Reads, Current, LiveParty, LiveAddress
<1>10. BookTyped'
  BY <1>1, <1>4, <1>6 DEF BookInductive, BookTyped, Open
<1>11. ReadsLast'
  BY <1>4, <1>8, <1>9 DEF BookInductive, ReadsLast
<1>12. NewOnesDiffer'
  BY <1>4, <1>6, <1>7 DEF BookInductive, NewOnesDiffer
<1>13. ReadsAreCurrent'
  <2>1. \A u : (Crosses(t, u) => Crosses(session[s], u)) /\ (Crosses(u, t) => Crosses(u, session[s]))
    BY <1>6 DEF Crosses
  <2>2. QED
    BY <1>1, <1>4, <1>7, <1>8, <1>9, <2>1 DEF BookInductive, ReadsAreCurrent, Apart
<1>14. BookIsConsistent'
  BY <1>1 DEF BookInductive, BookIsConsistent, LiveAddress, LiveParty
<1>15. QED
  BY <1>10, <1>11, <1>12, <1>13, <1>14 DEF BookInductive

\* What a transaction writes: no row is lost or changes its owner, nothing comes
\* up but its own new row, and only what it is about changes in more than the mark.
Same(a) ==
    /\ address'[a].alive = address[a].alive /\ address'[a].fields = address[a].fields
    /\ address'[a].fitness = address[a].fitness
SameFields(a) == address'[a].fields = address[a].fields /\ address'[a].fitness = address[a].fitness
Writes(t) ==
    /\ address' \in [Addresses -> BookRows \cup {Absent}]
    /\ \A a \in Addresses :
          /\ address[a] \in BookRows => /\ address'[a] \in BookRows /\ address'[a].owner = address[a].owner
                                        /\ address'[a].alive => address[a].alive
          /\ address[a] = Absent => \/ address'[a] = Absent
                                    \/ t.op = "add" /\ a = t.address /\ address'[a] = t.row
          /\ address[a] \in BookRows => \/ Same(a)
                                        \/ t.op = "update" /\ a = t.address
                                        \/ t.op = "delete" /\ a \in t.addresses /\ SameFields(a)
    /\ t.op = "update" /\ ~crossed => /\ address'[t.address].fitness = t.row.fitness
                                      /\ address'[t.address].fields = t.row.fields
    /\ t.op = "delete" => \A a \in t.addresses : ~address'[a].alive

\* What add_address writes into one row.
LEMMA AddColumns ==
    ASSUME NEW s, session[s].op = "add", session[s].address \notin session[s].cleared,
           address' = Written(s), NEW a \in Addresses
    PROVE  address'[a] = IF a \in session[s].cleared THEN Unmarked(address[a])
                         ELSE IF a = session[s].address THEN session[s].row ELSE address[a]
<1>1. CASE a \in session[s].cleared
  BY <1>1 DEF Written
<1>2. CASE a \notin session[s].cleared /\ a = session[s].address
  BY <1>2 DEF Written
<1>3. CASE a \notin session[s].cleared /\ a # session[s].address
  BY <1>3 DEF Written
<1>4. QED
  BY <1>1, <1>2, <1>3

\* What update_address writes into one row.
LEMMA UpdateColumns ==
    ASSUME NEW s, session[s].op = "update", session[s].address \notin session[s].cleared,
           address' = Written(s), NEW a \in Addresses
    PROVE  address'[a] = IF a \in session[s].cleared THEN Unmarked(address[a])
                         ELSE IF a = session[s].address THEN Merged(s, address[a]) ELSE address[a]
<1>1. CASE a \in session[s].cleared
  BY <1>1 DEF Written
<1>2. CASE a \notin session[s].cleared /\ a = session[s].address
  BY <1>2 DEF Written
<1>3. CASE a \notin session[s].cleared /\ a # session[s].address
  BY <1>3 DEF Written
<1>4. QED
  BY <1>1, <1>2, <1>3

\* What soft_delete writes into one row.
LEMMA DeleteColumns ==
    ASSUME NEW s, session[s].op = "delete", session[s].cleared = {}, address' = Written(s), NEW a \in Addresses
    PROVE  address'[a] = IF a \in session[s].addresses THEN Gone(address[a]) ELSE address[a]
BY DEF Written

\* create writes no address.
LEMMA CreateColumns ==
    ASSUME NEW s, session[s].op = "create", session[s].cleared = {}, address' = Written(s), NEW a \in Addresses
    PROVE  address'[a] = address[a]
BY DEF Written

\* The rows remain a function of their numbers.
LEMMA WrittenIsFunction == ASSUME NEW s, address' = Written(s) PROVE address' = [a \in Addresses |-> address'[a]]
BY DEF Written

\* A row that loses its mark is a row, and the same but for it.
LEMMA UnmarkedRow ==
    ASSUME NEW r \in BookRows
    PROVE  /\ Unmarked(r) \in BookRows /\ Unmarked(r).owner = r.owner /\ Unmarked(r).alive = r.alive
           /\ Unmarked(r).fields = r.fields /\ Unmarked(r).fitness = r.fitness
BY DEF BookRows, Unmarked

\* A row that is deleted remains a row, of the same owner.
LEMMA GoneRow ==
    ASSUME NEW r \in BookRows
    PROVE  /\ Gone(r) \in BookRows /\ Gone(r).owner = r.owner /\ ~Gone(r).alive
           /\ Gone(r).fields = r.fields /\ Gone(r).fitness = r.fitness
BY DEF BookRows, Gone

\* add_address: its own row is new, and others lose the mark.
LEMMA AddWrites ==
    ASSUME BookInductive, NEW s \in Transactions, session[s] # Resting, session[s].op = "add",
           address' = Written(s)
    PROVE  Writes(session[s])
<1> PICK t : t = session[s]
  OBVIOUS
<1>1. t \in Additions /\ Reads(t) /\ address \in [Addresses -> BookRows \cup {Absent}]
  BY AtRestOrOpen, KindsOfRecords DEF BookInductive, BookTyped
<1>3. t.row \in BookRows /\ address[t.address] = Absent /\ t.address \notin t.cleared
      /\ \A a \in t.cleared : address[a] \in BookRows
  BY <1>1, KindsOfRecords DEF Additions, Reads
<1>2. \A a \in Addresses : address'[a] = IF a \in t.cleared THEN Unmarked(address[a])
                                          ELSE IF a = t.address THEN t.row ELSE address[a]
  BY <1>3, AddColumns
<1>4. ASSUME NEW a \in Addresses
      PROVE  /\ address'[a] \in BookRows \cup {Absent}
             /\ address[a] \in BookRows => /\ address'[a] \in BookRows /\ address'[a].owner = address[a].owner
                                           /\ address'[a].alive => address[a].alive
             /\ address[a] = Absent => address'[a] = Absent \/ (a = t.address /\ address'[a] = t.row)
             /\ address[a] \in BookRows => Same(a)
  <2>1. CASE a \in t.cleared
    BY <1>2, <1>3, <2>1, UnmarkedRow, KindsOfRecords DEF Same
  <2>2. CASE a \notin t.cleared
    BY <1>1, <1>2, <1>3, <2>2, KindsOfRecords DEF Same
  <2>3. QED
    BY <2>1, <2>2
<1>5. address' = [a \in Addresses |-> address'[a]]
  BY WrittenIsFunction
<1>6. t.op = "add"
  OBVIOUS
<1>7. Writes(t)
  BY <1>4, <1>5, <1>6 DEF Writes
<1>8. QED
  BY <1>7

\* update_address: over its row it writes what it changed, and others lose the mark.
LEMMA UpdateWrites ==
    ASSUME BookInductive, NEW s \in Transactions, session[s] # Resting, session[s].op = "update",
           address' = Written(s)
    PROVE  Writes(session[s])
<1> PICK t : t = session[s]
  OBVIOUS
<1> DEFINE old == address[t.address]
           new == address'[t.address]
<1>1. t \in Updates /\ Reads(t) /\ (~crossed => Current(t)) /\ address \in [Addresses -> BookRows \cup {Absent}]
  BY AtRestOrOpen, KindsOfRecords DEF BookInductive, BookTyped
<1>2. \A a \in Addresses : address'[a] = IF a \in t.cleared THEN Unmarked(address[a])
                                          ELSE IF a = t.address THEN Merged(s, address[a]) ELSE address[a]
  BY <1>1, UpdateColumns DEF Reads
<1>3. /\ t.row \in BookRows /\ t.loaded \in BookRows /\ old \in BookRows /\ t.address \in Addresses
      /\ \A a \in t.cleared : address[a] \in BookRows
  BY <1>1 DEF Updates, Reads
<1>4. PICK m : m = Merged(s, old)
  OBVIOUS
<1> DEFINE fields == [f \in DOMAIN old.fields |-> IF t.row.fields[f] = t.loaded.fields[f]
                                                    THEN old.fields[f] ELSE t.row.fields[f]]
           default == IF t.row.default = t.loaded.default THEN old.default ELSE t.row.default
           fitness == IF t.row.fitness = t.loaded.fitness THEN old.fitness ELSE t.row.fitness
<1>5. m = [old EXCEPT !.fields = fields, !.default = default, !.fitness = fitness]
  BY <1>4 DEF Merged
<1>6. /\ fields \in [{"city", "house", "foreign"} -> BOOLEAN] /\ default \in BOOLEAN
      /\ fitness \in {"unusable", "door", "locality"}
  BY <1>3 DEF BookRows
<1>7. ~crossed => fields = t.row.fields /\ fitness = t.row.fitness
  <2> SUFFICES ASSUME ~crossed PROVE fields = t.row.fields /\ fitness = t.row.fitness
    OBVIOUS
  <2>1. old.fields = t.loaded.fields /\ old.fitness = t.loaded.fitness
    BY <1>1, KindsOfRecords DEF Current
  <2>2. fields = t.row.fields
    BY <1>3, <2>1 DEF BookRows
  <2>3. QED
    BY <2>1, <2>2
<1> HIDE DEF fields, default, fitness
<1>8. m \in BookRows /\ m.owner = old.owner /\ m.alive = old.alive /\ m.fields = fields /\ m.fitness = fitness
  BY <1>3, <1>5, <1>6 DEF BookRows
<1>9. ASSUME NEW a \in Addresses
      PROVE  /\ address'[a] \in BookRows \cup {Absent}
             /\ address[a] \in BookRows => /\ address'[a] \in BookRows /\ address'[a].owner = address[a].owner
                                           /\ address'[a].alive => address[a].alive
             /\ address[a] = Absent => address'[a] = Absent
             /\ address[a] \in BookRows => Same(a) \/ a = t.address
  <2>1. CASE a \in t.cleared
    BY <1>2, <1>3, <2>1, UnmarkedRow, KindsOfRecords DEF Same
  <2>2. CASE a \notin t.cleared /\ a = t.address
    BY <1>2, <1>3, <1>4, <1>8, <2>2, KindsOfRecords
  <2>3. CASE a \notin t.cleared /\ a # t.address
    BY <1>1, <1>2, <2>3, KindsOfRecords DEF Same
  <2>4. QED
    BY <2>1, <2>2, <2>3
<1>10. t.address \notin t.cleared => new = m
  BY <1>2, <1>3, <1>4
<1>11. t.address \notin t.cleared /\ t.op = "update"
  BY <1>1 DEF Reads
<1>12. ~crossed => new.fitness = t.row.fitness /\ new.fields = t.row.fields
  BY <1>7, <1>8, <1>10, <1>11
<1> HIDE DEF old, new
<1>13. address' = [a \in Addresses |-> address'[a]]
  BY WrittenIsFunction
<1>14. Writes(t)
  BY <1>9, <1>11, <1>12, <1>13 DEF Writes, new
<1>15. QED
  BY <1>14

\* soft_delete: the rows it has read are down, and stay its owner's.
LEMMA DeleteWrites ==
    ASSUME BookInductive, NEW s \in Transactions, session[s] # Resting, session[s].op = "delete",
           address' = Written(s)
    PROVE  Writes(session[s])
<1> PICK t : t = session[s]
  OBVIOUS
<1>1. t \in Deletions /\ Reads(t) /\ address \in [Addresses -> BookRows \cup {Absent}] /\ t.op = "delete"
  BY AtRestOrOpen, KindsOfRecords DEF BookInductive, BookTyped
<1>2. t.cleared = {} /\ t.addresses \in SUBSET Addresses /\ \A a \in t.addresses : address[a] \in BookRows
  BY <1>1 DEF Deletions, Reads
<1>3. \A a \in Addresses : address'[a] = IF a \in t.addresses THEN Gone(address[a]) ELSE address[a]
  BY <1>2, DeleteColumns
<1>4. ASSUME NEW a \in Addresses
      PROVE  /\ address'[a] \in BookRows \cup {Absent}
             /\ address[a] \in BookRows => /\ address'[a] \in BookRows /\ address'[a].owner = address[a].owner
                                           /\ address'[a].alive => address[a].alive
             /\ address[a] = Absent => address'[a] = Absent
             /\ address[a] \in BookRows => Same(a) \/ (a \in t.addresses /\ SameFields(a))
             /\ a \in t.addresses => ~address'[a].alive
  <2>1. CASE a \in t.addresses
    BY <1>2, <1>3, <2>1, GoneRow, KindsOfRecords DEF SameFields
  <2>2. CASE a \notin t.addresses
    BY <1>1, <1>3, <2>2, KindsOfRecords DEF Same
  <2>3. QED
    BY <2>1, <2>2
<1>5. address' = [a \in Addresses |-> address'[a]]
  BY WrittenIsFunction
<1>6. Writes(t)
  BY <1>1, <1>2, <1>4, <1>5 DEF Writes
<1>7. QED
  BY <1>6

\* create writes no address.
LEMMA CreateWrites ==
    ASSUME BookInductive, NEW s \in Transactions, session[s] # Resting, session[s].op = "create",
           address' = Written(s)
    PROVE  Writes(session[s])
<1> PICK t : t = session[s]
  OBVIOUS
<1>1. t \in Creations /\ t.cleared = {} /\ address \in [Addresses -> BookRows \cup {Absent}] /\ t.op = "create"
  BY AtRestOrOpen, KindsOfRecords DEF BookInductive, BookTyped, Creations
<1>2. address' = [a \in Addresses |-> address'[a]] /\ \A a \in Addresses : address'[a] = address[a]
  BY <1>1, WrittenIsFunction, CreateColumns
<1>3. Writes(t)
  BY <1>1, <1>2, KindsOfRecords DEF Writes, Same
<1>4. QED
  BY <1>3

\* What a transaction writes of the counterparties: only its own, which lives on
\* unless it is deleted.
WritesParty(t) ==
    /\ party' \in [Counterparties -> PartyRows \cup {Absent}]
    /\ \A p \in Counterparties :
          /\ p # t.party => party'[p] = party[p]
          /\ party[p] \in PartyRows => party'[p] \in PartyRows
          /\ t.op # "delete" /\ LiveParty(p) => party'[p].alive

\* That is what WrittenParty says, for each operation.
LEMMA PartyWritten ==
    ASSUME BookInductive, NEW s \in Transactions, session[s] # Resting, party' = WrittenParty(s)
    PROVE  WritesParty(session[s])
<1> PICK t : t = session[s]
  OBVIOUS
<1>1. t \in Open /\ Reads(t) /\ party \in [Counterparties -> PartyRows \cup {Absent}]
  BY AtRestOrOpen DEF BookInductive, BookTyped
<1>2. t.party \in Counterparties /\ t.op \in {"create", "add", "update", "delete"}
  BY <1>1, KindsOfRecords
<1>3. CASE t.op = "create"
  <2>1. PICK r \in PartyRows : r.alive /\ party' = [party EXCEPT ![t.party] = r]
    <3>1. t.key \in Keys \cup {NoValue}
      BY <1>1, <1>3, KindsOfRecords DEF Creations
    <3>2. [key |-> t.key, alive |-> TRUE] \in PartyRows
      BY <3>1 DEF PartyRows
    <3>3. party' = [party EXCEPT ![t.party] = [key |-> t.key, alive |-> TRUE]]
      BY <1>3 DEF WrittenParty
    <3>4. QED
      BY <3>2, <3>3
  <2>2. QED
    BY <1>1, <1>2, <1>3, <2>1 DEF WritesParty, LiveParty
<1>4. CASE t.op = "delete"
  <2>1. party[t.party] \in PartyRows
    BY <1>1, <1>4 DEF Reads
  <2>2. PICK r \in PartyRows : party' = [party EXCEPT ![t.party] = r]
    <3>1. [party[t.party] EXCEPT !.alive = FALSE] \in PartyRows
      BY <2>1 DEF PartyRows
    <3>2. party' = [party EXCEPT ![t.party] = [party[t.party] EXCEPT !.alive = FALSE]]
      BY <1>4 DEF WrittenParty
    <3>3. QED
      BY <3>1, <3>2
  <2>3. QED
    BY <1>1, <1>2, <1>4, <2>1, <2>2 DEF WritesParty
<1>5. CASE t.op \in {"add", "update"}
  <2>1. party' = party
    BY <1>5 DEF WrittenParty
  <2>2. QED
    BY <1>1, <1>5, <2>1 DEF WritesParty, LiveParty
<1>6. QED
  BY <1>2, <1>3, <1>4, <1>5


\* The rows that a transaction has read are there whatever another one writes.
LEMMA ReadsRemain ==
    ASSUME BookTyped, NEW t \in Open, NEW u \in Open, Writes(t), WritesParty(t), Reads(u),
           u.op = "add" /\ t.op = "add" => u.address # t.address
    PROVE  Reads(u)'
<1>1. \A a \in u.cleared : a \in Addresses
  BY DEF Open, Creations, Additions, Updates, Deletions
<1>2. u.op \in {"add", "update"} => u.address \in Addresses
  BY KindsOfRecords DEF Additions, Updates
<1>3. u.op = "delete" => u.addresses \in SUBSET Addresses
  BY KindsOfRecords DEF Deletions
<1>4. u.party \in Counterparties
  BY KindsOfRecords
<1>5. \A a \in Addresses : address[a] \in BookRows => address'[a] \in BookRows
  BY DEF Writes
<1>6. u.op = "add" => address'[u.address] = Absent
  BY <1>2 DEF Writes, Reads
<1>7. party[u.party] \in PartyRows => party'[u.party] \in PartyRows
  BY <1>4 DEF WritesParty
<1>8. QED
  BY <1>1, <1>2, <1>3, <1>5, <1>6, <1>7 DEF Reads

\* What a transaction has read is what the rows still say after one that does not
\* cross it has written.
LEMMA CurrentRemains ==
    ASSUME BookTyped, NEW t \in Open, NEW u \in Open, ~Crosses(t, u),
           Reads(u), Current(t), Current(u), Writes(t), WritesParty(t)
    PROVE  Current(u)'
<1>1. u.party \in Counterparties
  BY KindsOfRecords
<1>2. CASE u.op = "create"
  BY <1>2 DEF Current
<1>3. CASE u.op = "add"
  <2>1. LiveParty(u.party) /\ u.row.owner = u.party /\ u.row.fitness = Fitness(u.row.fields)
    BY <1>3 DEF Current
  <2>2. t.op = "delete" => u.party # t.party
    BY <1>3 DEF Crosses
  <2>3. party'[u.party].alive
    BY <1>1, <2>1, <2>2, KindsOfRecords DEF WritesParty, LiveParty
  <2>4. QED
    BY <1>3, <2>1, <2>3 DEF Current, LiveParty
<1>4. CASE u.op = "update"
  <2>1. u.address \in Addresses /\ address[u.address] \in BookRows
    BY <1>4, KindsOfRecords DEF Updates, Reads
  <2>2. ~(t.op = "update" /\ u.address = t.address)
    BY <1>4 DEF Crosses
  <2>3. SameFields(u.address)
    BY <2>1, <2>2 DEF Writes, Same, SameFields
  <2>4. u.row.fitness = Fitness(u.row.fields) /\ address[u.address].fields = u.loaded.fields
        /\ address[u.address].fitness = u.loaded.fitness
    BY <1>4 DEF Current
  <2>5. QED
    BY <1>4, <2>3, <2>4 DEF Current, SameFields
<1>5. CASE u.op = "delete"
  <2>1. ASSUME NEW a \in Addresses, address'[a].alive, address'[a].owner = u.party
        PROVE  a \in u.addresses
    <3>1. CASE address[a] \in BookRows
      <4>1. address[a].alive /\ address[a].owner = u.party
        BY <2>1, <3>1 DEF Writes
      <4>2. QED
        BY <1>5, <4>1 DEF Current, LiveAddress
    <3>2. CASE address[a] = Absent
      <4>1. ~Absent.alive
        BY DEF Absent
      <4>2. t.op = "add" /\ address'[a] = t.row
        BY <2>1, <3>2, <4>1 DEF Writes
      <4>3. t.party = u.party
        BY <2>1, <4>2 DEF Current
      <4>4. QED
        BY <1>5, <4>2, <4>3 DEF Crosses
    <3>3. QED
      BY <3>1, <3>2 DEF BookTyped
  <2>2. QED
    BY <1>5, <2>1 DEF Current, LiveAddress
<1>6. QED
  BY <1>2, <1>3, <1>4, <1>5, KindsOfRecords

\* The addresses are consistent after a transaction that read them so, and that no
\* other crossed, has written.
LEMMA ConsistentWrites ==
    ASSUME BookTyped, ~crossed, ~crossed', BookIsConsistent, NEW t \in Open, Reads(t), Current(t),
           Writes(t), WritesParty(t)
    PROVE  BookIsConsistent'
<1> SUFFICES ASSUME NEW a \in Addresses, address'[a].alive
             PROVE  address'[a].fitness = Fitness(address'[a].fields) /\ party'[address'[a].owner].alive
  BY DEF BookIsConsistent, LiveAddress, LiveParty
<1>1. CASE address[a] = Absent
  <2>1. ~Absent.alive
    BY DEF Absent
  <2>2. t.op = "add" /\ address'[a] = t.row
    BY <1>1, <2>1 DEF Writes
  <2>3. t.row.owner = t.party /\ t.row.fitness = Fitness(t.row.fields) /\ LiveParty(t.party)
    BY <2>2 DEF Current
  <2>4. party'[t.party].alive
    BY <2>2, <2>3, KindsOfRecords DEF WritesParty
  <2>5. QED
    BY <2>2, <2>3, <2>4
<1>2. CASE address[a] \in BookRows
  <2>1. address[a].alive /\ address'[a].owner = address[a].owner /\ address[a].owner \in Counterparties
    BY <1>2 DEF Writes, BookRows
  <2>2. address[a].fitness = Fitness(address[a].fields) /\ LiveParty(address[a].owner)
    BY <2>1 DEF BookIsConsistent, LiveAddress
  <2>3. party'[address[a].owner].alive
    <3>1. CASE t.op = "delete"
      <4>1. a \notin t.addresses
        BY <3>1 DEF Writes
      <4>2. address[a].owner # t.party
        BY <2>1, <3>1, <4>1 DEF Current, LiveAddress
      <4>3. QED
        BY <2>1, <2>2, <4>2 DEF WritesParty, LiveParty
    <3>2. CASE t.op # "delete"
      BY <2>1, <2>2, <3>2 DEF WritesParty
    <3>3. QED
      BY <3>1, <3>2
  <2>4. address'[a].fitness = Fitness(address'[a].fields)
    <3>1. CASE Same(a)
      BY <2>2, <3>1 DEF Same
    <3>2. CASE t.op = "update" /\ a = t.address
      <4>1. address'[t.address].fitness = t.row.fitness /\ address'[t.address].fields = t.row.fields
        BY <3>2 DEF Writes
      <4>2. t.row.fitness = Fitness(t.row.fields)
        BY <3>2 DEF Current
      <4>3. QED
        BY <3>2, <4>1, <4>2
    <3>3. CASE t.op = "delete" /\ a \in t.addresses
      BY <3>3 DEF Writes
    <3>4. QED
      BY <1>2, <3>1, <3>2, <3>3 DEF Writes
  <2>5. QED
    BY <2>1, <2>3, <2>4
<1>3. QED
  BY <1>1, <1>2 DEF BookTyped

\* The commit of a transaction whose rows no index refuses.
LEMMA CommitWrites ==
    ASSUME BookInductive, NEW s \in Transactions, Commit(s), party' = WrittenParty(s), address' = Written(s)
    PROVE  BookInductive'
<1>1. /\ session' = [session EXCEPT ![s] = Resting] /\ crossed' = crossed
      /\ session[s] # Resting
  BY DEF Commit, Resting
<1>2. session' = [q \in Transactions |-> IF q = s THEN Resting ELSE session[q]]
  BY <1>1 DEF BookInductive, BookTyped
<1> PICK t : t = session[s]
  OBVIOUS
<1>3. t \in Open /\ Reads(t) /\ (~crossed => Current(t)) /\ BookTyped
  BY <1>1, AtRestOrOpen DEF BookInductive
<1>4. Writes(t)
  BY <1>1, <1>3, KindsOfRecords, AddWrites, UpdateWrites, DeleteWrites, CreateWrites
<1>5. WritesParty(t)
  BY <1>1, PartyWritten
<1>6. BookTyped'
  BY <1>2, <1>3, <1>4, <1>5 DEF BookTyped, Writes, WritesParty
<1>7. ReadsLast'
  <2> SUFFICES ASSUME NEW q \in Transactions, session'[q] # Resting PROVE Reads(session[q])'
    BY DEF ReadsLast
  <2> PICK u : u = session[q]
    OBVIOUS
  <2>1. q # s /\ session'[q] = u /\ u # Resting
    BY <1>2
  <2>2. u \in Open /\ Reads(u)
    BY <2>1, AtRestOrOpen
  <2>3. u.op = "add" /\ t.op = "add" => u.address # t.address
    BY <1>1, <2>1 DEF BookInductive, NewOnesDiffer
  <2>4. Reads(u)'
    BY <1>3, <1>4, <1>5, <2>2, <2>3, ReadsRemain
  <2>5. QED
    BY <2>1, <2>4
<1>8. NewOnesDiffer'
  BY <1>2 DEF BookInductive, NewOnesDiffer
<1>9. ReadsAreCurrent'
  <2> SUFFICES ASSUME ~crossed PROVE Apart' /\ \A q \in Transactions : session'[q] # Resting => Current(session[q])'
    BY <1>1 DEF ReadsAreCurrent
  <2>1. Apart'
    BY <1>2 DEF BookInductive, ReadsAreCurrent, Apart
  <2>2. ASSUME NEW q \in Transactions, session'[q] # Resting PROVE Current(session[q])'
    <3> PICK u : u = session[q]
      OBVIOUS
    <3>1. q # s /\ session'[q] = u /\ u # Resting
      BY <1>2, <2>2
    <3>2. u \in Open /\ Reads(u) /\ Current(u)
      BY <3>1, AtRestOrOpen
    <3>3. ~Crosses(t, u)
      BY <1>1, <3>1 DEF BookInductive, ReadsAreCurrent, Apart
    <3>4. Current(u)'
      BY <1>3, <1>4, <1>5, <3>2, <3>3, CurrentRemains
    <3>5. QED
      BY <3>1, <3>4
  <2>3. QED
    BY <2>1, <2>2
<1>10. BookIsConsistent'
  <2>1. CASE crossed
    BY <1>1, <2>1 DEF BookIsConsistent
  <2>2. CASE ~crossed
    BY <1>1, <1>3, <1>4, <1>5, <2>2, ConsistentWrites DEF BookInductive
  <2>3. QED
    BY <2>1, <2>2
<1>11. QED
  BY <1>6, <1>7, <1>8, <1>9, <1>10 DEF BookInductive

\* The end of a request: it writes all of it or nothing.
LEMMA CommitStep ==
    ASSUME BookInductive, NEW s \in Transactions, Commit(s)
    PROVE  BookInductive'
<1>1. CASE IndexesHold(WrittenParty(s), Written(s))
  BY <1>1, CommitWrites DEF Commit
<1>2. CASE ~IndexesHold(WrittenParty(s), Written(s))
  BY <1>2, Forgetting DEF Commit
<1>3. QED
  BY <1>1, <1>2

\* Every step of the address book preserves the invariant.
LEMMA BookStep == ASSUME BookInductive, [BookNext]_bookVars PROVE BookInductive'
<1>1. CASE UNCHANGED bookVars
  BY <1>1 DEF bookVars, BookInductive, BookTyped, ReadsLast, NewOnesDiffer, ReadsAreCurrent, BookIsConsistent,
              Reads, Current, Apart, LiveParty, LiveAddress
<1>2. ASSUME NEW s \in Transactions, NEW p \in Counterparties, NEW key \in Keys \cup {NoValue}, BeginCreate(s, p, key)
      PROVE  BookInductive'
  BY <1>2, BeginCreateStep
<1>3. ASSUME NEW s \in Transactions, NEW p \in Counterparties, NEW a \in Addresses, NEW fields \in Fields,
             NEW default \in BOOLEAN, BeginAdd(s, p, a, fields, default)
      PROVE  BookInductive'
  BY <1>3, BeginAddStep
<1>4. ASSUME NEW s \in Transactions, NEW p \in Counterparties, NEW a \in Addresses, NEW fields \in Fields,
             NEW default \in {"yes", "no", NoValue}, BeginUpdate(s, p, a, fields, default)
      PROVE  BookInductive'
  BY <1>4, BeginUpdateStep
<1>5. ASSUME NEW s \in Transactions, NEW p \in Counterparties, BeginDelete(s, p)
      PROVE  BookInductive'
  BY <1>5, BeginDeleteStep
<1>6. ASSUME NEW s \in Transactions, ClearDefault(s)
      PROVE  BookInductive'
  BY <1>6, ClearDefaultStep
<1>7. ASSUME NEW s \in Transactions, Commit(s)
      PROVE  BookInductive'
  BY <1>7, CommitStep
<1>8. ASSUME NEW s \in Transactions, Refuse(s)
      PROVE  BookInductive'
  BY <1>8, Forgetting DEF Refuse
<1>9. QED
  BY <1>1, <1>2, <1>3, <1>4, <1>5, <1>6, <1>7, <1>8 DEF BookNext

\* An empty book is consistent.
LEMMA BookStart == BookInit => BookInductive
BY DEF BookInit, BookInductive, BookTyped, ReadsLast, NewOnesDiffer, ReadsAreCurrent, Apart, BookIsConsistent,
       LiveAddress, Absent

\* core/service.py, core/repository.py: unless two requests about one counterparty
\* were open at once, an address is as fit as its fields say, and belongs to a
\* counterparty that was not deleted, however requests interleave.
THEOREM BookStaysConsistent == BookSpec => []BookIsConsistent
<1>1. BookInductive => BookIsConsistent
  BY DEF BookInductive
<1>2. QED
  BY <1>1, BookStart, BookStep, PTL DEF BookSpec

(***************************************************************************)
(* The directories. A confirmed mapping outlives every catalog: a sync     *)
(* folds its upserts over the rows, and each of them leaves it alone. The  *)
(* induction over the length of a catalog goes by the least place at which *)
(* it could have gone wrong.                                               *)
(***************************************************************************)

\* What the look-up makes of a row of a catalog, and what is stored of a city.
Methods == {"fias", "kladr", "exact_name", "fuzzy_name", "manual"}
Matches == [city : Fias, method : Methods, score : Int, confirmed : BOOLEAN]
              \cup [city : {Missing}, reason : {"no_match", "ambiguous"}]
Plans == [row : CarrierRows, match : Matches]
Mappings == [code : CarrierCodes, method : Methods, confirmed : BOOLEAN]
CityTables == [Fias -> Mappings \cup {Missing}]
Shown == {"active", "closed", Missing}
Syncs == [pc : {"sync"}, catalog : Answers, loaded : [Terminals -> Shown], plan : Seq(Plans)]
Confirmations == [pc : {"confirm"}, code : CarrierCodes, city : Fias]
DirectoryTyped ==
    /\ known \in SUBSET Fias
    /\ mapping \in CityTables
    /\ terminals \in [Terminals -> Shown] /\ reported \in [Terminals -> Shown]
    /\ desk \in [Desks -> Syncs \cup Confirmations \cup {Vacant}]

\* The city of a quote is in the directory under the name that was asked for, and
\* the mapping it was certain of is confirmed and has the same code.
Certain(map, f) == map[f] # Missing /\ map[f].confirmed
OfThatName(name, region) ==
    {f \in Search(name) : City[f].name = name /\ (region # Missing => City[f].region = region)}
QuotesAreCertain ==
    \A q \in quoted : /\ q.city \in OfThatName(q.name, q.region)
                      /\ q.certain => Certain(mapping, q.city) /\ mapping[q.city].code = q.code

\* As long as no two syncs overlap, the one that is open has read the terminals
\* as they are.
SyncsAreAlone ==
    ~collided => /\ terminals = reported
                 /\ \A s \in Desks : desk[s].pc = "sync" => desk[s].loaded = terminals
                 /\ \A s, q \in Desks : desk[s].pc = "sync" /\ desk[q].pc = "sync" => s = q

DirectoryInductive == DirectoryTyped /\ QuotesAreCertain /\ SyncsAreAlone

\* A set of natural numbers that is not empty has a least one.
LEMMA LeastNumber ==
    ASSUME NEW T \in SUBSET Nat, T # {}
    PROVE  \E m \in T : \A n \in T : m <= n
<1>1. \E m \in T : \A n \in T : ~(<<n, m>> \in OpToRel(<, Nat))
  <2>1. IsWellFoundedOn(OpToRel(<, Nat), Nat)
    BY NatLessThanWellFounded
  <2> HIDE DEF OpToRel
  <2> QED BY <2>1, WFMin
<1>2. PICK m \in T : \A n \in T : ~(n < m)
  BY <1>1 DEF OpToRel
<1> QED BY <1>2

\* One row of a catalog.
Mapped(map, p) == IF p.match.city = Missing THEN map ELSE Upsert(map, p.match.city, p.row.code, p.match)

\* A table that came about row by row, of the rows at some places.
Tabled(g, D, plan) ==
    g = [S \in SUBSET D |-> IF S = {} THEN mapping ELSE Mapped(g[S \ {Max(S)}], plan[Max(S)])]

LEMMA MappedByRows ==
    ASSUME NEW plan
    PROVE  MappedBy(plan) = (CHOOSE g : Tabled(g, DOMAIN plan, plan))[DOMAIN plan]
BY DEF MappedBy, FoldLeft, MapThenFoldSet, Tabled, Mapped

\* Rows can be put into the table one after the other.
LEMMA TableExists ==
    ASSUME NEW plan, NEW n \in Nat
    PROVE  \E g : Tabled(g, 1..n, plan)
<1> DEFINE Possible(k) == \E g : Tabled(g, 1..k, plan)
           Bad == {k \in Nat : ~Possible(k)}
<1>1. Possible(0)
  <2> DEFINE g == [S \in SUBSET (1..0) |-> mapping]
  <2>1. SUBSET (1..0) = {{}}
    OBVIOUS
  <2>2. Tabled(g, 1..0, plan)
    BY <2>1 DEF Tabled
  <2>3. QED
    BY <2>2
<1>2. ASSUME NEW k \in Nat, Possible(k) PROVE Possible(k + 1)
  <2>1. PICK g : Tabled(g, 1..k, plan)
    BY <1>2
  <2> DEFINE h == [S \in SUBSET (1..(k + 1)) |-> IF k + 1 \in S THEN Mapped(g[S \ {k + 1}], plan[k + 1]) ELSE g[S]]
  <2>2. \A S \in SUBSET (1..k) : /\ S \in SUBSET (1..(k + 1)) /\ k + 1 \notin S /\ h[S] = g[S]
    OBVIOUS
  <2>3. ASSUME NEW S \in SUBSET (1..(k + 1))
        PROVE  h[S] = IF S = {} THEN mapping ELSE Mapped(h[S \ {Max(S)}], plan[Max(S)])
    <3>1. CASE k + 1 \in S
      <4>1. Max(S) = k + 1
        <5>1. \A x \in S : k + 1 >= x
          OBVIOUS
        <5>2. \A x \in S : (\A y \in S : x >= y) => x = k + 1
          BY <3>1, <5>1
        <5>3. QED
          BY <3>1, <5>1, <5>2 DEF Max
      <4>2. S \ {k + 1} \in SUBSET (1..k)
        OBVIOUS
      <4>3. h[S \ {k + 1}] = g[S \ {k + 1}] /\ h[S] = Mapped(g[S \ {k + 1}], plan[k + 1])
        BY <2>2, <3>1, <4>2
      <4> HIDE DEF h
      <4>4. QED
        BY <3>1, <4>1, <4>3
    <3>2. CASE k + 1 \notin S
      <4>1. S \subseteq 1..k /\ S \ {Max(S)} \subseteq 1..k
        <5>1. S \subseteq 1..k
          BY <3>2
        <5>2. QED
          BY <5>1
      <4>2. g[S] = IF S = {} THEN mapping ELSE Mapped(g[S \ {Max(S)}], plan[Max(S)])
        BY <2>1, <4>1 DEF Tabled
      <4>3. h[S] = g[S] /\ h[S \ {Max(S)}] = g[S \ {Max(S)}]
        BY <2>2, <4>1
      <4> HIDE DEF h
      <4>4. QED
        BY <4>2, <4>3
    <3>3. QED
      BY <3>1, <3>2
  <2>4. Tabled(h, 1..(k + 1), plan)
    <3>1. h = [S \in SUBSET (1..(k + 1)) |-> h[S]]
      OBVIOUS
    <3> HIDE DEF h
    <3>2. QED
      BY <2>3, <3>1 DEF Tabled
  <2>5. QED
    BY <2>4
<1> HIDE DEF Possible
<1>3. Bad = {}
  <2> SUFFICES ASSUME Bad # {} PROVE FALSE
    OBVIOUS
  <2>1. Bad \in SUBSET Nat
    OBVIOUS
  <2> HIDE DEF Bad
  <2>2. PICK k \in Bad : \A j \in Bad : k <= j
    BY <2>1, LeastNumber
  <2> USE DEF Bad
  <2>3. k \in Nat /\ k # 0 /\ ~Possible(k)
    BY <1>1, <2>2
  <2>4. k - 1 \in Nat /\ k - 1 \notin Bad /\ (k - 1) + 1 = k
    BY <2>2, <2>3
  <2>5. QED
    BY <1>2, <2>3, <2>4
<1>4. QED
  BY <1>3 DEF Possible

\* A row of a catalog leaves a table a table, and a confirmed mapping as it is.
LEMMA MappedRow ==
    ASSUME NEW map \in CityTables, NEW p \in Plans
    PROVE  /\ Mapped(map, p) \in CityTables
           /\ \A f \in Fias : Certain(map, f) => Mapped(map, p)[f] = map[f]
<1>1. CASE p.match.city = Missing
  BY <1>1 DEF Mapped
<1>2. CASE p.match.city # Missing
  <2> PICK c : c = p.match.city
    OBVIOUS
  <2>1. /\ c \in Fias /\ p.match.method \in Methods /\ p.match.confirmed \in BOOLEAN
        /\ p.row.code \in CarrierCodes
    BY <1>2 DEF Plans, Matches, CarrierCodes
  <2> DEFINE new == [code |-> p.row.code, method |-> p.match.method,
                     confirmed |-> IF map[c] = Missing THEN p.match.confirmed ELSE FALSE]
  <2>2. new \in Mappings
    BY <2>1 DEF Mappings
  <2>3. Mapped(map, p) = IF Certain(map, c) THEN map ELSE [map EXCEPT ![c] = new]
    BY <1>2 DEF Mapped, Upsert, Certain
  <2> HIDE DEF new
  <2>4. QED
    BY <2>1, <2>2, <2>3 DEF CityTables
<1>3. QED
  BY <1>1, <1>2

\* So do all rows of a catalog, however long it is.
LEMMA CatalogKeepsConfirmed ==
    ASSUME mapping \in CityTables, NEW plan \in Seq(Plans)
    PROVE  /\ MappedBy(plan) \in CityTables
           /\ \A f \in Fias : Certain(mapping, f) => MappedBy(plan)[f] = mapping[f]
<1> PICK n \in Nat : n = Len(plan)
  OBVIOUS
<1>1. DOMAIN plan = 1..n /\ \A i \in 1..n : plan[i] \in Plans
  OBVIOUS
<1> DEFINE g == CHOOSE g : Tabled(g, 1..n, plan)
<1>2. Tabled(g, 1..n, plan)
  BY TableExists
<1>3. MappedBy(plan) = g[1..n]
  BY <1>1, MappedByRows
<1> HIDE DEF g
<1> DEFINE Kept(k) == /\ g[1..k] \in CityTables
                      /\ \A f \in Fias : Certain(mapping, f) => g[1..k][f] = mapping[f]
           Bad == {k \in 0..n : ~Kept(k)}
<1>4. Kept(0)
  <2>1. g[{}] = mapping /\ 1..0 = {}
    BY <1>2 DEF Tabled
  <2>2. QED
    BY <2>1
<1>5. ASSUME NEW k \in 1..n, Kept(k - 1) PROVE Kept(k)
  <2>1. 1..k \in SUBSET (1..n) /\ 1..k # {} /\ (1..k) \ {k} = 1..(k - 1)
    <3>1. 1..k \subseteq 1..n /\ k \in 1..k
      OBVIOUS
    <3>2. \A x : x \in (1..k) \ {k} <=> x \in 1..(k - 1)
      OBVIOUS
    <3>3. QED
      BY <3>1, <3>2
  <2>2. Max(1..k) = k
    <3>1. \A x \in 1..k : (\A y \in 1..k : x >= y) <=> x = k
      OBVIOUS
    <3>2. QED
      BY <3>1 DEF Max
  <2>3. g[1..k] = Mapped(g[1..(k - 1)], plan[k])
    BY <1>2, <2>1, <2>2 DEF Tabled
  <2> PICK old : old = g[1..(k - 1)]
    OBVIOUS
  <2>4. old \in CityTables /\ \A f \in Fias : Certain(mapping, f) => old[f] = mapping[f]
    BY <1>5
  <2>5. \A f \in Fias : Certain(mapping, f) => Certain(old, f)
    BY <2>4 DEF Certain
  <2>6. g[1..k] = Mapped(old, plan[k]) /\ plan[k] \in Plans
    BY <1>1, <2>3
  <2>7. /\ Mapped(old, plan[k]) \in CityTables
        /\ \A f \in Fias : Certain(old, f) => Mapped(old, plan[k])[f] = old[f]
    BY <2>4, <2>6, MappedRow
  <2>8. QED
    BY <2>4, <2>5, <2>6, <2>7
<1> HIDE DEF Kept
<1>6. Bad = {}
  <2> SUFFICES ASSUME Bad # {} PROVE FALSE
    OBVIOUS
  <2>1. Bad \in SUBSET Nat
    OBVIOUS
  <2> HIDE DEF Bad
  <2>2. PICK k \in Bad : \A j \in Bad : k <= j
    BY <2>1, LeastNumber
  <2> USE DEF Bad
  <2>3. k \in 1..n /\ ~Kept(k)
    BY <1>4, <2>2
  <2>4. k - 1 \in 0..n /\ k - 1 \notin Bad
    BY <2>2, <2>3
  <2>5. QED
    BY <1>5, <2>3, <2>4
<1>7. Kept(n)
  BY <1>6
<1>8. QED
  BY <1>3, <1>7 DEF Kept

\* A set of natural numbers that is bounded, and not empty, has a greatest one.
LEMMA GreatestNumber ==
    ASSUME NEW b \in Nat, NEW T \in SUBSET (0..b), T # {}
    PROVE  \E m \in T : \A x \in T : x <= m
<1> DEFINE D == {b - x : x \in T}
<1>1. D \in SUBSET Nat /\ D # {}
  <2>1. \A x \in T : b - x \in Nat
    OBVIOUS
  <2>2. QED
    BY <2>1
<1> HIDE DEF D
<1>2. PICK d \in D : \A e \in D : d <= e
  BY <1>1, LeastNumber
<1> USE DEF D
<1>3. PICK m \in T : d = b - m
  BY <1>2
<1>4. ASSUME NEW x \in T PROVE x <= m
  <2>1. b - x \in D
    OBVIOUS
  <2>2. QED
    BY <1>2, <1>3, <2>1
<1>5. QED
  BY <1>4

\* The discount for an unknown region.
LEMMA FourFifths == ASSUME NEW n \in Nat PROVE (n * 8) \div 10 \in 0..n
<1> DEFINE x == n * 8
<1>1. x \in Nat /\ x <= 10 * n
  OBVIOUS
<1> HIDE DEF x
<1>2. x \div 10 \in Int /\ x % 10 \in 0..9 /\ x = 10 * (x \div 10) + (x % 10)
  BY <1>1
<1>3. 0 <= x \div 10 /\ x \div 10 <= n
  BY <1>1, <1>2
<1>4. x \div 10 \in 0..n
  BY <1>2, <1>3
<1>5. QED
  BY <1>4 DEF x

\* Names that are the same, in thousandths.
Full == 1000

\* The score of a pair of names is in thousandths.
LEMMA ScoreIsBounded ==
    ASSUME NEW row \in CarrierRows, NEW f \in Fias
    PROVE  Score(row, f) \in 0..Full /\ Full \in Nat
<1>1. \A r \in CarrierRows, g \in Fias : Similarity[<<r.name, City[g].name>>] \in 0..Full
  BY DirectoryAssumption DEF Full
<1>2. Full \in Nat
  BY SMT DEF Full
<1> PICK n \in 0..Full : n = Similarity[<<row.name, City[f].name>>]
  BY <1>1
<1>3. n \in Nat /\ n <= Full
  BY <1>2
<1>4. (n * 8) \div 10 \in 0..n
  BY <1>3, FourFifths
<1>5. Score(row, f) = n \/ Score(row, f) = 0 \/ Score(row, f) = (n * 8) \div 10
  BY DEF Score
<1>6. \A x \in 0..n : x \in 0..Full
  BY <1>2, <1>3
<1>7. 0 \in 0..n /\ n \in 0..n
  BY <1>3
<1>8. QED
  BY <1>2, <1>4, <1>5, <1>6, <1>7

\* By its name a row is matched with a city there is, or with none.
LEMMA MatchByNameTyped ==
    ASSUME known \in SUBSET Fias, NEW row \in CarrierRows
    PROVE  MatchByName(row) \in Matches
<1> DEFINE scored == {f \in Search(row.name) : Score(row, f) > 0}
           scores == {Score(row, f) : f \in scored}
           best == Max(scores)
           first == CHOOSE f \in scored : Score(row, f) = best
<1>1. scored \subseteq Fias
  BY DEF Search
<1>2. NoMatch("no_match") \in Matches /\ NoMatch("ambiguous") \in Matches
  BY DEF NoMatch, Matches
<1>3. CASE scored = {}
  BY <1>2, <1>3 DEF MatchByName
<1>4. CASE scored # {}
  <2>1. scores \in SUBSET (0..Full) /\ scores # {} /\ Full \in Nat
    <3>1. \A f \in scored : Score(row, f) \in 0..Full
      BY <1>1, ScoreIsBounded
    <3>2. Full \in Nat
      BY <1>1, <1>4, ScoreIsBounded
    <3> HIDE DEF scored
    <3>3. QED
      BY <1>4, <3>1, <3>2
  <2>2. \E m \in scores : \A x \in scores : x <= m
    <3> HIDE DEF scores
    <3>1. QED
      BY <2>1, GreatestNumber
  <2>3. best \in scores
    <3> HIDE DEF scores
    <3>1. \E m \in scores : \A x \in scores : m >= x
      BY <2>1, <2>2
    <3>2. QED
      BY <3>1 DEF Max
  <2>4. best \in Int
    <3> HIDE DEF scores, best
    <3>1. \A x \in scores : x \in Int
      BY <2>1
    <3>2. QED
      BY <2>3, <3>1
  <2>5. first \in scored
    <3>1. \E f \in scored : Score(row, f) = best
      BY <2>3
    <3> HIDE DEF scored, best
    <3>2. QED
      BY <3>1
  <2>6. Match(first, "exact_name", best, TRUE) \in Matches /\ Match(first, "fuzzy_name", best, FALSE) \in Matches
    <3> HIDE DEF scored, best, first
    <3>1. QED
      BY <1>1, <2>4, <2>5 DEF Match, Matches, Methods
  <2>7. MatchByName(row) \in {NoMatch("no_match"), NoMatch("ambiguous"), Match(first, "exact_name", best, TRUE),
                              Match(first, "fuzzy_name", best, FALSE)}
    BY <1>4 DEF MatchByName
  <2>8. QED
    BY <1>2, <2>6, <2>7
<1>5. QED
  BY <1>3, <1>4

\* So it is by the ladder.
LEMMA MatchOneTyped ==
    ASSUME known \in SUBSET Fias, NEW row \in CarrierRows
    PROVE  MatchOne(row) \in Matches
<1> DEFINE hits == {f \in Search(row.name) : row.kladr # Missing /\ City[f].kladr = row.kladr}
<1>1. hits \subseteq Fias
  BY DEF Search
<1>2. Cardinality(hits) = 1 => (CHOOSE f \in hits : TRUE) \in Fias
  <2>1. Cardinality(hits) = 1 => hits # {}
    BY FS_EmptySet
  <2> HIDE DEF hits
  <2>2. QED
    BY <1>1, <2>1
<1>3. row.fias \in known => Match(row.fias, "fias", 1000, TRUE) \in Matches
  BY DEF Match, Matches, Methods
<1>4. Cardinality(hits) = 1 => Match(CHOOSE f \in hits : TRUE, "kladr", 990, TRUE) \in Matches
  <2> HIDE DEF hits
  <2>1. QED
    BY <1>2 DEF Match, Matches, Methods
<1>5. QED
  BY <1>3, <1>4, MatchByNameTyped DEF MatchOne

\* A name that is found is that of a city in the directory.
LEMMA ResolvedCity ==
    ASSUME known \in SUBSET Fias, NEW name, NEW region, ResolveCity(name, region) # Missing
    PROVE  ResolveCity(name, region) \in Fias /\ ResolveCity(name, region) \in OfThatName(name, region)
<1> DEFINE same == OfThatName(name, region)
           sizes == {City[f].population : f \in same}
<1>1. same \subseteq Fias /\ same # {}
  BY DEF Search, ResolveCity, OfThatName
<1>2. sizes \in SUBSET (0..MaxPopulation) /\ sizes # {}
  <2>1. \A f \in same : City[f].population \in 0..MaxPopulation
    BY <1>1, DirectoryAssumption
  <2> HIDE DEF same
  <2>2. QED
    BY <1>1, <2>1
<1>3. \E m \in sizes : \A x \in sizes : x <= m
  <2>1. MaxPopulation \in Nat
    BY SMT DEF MaxPopulation
  <2> HIDE DEF sizes
  <2>2. QED
    BY <1>2, <2>1, GreatestNumber
<1>4. \E f \in same : \A g \in same : City[f].population >= City[g].population
  BY <1>1, <1>3, DirectoryAssumption
<1>5. ResolveCity(name, region) = CHOOSE f \in same : \A g \in same : City[f].population >= City[g].population
  BY <1>1 DEF ResolveCity, OfThatName
<1>6. same = OfThatName(name, region)
  OBVIOUS
<1> HIDE DEF same
<1>7. ResolveCity(name, region) \in same
  BY <1>4, <1>5
<1>8. QED
  BY <1>1, <1>6, <1>7

\* A session at rest is none of those at work.
LEMMA Vacated == Vacant.pc = "idle" /\ \A t \in Syncs : t.pc = "sync" /\ \A u \in Confirmations : u.pc = "confirm"
BY DEF Vacant, Syncs, Confirmations

\* A sync reads the terminals and matches the cities of a catalog.
LEMMA BeginSyncStep ==
    ASSUME DirectoryInductive, NEW s \in Desks, NEW c \in Answers, BeginSync(s, c)
    PROVE  DirectoryInductive'
<1> DEFINE plan == [i \in DOMAIN c.cities |-> [row |-> c.cities[i], match |-> MatchOne(c.cities[i])]]
           t == [pc |-> "sync", catalog |-> c, loaded |-> terminals, plan |-> plan]
<1>1. plan \in Seq(Plans)
  <2>1. c.cities \in Seq(CarrierRows)
    BY DirectoryAssumption
  <2>2. \A i \in DOMAIN c.cities : c.cities[i] \in CarrierRows
    BY <2>1
  <2>3. \A i \in DOMAIN c.cities : [row |-> c.cities[i], match |-> MatchOne(c.cities[i])] \in Plans
    BY <2>2, MatchOneTyped DEF DirectoryInductive, DirectoryTyped, Plans
  <2>4. Len(c.cities) \in Nat /\ DOMAIN c.cities = 1..Len(c.cities)
    BY <2>1
  <2>5. plan \in [1..Len(c.cities) -> Plans]
    BY <2>3, <2>4
  <2> HIDE DEF plan
  <2>6. QED
    BY <2>4, <2>5
<1>2. t \in Syncs
  BY <1>1 DEF DirectoryInductive, DirectoryTyped, Syncs
<1>3. /\ desk' = [desk EXCEPT ![s] = t] /\ desk[s] = Vacant /\ UNCHANGED directoryRows
      /\ collided' = (collided \/ \E q \in Desks : desk[q].pc = "sync")
  BY DEF BeginSync, Opens
<1>4. t.pc = "sync" /\ t.loaded = terminals
  OBVIOUS
<1> HIDE DEF t
<1>5. \A q \in Desks : desk'[q] = IF q = s THEN t ELSE desk[q]
  BY <1>3 DEF DirectoryInductive, DirectoryTyped
<1>6. DirectoryTyped'
  BY <1>2, <1>3 DEF DirectoryInductive, DirectoryTyped, directoryRows, CityTables
<1>7. QuotesAreCertain'
  BY <1>3 DEF DirectoryInductive, QuotesAreCertain, directoryRows, Certain, OfThatName, Search
<1>8. SyncsAreAlone'
  <2> SUFFICES ASSUME ~collided'
               PROVE  /\ terminals' = reported'
                      /\ \A q \in Desks : desk'[q].pc = "sync" => desk'[q].loaded = terminals'
                      /\ \A p, q \in Desks : desk'[p].pc = "sync" /\ desk'[q].pc = "sync" => p = q
    BY DEF SyncsAreAlone
  <2>1. ~collided /\ \A q \in Desks : desk[q].pc # "sync"
    BY <1>3
  <2>2. terminals' = reported' /\ terminals' = terminals
    BY <1>3, <2>1 DEF DirectoryInductive, SyncsAreAlone, directoryRows
  <2>3. \A q \in Desks : desk'[q].pc = "sync" => q = s
    BY <1>5, <2>1
  <2>4. QED
    BY <1>4, <1>5, <2>2, <2>3
<1>9. QED
  BY <1>6, <1>7, <1>8 DEF DirectoryInductive

\* A session whose rows are committed, or rolled back, or a confirmation that has
\* begun: what the syncs that are open have read is the network still.
LEMMA DeskStep ==
    ASSUME DirectoryInductive, NEW s \in Desks, NEW t \in Confirmations \cup {Vacant},
           desk' = [desk EXCEPT ![s] = t],
           UNCHANGED <<known, terminals, quoted, reported, collided>>, mapping' \in CityTables,
           \A f \in Fias : Certain(mapping, f) => mapping'[f] = mapping[f]
    PROVE  DirectoryInductive'
<1>1. t.pc # "sync"
  BY DEF Confirmations, Vacant
<1>2. \A q \in Desks : desk'[q] = IF q = s THEN t ELSE desk[q]
  BY DEF DirectoryInductive, DirectoryTyped
<1>3. DirectoryTyped'
  BY DEF DirectoryInductive, DirectoryTyped, CityTables
<1>4. QuotesAreCertain'
  <2>1. \A name, region : OfThatName(name, region)' = OfThatName(name, region)
    BY DEF OfThatName, Search
  <2>2. \A name, region : OfThatName(name, region) \subseteq Fias
    BY DEF OfThatName, Search, DirectoryInductive, DirectoryTyped
  <2>3. QED
    BY <2>1, <2>2 DEF DirectoryInductive, QuotesAreCertain, Certain
<1>5. SyncsAreAlone'
  BY <1>1, <1>2 DEF DirectoryInductive, SyncsAreAlone
<1>6. QED
  BY <1>3, <1>4, <1>5 DEF DirectoryInductive

\* The commit of a sync.
LEMMA CommitSyncStep ==
    ASSUME DirectoryInductive, NEW s \in Desks, CommitSync(s)
    PROVE  DirectoryInductive'
<1> PICK t : t = desk[s]
  OBVIOUS
<1>1. /\ t.pc = "sync" /\ mapping' = MappedBy(t.plan) /\ terminals' = Network(s)
      /\ reported' = [e \in Terminals |-> IF e \in t.catalog.terminals THEN "active"
                                          ELSE IF t.catalog.complete /\ reported[e] # Missing THEN "closed"
                                          ELSE reported[e]]
      /\ desk' = [desk EXCEPT ![s] = Vacant] /\ UNCHANGED <<known, opened, quoted, decided, collided>>
  BY DEF CommitSync
<1>2. t \in Syncs
  BY <1>1 DEF DirectoryInductive, DirectoryTyped, Confirmations, Vacant
<1>3. t.plan \in Seq(Plans) /\ t.loaded \in [Terminals -> Shown] /\ t.catalog \in Answers
  BY <1>2 DEF Syncs
<1>4. mapping' \in CityTables /\ \A f \in Fias : Certain(mapping, f) => mapping'[f] = mapping[f]
  BY <1>1, <1>3, CatalogKeepsConfirmed DEF DirectoryInductive, DirectoryTyped
<1>5. \A q \in Desks : desk'[q] = IF q = s THEN Vacant ELSE desk[q]
  BY <1>1 DEF DirectoryInductive, DirectoryTyped
<1>6. terminals' \in [Terminals -> Shown] /\ reported' \in [Terminals -> Shown]
  BY <1>1 DEF DirectoryInductive, DirectoryTyped, Network, Shown
<1>7. DirectoryTyped'
  BY <1>1, <1>4, <1>6 DEF DirectoryInductive, DirectoryTyped
<1>8. QuotesAreCertain'
  <2>1. \A name, region : OfThatName(name, region)' = OfThatName(name, region)
    BY <1>1 DEF OfThatName, Search
  <2>2. \A name, region : OfThatName(name, region) \subseteq Fias
    BY DEF OfThatName, Search, DirectoryInductive, DirectoryTyped
  <2>3. QED
    BY <1>1, <1>4, <2>1, <2>2 DEF DirectoryInductive, QuotesAreCertain, Certain
<1>9. SyncsAreAlone'
  <2> SUFFICES ASSUME ~collided
               PROVE  /\ terminals' = reported'
                      /\ \A q \in Desks : desk'[q].pc = "sync" => desk'[q].loaded = terminals'
                      /\ \A p, q \in Desks : desk'[p].pc = "sync" /\ desk'[q].pc = "sync" => p = q
    BY <1>1 DEF SyncsAreAlone
  <2>1. terminals = reported /\ t.loaded = terminals
    BY <1>1 DEF DirectoryInductive, SyncsAreAlone
  <2>2. \A q \in Desks : desk'[q].pc # "sync"
    BY <1>1, <1>5, Vacated DEF DirectoryInductive, SyncsAreAlone
  <2>3. terminals' = [e \in Terminals |-> IF e \in t.catalog.terminals
                         THEN IF terminals[e] = "active" THEN terminals[e] ELSE "active"
                         ELSE IF t.catalog.complete /\ terminals[e] = "active" THEN "closed" ELSE terminals[e]]
    BY <1>1, <2>1 DEF Network
  <2>4. \A e \in Terminals : terminals[e] \in Shown
    BY DEF DirectoryInductive, DirectoryTyped
  <2>5. \A e \in Terminals : terminals'[e] = reported'[e]
    <3>1. Missing # "active" /\ Missing # "closed"
      BY DirectoryAssumption
    <3> SUFFICES ASSUME NEW e \in Terminals PROVE terminals'[e] = reported'[e]
      OBVIOUS
    <3>2. terminals'[e] = IF e \in t.catalog.terminals THEN "active"
                          ELSE IF t.catalog.complete /\ terminals[e] = "active" THEN "closed" ELSE terminals[e]
      BY <2>3
    <3>3. reported'[e] = IF e \in t.catalog.terminals THEN "active"
                         ELSE IF t.catalog.complete /\ terminals[e] # Missing THEN "closed" ELSE terminals[e]
      BY <1>1, <2>1
    <3>4. QED
      BY <2>4, <3>1, <3>2, <3>3 DEF Shown
  <2>6. terminals' = reported'
    BY <1>6, <2>5
  <2>7. QED
    BY <2>2, <2>6
<1>10. QED
  BY <1>7, <1>8, <1>9 DEF DirectoryInductive

\* The commit of a confirmation.
LEMMA CommitConfirmStep ==
    ASSUME DirectoryInductive, NEW s \in Desks, CommitConfirm(s)
    PROVE  DirectoryInductive'
<1> PICK t : t = desk[s]
  OBVIOUS
<1>1. /\ t.pc = "confirm" /\ mapping' = Upsert(mapping, t.city, t.code, Match(t.city, "manual", 1000, TRUE))
      /\ desk' = [desk EXCEPT ![s] = Vacant] /\ UNCHANGED <<known, terminals, opened, quoted, reported, collided>>
  BY DEF CommitConfirm
<1>2. t.city \in Fias /\ t.code \in CarrierCodes
  BY <1>1 DEF DirectoryInductive, DirectoryTyped, Syncs, Confirmations, Vacant
<1> DEFINE new == [code |-> t.code, method |-> "manual", confirmed |-> IF mapping[t.city] = Missing THEN TRUE ELSE FALSE]
<1>3. new \in Mappings
  BY <1>2 DEF Mappings, Methods
<1>4. mapping' = IF Certain(mapping, t.city) THEN mapping ELSE [mapping EXCEPT ![t.city] = new]
  BY <1>1 DEF Upsert, Certain, Match
<1> HIDE DEF new
<1>5. mapping \in CityTables
  BY DEF DirectoryInductive, DirectoryTyped
<1>6. mapping' \in CityTables /\ \A f \in Fias : Certain(mapping, f) => mapping'[f] = mapping[f]
  BY <1>2, <1>3, <1>4, <1>5 DEF CityTables
<1>7. QED
  BY <1>1, <1>6, DeskStep

\* A quote is priced by the city its name resolves to, and by the code of that
\* city's mapping if it has one.
LEMMA PriceStep ==
    ASSUME DirectoryInductive, NEW name, NEW region, Price(name, region)
    PROVE  DirectoryInductive'
<1> PICK f : f = ResolveCity(name, region)
  OBVIOUS
<1> PICK code : code = Party(name, region).code
  OBVIOUS
<1> PICK certain : certain = IsCertain(f)
  OBVIOUS
<1> DEFINE q == [name |-> name, region |-> region, city |-> f, code |-> code, certain |-> certain]
<1>1. /\ code # Missing /\ quoted' = quoted \cup {q}
      /\ UNCHANGED <<known, mapping, queue, terminals, desk, opened, decided, reported, collided>>
  BY DEF Price, Party
<1>2. f # Missing /\ code = ResolveWithFallback(f)
  BY <1>1 DEF Party
<1>3. f \in Fias /\ f \in OfThatName(name, region)
  BY <1>2, ResolvedCity DEF DirectoryInductive, DirectoryTyped
<1>4. certain => Certain(mapping, f) /\ mapping[f].code = code
  <2> SUFFICES ASSUME certain PROVE Certain(mapping, f) /\ mapping[f].code = code
    OBVIOUS
  <2>1. Certain(mapping, f)
    BY DEF IsCertain, Certain
  <2>2. mapping[f] \in Mappings
    BY <1>3, <2>1 DEF DirectoryInductive, DirectoryTyped, CityTables, Certain
  <2>3. Resolve(f) = mapping[f].code /\ Resolve(f) # Missing
    BY <2>1, <2>2, DirectoryAssumption DEF Resolve, Certain, Mappings
  <2>4. QED
    BY <1>2, <2>1, <2>3 DEF ResolveWithFallback
<1>5. /\ q.city \in OfThatName(q.name, q.region)
      /\ q.certain => Certain(mapping, q.city) /\ mapping[q.city].code = q.code
  BY <1>3, <1>4
<1> HIDE DEF q
<1>6. QuotesAreCertain'
  BY <1>1, <1>5 DEF DirectoryInductive, QuotesAreCertain, Certain, OfThatName, Search
<1>7. DirectoryTyped' /\ SyncsAreAlone'
  BY <1>1 DEF DirectoryInductive, DirectoryTyped, SyncsAreAlone, CityTables
<1>8. QED
  BY <1>6, <1>7 DEF DirectoryInductive

\* Nothing is known of the cities and the terminals at the start.
LEMMA DirectoryStart == DirectoryInit => DirectoryInductive
BY DEF DirectoryInit, DirectoryInductive, DirectoryTyped, CityTables, Shown, QuotesAreCertain, SyncsAreAlone, Vacant

\* Every step of a sync, of somebody who confirms, and of a quote.
LEMMA DirectoryStep == DirectoryInductive /\ [DirectoryNext]_directoryVars => DirectoryInductive'
<1> SUFFICES ASSUME DirectoryInductive, [DirectoryNext]_directoryVars PROVE DirectoryInductive'
  OBVIOUS
<1>0. mapping \in CityTables
  BY DEF DirectoryInductive, DirectoryTyped
<1>1. CASE UNCHANGED directoryVars
  BY <1>1 DEF directoryVars, DirectoryInductive, DirectoryTyped, QuotesAreCertain, SyncsAreAlone, Certain, CityTables,
              OfThatName, Search
<1>2. ASSUME NEW s \in Desks, NEW c \in Answers, BeginSync(s, c) PROVE DirectoryInductive'
  BY <1>2, BeginSyncStep
<1>3. ASSUME NEW s \in Desks, NEW code \in CarrierCodes, NEW f \in Fias, BeginConfirm(s, code, f)
      PROVE  DirectoryInductive'
  <2>1. [pc |-> "confirm", code |-> code, city |-> f] \in Confirmations
    BY DEF Confirmations
  <2>2. QED
    BY <1>0, <1>3, <2>1, DeskStep DEF BeginConfirm, Opens, directoryRows
<1>4. ASSUME NEW s \in Desks, CommitSync(s) PROVE DirectoryInductive'
  BY <1>4, CommitSyncStep
<1>5. ASSUME NEW s \in Desks, CommitConfirm(s) PROVE DirectoryInductive'
  BY <1>5, CommitConfirmStep
<1>6. ASSUME NEW s \in Desks, Rollback(s) PROVE DirectoryInductive'
  BY <1>0, <1>6, DeskStep DEF Rollback, directoryRows
<1>7. ASSUME NEW f \in Fias, Learn(f) PROVE DirectoryInductive'
  BY <1>7 DEF Learn, DirectoryInductive, DirectoryTyped, QuotesAreCertain, SyncsAreAlone, Certain, CityTables,
              OfThatName, Search
<1>8. ASSUME NEW f \in Fias, NEW region \in {City[f].region, Missing}, Price(City[f].name, region)
      PROVE  DirectoryInductive'
  BY <1>8, PriceStep
<1>9. QED
  BY <1>1, <1>2, <1>3, <1>4, <1>5, <1>6, <1>7, <1>8 DEF DirectoryNext

\* Every behaviour of the directories keeps their inductive invariant.
LEMMA DirectoryAlways == DirectorySpec => []DirectoryInductive
<1>1. QED
  BY DirectoryStart, DirectoryStep, PTL DEF DirectorySpec

\* A city that was priced by the code of a confirmed mapping, for a name that no
\* other city has, is shipped to by the same code: the name is resolved again at the
\* shipment, however long the catalogs are that are synced in between and whatever
\* cities the directory learns.
THEOREM QuotedCitiesAreShipped == DirectorySpec => []QuotedCityIsShipped
<1>1. DirectoryInductive => QuotedCityIsShipped
  <2> SUFFICES ASSUME DirectoryInductive, NEW q \in quoted, q.certain, Namesakes(q.name, q.region) = {q.city}
               PROVE  Party(q.name, q.region) = [city |-> q.city, code |-> q.code]
    BY DEF QuotedCityIsShipped
  <2>1. q.city \in OfThatName(q.name, q.region) /\ Certain(mapping, q.city) /\ mapping[q.city].code = q.code
    BY DEF DirectoryInductive, QuotesAreCertain
  <2>2. OfThatName(q.name, q.region) \subseteq Namesakes(q.name, q.region)
    BY DEF OfThatName, Namesakes, Search, DirectoryInductive, DirectoryTyped
  <2>3. OfThatName(q.name, q.region) = {q.city}
    BY <2>1, <2>2
  <2>4. q.city \in Fias
    BY <2>1 DEF OfThatName, Search, DirectoryInductive, DirectoryTyped
  <2>5. ResolveCity(q.name, q.region) = q.city
    <3>1. City[q.city].population >= City[q.city].population
      BY <2>4, DirectoryAssumption
    <3>2. ResolveCity(q.name, q.region) =
             CHOOSE f \in OfThatName(q.name, q.region) :
                \A g \in OfThatName(q.name, q.region) : City[f].population >= City[g].population
      BY <2>3 DEF ResolveCity, OfThatName
    <3>3. QED
      BY <2>3, <3>1, <3>2
  <2>6. mapping[q.city] \in Mappings
    BY <2>1, <2>4 DEF DirectoryInductive, DirectoryTyped, CityTables, Certain
  <2>7. Resolve(q.city) = q.code /\ q.code # Missing
    BY <2>1, <2>6, DirectoryAssumption DEF Resolve, Certain, Mappings
  <2>8. ResolveWithFallback(q.city) = q.code
    BY <2>7 DEF ResolveWithFallback
  <2>9. q.city # Missing
    BY <2>4, DirectoryAssumption
  <2>10. QED
    BY <2>5, <2>8, <2>9 DEF Party
<1>2. QED
  BY <1>1, DirectoryAlways, PTL

\* Unless two syncs overlapped, the terminals we offer are those the catalogs tell of.
THEOREM NetworksAreAsReported == DirectorySpec => []NetworkIsAsReported
<1>1. DirectoryInductive => NetworkIsAsReported
  BY DEF DirectoryInductive, SyncsAreAlone, NetworkIsAsReported
<1>2. QED
  BY <1>1, DirectoryAlways, PTL

(***************************************************************************)
(* The carrier score. First what a sum is: the module adds the values of a *)
(* function in an order that is left open.                                 *)
(***************************************************************************)
AnyOf(S) == CHOOSE x \in S : TRUE
Summed(g, D, f) == g = [S \in SUBSET D |-> IF S = {} THEN 0 ELSE f[AnyOf(S)] + g[S \ {AnyOf(S)}]]

LEMMA SumIsSummed ==
    ASSUME NEW f
    PROVE  SumOf(f) = (CHOOSE g : Summed(g, DOMAIN f, f))[DOMAIN f]
BY DEF SumOf, FoldFunction, FoldFunctionOnSet, MapThenFoldSet, Summed, AnyOf

\* Among subsets of a finite set some is smallest: it is one of them, but not
\* without any one of its elements.
LEMMA SmallestSet ==
    ASSUME NEW D, IsFiniteSet(D), NEW Some \in SUBSET SUBSET D, Some # {}
    PROVE  \E S \in Some : \A x \in S : S \ {x} \notin Some
<1> DEFINE Sizes == {Cardinality(S) : S \in Some}
<1>1. \A S \in Some : IsFiniteSet(S) /\ Cardinality(S) \in Nat
  BY FS_Subset, FS_CardinalityType
<1>2. Sizes \in SUBSET Nat /\ Sizes # {}
  BY <1>1
<1> HIDE DEF Sizes
<1>3. PICK k \in Sizes : \A j \in Sizes : k <= j
  BY <1>2, LeastNumber
<1> USE DEF Sizes
<1>4. PICK S \in Some : Cardinality(S) = k
  BY <1>3
<1>5. ASSUME NEW x \in S, S \ {x} \in Some PROVE FALSE
  <2>1. Cardinality(S \ {x}) = Cardinality(S) - 1
    BY <1>1, FS_RemoveElement
  <2>2. k <= Cardinality(S \ {x}) /\ k \in Nat
    BY <1>1, <1>3, <1>4, <1>5
  <2>3. QED
    BY <1>4, <2>1, <2>2
<1>6. QED
  BY <1>5

\* Every function with a finite domain has a sum.
LEMMA SumExists ==
    ASSUME NEW D, IsFiniteSet(D), NEW f
    PROVE  \E g : Summed(g, D, f)
<1> DEFINE Upto(k) == {S \in SUBSET D : Cardinality(S) <= k}
           Level(g, k) == g = [S \in Upto(k) |-> IF S = {} THEN 0 ELSE f[AnyOf(S)] + g[S \ {AnyOf(S)}]]
           Bad == {k \in Nat : ~\E g : Level(g, k)}
<1>1. \A S \in SUBSET D : /\ IsFiniteSet(S) /\ Cardinality(S) \in Nat
                          /\ S # {} => /\ AnyOf(S) \in S /\ S \ {AnyOf(S)} \in SUBSET D
                                       /\ Cardinality(S \ {AnyOf(S)}) = Cardinality(S) - 1
  BY FS_Subset, FS_CardinalityType, FS_RemoveElement DEF AnyOf
<1>2. \E g : Level(g, 0)
  <2>1. ASSUME NEW S \in Upto(0) PROVE S = {}
    <3>1. S \in SUBSET D /\ Cardinality(S) <= 0
      OBVIOUS
    <3>2. Cardinality(S) \in Nat /\ IsFiniteSet(S)
      BY <1>1, <3>1
    <3>3. QED
      BY <3>1, <3>2, FS_EmptySet
  <2>2. Level([S \in Upto(0) |-> 0], 0)
    BY <2>1
  <2>3. QED
    BY <2>2
<1>3. ASSUME NEW k \in Nat, \E g : Level(g, k) PROVE \E g : Level(g, k + 1)
  <2>1. PICK g : Level(g, k)
    BY <1>3
  <2> DEFINE Step(t, S) == IF S = {} THEN 0 ELSE f[AnyOf(S)] + t[S \ {AnyOf(S)}]
             h == [S \in Upto(k + 1) |-> IF S \in Upto(k) THEN g[S] ELSE Step(g, S)]
  <2>2. ASSUME NEW S \in Upto(k) PROVE S \in Upto(k + 1) /\ h[S] = g[S] /\ g[S] = Step(g, S)
    <3>1. S \in Upto(k + 1)
      <4>1. S \in SUBSET D /\ Cardinality(S) <= k
        OBVIOUS
      <4>2. Cardinality(S) \in Nat
        BY <1>1, <4>1
      <4>3. QED
        BY <4>1, <4>2
    <3>2. g[S] = Step(g, S)
      BY <2>1
    <3>3. QED
      BY <3>1, <3>2
  <2>3. \A S \in Upto(k + 1) : S # {} => S \ {AnyOf(S)} \in Upto(k)
    BY <1>1
  <2>4. \A S \in Upto(k + 1) : h[S] = Step(g, S)
    BY <2>2
  <2>5. \A S \in Upto(k + 1) : Step(g, S) = Step(h, S)
    BY <2>2, <2>3
  <2>6. h = [S \in Upto(k + 1) |-> h[S]]
    OBVIOUS
  <2> HIDE DEF h, Step, Upto
  <2>7. h = [S \in Upto(k + 1) |-> Step(h, S)]
    BY <2>4, <2>5, <2>6
  <2>8. Level(h, k + 1)
    BY <2>7 DEF Step
  <2>9. QED
    BY <2>8
<1> HIDE DEF Level
<1>4. Bad = {}
  <2> SUFFICES ASSUME Bad # {} PROVE FALSE
    OBVIOUS
  <2>1. Bad \in SUBSET Nat
    OBVIOUS
  <2> HIDE DEF Bad
  <2>2. PICK k \in Bad : \A j \in Bad : k <= j
    BY <2>1, LeastNumber
  <2> USE DEF Bad
  <2>3. k \in Nat /\ k # 0
    BY <1>2, <2>2
  <2>4. k - 1 \in Nat /\ k - 1 \notin Bad /\ (k - 1) + 1 = k
    BY <2>2, <2>3
  <2>5. QED
    BY <1>3, <2>2, <2>4
<1>5. PICK g : Level(g, Cardinality(D))
  BY <1>4, FS_CardinalityType
<1>6. Upto(Cardinality(D)) = SUBSET D
  BY FS_Subset
<1> HIDE DEF Upto
<1>7. QED
  BY <1>5, <1>6 DEF Level, Summed

\* A sum of natural numbers is one.
LEMMA SumIsNatural ==
    ASSUME NEW D, IsFiniteSet(D), NEW f, \A x \in D : f[x] \in Nat,
           NEW g, Summed(g, D, f)
    PROVE  \A S \in SUBSET D : g[S] \in Nat
<1> DEFINE Bad == {T \in SUBSET D : g[T] \notin Nat}
<1> SUFFICES ASSUME Bad # {} PROVE FALSE
  OBVIOUS
<1>1. Bad \in SUBSET SUBSET D
  OBVIOUS
<1> HIDE DEF Bad
<1>2. PICK T \in Bad : \A x \in T : T \ {x} \notin Bad
  BY <1>1, SmallestSet
<1> USE DEF Bad
<1>3. g[{}] = 0
  BY DEF Summed
<1>4. T # {}
  BY <1>3
<1>5. AnyOf(T) \in T /\ g[T] = f[AnyOf(T)] + g[T \ {AnyOf(T)}]
  BY <1>4 DEF Summed, AnyOf
<1>6. g[T \ {AnyOf(T)}] \in Nat /\ f[AnyOf(T)] \in Nat
  BY <1>2, <1>5
<1>7. QED
  BY <1>5, <1>6

\* What a sum holds of one element, whichever was taken first.
LEMMA SumTakes ==
    ASSUME NEW D, IsFiniteSet(D), NEW f, \A x \in D : f[x] \in Nat,
           NEW g, Summed(g, D, f), NEW S \in SUBSET D, NEW x \in S
    PROVE  g[S] = f[x] + g[S \ {x}]
<1> DEFINE Good(T) == \A y \in T : g[T] = f[y] + g[T \ {y}]
           Bad == {T \in SUBSET D : ~Good(T)}
<1>1. \A T \in SUBSET D : T # {} => AnyOf(T) \in T /\ g[T] = f[AnyOf(T)] + g[T \ {AnyOf(T)}]
  BY DEF Summed, AnyOf
<1>2. \A T \in SUBSET D : g[T] \in Nat
  BY SumIsNatural
<1>3. ASSUME NEW T \in SUBSET D, \A y \in T : Good(T \ {y}) PROVE Good(T)
  <2> SUFFICES ASSUME NEW y \in T PROVE g[T] = f[y] + g[T \ {y}]
    OBVIOUS
  <2> PICK a : a = AnyOf(T)
    OBVIOUS
  <2>1. a \in T /\ g[T] = f[a] + g[T \ {a}]
    BY <1>1
  <2>2. CASE y = a
    BY <2>1, <2>2
  <2>3. CASE y # a
    <3>1. g[T \ {a}] = f[y] + g[(T \ {a}) \ {y}]
      BY <1>3, <2>1, <2>3
    <3>2. g[T \ {y}] = f[a] + g[(T \ {y}) \ {a}]
      BY <1>3, <2>1, <2>3
    <3>3. (T \ {a}) \ {y} = (T \ {y}) \ {a}
      OBVIOUS
    <3> PICK rest \in Nat : rest = g[(T \ {y}) \ {a}]
      BY <1>2
    <3>4. f[y] \in Nat /\ f[a] \in Nat
      BY <2>1
    <3>5. QED
      BY <2>1, <3>1, <3>2, <3>3, <3>4
  <2>4. QED
    BY <2>2, <2>3
<1>4. Bad = {}
  <2> SUFFICES ASSUME Bad # {} PROVE FALSE
    OBVIOUS
  <2>1. Bad \in SUBSET SUBSET D
    OBVIOUS
  <2> HIDE DEF Bad, Good
  <2>2. PICK T \in Bad : \A y \in T : T \ {y} \notin Bad
    BY <2>1, SmallestSet
  <2>3. T \in SUBSET D /\ ~Good(T) /\ \A y \in T : Good(T \ {y})
    BY <2>2 DEF Bad
  <2>4. QED
    BY <1>3, <2>3
<1>5. QED
  BY <1>4

\* The more elements and the greater their values, the greater is the sum.
LEMMA SumGrows ==
    ASSUME NEW D, IsFiniteSet(D), NEW E \in SUBSET D,
           NEW h, DOMAIN h = D, \A x \in D : h[x] \in Nat,
           NEW f, DOMAIN f = E, \A x \in E : f[x] \in Nat /\ f[x] <= h[x]
    PROVE  SumOf(f) \in Nat /\ SumOf(h) \in Nat /\ SumOf(f) <= SumOf(h)
<1> DEFINE low == CHOOSE g : Summed(g, E, f)
           high == CHOOSE g : Summed(g, D, h)
<1>1. IsFiniteSet(E)
  BY FS_Subset
<1>2. Summed(low, E, f) /\ Summed(high, D, h)
  BY <1>1, SumExists
<1>3. SumOf(f) = low[E] /\ SumOf(h) = high[D]
  BY SumIsSummed
<1> HIDE DEF low, high
<1>4. \A S \in SUBSET E : low[S] \in Nat
  BY <1>1, <1>2, SumIsNatural
<1>5. \A S \in SUBSET D : high[S] \in Nat
  BY <1>2, SumIsNatural
<1>6. low[{}] = 0
  BY <1>2 DEF Summed
<1>7. \A T \in SUBSET D : low[T \cap E] <= high[T]
  <2> DEFINE Bad == {T \in SUBSET D : ~(low[T \cap E] <= high[T])}
  <2> SUFFICES ASSUME Bad # {} PROVE FALSE
    OBVIOUS
  <2>1. Bad \in SUBSET SUBSET D
    OBVIOUS
  <2> HIDE DEF Bad
  <2>2. PICK T \in Bad : \A x \in T : T \ {x} \notin Bad
    BY <2>1, SmallestSet
  <2> USE DEF Bad
  <2>3. T \in SUBSET D /\ T \cap E \in SUBSET E
    OBVIOUS
  <2> PICK a \in Nat : a = low[T \cap E]
    BY <1>4, <2>3
  <2> PICK b \in Nat : b = high[T]
    BY <1>5, <2>3
  <2>4. ~(a <= b)
    OBVIOUS
  <2> HIDE DEF Bad
  <2>5. T # {}
    <3>1. T = {} => T \cap E = {}
      OBVIOUS
    <3>2. a # 0
      BY <2>4
    <3>3. QED
      BY <1>6, <3>1, <3>2
  <2>6. PICK x \in T : TRUE
    BY <2>5
  <2> PICK c \in Nat : c = low[(T \ {x}) \cap E]
    BY <1>4
  <2> PICK d \in Nat : d = high[T \ {x}]
    BY <1>5, <2>3
  <2> PICK v \in Nat : v = h[x]
    BY <2>3
  <2>7. b = v + d
    BY <1>2, <2>3, SumTakes
  <2>8. c <= d
    BY <2>2, <2>3 DEF Bad
  <2>9. CASE x \in E
    <3>1. a = f[x] + low[(T \cap E) \ {x}]
      BY <1>1, <1>2, <2>9, SumTakes
    <3>2. (T \cap E) \ {x} = (T \ {x}) \cap E
      OBVIOUS
    <3> PICK u \in Nat : u = f[x] /\ u <= v
      BY <2>9
    <3>3. a = u + c
      BY <3>1, <3>2
    <3>4. QED
      BY <2>4, <2>7, <2>8, <3>3
  <2>10. CASE x \notin E
    <3>1. (T \ {x}) \cap E = T \cap E
      BY <2>10
    <3>2. a = c
      BY <3>1
    <3>3. QED
      BY <2>4, <2>7, <2>8, <3>2
  <2>11. QED
    BY <2>9, <2>10
<1>8. D \cap E = E
  OBVIOUS
<1>9. QED
  BY <1>3, <1>4, <1>5, <1>7, <1>8

\* A multiple of a sum is the sum of the multiples.
LEMMA SumScales ==
    ASSUME NEW D, IsFiniteSet(D), NEW k \in Nat,
           NEW h, DOMAIN h = D, \A x \in D : h[x] \in Nat,
           NEW f, DOMAIN f = D, \A x \in D : f[x] = k * h[x]
    PROVE  SumOf(h) \in Nat /\ SumOf(f) = k * SumOf(h)
<1> DEFINE low == CHOOSE g : Summed(g, D, f)
           high == CHOOSE g : Summed(g, D, h)
<1>1. Summed(low, D, f) /\ Summed(high, D, h)
  BY SumExists
<1>2. SumOf(f) = low[D] /\ SumOf(h) = high[D]
  BY SumIsSummed
<1> HIDE DEF low, high
<1>3. \A x \in D : f[x] \in Nat
  OBVIOUS
<1>4. \A S \in SUBSET D : low[S] \in Nat /\ high[S] \in Nat
  BY <1>1, <1>3, SumIsNatural
<1>5. low[{}] = 0 /\ high[{}] = 0
  BY <1>1 DEF Summed
<1>6. \A T \in SUBSET D : low[T] = k * high[T]
  <2> DEFINE Bad == {T \in SUBSET D : low[T] # k * high[T]}
  <2> SUFFICES ASSUME Bad # {} PROVE FALSE
    OBVIOUS
  <2>1. Bad \in SUBSET SUBSET D
    OBVIOUS
  <2> HIDE DEF Bad
  <2>2. PICK T \in Bad : \A x \in T : T \ {x} \notin Bad
    BY <2>1, SmallestSet
  <2>3. T \in SUBSET D /\ low[T] # k * high[T]
    BY DEF Bad
  <2>4. T # {}
    <3>1. k * 0 = 0
      OBVIOUS
    <3>2. QED
      BY <1>5, <2>3, <3>1
  <2>5. PICK x \in T : TRUE
    BY <2>4
  <2>6. low[T] = f[x] + low[T \ {x}] /\ high[T] = h[x] + high[T \ {x}]
    BY <1>1, <1>3, <2>3, SumTakes
  <2>7. low[T \ {x}] = k * high[T \ {x}]
    BY <2>2, <2>3 DEF Bad
  <2> PICK u \in Nat : u = h[x]
    BY <2>3
  <2> PICK v \in Nat : v = high[T \ {x}]
    BY <1>4, <2>3
  <2>8. low[T] = k * u + k * v /\ high[T] = u + v
    BY <2>3, <2>6, <2>7
  <2>9. k * (u + v) = k * u + k * v
    OBVIOUS
  <2>10. QED
    BY <2>3, <2>8, <2>9
<1>7. QED
  BY <1>2, <1>4, <1>6

-----------------------------------------------------------------------------
(* The values in the middle: there is a k-th one of k and more.             *)

\* Finitely many values that are natural numbers have a greatest one.
LEMMA GreatestValue ==
    ASSUME NEW I, IsFiniteSet(I), I # {}, NEW value, \A i \in I : value[i] \in Nat
    PROVE  \E i \in I : \A j \in I : value[j] <= value[i]
<1> DEFINE Has(S) == \E i \in S : \A j \in S : value[j] <= value[i]
           Bad == {S \in SUBSET I : S # {} /\ ~Has(S)}
<1> SUFFICES ASSUME Bad # {} PROVE FALSE
  OBVIOUS
<1>1. Bad \in SUBSET SUBSET I
  OBVIOUS
<1> HIDE DEF Bad, Has
<1>2. PICK T \in Bad : \A x \in T : T \ {x} \notin Bad
  BY <1>1, SmallestSet
<1>3. T \in SUBSET I /\ T # {} /\ ~Has(T)
  BY DEF Bad
<1>4. PICK x \in T : TRUE
  BY <1>3
<1>5. CASE T \ {x} = {}
  <2>1. \A j \in T : j = x
    BY <1>5
  <2>2. value[x] \in Nat
    BY <1>3, <1>4
  <2>3. \A j \in T : value[j] <= value[x]
    BY <2>1, <2>2
  <2>4. QED
    BY <1>3, <2>3 DEF Has
<1>6. CASE T \ {x} # {}
  <2>1. Has(T \ {x})
    BY <1>2, <1>3, <1>6 DEF Bad
  <2>2. PICK y \in T \ {x} : \A j \in T \ {x} : value[j] <= value[y]
    BY <2>1 DEF Has
  <2>3. value[x] \in Nat /\ value[y] \in Nat /\ \A j \in T : value[j] \in Nat
    BY <1>3
  <2>4. CASE value[x] <= value[y]
    BY <1>3, <2>2, <2>4 DEF Has
  <2>5. CASE value[y] <= value[x]
    <3>1. \A j \in T : value[j] <= value[x]
      BY <2>2, <2>3, <2>5
    <3>2. QED
      BY <1>3, <3>1 DEF Has
  <2>6. QED
    BY <2>3, <2>4, <2>5
<1>7. QED
  BY <1>5, <1>6

LEMMA KthIsAValue ==
    ASSUME NEW value, IsFiniteSet(DOMAIN value), \A i \in DOMAIN value : value[i] \in Nat,
           NEW k \in 1..Cardinality(DOMAIN value)
    PROVE  Kth(k, value) \in Nat
<1> DEFINE I == DOMAIN value
           Under(v) == {i \in I : value[i] < v}
           Upto(v) == {i \in I : value[i] <= v}
           V == {value[i] : i \in I}
           Enough == {v \in V : Cardinality(Upto(v)) >= k}
<1>1. Cardinality(I) \in Nat /\ k \in Nat /\ 0 < k /\ k <= Cardinality(I)
  BY FS_CardinalityType
<1>2. \A v : Upto(v) \in SUBSET I /\ Under(v) \in SUBSET I
  OBVIOUS
<1>3. \A S \in SUBSET I : IsFiniteSet(S) /\ Cardinality(S) \in Nat
  BY FS_Subset, FS_CardinalityType
<1>4. V \in SUBSET Nat
  OBVIOUS
<1>5. Enough # {}
  <2>1. I # {}
    BY <1>1, FS_EmptySet
  <2>2. PICK i \in I : \A j \in I : value[j] <= value[i]
    BY <2>1, GreatestValue
  <2>3. Upto(value[i]) = I
    BY <2>2
  <2>4. value[i] \in Enough
    BY <1>1, <2>3
  <2>5. QED
    BY <2>4
<1>6. Enough \in SUBSET Nat
  BY <1>4
<1> HIDE DEF Enough
<1>7. PICK v \in Enough : \A w \in Enough : v <= w
  BY <1>5, <1>6, LeastNumber
<1>8. v \in V /\ Cardinality(Upto(v)) >= k /\ v \in Nat
  BY <1>4, <1>7 DEF Enough
<1>9. Cardinality(Under(v)) < k
  <2> SUFFICES ASSUME ~(Cardinality(Under(v)) < k) PROVE FALSE
    OBVIOUS
  <2>1. IsFiniteSet(Under(v)) /\ Cardinality(Under(v)) \in Nat
    BY <1>2, <1>3
  <2>2. Under(v) # {}
    BY <1>1, <2>1, FS_EmptySet
  <2>3. \A i \in Under(v) : value[i] \in Nat /\ i \in I
    OBVIOUS
  <2>4. PICK i \in Under(v) : \A j \in Under(v) : value[j] <= value[i]
    BY <2>1, <2>2, <2>3, GreatestValue
  <2>5. value[i] \in V /\ value[i] \in Nat /\ value[i] < v
    OBVIOUS
  <2>6. Under(v) \subseteq Upto(value[i])
    BY <2>4
  <2> HIDE DEF Under, Upto
  <2>7. Cardinality(Under(v)) <= Cardinality(Upto(value[i]))
    BY <1>2, <1>3, <2>6, FS_Subset
  <2>8. Cardinality(Upto(value[i])) \in Nat
    BY <1>2, <1>3
  <2>9. value[i] \in Enough
    BY <1>1, <2>1, <2>5, <2>7, <2>8 DEF Enough
  <2>10. QED
    BY <1>7, <1>8, <2>5, <2>9
<1>10. Kth(k, value) \in V
  BY <1>8, <1>9 DEF Kth
<1>11. QED
  BY <1>4, <1>10

\* A median is a price if there are any.
LEMMA MedianCostTyped ==
    ASSUME NEW value, IsFiniteSet(DOMAIN value), \A i \in DOMAIN value : value[i] \in Nat
    PROVE  MedianCost(value) \in Nat \cup {Unknown}
<1> PICK n \in Nat : n = Cardinality(DOMAIN value)
  BY FS_CardinalityType
<1>1. CASE n = 0
  BY <1>1 DEF MedianCost
<1>2. CASE n # 0
  <2>1. (n + 1) \div 2 \in 1..n /\ n \div 2 + 1 \in 1..n
    BY <1>2
  <2>2. Kth((n + 1) \div 2, value) \in Nat /\ Kth(n \div 2 + 1, value) \in Nat
    BY <2>1, KthIsAValue
  <2>3. MedianCost(value) = (Kth((n + 1) \div 2, value) + Kth(n \div 2 + 1, value)) \div 2
    BY <1>2 DEF MedianCost
  <2>4. QED
    BY <2>2, <2>3
<1>3. QED
  BY <1>1, <1>2

LEMMA MarketMedianTyped ==
    ASSUME NEW observed, IsFiniteSet(DOMAIN observed),
           \A c \in DOMAIN observed : observed[c].median \in Nat \cup {Unknown}
    PROVE  MarketMedian(observed) \in Nat \cup {Unknown}
<1> DEFINE priced == {c \in DOMAIN observed : observed[c].median # Unknown}
           value == [c \in priced |-> observed[c].median]
<1>1. CASE priced = {}
  BY <1>1 DEF MarketMedian
<1>2. CASE priced # {}
  <2>1. IsFiniteSet(priced)
    BY FS_Subset
  <2>2. DOMAIN value = priced /\ \A i \in priced : value[i] \in Nat
    OBVIOUS
  <2> PICK n \in Nat : n = Cardinality(priced)
    BY <2>1, FS_CardinalityType
  <2>3. MarketMedian(observed) = Kth(n \div 2 + 1, value)
    BY <1>2 DEF MarketMedian
  <2>4. n # 0
    BY <1>2, <2>1, FS_EmptySet
  <2>5. n \div 2 + 1 \in 1..n
    BY <2>4
  <2> HIDE DEF value, priced
  <2>6. Kth(n \div 2 + 1, value) \in Nat
    BY <2>1, <2>2, <2>5, KthIsAValue
  <2>7. QED
    BY <2>3, <2>6
<1>3. QED
  BY <1>1, <1>2

-----------------------------------------------------------------------------
(* Rounding, and the shares it is used for.                                 *)

\* The nearest number and, of two that are as near, the even one.
LEMMA HalfEvenIsNearest ==
    ASSUME NEW a \in Nat, NEW b \in Nat \ {0}
    PROVE  /\ HalfEven(a, b) \in Nat
           /\ 2 * (HalfEven(a, b) * b) <= 2 * a + b
           /\ 2 * a <= 2 * (HalfEven(a, b) * b) + b
           /\ 2 * (HalfEven(a, b) * b) = 2 * a + b => HalfEven(a, b) % 2 = 0
           /\ 2 * a = 2 * (HalfEven(a, b) * b) + b => HalfEven(a, b) % 2 = 0
<1> PICK q : q = a \div b
  OBVIOUS
<1> PICK r : r = a % b
  OBVIOUS
<1>1. q \in Nat /\ r \in 0..(b - 1) /\ a = q * b + r
  OBVIOUS
<1> PICK h : h = HalfEven(a, b)
  OBVIOUS
<1>2. h = IF 2 * r > b \/ (2 * r = b /\ q % 2 = 1) THEN q + 1 ELSE q
  BY DEF HalfEven
<1> PICK m \in Nat : m = q * b
  BY <1>1
<1>3. (q + 1) * b = m + b
  BY <1>1
<1>4. CASE h = q
  <2>1. h * b = m /\ a = m + r /\ r \in Nat
    BY <1>1, <1>4
  <2>2. 2 * r <= b /\ (2 * r = b => q % 2 # 1)
    BY <1>1, <1>2, <1>4
  <2>3. q % 2 \in {0, 1}
    BY <1>1
  <2>4. QED
    BY <1>1, <1>4, <2>1, <2>2, <2>3
<1>5. CASE h = q + 1
  <2>1. h * b = m + b /\ a = m + r /\ r \in Nat
    BY <1>1, <1>3, <1>5
  <2>2. 2 * r >= b /\ (2 * r = b => q % 2 = 1)
    BY <1>1, <1>2, <1>5
  <2>3. q % 2 = 1 => (q + 1) % 2 = 0
    BY <1>1
  <2>4. QED
    BY <1>1, <1>5, <2>1, <2>2, <2>3
<1>6. QED
  BY <1>2, <1>4, <1>5

\* Factors compare as their products do.
LEMMA ProductsCompare ==
    ASSUME NEW x \in Nat, NEW y \in Nat, NEW b \in Nat \ {0}, x * b <= y * b
    PROVE  x <= y
<1> SUFFICES ASSUME x > y PROVE FALSE
  OBVIOUS
<1>1. PICK e \in Nat : x = y + 1 + e
  <2>1. x - (y + 1) \in Nat /\ x = y + 1 + (x - (y + 1))
    OBVIOUS
  <2>2. QED
    BY <2>1
<1>2. (y + 1 + e) * b = y * b + b + e * b /\ e * b \in Nat /\ y * b \in Nat
  OBVIOUS
<1>3. QED
  BY <1>1, <1>2

\* A greater fraction is not rounded to less.
LEMMA HalfEvenGrows ==
    ASSUME NEW a \in Nat, NEW b \in Nat \ {0}, NEW c \in Nat, NEW d \in Nat \ {0}, a * d <= c * b
    PROVE  HalfEven(a, b) <= HalfEven(c, d)
<1> PICK h \in Nat : h = HalfEven(a, b)
  BY HalfEvenIsNearest
<1> PICK k \in Nat : k = HalfEven(c, d)
  BY HalfEvenIsNearest
<1> SUFFICES ASSUME ~(h <= k) PROVE FALSE
  OBVIOUS
<1>1. 2 * (h * b) <= 2 * a + b /\ (2 * (h * b) = 2 * a + b => h % 2 = 0)
  BY HalfEvenIsNearest
<1>2. 2 * c <= 2 * (k * d) + d /\ (2 * c = 2 * (k * d) + d => k % 2 = 0)
  BY HalfEvenIsNearest
<1> PICK bd \in Nat \ {0} : bd = b * d
  OBVIOUS
<1>3. 2 * (h * bd) <= 2 * (a * d) + bd
  <2>1. (2 * (h * b)) * d <= (2 * a + b) * d
    BY <1>1
  <2>2. (2 * (h * b)) * d = 2 * (h * bd) /\ (2 * a + b) * d = 2 * (a * d) + bd
    OBVIOUS
  <2>3. QED
    BY <2>1, <2>2
<1>4. 2 * (c * b) <= 2 * (k * bd) + bd
  <2>1. (2 * c) * b <= (2 * (k * d) + d) * b
    BY <1>2
  <2>2. (2 * c) * b = 2 * (c * b) /\ (2 * (k * d) + d) * b = 2 * (k * bd) + bd
    OBVIOUS
  <2>3. QED
    BY <2>1, <2>2
<1>5. h * bd >= k * bd + bd
  <2>1. h * bd >= (k + 1) * bd
    OBVIOUS
  <2>2. QED
    BY <2>1
<1>6. h = k + 1 /\ 2 * (h * bd) = 2 * (a * d) + bd /\ 2 * (c * b) = 2 * (k * bd) + bd
  <2>1. PICK x \in Nat : x = a * d
    OBVIOUS
  <2>2. PICK y \in Nat : y = c * b
    OBVIOUS
  <2>3. PICK z \in Nat : z = k * bd
    OBVIOUS
  <2>4. PICK w \in Nat : w = h * bd
    OBVIOUS
  <2>5. w = z + bd /\ 2 * w = 2 * x + bd /\ 2 * y = 2 * z + bd
    BY <1>3, <1>4, <1>5, <2>1, <2>2, <2>3, <2>4
  <2>6. h = k + 1
    <3>1. ASSUME h > k + 1 PROVE FALSE
      <4>1. PICK e \in Nat : h = k + 2 + e
        <5>1. h - (k + 2) \in Nat /\ h = k + 2 + (h - (k + 2))
          BY <3>1
        <5>2. QED
          BY <5>1
      <4>2. (k + 2 + e) * bd = k * bd + 2 * bd + e * bd /\ e * bd \in Nat
        OBVIOUS
      <4>3. QED
        BY <2>3, <2>4, <2>5, <4>1, <4>2
    <3>2. QED
      BY <3>1
  <2>7. QED
    BY <2>1, <2>2, <2>3, <2>4, <2>5, <2>6
<1>7. 2 * (h * b) = 2 * a + b
  <2>1. (2 * (h * b)) * d = (2 * a + b) * d
    BY <1>6
  <2>2. QED
    BY <2>1
<1>8. 2 * c = 2 * (k * d) + d
  <2>1. (2 * c) * b = (2 * (k * d) + d) * b
    BY <1>6
  <2> PICK m \in Nat : m = k * d
    OBVIOUS
  <2> PICK x \in Nat : x = 2 * c
    OBVIOUS
  <2> PICK y \in Nat : y = 2 * m + d
    OBVIOUS
  <2>2. x * b = y * b
    BY <2>1
  <2>3. x * b <= y * b /\ y * b <= x * b
    BY <2>2
  <2>4. x <= y /\ y <= x
    BY <2>3, ProductsCompare
  <2>5. 2 * c = 2 * m + d
    BY <2>4
  <2>6. QED
    BY <2>5
<1>9. h % 2 = 0 /\ k % 2 = 0
  BY <1>1, <1>2, <1>7, <1>8
<1>10. QED
  BY <1>6, <1>9

LEMMA HalfUpGrows ==
    ASSUME NEW a \in Nat, NEW b \in Nat \ {0}, NEW c \in Nat, NEW d \in Nat \ {0}, a * d <= c * b
    PROVE  HalfUp(a, b) \in Nat /\ HalfUp(c, d) \in Nat /\ HalfUp(a, b) <= HalfUp(c, d)
<1>1. HalfUp(a, b) \in Nat /\ HalfUp(c, d) \in Nat
  BY DEF HalfUp
<1> PICK h \in Nat : h = HalfUp(a, b)
  BY <1>1
<1> PICK k \in Nat : k = HalfUp(c, d)
  BY <1>1
<1>2. (2 * b) * h <= 2 * a + b
  <2>1. 2 * a + b \in Nat /\ 2 * b \in Nat \ {0}
    OBVIOUS
  <2>2. (2 * b) * ((2 * a + b) \div (2 * b)) <= 2 * a + b
    BY <2>1
  <2>3. QED
    BY <2>2 DEF HalfUp
<1>3. 2 * c + d < (2 * d) * (k + 1)
  <2>1. 2 * c + d \in Nat /\ 2 * d \in Nat \ {0}
    OBVIOUS
  <2> PICK x \in Nat : x = 2 * c + d
    BY <2>1
  <2> PICK y \in Nat \ {0} : y = 2 * d
    BY <2>1
  <2>2. x < y * ((x \div y) + 1)
    <3>1. x = y * (x \div y) + (x % y) /\ x % y < y
      OBVIOUS
    <3>2. y * ((x \div y) + 1) = y * (x \div y) + y
      OBVIOUS
    <3>3. QED
      BY <3>1, <3>2
  <2>3. QED
    BY <2>2 DEF HalfUp
<1> SUFFICES ASSUME ~(h <= k) PROVE FALSE
  BY <1>1
<1> PICK e \in Nat : h = k + 1 + e
  <2>1. h - (k + 1) \in Nat /\ h = k + 1 + (h - (k + 1))
    OBVIOUS
  <2>2. QED
    BY <2>1
<1> PICK bd \in Nat \ {0} : bd = b * d
  OBVIOUS
<1>4. 2 * (bd * h) <= 2 * (a * d) + bd
  <2>1. ((2 * b) * h) * d <= (2 * a + b) * d
    BY <1>2
  <2>2. ((2 * b) * h) * d = 2 * (bd * h) /\ (2 * a + b) * d = 2 * (a * d) + bd
    OBVIOUS
  <2>3. QED
    BY <2>1, <2>2
<1>5. 2 * (c * b) + bd < 2 * (bd * (k + 1))
  <2>1. (2 * c + d) * b < ((2 * d) * (k + 1)) * b
    BY <1>3
  <2>2. (2 * c + d) * b = 2 * (c * b) + bd /\ ((2 * d) * (k + 1)) * b = 2 * (bd * (k + 1))
    OBVIOUS
  <2>3. QED
    BY <2>1, <2>2
<1>6. bd * h = bd * (k + 1) + bd * e /\ bd * e \in Nat /\ bd * (k + 1) \in Nat
  OBVIOUS
<1> PICK x \in Nat : x = a * d
  OBVIOUS
<1> PICK y \in Nat : y = c * b
  OBVIOUS
<1> PICK z \in Nat : z = bd * (k + 1)
  BY <1>6
<1> PICK w \in Nat : w = bd * e
  BY <1>6
<1>7. x <= y /\ 2 * (z + w) <= 2 * x + bd /\ 2 * y + bd < 2 * z
  BY <1>4, <1>5, <1>6
<1>8. QED
  BY <1>7

\* A share of something is between nothing and all.
LEMMA RateIsAShare ==
    ASSUME NEW part \in Nat, NEW whole \in Nat, part <= whole
    PROVE  /\ whole = 0 => Rate(part, whole) = Unknown /\ Inverted(part, whole) = Unknown
           /\ whole # 0 => Rate(part, whole) \in 0..One /\ Inverted(part, whole) \in 0..One
<1> PICK one \in Nat : one = One
  BY DEF One
<1>1. CASE whole = 0
  BY <1>1 DEF Rate, Inverted
<1>2. CASE whole # 0
  <2>1. HalfEven(one * part, whole) \in Nat
    BY <1>2, HalfEvenIsNearest
  <2>2. HalfEven(one * part, whole) <= HalfEven(one, 1)
    <3>1. (one * part) * 1 <= one * whole
      <4>1. one * part <= one * whole
        <5>1. PICK e \in Nat : whole = part + e
          <6>1. whole - part \in Nat /\ whole = part + (whole - part)
            OBVIOUS
          <6>2. QED
            BY <6>1
        <5>2. one * (part + e) = one * part + one * e /\ one * e \in Nat /\ one * part \in Nat
          OBVIOUS
        <5>3. QED
          BY <5>1, <5>2
      <4>2. QED
        BY <4>1
    <3>2. one * part \in Nat
      OBVIOUS
    <3>3. QED
      BY <1>2, <3>1, <3>2, HalfEvenGrows
  <2>3. HalfEven(one, 1) = one
    <3>1. one \div 1 = one /\ one % 1 = 0
      OBVIOUS
    <3>2. QED
      BY <3>1 DEF HalfEven
  <2>4. QED
    BY <1>2, <2>1, <2>2, <2>3 DEF Rate, Inverted
<1>3. QED
  BY <1>1, <1>2

\* One more of which it is true raises a share, one more of which it is not
\* raises the share of the others.
LEMMA GoodRaisesShares ==
    ASSUME NEW part \in Nat, NEW whole \in Nat, part <= whole
    PROVE  /\ whole # 0 => Rate(part + 1, whole + 1) >= Rate(part, whole)
           /\ whole # 0 => Inverted(part, whole + 1) >= Inverted(part, whole)
           /\ whole = 0 => Rate(part + 1, whole + 1) = One
<1> PICK one \in Nat : one = One
  BY DEF One
<1>1. CASE whole = 0
  <2>1. part = 0 /\ one \div 1 = one /\ one % 1 = 0
    BY <1>1
  <2>2. HalfEven(one * 1, 1) = one
    BY <2>1 DEF HalfEven
  <2>3. QED
    BY <1>1, <2>1, <2>2 DEF Rate
<1>2. CASE whole # 0
  <2> PICK x \in Nat : x = one * part
    OBVIOUS
  <2> PICK y \in Nat : y = one * (part + 1)
    OBVIOUS
  <2>1. x * (whole + 1) <= y * whole
    <3>1. x * (whole + 1) = one * (part * whole + part)
      OBVIOUS
    <3>2. y * whole = one * (part * whole + whole)
      OBVIOUS
    <3>3. PICK e \in Nat : whole = part + e
      <4>1. whole - part \in Nat /\ whole = part + (whole - part)
        OBVIOUS
      <4>2. QED
        BY <4>1
    <3> PICK z \in Nat : z = part * whole + part
      OBVIOUS
    <3>4. one * (z + e) = one * z + one * e /\ one * e \in Nat /\ one * z \in Nat
      OBVIOUS
    <3>5. part * whole + whole = z + e
      BY <3>3
    <3>6. QED
      BY <3>1, <3>2, <3>4, <3>5
  <2>2. HalfEven(x, whole) <= HalfEven(y, whole + 1)
    BY <1>2, <2>1, HalfEvenGrows
  <2>3. HalfEven(x, whole + 1) <= HalfEven(x, whole)
    <3>1. x * whole <= x * (whole + 1)
      <4>1. x * (whole + 1) = x * whole + x
        OBVIOUS
      <4>2. QED
        BY <4>1
    <3>2. QED
      BY <1>2, <3>1, HalfEvenGrows
  <2>4. /\ HalfEven(x, whole) \in Nat /\ HalfEven(y, whole + 1) \in Nat
        /\ HalfEven(x, whole + 1) \in Nat
    <3>1. whole + 1 \in Nat \ {0} /\ whole \in Nat \ {0}
      BY <1>2
    <3>2. HalfEven(x, whole) \in Nat
      BY <3>1, HalfEvenIsNearest
    <3>3. HalfEven(y, whole + 1) \in Nat
      BY <3>1, HalfEvenIsNearest
    <3>4. HalfEven(x, whole + 1) \in Nat
      BY <3>1, HalfEvenIsNearest
    <3>5. QED
      BY <3>2, <3>3, <3>4
  <2>5. /\ Rate(part, whole) = HalfEven(x, whole) /\ Rate(part + 1, whole + 1) = HalfEven(y, whole + 1)
        /\ Inverted(part, whole) = one - HalfEven(x, whole)
        /\ Inverted(part, whole + 1) = one - HalfEven(x, whole + 1)
    BY <1>2 DEF Rate, Inverted
  <2>6. QED
    BY <1>2, <2>2, <2>3, <2>4, <2>5
<1>3. QED
  BY <1>1, <1>2

-----------------------------------------------------------------------------
(* The counters of a carrier, and the components that come of them.         *)
Counters == {"finalized", "with_deadline", "on_time", "broken", "with_incident", "transparent"}
CountsFit(o) ==
    /\ \A field \in Counters : o[field] \in Nat
    /\ o.on_time <= o.with_deadline /\ o.broken <= o.finalized
    /\ o.with_incident <= o.finalized /\ o.transparent <= o.finalized

\* Counters before and after a good delivery.
Raised(o, b) ==
    /\ b.finalized = o.finalized + 1 /\ b.with_deadline = o.with_deadline + 1
    /\ b.on_time = o.on_time + 1 /\ b.transparent = o.transparent + 1
    /\ b.broken = o.broken /\ b.with_incident = o.with_incident

LEMMA LesserAndGreater ==
    ASSUME NEW a \in Int, NEW b \in Int
    PROVE  /\ Max({a, b}) = IF a >= b THEN a ELSE b
           /\ Min({a, b}) = IF a <= b THEN a ELSE b
<1>1. \A x \in {a, b} : (\A y \in {a, b} : x >= y) <=> x = IF a >= b THEN a ELSE b
  OBVIOUS
<1>2. \A x \in {a, b} : (\A y \in {a, b} : x <= y) <=> x = IF a <= b THEN a ELSE b
  OBVIOUS
<1>3. QED
  BY <1>1, <1>2 DEF Max, Min

LEMMA PriceIndexTyped ==
    ASSUME NEW median \in Nat \cup {Unknown}, NEW market \in Nat \cup {Unknown}
    PROVE  PriceIndex(median, market) \in Nat \cup {Unknown}
<1>1. CASE median = Unknown \/ market \in {Unknown, 0}
  BY <1>1 DEF PriceIndex
<1>2. CASE median # Unknown /\ market \notin {Unknown, 0}
  <2>1. median \in Nat /\ market \in Nat \ {0}
    BY <1>2
  <2> PICK one \in Nat : one = One
    BY DEF One
  <2> DEFINE low == Max({2 * market - median, 0})
             part == Min({low, 2 * market})
  <2>2. low \in Nat
    BY <2>1, LesserAndGreater
  <2> HIDE DEF low
  <2>3. part \in Nat
    <3>1. 2 * market \in Nat
      BY <2>1
    <3>2. part \in {low, 2 * market}
      BY <2>2, <3>1, LesserAndGreater
    <3>3. QED
      BY <2>2, <3>1, <3>2
  <2> HIDE DEF part
  <2>4. one * part \in Nat /\ 2 * market \in Nat \ {0}
    BY <2>1, <2>3
  <2>5. HalfEven(one * part, 2 * market) \in Nat
    BY <2>4, HalfEvenIsNearest
  <2>6. PriceIndex(median, market) = HalfEven(one * part, 2 * market)
    BY <1>2 DEF PriceIndex, part, low
  <2>7. QED
    BY <2>5, <2>6
<1>3. QED
  BY <1>1, <1>2

\* A component is a share, or has not been observed.
LEMMA ComponentsTyped ==
    ASSUME NEW o, CountsFit(o), o.median \in Nat \cup {Unknown}, NEW market \in Nat \cup {Unknown}
    PROVE  \A n \in Names : Components(o, market)[n] \in Nat \cup {Unknown}
<1>1. /\ o.on_time \in Nat /\ o.with_deadline \in Nat /\ o.broken \in Nat /\ o.with_incident \in Nat
      /\ o.transparent \in Nat /\ o.finalized \in Nat
  BY DEF CountsFit, Counters
<1>2. /\ Rate(o.on_time, o.with_deadline) \in Nat \cup {Unknown}
      /\ Rate(o.transparent, o.finalized) \in Nat \cup {Unknown}
      /\ Inverted(o.broken, o.finalized) \in Nat \cup {Unknown}
      /\ Inverted(o.with_incident, o.finalized) \in Nat \cup {Unknown}
  BY <1>1, RateIsAShare DEF CountsFit
<1>3. PriceIndex(o.median, market) \in Nat \cup {Unknown}
  BY PriceIndexTyped
<1>4. QED
  BY <1>2, <1>3 DEF Components, Names

\* What a good delivery does to a share: it lowers none, and what it lets be
\* observed is at its best.
Rises(y, x) == NeverLower(y, x) /\ (x = Unknown => y \in {Unknown, One})

LEMMA GoodRaisesRates ==
    ASSUME NEW o, CountsFit(o), o.finalized > 0, NEW b, Raised(o, b)
    PROVE  /\ Rises(Rate(b.on_time, b.with_deadline), Rate(o.on_time, o.with_deadline))
           /\ Rises(Rate(b.transparent, b.finalized), Rate(o.transparent, o.finalized))
           /\ Rises(Inverted(b.broken, b.finalized), Inverted(o.broken, o.finalized))
           /\ Rises(Inverted(b.with_incident, b.finalized), Inverted(o.with_incident, o.finalized))
<1>1. /\ o.on_time \in Nat /\ o.with_deadline \in Nat /\ o.broken \in Nat /\ o.with_incident \in Nat
      /\ o.transparent \in Nat /\ o.finalized \in Nat
  BY DEF CountsFit, Counters
<1>2. CountsFit(b)
  BY <1>1 DEF Raised, CountsFit, Counters
<1>3. /\ b.on_time \in Nat /\ b.with_deadline \in Nat /\ b.broken \in Nat /\ b.with_incident \in Nat
      /\ b.transparent \in Nat /\ b.finalized \in Nat
  BY <1>2 DEF CountsFit, Counters
<1>4. Unknown \notin Int /\ One \in Nat
  BY ScoreAssumption DEF One
<1>5. ASSUME NEW x \in 0..One, NEW y \in 0..One, y >= x PROVE Rises(y, x)
  BY <1>4, <1>5 DEF Rises, NeverLower
<1>6. Rises(Rate(b.on_time, b.with_deadline), Rate(o.on_time, o.with_deadline))
  <2>1. o.on_time <= o.with_deadline /\ b.on_time <= b.with_deadline
    BY <1>2 DEF CountsFit
  <2>2. b.with_deadline # 0 /\ Rate(b.on_time, b.with_deadline) \in 0..One
    BY <1>1, <1>3, <2>1, RateIsAShare DEF Raised
  <2>3. CASE o.with_deadline = 0
    <3>1. Rate(o.on_time, o.with_deadline) = Unknown /\ Rate(b.on_time, b.with_deadline) = One
      BY <1>1, <2>1, <2>3, RateIsAShare, GoodRaisesShares DEF Raised
    <3>2. QED
      BY <3>1 DEF Rises, NeverLower
  <2>4. CASE o.with_deadline # 0
    <3>1. /\ Rate(o.on_time, o.with_deadline) \in 0..One
          /\ Rate(b.on_time, b.with_deadline) >= Rate(o.on_time, o.with_deadline)
      BY <1>1, <2>1, <2>4, RateIsAShare, GoodRaisesShares DEF Raised
    <3>2. QED
      BY <1>5, <2>2, <3>1
  <2>5. QED
    BY <2>3, <2>4
<1>7. Rises(Rate(b.transparent, b.finalized), Rate(o.transparent, o.finalized))
  <2>1. o.transparent <= o.finalized /\ b.transparent <= b.finalized /\ o.finalized # 0 /\ b.finalized # 0
    BY <1>1, <1>2, <1>3 DEF CountsFit, Raised
  <2>2. Rate(b.transparent, b.finalized) \in 0..One
    BY <1>3, <2>1, RateIsAShare
  <2>3. Rate(o.transparent, o.finalized) \in 0..One
    BY <1>1, <2>1, RateIsAShare
  <2>4. Rate(b.transparent, b.finalized) >= Rate(o.transparent, o.finalized)
    BY <1>1, <2>1, GoodRaisesShares DEF Raised
  <2>5. QED
    BY <1>5, <2>2, <2>3, <2>4
<1>8. ASSUME NEW k \in Nat, k <= o.finalized PROVE Rises(Inverted(k, b.finalized), Inverted(k, o.finalized))
  <2>1. k <= b.finalized /\ o.finalized # 0 /\ b.finalized # 0 /\ b.finalized = o.finalized + 1
    BY <1>1, <1>3, <1>8 DEF Raised
  <2>2. Inverted(k, b.finalized) \in 0..One
    BY <1>3, <2>1, RateIsAShare
  <2>3. Inverted(k, o.finalized) \in 0..One
    BY <1>1, <1>8, <2>1, RateIsAShare
  <2>4. Inverted(k, b.finalized) >= Inverted(k, o.finalized)
    BY <1>1, <1>8, <2>1, GoodRaisesShares
  <2>5. QED
    BY <1>5, <2>2, <2>3, <2>4
<1>9. Rises(Inverted(b.broken, b.finalized), Inverted(o.broken, o.finalized))
  BY <1>1, <1>8 DEF CountsFit, Raised
<1>10. Rises(Inverted(b.with_incident, b.finalized), Inverted(o.with_incident, o.finalized))
  BY <1>1, <1>8 DEF CountsFit, Raised
<1>11. QED
  BY <1>6, <1>7, <1>9, <1>10

LEMMA GoodRaisesComponents ==
    ASSUME NEW o, CountsFit(o), o.finalized > 0, o.median \in Nat \cup {Unknown},
           NEW b, Raised(o, b), b.median = o.median, NEW market \in Nat \cup {Unknown}
    PROVE  \A n \in Names : Rises(Components(b, market)[n], Components(o, market)[n])
<1>1. Rises(PriceIndex(b.median, market), PriceIndex(o.median, market))
  <2>1. PriceIndex(o.median, market) \in Nat \cup {Unknown}
    BY PriceIndexTyped
  <2>2. QED
    BY <2>1 DEF Rises, NeverLower
<1>2. QED
  BY <1>1, GoodRaisesRates DEF Components, Names

\* A base is made of shares, and no good delivery lowers one.
LEMMA PriorsAreShares ==
    ASSUME NEW o, CountsFit(o)
    PROVE  PriorFromTotals(o) \in Shares /\ \A n \in Names : PriorFromTotals(o)[n] \in 0..One
<1>1. /\ o.on_time \in Nat /\ o.with_deadline \in Nat /\ o.broken \in Nat /\ o.with_incident \in Nat
      /\ o.transparent \in Nat /\ o.finalized \in Nat
  BY DEF CountsFit, Counters
<1>2. Half \in 0..One /\ 0..One \subseteq Int
  BY DEF Half, One
<1>3. \A x \in {Unknown} \cup 0..One : OrDefault(x, Half) \in 0..One
  BY <1>2 DEF OrDefault
<1>4. /\ Rate(o.on_time, o.with_deadline) \in {Unknown} \cup 0..One
      /\ Rate(o.transparent, o.finalized) \in {Unknown} \cup 0..One
      /\ Inverted(o.broken, o.finalized) \in {Unknown} \cup 0..One
      /\ Inverted(o.with_incident, o.finalized) \in {Unknown} \cup 0..One
  BY <1>1, RateIsAShare DEF CountsFit
<1> DEFINE a == OrDefault(Rate(o.on_time, o.with_deadline), Half)
           r == OrDefault(Inverted(o.broken, o.finalized), Half)
           i == OrDefault(Inverted(o.with_incident, o.finalized), Half)
           d == OrDefault(Rate(o.transparent, o.finalized), Half)
<1>5. a \in 0..One /\ r \in 0..One /\ i \in 0..One /\ d \in 0..One
  BY <1>3, <1>4
<1>6. PriorFromTotals(o) = [on_time |-> a, reliability |-> r, incident_free |-> i,
                            price_index |-> Half, data_quality |-> d]
  BY DEF PriorFromTotals
<1> HIDE DEF a, r, i, d
<1>7. QED
  BY <1>2, <1>5, <1>6 DEF Shares, Names

LEMMA GoodRaisesPriors ==
    ASSUME NEW o, CountsFit(o), o.finalized > 0, NEW b, Raised(o, b)
    PROVE  \A n \in Names : PriorFromTotals(b)[n] >= PriorFromTotals(o)[n]
<1>1. /\ o.on_time \in Nat /\ o.with_deadline \in Nat /\ o.broken \in Nat /\ o.with_incident \in Nat
      /\ o.transparent \in Nat /\ o.finalized \in Nat
  BY DEF CountsFit, Counters
<1>2. Half \in Nat /\ One \in Nat /\ Half <= One /\ Unknown \notin Int
  BY ScoreAssumption DEF Half, One
<1>3. ASSUME NEW x \in {Unknown} \cup 0..One, NEW y, Rises(y, x), x # Unknown
      PROVE  OrDefault(y, Half) >= OrDefault(x, Half)
  BY <1>3 DEF Rises, NeverLower, OrDefault
<1>4. /\ Rate(o.on_time, o.with_deadline) \in {Unknown} \cup 0..One
      /\ Rate(o.transparent, o.finalized) \in 0..One
      /\ Inverted(o.broken, o.finalized) \in 0..One
      /\ Inverted(o.with_incident, o.finalized) \in 0..One
  BY <1>1, RateIsAShare DEF CountsFit
<1>5. OrDefault(Rate(b.on_time, b.with_deadline), Half) >= OrDefault(Rate(o.on_time, o.with_deadline), Half)
  <2>1. CASE Rate(o.on_time, o.with_deadline) # Unknown
    BY <1>3, <1>4, <2>1, GoodRaisesRates
  <2>2. CASE Rate(o.on_time, o.with_deadline) = Unknown
    <3>1. OrDefault(Rate(o.on_time, o.with_deadline), Half) = Half
      BY <2>2 DEF OrDefault
    <3>2. Rate(b.on_time, b.with_deadline) \in {Unknown, One}
      BY <2>2, GoodRaisesRates DEF Rises
    <3>3. OrDefault(Rate(b.on_time, b.with_deadline), Half) \in {Half, One}
      BY <3>2 DEF OrDefault
    <3>4. QED
      BY <1>2, <3>1, <3>3
  <2>3. QED
    BY <2>1, <2>2
<1>6. /\ OrDefault(Rate(b.transparent, b.finalized), Half) >= OrDefault(Rate(o.transparent, o.finalized), Half)
      /\ OrDefault(Inverted(b.broken, b.finalized), Half) >= OrDefault(Inverted(o.broken, o.finalized), Half)
      /\ OrDefault(Inverted(b.with_incident, b.finalized), Half)
            >= OrDefault(Inverted(o.with_incident, o.finalized), Half)
  <2>1. \A x \in 0..One : x # Unknown
    BY <1>2
  <2>2. QED
    BY <1>3, <1>4, <2>1, GoodRaisesRates
<1>7. Half >= Half
  BY <1>2
<1>8. QED
  BY <1>5, <1>6, <1>7 DEF PriorFromTotals, Names

-----------------------------------------------------------------------------
(* The points. A component that is not below its base and does not fall     *)
(* weighs more with every shipment, and what is not observed is the base.   *)
LEMMA SmoothedRises ==
    ASSUME NEW n \in Nat \ {0}, NEW p \in 0..One, NEW x \in Nat \cup {Unknown}, NEW y \in Nat \cup {Unknown},
           Rises(y, x), x # Unknown => x >= p
    PROVE  /\ Smoothed(x, p, n) \in Nat /\ Smoothed(y, p, n + 1) \in Nat
           /\ Smoothed(x, p, n) * (n + 1 + PriorWeight) <= Smoothed(y, p, n + 1) * (n + PriorWeight)
<1> PICK m \in Nat \ {0} : m = PriorWeight
  BY ScoreAssumption
<1>1. One \in Nat /\ Unknown \notin Int
  BY ScoreAssumption DEF One
<1>2. p \in Nat /\ p <= One
  BY <1>1
<1> PICK pm \in Nat : pm = p * m
  BY <1>2
<1>3. CASE x = Unknown
  <2>1. Smoothed(x, p, n) = p * (n + m)
    BY <1>3 DEF Smoothed
  <2>2. CASE y = Unknown
    <3>1. Smoothed(y, p, n + 1) = p * (n + 1 + m)
      BY <2>2 DEF Smoothed
    <3>2. (p * (n + m)) * (n + 1 + m) <= (p * (n + 1 + m)) * (n + m)
      BY <1>2
    <3>3. QED
      BY <1>2, <2>1, <3>1, <3>2
  <2>3. CASE y # Unknown
    <3>1. y = One /\ y \in Nat /\ p <= y
      BY <1>1, <1>2, <1>3, <2>3 DEF Rises
    <3>2. Smoothed(y, p, n + 1) = y * (n + 1) + pm
      BY <2>3 DEF Smoothed
    <3>3. p * (n + 1) <= y * (n + 1)
      BY <1>2, <3>1
    <3>4. (p * (n + m)) * (n + 1 + m) <= (y * (n + 1) + pm) * (n + m)
      <4>1. p * (n + 1 + m) = p * (n + 1) + pm
        BY <1>2
      <4> PICK u \in Nat : u = p * (n + 1 + m)
        BY <1>2
      <4> PICK v \in Nat : v = y * (n + 1) + pm
        BY <3>1
      <4>2. u <= v
        BY <3>3, <4>1, <1>2, <3>1
      <4>3. u * (n + m) <= v * (n + m)
        BY <4>2
      <4>4. (p * (n + m)) * (n + 1 + m) = u * (n + m)
        BY <1>2
      <4>5. QED
        BY <4>3, <4>4
    <3>5. QED
      BY <1>2, <2>1, <3>1, <3>2, <3>4
  <2>4. QED
    BY <2>2, <2>3
<1>4. CASE x # Unknown
  <2>1. x \in Nat /\ y \in Nat /\ y >= x /\ x >= p
    BY <1>4 DEF Rises, NeverLower
  <2>2. Smoothed(x, p, n) = x * n + pm /\ Smoothed(y, p, n + 1) = y * (n + 1) + pm
    <3>1. y # Unknown
      BY <1>4 DEF Rises, NeverLower
    <3>2. QED
      BY <1>4, <3>1 DEF Smoothed
  <2> PICK u \in Nat : u = x * n + pm
    BY <2>1
  <2> PICK v \in Nat : v = y * (n + 1) + pm
    BY <2>1
  <2>3. v >= u + x
    <3>1. y * (n + 1) >= x * (n + 1)
      BY <2>1
    <3>2. x * (n + 1) = x * n + x
      BY <2>1
    <3>3. QED
      BY <2>1, <3>1, <3>2
  <2>4. u <= x * (n + m)
    <3>1. x * m >= p * m
      BY <1>2, <2>1
    <3>2. x * (n + m) = x * n + x * m
      BY <2>1
    <3>3. QED
      BY <1>2, <2>1, <3>1, <3>2
  <2>5. u * (n + 1 + m) <= v * (n + m)
    <3>1. u * (n + 1 + m) = u * (n + m) + u
      OBVIOUS
    <3>2. (u + x) * (n + m) = u * (n + m) + x * (n + m)
      BY <2>1
    <3>3. v * (n + m) >= (u + x) * (n + m)
      BY <2>1, <2>3
    <3>4. x * (n + m) \in Nat /\ u * (n + m) \in Nat /\ v * (n + m) \in Nat
      BY <2>1
    <3>5. QED
      BY <2>4, <3>1, <3>2, <3>3, <3>4
  <2>6. QED
    BY <2>2, <2>5
<1>5. QED
  BY <1>3, <1>4

\* The sum of the weighted components.
Weighed(shares, base, n) == SumOf([c \in Names |-> Weights[c] * Smoothed(shares[c], base[c], n)])

LEMMA NamesAreFinite == IsFiniteSet(Names)
<1>1. IsFiniteSet({"on_time"})
  BY FS_Singleton
<1>2. IsFiniteSet({"on_time"} \cup {"reliability"})
  BY <1>1, FS_AddElement
<1>3. IsFiniteSet({"on_time"} \cup {"reliability"} \cup {"incident_free"})
  BY <1>2, FS_AddElement
<1>4. IsFiniteSet({"on_time"} \cup {"reliability"} \cup {"incident_free"} \cup {"price_index"})
  BY <1>3, FS_AddElement
<1>5. IsFiniteSet({"on_time"} \cup {"reliability"} \cup {"incident_free"} \cup {"price_index"} \cup {"data_quality"})
  BY <1>4, FS_AddElement
<1>6. QED
  BY <1>5, FS_Subset DEF Names

LEMMA WeighedTyped ==
    ASSUME NEW n \in Nat, NEW x, NEW p,
           \A c \in Names : x[c] \in Nat \cup {Unknown} /\ p[c] \in 0..One
    PROVE  Weighed(x, p, n) \in Nat
<1> DEFINE f == [c \in Names |-> Weights[c] * Smoothed(x[c], p[c], n)]
<1>1. PriorWeight \in Nat /\ One \in Nat /\ \A c \in Names : Weights[c] \in Nat
  BY ScoreAssumption DEF One
<1>2. ASSUME NEW c \in Names PROVE f[c] \in Nat
  <2>1. x[c] \in Nat \cup {Unknown} /\ p[c] \in Nat
    BY <1>1
  <2>2. Smoothed(x[c], p[c], n) \in Nat
    BY <1>1, <2>1 DEF Smoothed
  <2>3. Weights[c] * Smoothed(x[c], p[c], n) \in Nat
    BY <1>1, <2>2
  <2>4. QED
    BY <2>3
<1>3. DOMAIN f = Names /\ \A c \in Names : f[c] <= f[c]
  BY <1>2
<1>4. Weighed(x, p, n) = SumOf(f)
  BY DEF Weighed
<1> HIDE DEF f
<1>5. SumOf(f) \in Nat
  BY <1>2, <1>3, NamesAreFinite, SumGrows
<1>6. QED
  BY <1>4, <1>5

LEMMA WeighedRises ==
    ASSUME NEW n \in Nat \ {0}, NEW x, NEW y, NEW p,
           \A c \in Names : /\ x[c] \in Nat \cup {Unknown} /\ y[c] \in Nat \cup {Unknown} /\ p[c] \in 0..One
                            /\ Rises(y[c], x[c]) /\ (x[c] # Unknown => x[c] >= p[c])
    PROVE  Weighed(x, p, n) * (n + 1 + PriorWeight) <= Weighed(y, p, n + 1) * (n + PriorWeight)
<1> PICK m \in Nat \ {0} : m = PriorWeight
  BY ScoreAssumption
<1> DEFINE Low(c) == Weights[c] * Smoothed(x[c], p[c], n)
           High(c) == Weights[c] * Smoothed(y[c], p[c], n + 1)
           low == [c \in Names |-> Low(c)]
           high == [c \in Names |-> High(c)]
           lowest == [c \in Names |-> (n + 1 + m) * Low(c)]
           highest == [c \in Names |-> (n + m) * High(c)]
<1>1. ASSUME NEW c \in Names
      PROVE  /\ Low(c) \in Nat /\ High(c) \in Nat
             /\ (n + 1 + m) * Low(c) \in Nat /\ (n + m) * High(c) \in Nat
             /\ (n + 1 + m) * Low(c) <= (n + m) * High(c)
  <2> PICK w \in Nat : w = Weights[c]
    BY ScoreAssumption
  <2>1. /\ Smoothed(x[c], p[c], n) \in Nat /\ Smoothed(y[c], p[c], n + 1) \in Nat
        /\ Smoothed(x[c], p[c], n) * (n + 1 + m) <= Smoothed(y[c], p[c], n + 1) * (n + m)
    BY SmoothedRises
  <2> PICK u \in Nat : u = Smoothed(x[c], p[c], n)
    BY <2>1
  <2> PICK v \in Nat : v = Smoothed(y[c], p[c], n + 1)
    BY <2>1
  <2> PICK a \in Nat : a = u * (n + 1 + m)
    OBVIOUS
  <2> PICK b \in Nat : b = v * (n + m)
    OBVIOUS
  <2>2. a <= b
    BY <2>1
  <2>3. w * a <= w * b /\ w * a \in Nat /\ w * b \in Nat
    BY <2>2
  <2>4. (n + 1 + m) * (w * u) = w * a /\ (n + m) * (w * v) = w * b
    OBVIOUS
  <2>5. Low(c) = w * u /\ High(c) = w * v
    OBVIOUS
  <2> HIDE DEF Low, High
  <2>6. QED
    BY <2>3, <2>4, <2>5
<1> HIDE DEF Low, High
<1>2. /\ DOMAIN low = Names /\ DOMAIN high = Names /\ DOMAIN lowest = Names /\ DOMAIN highest = Names
      /\ \A c \in Names : /\ low[c] \in Nat /\ high[c] \in Nat /\ lowest[c] \in Nat /\ highest[c] \in Nat
                          /\ lowest[c] = (n + 1 + m) * low[c] /\ highest[c] = (n + m) * high[c]
                          /\ lowest[c] <= highest[c]
  BY <1>1
<1> HIDE DEF low, high, lowest, highest
<1>3. SumOf(lowest) <= SumOf(highest)
  BY <1>2, NamesAreFinite, SumGrows
<1>4. SumOf(low) \in Nat /\ SumOf(lowest) = (n + 1 + m) * SumOf(low)
  <2>1. n + 1 + m \in Nat
    OBVIOUS
  <2>2. QED
    BY <1>2, <2>1, NamesAreFinite, SumScales
<1>5. SumOf(high) \in Nat /\ SumOf(highest) = (n + m) * SumOf(high)
  <2>1. n + m \in Nat
    OBVIOUS
  <2>2. QED
    BY <1>2, <2>1, NamesAreFinite, SumScales
<1>6. Weighed(x, p, n) = SumOf(low) /\ Weighed(y, p, n + 1) = SumOf(high)
  BY DEF Weighed, low, high, Low, High
<1> PICK u \in Nat : u = SumOf(low)
  BY <1>4
<1> PICK v \in Nat : v = SumOf(high)
  BY <1>5
<1>7. (n + 1 + m) * u <= (n + m) * v
  BY <1>3, <1>4, <1>5
<1>8. u * (n + 1 + m) <= v * (n + m)
  BY <1>7
<1>9. QED
  BY <1>6, <1>8

\* The scale ends at a hundred.
Clipped(points) == Min({Max({points, 0}), 100})

LEMMA ClippedIs == ASSUME NEW k \in Nat PROVE Clipped(k) = IF k <= 100 THEN k ELSE 100
<1>1. Max({k, 0}) = k
  BY LesserAndGreater
<1>2. Min({k, 100}) = IF k <= 100 THEN k ELSE 100
  BY LesserAndGreater
<1>3. QED
  BY <1>1, <1>2 DEF Clipped

\* A score is a number of points, or there is nothing to be confident in.
LEMMA ScoreIs ==
    ASSUME NEW n \in Nat, NEW x, NEW prior,
           \A c \in Names : x[c] \in Nat \cup {Unknown} /\ BaseOf(prior)[c] \in 0..One
    PROVE  /\ HalfUp(Weighed(x, BaseOf(prior), n), One * (n + PriorWeight)) \in Nat
           /\ (prior = Unknown /\ n < MinSample) =>
                ScoreFrom(x, n, prior) = [score |-> Unknown, confidence |-> "insufficient", basis |-> "none"]
           /\ ~(prior = Unknown /\ n < MinSample) =>
                /\ ScoreFrom(x, n, prior).score = Clipped(HalfUp(Weighed(x, BaseOf(prior), n), One * (n + PriorWeight)))
                /\ ScoreFrom(x, n, prior).score \in Nat
                /\ ScoreFrom(x, n, prior).confidence # "insufficient"
                /\ ScoreFrom(x, n, prior).basis \in {"platform", "mixed"} => prior # Unknown
<1> PICK m \in Nat \ {0} : m = PriorWeight
  BY ScoreAssumption
<1> PICK w \in Nat : w = Weighed(x, BaseOf(prior), n)
  BY WeighedTyped
<1> PICK one \in Nat \ {0} : one = One
  BY DEF One
<1>1. one * (n + m) \in Nat \ {0}
  OBVIOUS
<1>2. HalfUp(w, one * (n + m)) \in Nat
  <2>1. w * (one * (n + m)) <= w * (one * (n + m))
    OBVIOUS
  <2>2. QED
    BY <1>1, <2>1, HalfUpGrows
<1>3. MinSample \in Nat
  BY ScoreAssumption
<1>4. BasisFor(n, prior # Unknown) = "none" <=> (prior = Unknown /\ n < MinSample)
  BY <1>3 DEF BasisFor
<1> PICK points \in Nat : points = HalfUp(w, one * (n + m))
  BY <1>2
<1>5. ScoreFrom(x, n, prior) =
        IF BasisFor(n, prior # Unknown) = "none"
          THEN [score |-> Unknown, confidence |-> "insufficient", basis |-> "none"]
          ELSE [score |-> Clipped(points), confidence |-> ConfidenceFor(n, prior # Unknown),
                basis |-> BasisFor(n, prior # Unknown)]
  BY DEF ScoreFrom, Weighed, Clipped
<1>6. Clipped(points) \in Nat
  BY ClippedIs
<1>7. ~(prior = Unknown /\ n < MinSample) => ConfidenceFor(n, prior # Unknown) # "insufficient"
  BY <1>3 DEF ConfidenceFor
<1>8. BasisFor(n, prior # Unknown) \in {"platform", "mixed"} => prior # Unknown
  BY DEF BasisFor
<1>9. QED
  BY <1>2, <1>4, <1>5, <1>6, <1>7, <1>8

\* A good delivery costs no points.
LEMMA ScoreRises ==
    ASSUME NEW n \in Nat \ {0}, NEW x, NEW y, NEW prior,
           \A c \in Names : /\ x[c] \in Nat \cup {Unknown} /\ y[c] \in Nat \cup {Unknown}
                            /\ BaseOf(prior)[c] \in 0..One
                            /\ Rises(y[c], x[c]) /\ (x[c] # Unknown => x[c] >= BaseOf(prior)[c])
    PROVE  NeverLower(ScoreFrom(y, n + 1, prior).score, ScoreFrom(x, n, prior).score)
<1> PICK m \in Nat \ {0} : m = PriorWeight
  BY ScoreAssumption
<1> PICK one \in Nat \ {0} : one = One
  BY DEF One
<1>1. MinSample \in Nat /\ Unknown \notin Int
  BY ScoreAssumption
<1>2. CASE prior = Unknown /\ n < MinSample
  <2>1. ScoreFrom(x, n, prior).score = Unknown
    BY <1>2, ScoreIs
  <2>2. QED
    BY <2>1 DEF NeverLower
<1>3. CASE ~(prior = Unknown /\ n < MinSample)
  <2> PICK u \in Nat : u = Weighed(x, BaseOf(prior), n)
    BY WeighedTyped
  <2> PICK v \in Nat : v = Weighed(y, BaseOf(prior), n + 1)
    BY WeighedTyped
  <2>1. u * (n + 1 + m) <= v * (n + m)
    BY WeighedRises
  <2>2. u * (one * (n + 1 + m)) <= v * (one * (n + m))
    <3> PICK a \in Nat : a = u * (n + 1 + m)
      OBVIOUS
    <3> PICK b \in Nat : b = v * (n + m)
      OBVIOUS
    <3>1. one * a <= one * b
      BY <2>1
    <3>2. u * (one * (n + 1 + m)) = one * a /\ v * (one * (n + m)) = one * b
      OBVIOUS
    <3>3. QED
      BY <3>1, <3>2
  <2>3. one * (n + m) \in Nat \ {0} /\ one * (n + 1 + m) \in Nat \ {0}
    OBVIOUS
  <2>4. /\ HalfUp(u, one * (n + m)) \in Nat /\ HalfUp(v, one * (n + 1 + m)) \in Nat
        /\ HalfUp(u, one * (n + m)) <= HalfUp(v, one * (n + 1 + m))
    BY <2>2, <2>3, HalfUpGrows
  <2>5. ASSUME NEW k \in Nat, NEW l \in Nat, k <= l PROVE Clipped(k) <= Clipped(l)
    BY <2>5, ClippedIs
  <2>6. ~(prior = Unknown /\ n + 1 < MinSample)
    BY <1>1, <1>3
  <2>7. /\ ScoreFrom(x, n, prior).score = Clipped(HalfUp(u, one * (n + m)))
        /\ ScoreFrom(x, n, prior).score \in Nat
    BY <1>3, ScoreIs
  <2>8. /\ ScoreFrom(y, n + 1, prior).score = Clipped(HalfUp(v, one * (n + 1 + m)))
        /\ ScoreFrom(y, n + 1, prior).score \in Nat
    BY <2>6, ScoreIs
  <2>9. QED
    BY <1>1, <2>4, <2>5, <2>7, <2>8 DEF NeverLower
<1>4. QED
  BY <1>2, <1>3

-----------------------------------------------------------------------------
(* The states. Shipments that ended are finitely many and each is one of    *)
(* those that may be; a published base stands on enough tenants; a snapshot *)
(* has a number exactly where it has confidence.                            *)

Founded(c, end) ==
    LET shippers == {t \in Clients : c \in DOMAIN Observations(t, end)}
    IN  /\ Cardinality(shippers) >= MinTenants
        /\ SumOf([t \in shippers |-> Observations(t, end)[c].finalized]) >= baseline[<<c, end>>].sample

ScoreTyped ==
    /\ IsFiniteSet(finished) /\ \A s \in finished : s.outcome \in Outcomes
    /\ baseline = [k \in Carriers \X Days |-> baseline[k]]
    /\ snapshot = [k \in Clients \X Carriers \X Days |-> snapshot[k]]
    /\ night = [phase |-> night.phase, end |-> night.end, todo |-> night.todo, read |-> night.read]
    /\ night.phase \in {"idle", "reading", "scoring"} /\ night.end \in Days
    /\ today \in Days

BasesAreFounded ==
    \A c \in Carriers, d \in Days : baseline[<<c, d>>] # Unknown =>
        /\ baseline[<<c, d>>] \in [tenants : Nat, sample : Nat, prior : Shares]
        /\ \A n \in Names : baseline[<<c, d>>].prior[n] \in 0..One
        /\ Founded(c, d)

SnapshotsAreFounded ==
    \A t \in Clients, c \in Carriers, d \in Days : snapshot[<<t, c, d>>] # Unknown =>
        /\ (snapshot[<<t, c, d>>].score = Unknown) <=> (snapshot[<<t, c, d>>].confidence = "insufficient")
        /\ snapshot[<<t, c, d>>].basis \in {"platform", "mixed"} =>
              \E e \in Days : baseline[<<c, e>>] # Unknown

\* What the night has read was observed, of no more shipments than there are.
ReadingsAreTrue ==
    night.phase = "reading" =>
        /\ DOMAIN night.read \subseteq Clients
        /\ \A t \in DOMAIN night.read : \A c \in DOMAIN night.read[t] :
              /\ c \in DOMAIN Observations(t, night.end)
              /\ CountsFit(night.read[t][c])
              /\ night.read[t][c].finalized <= Observations(t, night.end)[c].finalized

ScoreInductive == ScoreTyped /\ BasesAreFounded /\ SnapshotsAreFounded /\ ReadingsAreTrue

\* What is observed of a set of shipments.
LEMMA ObservedFits ==
    ASSUME NEW own, IsFiniteSet(own), \A s \in own : s.outcome \in Outcomes
    PROVE  /\ Observed(own).finalized = Cardinality(own)
           /\ CountsFit(Observed(own))
           /\ Observed(own).median \in Nat \cup {Unknown}
<1> DEFINE deadline == {s \in own : s.outcome.met # Unknown}
           onTime == {s \in own : s.outcome.met = TRUE}
           broken == {s \in own : \/ s.outcome.status \in {"cancelled", "returned"}
                                  \/ s.outcome.incident}
           incident == {s \in own : s.outcome.incident}
           transparent == {s \in own : /\ s.outcome.status = "delivered"
                                       /\ s.outcome.events >= MinEvents}
           priced == {s \in own : s.outcome.cost # Unknown}
           cost == [s \in priced |-> s.outcome.cost]
<1>1. \A S \in SUBSET own : IsFiniteSet(S) /\ Cardinality(S) \in Nat /\ Cardinality(S) <= Cardinality(own)
  BY FS_Subset, FS_CardinalityType
<1>2. onTime \subseteq deadline
  BY ScoreAssumption
<1>3. /\ deadline \in SUBSET own /\ onTime \in SUBSET own /\ broken \in SUBSET own
      /\ incident \in SUBSET own /\ transparent \in SUBSET own /\ own \in SUBSET own
  OBVIOUS
<1>4. IsFiniteSet(priced) /\ DOMAIN cost = priced /\ \A s \in priced : cost[s] \in Nat
  BY <1>1, ScoreAssumption
<1>5. Observed(own) = [finalized |-> Cardinality(own), with_deadline |-> Cardinality(deadline),
                       on_time |-> Cardinality(onTime), broken |-> Cardinality(broken),
                       with_incident |-> Cardinality(incident), transparent |-> Cardinality(transparent),
                       median |-> MedianCost(cost)]
  BY DEF Observed
<1> HIDE DEF deadline, onTime, broken, incident, transparent, priced, cost
<1>6. MedianCost(cost) \in Nat \cup {Unknown}
  BY <1>4, MedianCostTyped
<1>7. Cardinality(onTime) <= Cardinality(deadline)
  BY <1>1, <1>2, <1>3, FS_Subset
<1>8. QED
  BY <1>1, <1>3, <1>5, <1>6, <1>7 DEF CountsFit, Counters

LEMMA ObservationsFit ==
    ASSUME ScoreTyped, NEW t, NEW end
    PROVE  /\ DOMAIN Observations(t, end) = {c \in Carriers : Made(t, c, end) # {}}
           /\ \A c \in DOMAIN Observations(t, end) :
                /\ Observations(t, end)[c].finalized = Cardinality(Made(t, c, end))
                /\ Observations(t, end)[c].finalized \in Nat \ {0}
                /\ CountsFit(Observations(t, end)[c])
                /\ Observations(t, end)[c].median \in Nat \cup {Unknown}
           /\ MarketMedian(Observations(t, end)) \in Nat \cup {Unknown}
<1>1. \A c : IsFiniteSet(Made(t, c, end)) /\ \A s \in Made(t, c, end) : s.outcome \in Outcomes
  BY FS_Subset DEF Made, ScoreTyped
<1>2. DOMAIN Observations(t, end) = {c \in Carriers : Made(t, c, end) # {}}
  BY DEF Observations
<1>3. ASSUME NEW c \in DOMAIN Observations(t, end)
      PROVE  /\ Observations(t, end)[c].finalized = Cardinality(Made(t, c, end))
             /\ Observations(t, end)[c].finalized \in Nat \ {0}
             /\ CountsFit(Observations(t, end)[c])
             /\ Observations(t, end)[c].median \in Nat \cup {Unknown}
  <2>1. Observations(t, end)[c] = Observed(Made(t, c, end)) /\ Made(t, c, end) # {}
    BY <1>2 DEF Observations
  <2>2. Cardinality(Made(t, c, end)) \in Nat \ {0}
    BY <1>1, <2>1, FS_EmptySet, FS_CardinalityType
  <2>3. QED
    BY <1>1, <2>1, <2>2, ObservedFits
<1>4. IsFiniteSet(DOMAIN Observations(t, end))
  BY <1>2, ScoreAssumption, FS_Subset
<1>5. MarketMedian(Observations(t, end)) \in Nat \cup {Unknown}
  BY <1>3, <1>4, MarketMedianTyped
<1>6. QED
  BY <1>2, <1>3, <1>5

\* Counters that fit add up to counters that fit.
LEMMA TotalsFit ==
    ASSUME NEW read, IsFiniteSet(DOMAIN read), NEW c, NEW tenants,
           \A t \in DOMAIN read : c \in DOMAIN read[t] => CountsFit(read[t][c])
    PROVE  CountsFit(TotalsOf(read, c, tenants)) /\ TotalsOf(read, c, tenants).tenants = Cardinality(tenants)
<1> DEFINE rows == {t \in DOMAIN read : c \in DOMAIN read[t]}
           Sum(field) == SumOf([t \in rows |-> read[t][c][field]])
<1>1. IsFiniteSet(rows)
  BY FS_Subset
<1>2. TotalsOf(read, c, tenants) =
        [tenants |-> Cardinality(tenants), finalized |-> Sum("finalized"),
         with_deadline |-> Sum("with_deadline"), on_time |-> Sum("on_time"),
         broken |-> Sum("broken"), with_incident |-> Sum("with_incident"),
         transparent |-> Sum("transparent")]
  BY DEF TotalsOf
<1>3. ASSUME NEW less \in Counters, NEW more \in Counters,
             \A t \in rows : read[t][c][less] <= read[t][c][more]
      PROVE  Sum(less) \in Nat /\ Sum(more) \in Nat /\ Sum(less) <= Sum(more)
  <2> DEFINE f == [t \in rows |-> read[t][c][less]]
             h == [t \in rows |-> read[t][c][more]]
  <2>1. /\ DOMAIN f = rows /\ DOMAIN h = rows
        /\ \A t \in rows : f[t] \in Nat /\ h[t] \in Nat /\ f[t] <= h[t]
    BY <1>3 DEF CountsFit
  <2> HIDE DEF f, h, rows
  <2>2. SumOf(f) \in Nat /\ SumOf(h) \in Nat /\ SumOf(f) <= SumOf(h)
    BY <1>1, <2>1, SumGrows
  <2>3. QED
    BY <2>2 DEF f, h
<1>4. \A t \in rows : CountsFit(read[t][c])
  OBVIOUS
<1>5. /\ {"on_time", "with_deadline", "broken", "finalized", "with_incident", "transparent"} = Counters
      /\ \A t \in rows : /\ read[t][c]["on_time"] <= read[t][c]["with_deadline"]
                         /\ read[t][c]["broken"] <= read[t][c]["finalized"]
                         /\ read[t][c]["with_incident"] <= read[t][c]["finalized"]
                         /\ read[t][c]["transparent"] <= read[t][c]["finalized"]
  BY <1>4 DEF CountsFit, Counters
<1> HIDE DEF Sum, rows
<1>6. /\ Sum("on_time") \in Nat /\ Sum("with_deadline") \in Nat /\ Sum("on_time") <= Sum("with_deadline")
      /\ Sum("broken") \in Nat /\ Sum("finalized") \in Nat /\ Sum("broken") <= Sum("finalized")
      /\ Sum("with_incident") \in Nat /\ Sum("with_incident") <= Sum("finalized")
      /\ Sum("transparent") \in Nat /\ Sum("transparent") <= Sum("finalized")
  BY <1>3, <1>5
<1>7. QED
  BY <1>2, <1>6 DEF CountsFit, Counters

\* After a step as before it.
LEMMA CountedLater ==
    ASSUME ScoreTyped', NEW t, NEW end, NEW c \in DOMAIN Observations(t, end)'
    PROVE  /\ Observations(t, end)'[c].finalized = Cardinality(Made(t, c, end)')
           /\ Observations(t, end)'[c].finalized \in Nat
<1>1. IsFiniteSet(Made(t, c, end)') /\ \A s \in Made(t, c, end)' : s.outcome \in Outcomes
  BY FS_Subset DEF Made, ScoreTyped
<1>2. Observations(t, end)'[c] = Observed(Made(t, c, end)')
  BY DEF Observations, Observed
<1>3. Observed(Made(t, c, end)').finalized = Cardinality(Made(t, c, end)')
  BY <1>1, ObservedFits
<1>4. QED
  BY <1>1, <1>2, <1>3, FS_CardinalityType

\* Shipments are only ever added: what was observed stays, and there is no less of it.
LEMMA ObservationsGrow ==
    ASSUME ScoreTyped, ScoreTyped', finished \subseteq finished', NEW t, NEW end,
           NEW c \in DOMAIN Observations(t, end)
    PROVE  /\ c \in DOMAIN Observations(t, end)'
           /\ Observations(t, end)[c].finalized <= Observations(t, end)'[c].finalized
<1>1. Made(t, c, end) \subseteq Made(t, c, end)'
  BY DEF Made
<1>2. IsFiniteSet(Made(t, c, end)')
  BY FS_Subset DEF Made, ScoreTyped
<1>3. Cardinality(Made(t, c, end)) <= Cardinality(Made(t, c, end)')
  BY <1>1, <1>2, FS_Subset
<1>4. /\ c \in Carriers /\ Made(t, c, end) # {}
      /\ Observations(t, end)[c].finalized = Cardinality(Made(t, c, end))
  BY ObservationsFit
<1>5. DOMAIN Observations(t, end)' = {x \in Carriers : Made(t, x, end)' # {}}
  BY DEF Observations
<1>6. c \in DOMAIN Observations(t, end)'
  BY <1>1, <1>4, <1>5
<1>9. Observations(t, end)'[c].finalized = Cardinality(Made(t, c, end)')
  BY <1>6, CountedLater
<1>10. QED
  BY <1>3, <1>4, <1>6, <1>9

\* So a base that was founded stays so.
LEMMA FoundedStays ==
    ASSUME ScoreTyped, ScoreTyped', finished \subseteq finished', NEW c, NEW d, Founded(c, d),
           baseline'[<<c, d>>] = baseline[<<c, d>>], baseline[<<c, d>>].sample \in Nat
    PROVE  Founded(c, d)'
<1> DEFINE shippers == {t \in Clients : c \in DOMAIN Observations(t, d)}
           later == {t \in Clients : c \in DOMAIN Observations(t, d)'}
           f == [t \in shippers |-> Observations(t, d)[c].finalized]
           h == [t \in later |-> Observations(t, d)'[c].finalized]
<1>1. /\ Cardinality(shippers) >= MinTenants
      /\ SumOf(f) >= baseline[<<c, d>>].sample
  BY DEF Founded
<1>2. \A t \in shippers : t \in later /\ Observations(t, d)[c].finalized <= Observations(t, d)'[c].finalized
  BY ObservationsGrow
<1>3. IsFiniteSet(later) /\ shippers \in SUBSET later
  BY <1>2, ScoreAssumption, FS_Subset
<1>4. IsFiniteSet(shippers) /\ Cardinality(shippers) <= Cardinality(later)
  BY <1>3, FS_Subset
<1>5. \A t \in shippers : f[t] \in Nat
  BY ObservationsFit
<1>6. \A t \in later : h[t] \in Nat
  BY CountedLater
<1>7. DOMAIN f = shippers /\ DOMAIN h = later /\ \A t \in shippers : f[t] <= h[t]
  BY <1>2
<1>8. Cardinality(shippers) \in Nat /\ Cardinality(later) \in Nat /\ MinTenants \in Nat
  BY <1>3, <1>4, FS_CardinalityType, ScoreAssumption
<1> HIDE DEF shippers, later, f, h
<1>9. SumOf(f) \in Nat /\ SumOf(h) \in Nat /\ SumOf(f) <= SumOf(h)
  BY <1>3, <1>5, <1>6, <1>7, SumGrows
<1>10. Cardinality(later) >= MinTenants /\ SumOf(h) >= baseline'[<<c, d>>].sample
  BY <1>1, <1>4, <1>8, <1>9
<1>11. QED
  BY <1>10 DEF Founded, later, h

-----------------------------------------------------------------------------
(* The actions. What neither writes a base nor a snapshot keeps them.       *)
LEMMA BasesStay ==
    ASSUME ScoreTyped, BasesAreFounded, ScoreTyped', finished \subseteq finished', baseline' = baseline
    PROVE  BasesAreFounded'
<1> SUFFICES ASSUME NEW c \in Carriers, NEW d \in Days, baseline[<<c, d>>] # Unknown
             PROVE  /\ baseline[<<c, d>>] \in [tenants : Nat, sample : Nat, prior : Shares]
                    /\ \A n \in Names : baseline[<<c, d>>].prior[n] \in 0..One
                    /\ Founded(c, d)'
  BY DEF BasesAreFounded
<1>1. /\ baseline[<<c, d>>] \in [tenants : Nat, sample : Nat, prior : Shares]
      /\ \A n \in Names : baseline[<<c, d>>].prior[n] \in 0..One
      /\ Founded(c, d)
  BY DEF BasesAreFounded
<1>2. baseline[<<c, d>>].sample \in Nat
  BY <1>1
<1>3. Founded(c, d)'
  BY <1>1, <1>2, FoundedStays
<1>4. QED
  BY <1>1, <1>3

LEMMA SnapshotsStay ==
    ASSUME SnapshotsAreFounded, snapshot' = snapshot,
           \A c \in Carriers, d \in Days : baseline[<<c, d>>] # Unknown => baseline'[<<c, d>>] # Unknown
    PROVE  SnapshotsAreFounded'
BY DEF SnapshotsAreFounded

LEMMA ReadingsStay ==
    ASSUME ScoreTyped, ReadingsAreTrue, ScoreTyped', finished \subseteq finished', night' = night
    PROVE  ReadingsAreTrue'
<1> PICK end : end = night.end
  OBVIOUS
<1>1. ASSUME night.phase = "reading", NEW t \in DOMAIN night.read, NEW c \in DOMAIN night.read[t]
      PROVE  /\ c \in DOMAIN Observations(t, end)'
             /\ CountsFit(night.read[t][c])
             /\ night.read[t][c].finalized <= Observations(t, end)'[c].finalized
  <2>1. /\ c \in DOMAIN Observations(t, end)
        /\ CountsFit(night.read[t][c])
        /\ night.read[t][c].finalized <= Observations(t, end)[c].finalized
    BY <1>1 DEF ReadingsAreTrue
  <2>2. /\ c \in DOMAIN Observations(t, end)'
        /\ Observations(t, end)[c].finalized <= Observations(t, end)'[c].finalized
    BY <2>1, ObservationsGrow
  <2>3. /\ night.read[t][c].finalized \in Nat
        /\ Observations(t, end)[c].finalized \in Nat
        /\ Observations(t, end)'[c].finalized \in Nat
    BY <2>1, <2>2, ObservationsFit, CountedLater DEF CountsFit, Counters
  <2>4. QED
    BY <2>1, <2>2, <2>3
<1>2. night'.end = end /\ night'.phase = night.phase /\ night'.read = night.read
  OBVIOUS
<1>3. QED
  BY <1>1, <1>2 DEF ReadingsAreTrue

LEMMA ScoreStart == ScoreInit => ScoreInductive
<1> SUFFICES ASSUME ScoreInit PROVE ScoreInductive
  OBVIOUS
<1>1. ScoreTyped
  <2>1. 0 \in Days
    BY ScoreAssumption DEF Days
  <2>2. IsFiniteSet(finished)
    BY FS_EmptySet DEF ScoreInit
  <2>3. QED
    BY <2>1, <2>2 DEF ScoreInit, ScoreTyped, Asleep
<1>2. BasesAreFounded /\ SnapshotsAreFounded
  BY DEF ScoreInit, BasesAreFounded, SnapshotsAreFounded
<1>3. ReadingsAreTrue
  BY DEF ScoreInit, Asleep, ReadingsAreTrue
<1>4. QED
  BY <1>1, <1>2, <1>3 DEF ScoreInductive

LEMMA FinishStep ==
    ASSUME ScoreInductive, NEW t \in Clients, NEW c \in Carriers, Finish(t, c)
    PROVE  ScoreInductive'
<1>1. PICK s : finished' = finished \cup {s} /\ s.outcome \in Outcomes
  <2> DEFINE Alike(d, o) == {s \in finished : s.tenant = t /\ s.carrier = c /\ s.made = d /\ s.outcome = o}
  <2>1. PICK d \in 0..today, o \in Outcomes :
          finished' = finished \cup {[tenant |-> t, carrier |-> c, made |-> d, outcome |-> o,
                                     n |-> Cardinality(Alike(d, o))]}
    BY DEF Finish
  <2> PICK number : number = Cardinality(Alike(d, o))
    OBVIOUS
  <2> DEFINE ended == [tenant |-> t, carrier |-> c, made |-> d, outcome |-> o, n |-> number]
  <2>2. ended.outcome \in Outcomes
    OBVIOUS
  <2>3. finished' = finished \cup {ended}
    BY <2>1
  <2> HIDE DEF ended
  <2>4. QED
    BY <2>2, <2>3
<1>2. UNCHANGED <<today, active, baseline, snapshot, night>>
  BY DEF Finish
<1>3. IsFiniteSet(finished')
  BY <1>1, FS_AddElement DEF ScoreInductive, ScoreTyped
<1>4. ScoreTyped'
  BY <1>1, <1>2, <1>3 DEF ScoreInductive, ScoreTyped
<1>5. finished \subseteq finished'
  BY <1>1
<1>6. QED
  BY <1>2, <1>4, <1>5, BasesStay, SnapshotsStay, ReadingsStay DEF ScoreInductive

\* Days pass, clients are suspended, a night starts or dies: nothing is observed
\* or written.
LEMMA QuietStep ==
    ASSUME ScoreInductive, UNCHANGED <<finished, baseline, snapshot>>, today' \in Days,
           night' = night \/ night' = Asleep
             \/ night' = [phase |-> "reading", end |-> today, todo |-> Clients, read |-> <<>>]
    PROVE  ScoreInductive'
<1>1. ScoreTyped'
  <2>1. 0 \in Days /\ today \in Days
    BY ScoreAssumption DEF Days, ScoreInductive, ScoreTyped
  <2>2. QED
    BY <2>1 DEF ScoreInductive, ScoreTyped, Asleep
<1>2. BasesAreFounded' /\ SnapshotsAreFounded'
  BY <1>1, BasesStay, SnapshotsStay DEF ScoreInductive
<1>3. ReadingsAreTrue'
  <2>1. CASE night' = night
    BY <1>1, <2>1, ReadingsStay DEF ScoreInductive
  <2>2. CASE night' = Asleep
    BY <2>2 DEF Asleep, ReadingsAreTrue
  <2>3. CASE night' = [phase |-> "reading", end |-> today, todo |-> Clients, read |-> <<>>]
    BY <2>3 DEF ReadingsAreTrue
  <2>4. QED
    BY <2>1, <2>2, <2>3
<1>4. QED
  BY <1>1, <1>2, <1>3 DEF ScoreInductive

\* One tenant is read, or fails to be.
LEMMA ReadStep ==
    ASSUME ScoreInductive, NEW t \in Clients, Read(t)
    PROVE  ScoreInductive'
<1>1. PICK ok \in BOOLEAN :
        night' = [night EXCEPT !.todo = @ \ {t},
                    !.read = IF ok THEN Heard(t, @, Observations(t, night.end)) ELSE @]
  BY DEF Read
<1>2. UNCHANGED <<today, finished, active, baseline, snapshot>> /\ night.phase = "reading"
  BY DEF Read
<1> PICK end : end = night.end
  OBVIOUS
<1> PICK seen : seen = Observations(t, end)
  OBVIOUS
<1>3. night' = [phase |-> night.phase, end |-> end, todo |-> night.todo \ {t},
                read |-> IF ok THEN [u \in DOMAIN night.read \cup {t} |-> IF u = t THEN seen ELSE night.read[u]]
                         ELSE night.read]
  BY <1>1 DEF Heard, ScoreInductive, ScoreTyped
<1>4. night'.phase = "reading" /\ night'.end = end
  BY <1>2, <1>3
<1>5. ScoreTyped'
  BY <1>2, <1>3 DEF ScoreInductive, ScoreTyped
<1>6. BasesAreFounded' /\ SnapshotsAreFounded'
  BY <1>2, <1>5, BasesStay, SnapshotsStay DEF ScoreInductive
<1>7. \A u, c : Observations(u, end)' = Observations(u, end)
  BY <1>2 DEF Observations, Made
<1>8. /\ DOMAIN night'.read \subseteq Clients
      /\ \A u \in DOMAIN night'.read :
            (u = t /\ night'.read[u] = seen) \/ (u \in DOMAIN night.read /\ night'.read[u] = night.read[u])
  <2>1. DOMAIN night.read \subseteq Clients
    BY <1>2 DEF ScoreInductive, ReadingsAreTrue
  <2>2. CASE ok
    BY <1>3, <2>1, <2>2
  <2>3. CASE ~ok
    BY <1>3, <2>1, <2>3
  <2>4. QED
    BY <2>2, <2>3
<1>9. ASSUME NEW u \in DOMAIN night'.read, NEW c \in DOMAIN night'.read[u]
      PROVE  /\ c \in DOMAIN Observations(u, end)
             /\ CountsFit(night'.read[u][c])
             /\ night'.read[u][c].finalized <= Observations(u, end)[c].finalized
  <2>1. CASE u = t /\ night'.read[u] = seen
    <3>1. c \in DOMAIN seen
      BY <2>1
    <3>2. CountsFit(Observations(t, end)[c]) /\ Observations(t, end)[c].finalized \in Nat
      BY <3>1, ObservationsFit DEF ScoreInductive
    <3>3. QED
      BY <2>1, <3>1, <3>2
  <2>2. CASE u \in DOMAIN night.read /\ night'.read[u] = night.read[u]
    BY <1>2, <2>2 DEF ScoreInductive, ReadingsAreTrue
  <2>3. QED
    BY <1>8, <2>1, <2>2
<1>10. ReadingsAreTrue'
  BY <1>4, <1>7, <1>8, <1>9 DEF ReadingsAreTrue, CountsFit
<1>11. QED
  BY <1>5, <1>6, <1>10 DEF ScoreInductive

\* What may be published of a carrier stands on the tenants that shipped with it.
LEMMA PublishedIsFounded ==
    ASSUME ScoreInductive, night.phase = "reading", NEW c \in Carriers, NEW total,
           total = Accumulate(night.read, c), IsPublishable(total), NEW end, end = night.end
    PROVE  /\ Baseline(total) \in [tenants : Nat, sample : Nat, prior : Shares]
           /\ Baseline(total) # Unknown
           /\ \A n \in Names : Baseline(total).prior[n] \in 0..One
           /\ LET shippers == {t \in Clients : c \in DOMAIN Observations(t, end)}
              IN  /\ Cardinality(shippers) >= MinTenants
                  /\ SumOf([t \in shippers |-> Observations(t, end)[c].finalized]) >= Baseline(total).sample
<1> DEFINE shippers == {t \in Clients : c \in DOMAIN Observations(t, end)}
           rows == {t \in DOMAIN night.read : c \in DOMAIN night.read[t]}
           f == [t \in rows |-> night.read[t][c]["finalized"]]
           h == [t \in shippers |-> Observations(t, end)[c].finalized]
<1>1. /\ DOMAIN night.read \subseteq Clients
      /\ \A t \in rows : /\ t \in shippers /\ CountsFit(night.read[t][c])
                         /\ night.read[t][c].finalized <= Observations(t, end)[c].finalized
  BY DEF ScoreInductive, ReadingsAreTrue
<1>2. IsFiniteSet(shippers) /\ rows \in SUBSET shippers /\ IsFiniteSet(DOMAIN night.read)
  BY <1>1, ScoreAssumption, FS_Subset
<1>3. IsFiniteSet(rows) /\ Cardinality(rows) <= Cardinality(shippers)
  BY <1>2, FS_Subset
<1>4. CountsFit(total) /\ total.tenants = Cardinality(rows)
  BY <1>1, <1>2, TotalsFit DEF Accumulate
<1>5. total.finalized = SumOf(f)
  BY DEF Accumulate, TotalsOf
<1>6. /\ DOMAIN f = rows /\ DOMAIN h = shippers
      /\ \A t \in rows : f[t] \in Nat /\ f[t] <= h[t]
  BY <1>1 DEF CountsFit, Counters
<1>7. \A t \in shippers : h[t] \in Nat
  BY ObservationsFit DEF ScoreInductive
<1>8. /\ Cardinality(rows) \in Nat /\ Cardinality(shippers) \in Nat
      /\ Cardinality(rows) >= MinTenants /\ MinTenants \in Nat
  BY <1>2, <1>3, <1>4, FS_CardinalityType, ScoreAssumption DEF IsPublishable
<1> HIDE DEF shippers, rows, f, h
<1>9. SumOf(f) \in Nat /\ SumOf(h) \in Nat /\ SumOf(f) <= SumOf(h)
  BY <1>2, <1>6, <1>7, SumGrows
<1>10. PriorFromTotals(total) \in Shares /\ \A n \in Names : PriorFromTotals(total)[n] \in 0..One
  BY <1>4, PriorsAreShares
<1>11. Baseline(total) = [tenants |-> total.tenants, sample |-> total.finalized, prior |-> PriorFromTotals(total)]
  BY DEF Baseline
<1>12. Baseline(total) \in [tenants : Nat, sample : Nat, prior : Shares]
  BY <1>4, <1>5, <1>8, <1>9, <1>10, <1>11
<1>13. Baseline(total) # Unknown
  BY <1>12, ScoreAssumption
<1>14. Cardinality(shippers) >= MinTenants /\ SumOf(h) >= Baseline(total).sample
  BY <1>3, <1>5, <1>8, <1>9, <1>11
<1>15. QED
  BY <1>10, <1>11, <1>12, <1>13, <1>14 DEF shippers, h

LEMMA SaveStep == ASSUME ScoreInductive, SaveBaselines PROVE ScoreInductive'
<1> DEFINE total == [c \in Carriers |-> Accumulate(night.read, c)]
           saved == {c \in Carriers : IsPublishable(total[c])}
<1> PICK end : end = night.end
  OBVIOUS
<1>1. /\ night.phase = "reading"
      /\ night' = [Asleep EXCEPT !.phase = IF active = {} THEN "idle" ELSE "scoring", !.todo = active]
      /\ UNCHANGED <<today, finished, active, snapshot>>
  BY DEF SaveBaselines
<1>2. UNCHANGED baseline \/ baseline' = [k \in DOMAIN baseline |->
        IF k[1] \in saved /\ k[2] = end THEN Baseline(total[k[1]]) ELSE baseline[k]]
  BY DEF SaveBaselines
<1>3. baseline = [k \in Carriers \X Days |-> baseline[k]]
  BY DEF ScoreInductive, ScoreTyped
<1> HIDE DEF saved, total
<1>4. \A c \in Carriers, d \in Days :
        \/ baseline'[<<c, d>>] = baseline[<<c, d>>]
        \/ c \in saved /\ d = end /\ baseline'[<<c, d>>] = Baseline(total[c])
  BY <1>2, <1>3
<1>5. ScoreTyped'
  <2>1. night' = [phase |-> IF active = {} THEN "idle" ELSE "scoring", end |-> 0, todo |-> active, read |-> <<>>]
    BY <1>1 DEF Asleep
  <2>2. 0 \in Days
    BY ScoreAssumption DEF Days
  <2>3. baseline' = [k \in Carriers \X Days |-> baseline'[k]]
    BY <1>2, <1>3
  <2>4. night' = [phase |-> night'.phase, end |-> night'.end, todo |-> night'.todo, read |-> night'.read]
    BY <2>1
  <2>5. night'.phase \in {"idle", "reading", "scoring"} /\ night'.end \in Days
    BY <2>1, <2>2
  <2>6. /\ IsFiniteSet(finished') /\ \A s \in finished' : s.outcome \in Outcomes
        /\ snapshot' = [k \in Clients \X Carriers \X Days |-> snapshot'[k]]
        /\ today' \in Days
    BY <1>1 DEF ScoreInductive, ScoreTyped
  <2>7. QED
    BY <2>3, <2>4, <2>5, <2>6 DEF ScoreTyped
<1>6. ASSUME NEW c \in Carriers, NEW d \in Days, baseline'[<<c, d>>] # baseline[<<c, d>>]
      PROVE  /\ baseline'[<<c, d>>] \in [tenants : Nat, sample : Nat, prior : Shares]
             /\ baseline'[<<c, d>>] # Unknown
             /\ \A n \in Names : baseline'[<<c, d>>].prior[n] \in 0..One
             /\ Founded(c, d)'
  <2>1. c \in saved /\ d = end /\ baseline'[<<c, d>>] = Baseline(total[c])
    BY <1>4, <1>6
  <2>2. total[c] = Accumulate(night.read, c) /\ IsPublishable(total[c])
    BY <2>1 DEF saved, total
  <2>3. /\ Baseline(total[c]) \in [tenants : Nat, sample : Nat, prior : Shares]
        /\ Baseline(total[c]) # Unknown
        /\ \A n \in Names : Baseline(total[c]).prior[n] \in 0..One
        /\ LET shippers == {t \in Clients : c \in DOMAIN Observations(t, end)}
           IN  /\ Cardinality(shippers) >= MinTenants
               /\ SumOf([t \in shippers |-> Observations(t, end)[c].finalized]) >= Baseline(total[c]).sample
    BY <1>1, <2>2, PublishedIsFounded
  <2>4. \A t : Observations(t, end)' = Observations(t, end)
    BY <1>1 DEF Observations, Made
  <2>5. QED
    BY <2>1, <2>3, <2>4 DEF Founded
<1>7. BasesAreFounded'
  <2> SUFFICES ASSUME NEW c \in Carriers, NEW d \in Days, baseline'[<<c, d>>] # Unknown
               PROVE  /\ baseline'[<<c, d>>] \in [tenants : Nat, sample : Nat, prior : Shares]
                      /\ \A n \in Names : baseline'[<<c, d>>].prior[n] \in 0..One
                      /\ Founded(c, d)'
    BY DEF BasesAreFounded
  <2>1. CASE baseline'[<<c, d>>] # baseline[<<c, d>>]
    BY <1>6, <2>1
  <2>2. CASE baseline'[<<c, d>>] = baseline[<<c, d>>]
    <3>1. /\ baseline[<<c, d>>] \in [tenants : Nat, sample : Nat, prior : Shares]
          /\ \A n \in Names : baseline[<<c, d>>].prior[n] \in 0..One
          /\ Founded(c, d)
      BY <2>2 DEF ScoreInductive, BasesAreFounded
    <3>2. baseline[<<c, d>>].sample \in Nat
      BY <3>1
    <3>3. Founded(c, d)'
      BY <1>1, <1>5, <2>2, <3>1, <3>2, FoundedStays DEF ScoreInductive
    <3>4. QED
      BY <2>2, <3>1, <3>3
  <2>3. QED
    BY <2>1, <2>2
<1>8. SnapshotsAreFounded'
  <2>1. \A c \in Carriers, d \in Days : baseline[<<c, d>>] # Unknown => baseline'[<<c, d>>] # Unknown
    BY <1>6
  <2>2. QED
    BY <1>1, <2>1, SnapshotsStay DEF ScoreInductive
<1>9. ReadingsAreTrue'
  <2>1. night'.phase # "reading"
    BY <1>1 DEF Asleep
  <2>2. QED
    BY <2>1 DEF ReadingsAreTrue
<1>10. QED
  BY <1>5, <1>7, <1>8, <1>9 DEF ScoreInductive

\* The base a carrier is scored against is one that was published.
LEMMA NewestIsThere ==
    ASSUME NEW rows, NEW ends \in SUBSET Days
    PROVE  \/ ends = {} /\ Newest(rows, ends) = Unknown
           \/ \E d \in ends : Newest(rows, ends) = rows[d]
<1>1. CASE ends = {}
  BY <1>1 DEF Newest
<1>2. CASE ends # {}
  <2>1. MaxDay \in Nat /\ ends \in SUBSET (0..MaxDay)
    BY ScoreAssumption DEF Days
  <2>2. PICK m \in ends : \A x \in ends : x <= m
    BY <1>2, <2>1, GreatestNumber
  <2>3. Max(ends) \in ends
    BY <2>1, <2>2 DEF Max
  <2>4. QED
    BY <1>2, <2>3 DEF Newest
<1>3. QED
  BY <1>1, <1>2

LEMMA LatestIsPublished ==
    ASSUME NEW c
    PROVE  LatestBaseline(c) # Unknown =>
             \E d \in Days : LatestBaseline(c) = baseline[<<c, d>>] /\ baseline[<<c, d>>] # Unknown
<1> DEFINE rows == [d \in Days |-> baseline[<<c, d>>]]
           ends == {d \in Days : baseline[<<c, d>>] # Unknown}
<1>1. LatestBaseline(c) = Newest(rows, ends) /\ ends \in SUBSET Days
  BY DEF LatestBaseline
<1>2. \A d \in ends : rows[d] = baseline[<<c, d>>] /\ baseline[<<c, d>>] # Unknown /\ d \in Days
  OBVIOUS
<1> HIDE DEF rows, ends
<1>3. QED
  BY <1>1, <1>2, NewestIsThere

LEMMA PriorsAreTyped ==
    ASSUME ScoreTyped, BasesAreFounded, NEW c \in Carriers,
           NEW prior \in {Unknown, PriorOf(LatestBaseline(c))}
    PROVE  \A n \in Names : BaseOf(prior)[n] \in 0..One
<1>1. CASE prior = Unknown
  BY <1>1 DEF BaseOf, PlatformPrior, Half, One
<1>2. CASE prior # Unknown
  <2>1. LatestBaseline(c) # Unknown /\ prior = LatestBaseline(c).prior
    BY <1>2 DEF PriorOf
  <2>2. PICK d \in Days : LatestBaseline(c) = baseline[<<c, d>>] /\ baseline[<<c, d>>] # Unknown
    BY <2>1, LatestIsPublished
  <2>3. QED
    BY <1>2, <2>1, <2>2 DEF BaseOf, BasesAreFounded
<1>3. QED
  BY <1>1, <1>2

\* What is written of a carrier: a number where there is confidence, and a base
\* only where one was published.
LEMMA SnapshotIs ==
    ASSUME ScoreTyped, BasesAreFounded, NEW c \in Carriers, NEW market \in Nat \cup {Unknown},
           NEW o, CountsFit(o), o.median \in Nat \cup {Unknown}
    PROVE  LET row == Snapshot(o, market, LatestBaseline(c))
           IN  /\ (row.score = Unknown) <=> (row.confidence = "insufficient")
               /\ row.basis \in {"platform", "mixed"} => LatestBaseline(c) # Unknown
<1> PICK prior : prior = PriorOf(LatestBaseline(c))
  OBVIOUS
<1> PICK x : x = Components(o, market)
  OBVIOUS
<1> PICK n : n = o.finalized
  OBVIOUS
<1> DEFINE row == Snapshot(o, market, LatestBaseline(c))
<1>1. n \in Nat /\ Unknown \notin Int
  BY ScoreAssumption DEF CountsFit, Counters
<1>2. \A i \in Names : x[i] \in Nat \cup {Unknown} /\ BaseOf(prior)[i] \in 0..One
  BY ComponentsTyped, PriorsAreTyped
<1>3. /\ row.score = ScoreFrom(x, n, prior).score
      /\ row.confidence = ScoreFrom(x, n, prior).confidence
      /\ row.basis = ScoreFrom(x, n, prior).basis
  BY DEF Snapshot
<1>4. prior # Unknown => LatestBaseline(c) # Unknown
  BY DEF PriorOf
<1> HIDE DEF row
<1>5. CASE prior = Unknown /\ n < MinSample
  <2>1. ScoreFrom(x, n, prior) = [score |-> Unknown, confidence |-> "insufficient", basis |-> "none"]
    BY <1>1, <1>2, <1>5, ScoreIs
  <2>2. row.score = Unknown /\ row.confidence = "insufficient" /\ row.basis = "none"
    BY <1>3, <2>1
  <2>3. QED
    BY <2>2 DEF row
<1>6. CASE ~(prior = Unknown /\ n < MinSample)
  <2>1. /\ ScoreFrom(x, n, prior).score \in Nat
        /\ ScoreFrom(x, n, prior).confidence # "insufficient"
        /\ ScoreFrom(x, n, prior).basis \in {"platform", "mixed"} => prior # Unknown
    BY <1>1, <1>2, <1>6, ScoreIs
  <2>2. row.score # Unknown /\ row.confidence # "insufficient"
    BY <1>1, <1>3, <2>1
  <2>3. row.basis \in {"platform", "mixed"} => LatestBaseline(c) # Unknown
    BY <1>3, <1>4, <2>1
  <2>4. QED
    BY <2>2, <2>3 DEF row
<1>7. QED
  BY <1>5, <1>6

LEMMA ScoreTenantStep ==
    ASSUME ScoreInductive, NEW t \in Clients, ScoreTenant(t)
    PROVE  ScoreInductive'
<1>1. /\ night.phase = "scoring"
      /\ night' = IF night.todo = {t} THEN Asleep ELSE [night EXCEPT !.todo = @ \ {t}]
      /\ snapshot' \in {snapshot, Recalculated(t, today)}
      /\ UNCHANGED <<today, finished, active, baseline>>
  BY DEF ScoreTenant
<1>2. /\ night' = [phase |-> night'.phase, end |-> night'.end, todo |-> night'.todo, read |-> night'.read]
      /\ night'.phase \in {"idle", "scoring"} /\ night'.end \in Days
  <2>1. 0 \in Days
    BY ScoreAssumption DEF Days
  <2>2. CASE night.todo = {t}
    BY <1>1, <2>1, <2>2 DEF Asleep
  <2>3. CASE night.todo # {t}
    <3>1. night' = [phase |-> "scoring", end |-> night.end, todo |-> night.todo \ {t}, read |-> night.read]
      BY <1>1, <2>3 DEF ScoreInductive, ScoreTyped
    <3>2. night.end \in Days
      BY DEF ScoreInductive, ScoreTyped
    <3>3. QED
      BY <3>1, <3>2
  <2>4. QED
    BY <2>2, <2>3
<1>3. snapshot = [k \in Clients \X Carriers \X Days |-> snapshot[k]]
  BY DEF ScoreInductive, ScoreTyped
<1> DEFINE observed == Observations(t, today)
           row(c) == Snapshot(IF c \in DOMAIN observed THEN observed[c] ELSE Empty,
                              MarketMedian(observed), LatestBaseline(c))
<1>4. /\ snapshot' = [k \in Clients \X Carriers \X Days |-> snapshot'[k]]
      /\ \A u \in Clients, c \in Carriers, d \in Days :
           snapshot'[<<u, c, d>>] \in {snapshot[<<u, c, d>>], row(c)}
  <2>1. CASE snapshot' = snapshot
    BY <1>3, <2>1
  <2>2. CASE snapshot' = Recalculated(t, today)
    <3> DEFINE rows == {c \in Carriers : c \in DOMAIN observed \/ LatestBaseline(c) # Unknown}
    <3>1. snapshot' = [k \in DOMAIN snapshot |->
            IF k[1] = t /\ k[3] = today /\ k[2] \in rows THEN row(k[2]) ELSE snapshot[k]]
      BY <2>2 DEF Recalculated
    <3> HIDE DEF rows, row, observed
    <3>2. QED
      BY <1>3, <3>1
  <2>3. QED
    BY <1>1, <2>1, <2>2
<1>5. ScoreTyped'
  BY <1>1, <1>2, <1>4 DEF ScoreInductive, ScoreTyped
<1>6. BasesAreFounded'
  BY <1>1, <1>5, BasesStay DEF ScoreInductive
<1>7. ASSUME NEW c \in Carriers
      PROVE  /\ (row(c).score = Unknown) <=> (row(c).confidence = "insufficient")
             /\ row(c).basis \in {"platform", "mixed"} => LatestBaseline(c) # Unknown
  <2> DEFINE o == IF c \in DOMAIN observed THEN observed[c] ELSE Empty
  <2>1. MarketMedian(observed) \in Nat \cup {Unknown}
    BY ObservationsFit DEF ScoreInductive
  <2>2. CountsFit(o) /\ o.median \in Nat \cup {Unknown}
    <3>1. CASE c \in DOMAIN observed
      BY <3>1, ObservationsFit DEF ScoreInductive
    <3>2. CASE c \notin DOMAIN observed
      BY <3>2 DEF Empty, CountsFit, Counters
    <3>3. QED
      BY <3>1, <3>2
  <2>3. row(c) = Snapshot(o, MarketMedian(observed), LatestBaseline(c))
    OBVIOUS
  <2> HIDE DEF o, observed, row
  <2>4. QED
    BY <2>1, <2>2, <2>3, SnapshotIs DEF ScoreInductive
<1>8. SnapshotsAreFounded'
  <2> HIDE DEF row, observed
  <2> SUFFICES ASSUME NEW u \in Clients, NEW c \in Carriers, NEW d \in Days, snapshot'[<<u, c, d>>] # Unknown
               PROVE  /\ (snapshot'[<<u, c, d>>].score = Unknown) <=> (snapshot'[<<u, c, d>>].confidence = "insufficient")
                      /\ snapshot'[<<u, c, d>>].basis \in {"platform", "mixed"} =>
                            \E e \in Days : baseline[<<c, e>>] # Unknown
    BY <1>1 DEF SnapshotsAreFounded
  <2>1. CASE snapshot'[<<u, c, d>>] = snapshot[<<u, c, d>>]
    BY <2>1 DEF ScoreInductive, SnapshotsAreFounded
  <2>2. CASE snapshot'[<<u, c, d>>] = row(c)
    BY <1>7, <2>2, LatestIsPublished
  <2>3. QED
    BY <1>4, <2>1, <2>2
<1>9. ReadingsAreTrue'
  BY <1>2 DEF ReadingsAreTrue
<1>10. QED
  BY <1>5, <1>6, <1>8, <1>9 DEF ScoreInductive

LEMMA ScoreStep == ScoreInductive /\ [ScoreNext]_scoreVars => ScoreInductive'
<1> SUFFICES ASSUME ScoreInductive, [ScoreNext]_scoreVars PROVE ScoreInductive'
  OBVIOUS
<1>1. today \in Days /\ \A d \in Days : d < MaxDay => d + 1 \in Days
  BY ScoreAssumption DEF ScoreInductive, ScoreTyped, Days
<1>2. CASE UNCHANGED scoreVars
  BY <1>1, <1>2, QuietStep DEF scoreVars
<1>3. CASE NextDay
  <2>1. UNCHANGED <<finished, baseline, snapshot>> /\ night' = night /\ today' \in Days
    BY <1>1, <1>3 DEF NextDay
  <2>2. QED
    BY <2>1, QuietStep
<1>4. ASSUME NEW t \in Clients, Suspend(t) PROVE ScoreInductive'
  <2>1. UNCHANGED <<finished, baseline, snapshot>> /\ night' = night /\ today' \in Days
    BY <1>1, <1>4 DEF Suspend
  <2>2. QED
    BY <2>1, QuietStep
<1>5. CASE StartNight
  <2>1. /\ UNCHANGED <<finished, baseline, snapshot>> /\ today' \in Days
        /\ night' = [phase |-> "reading", end |-> today, todo |-> Clients, read |-> <<>>]
    BY <1>1, <1>5 DEF StartNight
  <2>2. QED
    BY <2>1, QuietStep
<1>6. CASE Crash
  <2>1. UNCHANGED <<finished, baseline, snapshot>> /\ today' \in Days /\ night' = Asleep
    BY <1>1, <1>6 DEF Crash
  <2>2. QED
    BY <2>1, QuietStep
<1>7. CASE ScoreNext
  BY <1>3, <1>4, <1>5, <1>6, <1>7, FinishStep, ReadStep, SaveStep, ScoreTenantStep DEF ScoreNext
<1>8. QED
  BY <1>2, <1>7

LEMMA ScoreAlways == ScoreSpec => []ScoreInductive
<1>1. QED
  BY ScoreStart, ScoreStep, PTL DEF ScoreSpec

\* No base speaks of fewer clients than it must, in whatever order the tenants
\* were read, however many of them could not be, and wherever the night died
\* (worker/tasks.py, recalculate_carrier_score; intelligence/platform.py).
THEOREM BaselinesAreAnonymous == ScoreSpec => []BaselineIsAnonymous
<1>1. ScoreInductive => BaselineIsAnonymous
  <2> SUFFICES ASSUME ScoreInductive PROVE BaselineIsAnonymous
    OBVIOUS
  <2>1. ASSUME NEW k \in DOMAIN baseline, baseline[k] # Unknown
        PROVE  LET shippers == {t \in Clients : k[1] \in DOMAIN Observations(t, k[2])}
               IN  /\ Cardinality(shippers) >= MinTenants
                   /\ SumOf([t \in shippers |-> Observations(t, k[2])[k[1]].finalized]) >= baseline[k].sample
    <3>1. baseline = [x \in Carriers \X Days |-> baseline[x]]
      BY DEF ScoreInductive, ScoreTyped
    <3>2. k \in Carriers \X Days
      BY <3>1
    <3> PICK c \in Carriers, d \in Days : k = <<c, d>>
      BY <3>2
    <3>3. Founded(c, d)
      BY <2>1 DEF ScoreInductive, BasesAreFounded
    <3>4. k[1] = c /\ k[2] = d
      OBVIOUS
    <3>5. QED
      BY <3>3, <3>4 DEF Founded
  <2>2. ASSUME NEW k \in DOMAIN snapshot, snapshot[k] # Unknown, snapshot[k].basis \in {"platform", "mixed"}
        PROVE  \E d \in Days : baseline[<<k[2], d>>] # Unknown
    <3>1. snapshot = [x \in Clients \X Carriers \X Days |-> snapshot[x]]
      BY DEF ScoreInductive, ScoreTyped
    <3>2. k \in Clients \X Carriers \X Days
      BY <3>1
    <3> PICK t \in Clients, c \in Carriers, d \in Days : k = <<t, c, d>>
      BY <3>2
    <3>3. k[2] = c
      OBVIOUS
    <3>4. QED
      BY <2>2, <3>3 DEF ScoreInductive, SnapshotsAreFounded
  <2>3. ASSUME NEW t \in Clients, NEW c \in Carriers
        PROVE  (Analytics(t)[c].score = Unknown) = (Analytics(t)[c].confidence = "insufficient")
    <3> DEFINE rows == [d \in Days |-> snapshot[<<t, c, d>>]]
               ends == {d \in Days : snapshot[<<t, c, d>>] # Unknown}
    <3>1. Best(t, c) = Newest(rows, ends) /\ ends \in SUBSET Days
      BY DEF Best
    <3>2. \A d \in ends : rows[d] = snapshot[<<t, c, d>>] /\ snapshot[<<t, c, d>>] # Unknown /\ d \in Days
      OBVIOUS
    <3> HIDE DEF rows, ends
    <3>3. Best(t, c) # Unknown => \E d \in Days : Best(t, c) = snapshot[<<t, c, d>>] /\ snapshot[<<t, c, d>>] # Unknown
      BY <3>1, <3>2, NewestIsThere
    <3>4. Analytics(t)[c] = IF Best(t, c) = Unknown
            THEN [score |-> Unknown, confidence |-> "insufficient", basis |-> "none"]
            ELSE [score |-> Best(t, c).score, confidence |-> Best(t, c).confidence, basis |-> Best(t, c).basis]
      BY DEF Analytics
    <3>5. CASE Best(t, c) = Unknown
      BY <3>4, <3>5
    <3>6. CASE Best(t, c) # Unknown
      <4>1. PICK d \in Days : Best(t, c) = snapshot[<<t, c, d>>] /\ snapshot[<<t, c, d>>] # Unknown
        BY <3>3, <3>6
      <4>2. (Best(t, c).score = Unknown) <=> (Best(t, c).confidence = "insufficient")
        BY <4>1 DEF ScoreInductive, SnapshotsAreFounded
      <4>3. QED
        BY <3>4, <3>6, <4>2
    <3>7. QED
      BY <3>5, <3>6
  <2>4. QED
    BY <2>1, <2>2, <2>3 DEF BaselineIsAnonymous
<1>2. QED
  BY <1>1, ScoreAlways, PTL

\* One more delivery, in record form.
LEMMA GoodIsRaised ==
    ASSUME NEW rest, NEW a \in Nat, NEW b \in Nat, NEW d \in Nat, NEW e \in Nat, NEW broken, NEW incident,
           NEW o, o = [finalized |-> a, with_deadline |-> b, on_time |-> d, broken |-> broken,
                       with_incident |-> incident, transparent |-> e, median |-> rest]
    PROVE  Raised(o, AndGood(o)) /\ AndGood(o).median = o.median
BY DEF Raised, AndGood

LEMMA GoodTotalIsRaised ==
    ASSUME NEW rest, NEW a \in Nat, NEW b \in Nat, NEW d \in Nat, NEW e \in Nat, NEW broken, NEW incident,
           NEW o, o = [tenants |-> rest, finalized |-> a, with_deadline |-> b, on_time |-> d, broken |-> broken,
                       with_incident |-> incident, transparent |-> e]
    PROVE  Raised(o, AndGood(o))
BY DEF Raised, AndGood

\* The same delivery raises what a client observed and what all of them did.
LEMMA GoodRaisesCounters ==
    ASSUME ScoreTyped, NEW c \in Carriers, NEW end
    PROVE  /\ \A t \in Clients : c \in DOMAIN Observations(t, end) =>
                LET o == Observations(t, end)[c]
                IN  Raised(o, AndGood(o)) /\ AndGood(o).median = o.median
           /\ LET total == Accumulate([t \in Clients |-> Observations(t, end)], c)
              IN  CountsFit(total) /\ Raised(total, AndGood(total))
<1>1. ASSUME NEW t \in Clients, c \in DOMAIN Observations(t, end), NEW o, o = Observations(t, end)[c]
      PROVE  Raised(o, AndGood(o)) /\ AndGood(o).median = o.median
  <2>1. o = Observed(Made(t, c, end))
    BY <1>1 DEF Observations
  <2>2. CountsFit(o)
    BY <1>1, ObservationsFit
  <2>3. PICK a, b, d, e, broken, incident, rest :
          o = [finalized |-> a, with_deadline |-> b, on_time |-> d, broken |-> broken,
               with_incident |-> incident, transparent |-> e, median |-> rest]
    BY <2>1 DEF Observed
  <2>4. a \in Nat /\ b \in Nat /\ d \in Nat /\ e \in Nat
    BY <2>2, <2>3 DEF CountsFit, Counters
  <2>5. QED
    BY <2>3, <2>4, GoodIsRaised
<1>2. ASSUME NEW total, total = Accumulate([t \in Clients |-> Observations(t, end)], c)
      PROVE  CountsFit(total) /\ Raised(total, AndGood(total))
  <2> DEFINE read == [t \in Clients |-> Observations(t, end)]
  <2>1. IsFiniteSet(DOMAIN read) /\ \A t \in DOMAIN read : c \in DOMAIN read[t] => CountsFit(read[t][c])
    BY ObservationsFit, ScoreAssumption
  <2>2. CountsFit(total)
    <3> HIDE DEF read
    <3>1. total = Accumulate(read, c)
      BY <1>2 DEF read
    <3>2. QED
      BY <2>1, <3>1, TotalsFit DEF Accumulate
  <2>3. PICK a, b, d, e, broken, incident, rest :
          total = [tenants |-> rest, finalized |-> a, with_deadline |-> b, on_time |-> d, broken |-> broken,
                   with_incident |-> incident, transparent |-> e]
    BY <1>2 DEF Accumulate, TotalsOf
  <2>4. a \in Nat /\ b \in Nat /\ d \in Nat /\ e \in Nat
    BY <2>2, <2>3 DEF CountsFit, Counters
  <2>5. QED
    BY <2>2, <2>3, <2>4, GoodTotalIsRaised
<1>3. QED
  BY <1>1, <1>2

\* A good delivery never lowers a share, and costs no points where nothing that
\* was measured is below its base (intelligence/score.py, intelligence/platform.py).
THEOREM GoodDeliveriesNeverLower == ScoreSpec => []GoodDeliveryNeverLowers
<1>1. ScoreInductive => GoodDeliveryNeverLowers
  <2> SUFFICES ASSUME ScoreInductive, NEW c \in Carriers,
                      NEW read, read = [t \in Clients |-> Observations(t, today)],
                      NEW total, total = Accumulate(read, c)
               PROVE  /\ total.finalized > 0 =>
                           \A n \in Names : PriorFromTotals(AndGood(total))[n] >= PriorFromTotals(total)[n]
                      /\ \A t \in Clients : c \in DOMAIN read[t] =>
                           LET o == read[t][c]
                               shares == Components(o, MarketMedian(read[t]))
                               better == Components(AndGood(o), MarketMedian(read[t]))
                           IN  /\ \A n \in Names : NeverLower(better[n], shares[n])
                               /\ \A prior \in {Unknown, PriorOf(LatestBaseline(c))} :
                                    NothingBelow(shares, BaseOf(prior)) =>
                                      NeverLower(ScoreFrom(better, o.finalized + 1, prior).score,
                                                 ScoreFrom(shares, o.finalized, prior).score)
    BY DEF GoodDeliveryNeverLowers
  <2>1. ScoreTyped /\ BasesAreFounded
    BY DEF ScoreInductive
  <2> PICK end : end = today
    OBVIOUS
  <2>2. CountsFit(total) /\ Raised(total, AndGood(total))
    BY <2>1, GoodRaisesCounters
  <2>3. total.finalized > 0 => \A n \in Names : PriorFromTotals(AndGood(total))[n] >= PriorFromTotals(total)[n]
    BY <2>2, GoodRaisesPriors
  <2>4. ASSUME NEW t \in Clients, c \in DOMAIN read[t],
               NEW o, o = read[t][c], NEW market, market = MarketMedian(read[t]),
               NEW shares, shares = Components(o, market), NEW better, better = Components(AndGood(o), market)
        PROVE  /\ \A n \in Names : NeverLower(better[n], shares[n])
               /\ \A prior \in {Unknown, PriorOf(LatestBaseline(c))} :
                    NothingBelow(shares, BaseOf(prior)) =>
                      NeverLower(ScoreFrom(better, o.finalized + 1, prior).score,
                                 ScoreFrom(shares, o.finalized, prior).score)
    <3>1. read[t] = Observations(t, end) /\ c \in DOMAIN Observations(t, end) /\ o = Observations(t, end)[c]
      BY <2>4
    <3>2. /\ CountsFit(o) /\ o.finalized \in Nat \ {0} /\ o.median \in Nat \cup {Unknown}
          /\ market \in Nat \cup {Unknown}
      <4>1. market = MarketMedian(Observations(t, end))
        BY <2>4, <3>1
      <4>2. MarketMedian(Observations(t, end)) \in Nat \cup {Unknown}
        BY <2>1, ObservationsFit
      <4>3. /\ CountsFit(Observations(t, end)[c])
            /\ Observations(t, end)[c].finalized \in Nat \ {0}
            /\ Observations(t, end)[c].median \in Nat \cup {Unknown}
        BY <2>1, <3>1, ObservationsFit
      <4>4. QED
        BY <3>1, <4>1, <4>2, <4>3
    <3>3. Raised(o, AndGood(o)) /\ AndGood(o).median = o.median
      BY <2>1, <3>1, GoodRaisesCounters
    <3>4. o.finalized > 0
      BY <3>2
    <3>5. \A n \in Names : Rises(better[n], shares[n])
      BY <2>4, <3>2, <3>3, <3>4, GoodRaisesComponents
    <3>6. CountsFit(AndGood(o))
      <4>1. \A field \in Counters : o[field] \in Nat
        BY <3>2 DEF CountsFit
      <4>2. QED
        BY <3>2, <3>3, <4>1 DEF CountsFit, Raised, Counters
    <3>7. \A n \in Names : shares[n] \in Nat \cup {Unknown} /\ better[n] \in Nat \cup {Unknown}
      BY <2>4, <3>2, <3>3, <3>6, ComponentsTyped
    <3>8. ASSUME NEW prior \in {Unknown, PriorOf(LatestBaseline(c))}, NothingBelow(shares, BaseOf(prior))
          PROVE  NeverLower(ScoreFrom(better, o.finalized + 1, prior).score,
                            ScoreFrom(shares, o.finalized, prior).score)
      <4>1. \A n \in Names : BaseOf(prior)[n] \in 0..One
        BY <2>1, PriorsAreTyped
      <4>2. \A n \in Names : shares[n] # Unknown => shares[n] >= BaseOf(prior)[n]
        BY <3>8 DEF NothingBelow
      <4>3. QED
        BY <3>2, <3>5, <3>7, <4>1, <4>2, ScoreRises
    <3>9. QED
      BY <3>5, <3>8 DEF Rises
  <2>5. QED
    BY <2>3, <2>4
<1>2. QED
  BY <1>1, ScoreAlways, PTL
=============================================================================
