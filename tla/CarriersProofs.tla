---------------------------- MODULE CarriersProofs ----------------------------
(* Proofs about the carriers' side, each for one of the models that           *)
(* MCCarriers runs: the verdict of an account is of the credentials it has,   *)
(* a call of a carrier repeats itself within bounds and never with a token    *)
(* that was refused to it, a shipment keeps an order of its own number, a     *)
(* search says "not found" only of what the carrier does not show, and an     *)
(* answer about prices is whole.                                              *)
EXTENDS CarrierAccount, CarrierCall, CarrierOrders, CarrierQuotes,
        FiniteSetTheorems, SequenceTheorems, WellFoundedInduction, TLAPS

(* The account. The property is not inductive: a check that is out may not be *)
(* of an older entry, and what it is about to write must be on record.        *)

\* An account has its columns, an open check has read an account and, once the
\* carrier was asked, has found something.
AccountTyped == account \in Accounts \cup {NoAccount}
ChecksTyped ==
    /\ check = [s \in Sessions |-> check[s]]
    /\ \A s \in Sessions : check[s] # Idle =>
           /\ check[s].read \in Accounts
           /\ check[s].step = "commit" => check[s].found \in {"ok", "error"}

\* A check is of an account there is and, unless credentials were entered while
\* one was out, of the entry the account has now.
ChecksAreFresh ==
    \A s \in Sessions : check[s] # Idle =>
        /\ account # NoAccount
        /\ ~crossed => check[s].read.entry = account.entry

\* What a check is about to write is what it has found.
ChecksAreRecorded ==
    \A s \in Sessions : check[s] # Idle /\ check[s].step = "commit" =>
        <<check[s].read.entry, check[s].found>> \in verdicts

AccountInductive == AccountTyped /\ ChecksTyped /\ ChecksAreFresh /\ ChecksAreRecorded /\ VerdictIsOfItsCredentials

-----------------------------------------------------------------------------
\* Closing a check leaves the others as they were.
LEMMA Closing ==
    ASSUME AccountInductive, NEW s \in Sessions, check' = [check EXCEPT ![s] = Idle], UNCHANGED <<verdicts, crossed>>,
           account = NoAccount => account' = NoAccount, account # NoAccount => account' # NoAccount /\ account'.entry = account.entry
    PROVE  ChecksTyped' /\ ChecksAreFresh' /\ ChecksAreRecorded'
<1>1. check' = [t \in Sessions |-> IF t = s THEN Idle ELSE check[t]]
  BY DEF AccountInductive, ChecksTyped
<1>2. ChecksTyped'
  BY <1>1 DEF AccountInductive, ChecksTyped
<1>3. ChecksAreFresh'
  BY <1>1 DEF AccountInductive, ChecksAreFresh
<1>4. ChecksAreRecorded'
  BY <1>1 DEF AccountInductive, ChecksAreRecorded
<1>5. QED
  BY <1>2, <1>3, <1>4

\* Every step keeps the invariant.
LEMMA AccountStep ==
    ASSUME AccountInductive, [AccountNext]_accountVars
    PROVE  AccountInductive'
<1>1. ASSUME NEW c \in Credentials, Enter(c) PROVE AccountInductive'
  <2>1. Entry + 1 \in Nat
    BY DEF Entry, AccountInductive, AccountTyped, Accounts
  <2>2. account' \in Accounts /\ account'.status = "unchecked"
    BY <1>1, <2>1 DEF Enter, Entered, Accounts
  <2>3. AccountTyped' /\ ChecksTyped'
    BY <1>1, <2>2 DEF Enter, AccountInductive, AccountTyped, ChecksTyped
  <2>4. ChecksAreFresh'
    BY NoAccountIsNone, <1>1, <2>2 DEF Enter, AccountInductive, ChecksAreFresh
  <2>5. ChecksAreRecorded'
    BY <1>1 DEF Enter, AccountInductive, ChecksAreRecorded
  <2>6. QED
    BY <2>2, <2>3, <2>4, <2>5 DEF AccountInductive, VerdictIsOfItsCredentials
<1>2. ASSUME NEW s \in Sessions, Begin(s) PROVE AccountInductive'
  <2>1. account \in Accounts
    BY <1>2 DEF Begin, AccountInductive, AccountTyped
  <2>2. check' = [t \in Sessions |-> IF t = s THEN [step |-> "probe", read |-> account] ELSE check[t]]
    BY <1>2 DEF Begin, AccountInductive, ChecksTyped
  <2>3. AccountTyped' /\ ChecksTyped'
    BY <1>2, <2>1, <2>2 DEF Begin, AccountInductive, AccountTyped, ChecksTyped
  <2>4. ChecksAreFresh'
    BY <1>2, <2>2 DEF Begin, AccountInductive, ChecksAreFresh
  <2>5. ChecksAreRecorded'
    BY <1>2, <2>2 DEF Begin, AccountInductive, ChecksAreRecorded
  <2>6. QED
    BY <1>2, <2>3, <2>4, <2>5 DEF Begin, AccountInductive, VerdictIsOfItsCredentials
<1>3. ASSUME NEW s \in Sessions, NEW answers \in BOOLEAN, Probe(s, answers) PROVE AccountInductive'
  <2> DEFINE found == VerdictOf(check[s].read.credentials, answers)
  <2>1. check[s] # Idle
    BY <1>3 DEF Probe, Idle
  <2>2. found \in {"ok", "error"}
    BY DEF VerdictOf
  <2>3. /\ check' = [check EXCEPT ![s] = [step |-> "commit", read |-> check[s].read, found |-> found]]
        /\ verdicts' = verdicts \cup {<<check[s].read.entry, found>>}
        /\ UNCHANGED <<account, crossed>>
    BY <1>3 DEF Probe
  <2> HIDE DEF found
  <2>4. check' = [t \in Sessions |->
                     IF t = s THEN [step |-> "commit", read |-> check[s].read, found |-> found] ELSE check[t]]
    BY <2>3 DEF AccountInductive, ChecksTyped
  <2>5. AccountTyped' /\ ChecksTyped'
    BY <2>1, <2>2, <2>3, <2>4 DEF AccountInductive, AccountTyped, ChecksTyped
  <2>6. ChecksAreFresh'
    BY <2>1, <2>3, <2>4 DEF AccountInductive, ChecksAreFresh
  <2>7. ChecksAreRecorded'
    BY <2>3, <2>4 DEF AccountInductive, ChecksAreRecorded
  <2>8. VerdictIsOfItsCredentials'
    BY <2>3 DEF AccountInductive, VerdictIsOfItsCredentials
  <2>9. QED
    BY <2>5, <2>6, <2>7, <2>8 DEF AccountInductive
<1>4. ASSUME NEW s \in Sessions, Commit(s) PROVE AccountInductive'
  <2>1. check[s] # Idle
    BY <1>4 DEF Commit, Idle
  <2>2. account \in Accounts /\ check[s].found \in {"ok", "error"}
    BY <1>4, <2>1 DEF Commit, AccountInductive, AccountTyped, ChecksTyped, ChecksAreFresh
  <2>3. ~crossed => <<account.entry, check[s].found>> \in verdicts
    BY <1>4, <2>1 DEF Commit, AccountInductive, ChecksAreFresh, ChecksAreRecorded
  <2>4. account' = account \/ account' = [account EXCEPT !.status = check[s].found]
    BY <1>4 DEF Commit
  <2>5. account' \in Accounts /\ account'.entry = account.entry
    BY <2>2, <2>4 DEF Accounts
  <2>6. AccountTyped' /\ ChecksTyped' /\ ChecksAreFresh' /\ ChecksAreRecorded'
    BY NoAccountIsNone, <1>4, <2>2, <2>5, Closing DEF Commit, AccountTyped
  <2>7. account' = account \/ account'.status = check[s].found
    BY <2>2, <2>4 DEF Accounts
  <2>8. VerdictIsOfItsCredentials'
    BY <1>4, <2>2, <2>3, <2>5, <2>7 DEF Commit, AccountInductive, VerdictIsOfItsCredentials
  <2>9. QED
    BY <2>6, <2>8 DEF AccountInductive
<1>5. ASSUME NEW s \in Sessions, Abort(s) PROVE AccountInductive'
  <2>1. UNCHANGED <<account, verdicts, crossed>> /\ check' = [check EXCEPT ![s] = Idle]
    BY <1>5 DEF Abort
  <2>2. ChecksTyped' /\ ChecksAreFresh' /\ ChecksAreRecorded'
    BY <2>1, Closing
  <2>3. QED
    BY <2>1, <2>2 DEF AccountInductive, AccountTyped, VerdictIsOfItsCredentials
<1>6. ASSUME NEW c \in Credentials, Carrier(c) PROVE AccountInductive'
  BY <1>6 DEF Carrier, AccountInductive, AccountTyped, ChecksTyped, ChecksAreFresh, ChecksAreRecorded, VerdictIsOfItsCredentials
<1>7. CASE UNCHANGED accountVars
  BY <1>7 DEF accountVars, AccountInductive, AccountTyped, ChecksTyped, ChecksAreFresh, ChecksAreRecorded, VerdictIsOfItsCredentials
<1>8. QED
  BY <1>1, <1>2, <1>3, <1>4, <1>5, <1>6, <1>7 DEF AccountNext

-----------------------------------------------------------------------------
\* Whatever the order of entries, checks and changes at the carrier: an account
\* says of its credentials only what a check of these very credentials found,
\* unless they were entered while a check was out (CarrierDirectoryService.check,
\* scripts/set_carrier_credentials.py).
THEOREM VerdictsAreOfTheirCredentials ==
    AccountSpec => []VerdictIsOfItsCredentials
<1>1. AccountInit => AccountInductive
  BY NoAccountIsNone DEF AccountInit, AccountInductive, AccountTyped, ChecksTyped, ChecksAreFresh, ChecksAreRecorded, VerdictIsOfItsCredentials
<1>2. AccountInductive /\ [AccountNext]_accountVars => AccountInductive'
  BY AccountStep
<1>3. AccountInductive => VerdictIsOfItsCredentials
  BY DEF AccountInductive
<1>4. QED
  BY <1>1, <1>2, <1>3, PTL DEF AccountSpec

-----------------------------------------------------------------------------
(* The call of a carrier. The count of what a task has sent is bounded by the *)
(* place it stands at, and the token of its client is never one that was      *)
(* refused to it, because a refusal drops it and every new one has a new name. *)
Tokens == Nat \cup {Nil}
Tasks == [pc : {"idle", "queue", "authorising", "sent", "pause", "done"}, round : {1, 2},
          attempt : 1..MaxAttempts, token : Tokens, refused : SUBSET Nat, sent : Nat, authorised : Nat,
          outcome : Answers \cup {Nil, "open", "cancelled"}]
CallTyped ==
    /\ kind \in Kinds /\ clock \in Nat /\ issued \in Nat
    /\ token \in [Clients -> [name : Tokens, until : Nat]]
    /\ lock \in [Clients -> Calls \cup {Nil}]
    /\ call \in [Calls -> Tasks]

\* What the first round may have sent before the second one begins.
Before(t) == IF t.round = 1 THEN 0 ELSE MaxAttempts + 1

\* A ladder has sent an authorisation and as many requests as it has attempts.
Counted(t) ==
    /\ t.pc = "idle" => t.round = 1 /\ t.sent = 0
    /\ t.pc = "queue" => t.sent <= Before(t)
    /\ t.pc = "authorising" => t.sent <= Before(t) + 1
    /\ t.pc \in {"sent", "pause"} => t.sent <= Before(t) + 1 + t.attempt
    /\ t.pc = "pause" => t.attempt < MaxAttempts
    /\ t.sent <= 2 * (MaxAttempts + 1)

\* What was refused to task t, of a client whose token is name when n tokens are
\* issued, is an old token, neither the client's nor the one that t goes on with.
Clean(t, name, n, k) ==
    /\ t.refused \subseteq 1..n
    /\ t.round = 1 => t.refused = {}
    /\ k = "header" => t.round = 1
    /\ name \notin t.refused /\ name \in 1..n \cup {Nil}
    /\ t.pc \in {"sent", "pause"} => t.token \notin t.refused /\ (k # "header" => t.token \in 1..n)

TasksAreSound == \A c \in Calls : Counted(call[c]) /\ Clean(call[c], token[ClientOf[c]].name, issued, kind)
LocksAreHeld == \A c \in Calls : lock[ClientOf[c]] = c => call[c].pc = "authorising"
CallInductive == CallTyped /\ TasksAreSound /\ LocksAreHeld

-----------------------------------------------------------------------------
\* A step of the tasks that leaves a task where it is leaves it sound, if its
\* client's token stays, is dropped or is a new one.
LEMMA OtherTasks ==
    ASSUME NEW t \in Tasks, NEW name, NEW name2, NEW n \in Nat, NEW m \in Nat, NEW k, Clean(t, name, n, k),
           \/ m = n /\ name2 \in {name, Nil}
           \/ m = n + 1 /\ name2 \in {name, Nil, m}
    PROVE  Clean(t, name2, m, k)
<1>1. 1..n \subseteq 1..m /\ n <= m
  BY SMT
<1>2. Nil \notin t.refused /\ n + 1 \notin t.refused
  BY CallAssumption DEF Clean
<1>3. name2 \notin t.refused /\ name2 \in 1..m \cup {Nil}
  BY <1>1, <1>2 DEF Clean
<1>4. QED
  BY <1>1, <1>3 DEF Clean

\* What holds of a sound state at a task and its client.
LEMMA AtATask ==
    ASSUME CallInductive, NEW c \in Calls
    PROVE  /\ call[c] \in Tasks /\ ClientOf[c] \in Clients
           /\ token[ClientOf[c]] \in [name : Tokens, until : Nat]
           /\ Counted(call[c]) /\ Clean(call[c], token[ClientOf[c]].name, issued, kind)
           /\ issued \in Nat /\ MaxAttempts \in Nat \ {0}
BY CallAssumption DEF CallInductive, CallTyped, TasksAreSound

\* A step renews tokens only, a task may take the lock of its client to authorise,
\* and is sound afterwards.
Renews ==
    /\ token' \in [Clients -> [name : Tokens, until : Nat]]
    /\ \/ issued' = issued /\ \A k \in Clients : token'[k].name \in {token[k].name, Nil}
       \/ issued' = issued + 1 /\ \A k \in Clients : token'[k].name \in {token[k].name, issued'}
Relocks(c, t) ==
    /\ lock' \in [Clients -> Calls \cup {Nil}]
    /\ \A k \in Clients : lock'[k] \in {lock[k], Nil, c}
    /\ lock'[ClientOf[c]] = c => t.pc = "authorising"
Sound(c, t) == t \in Tasks /\ Counted(t) /\ Clean(t, token'[ClientOf[c]].name, issued', kind)

\* Most steps leave the tokens and the locks alone.
LEMMA LeftAlone ==
    ASSUME CallInductive, NEW c \in Calls
    PROVE  /\ UNCHANGED <<token, issued>> => Renews
           /\ \A t : lock' = lock /\ (lock[ClientOf[c]] = c => t.pc = "authorising") => Relocks(c, t)
BY DEF CallInductive, CallTyped, Renews, Relocks

\* A step of one task keeps the invariant.
LEMMA OneTask ==
    ASSUME CallInductive, NEW c \in Calls, NEW t, call' = [call EXCEPT ![c] = t],
           Sound(c, t), Renews, Relocks(c, t), UNCHANGED <<kind, clock>>
    PROVE  CallInductive'
<1>1. call' = [d \in Calls |-> IF d = c THEN t ELSE call[d]]
  BY DEF CallInductive, CallTyped
<1>2. CallTyped'
  <2>1. call' \in [Calls -> Tasks] /\ issued' \in Nat
    BY <1>1 DEF CallInductive, CallTyped, Sound, Renews
  <2>2. QED
    BY <2>1 DEF CallInductive, CallTyped, Renews, Relocks
<1>3. ASSUME NEW d \in Calls PROVE Counted(call'[d]) /\ Clean(call'[d], token'[ClientOf[d]].name, issued', kind')
  <2>1. CASE d = c
    BY <1>1, <2>1 DEF Sound
  <2>2. CASE d # c
    <3>1. call'[d] = call[d]
      BY <1>1, <2>2
    <3>2. /\ call[d] \in Tasks /\ ClientOf[d] \in Clients /\ issued \in Nat /\ issued' \in Nat
          /\ Counted(call[d]) /\ Clean(call[d], token[ClientOf[d]].name, issued, kind)
      BY <1>2, AtATask DEF CallTyped
    <3>3. Clean(call[d], token'[ClientOf[d]].name, issued', kind)
      BY <3>2, OtherTasks DEF Renews
    <3>4. QED
      BY <3>1, <3>2, <3>3
  <2>3. QED
    BY <2>1, <2>2
<1>4. TasksAreSound'
  BY <1>3 DEF TasksAreSound
<1>5. ASSUME NEW d \in Calls, lock'[ClientOf[d]] = d PROVE call'[d].pc = "authorising"
  <2>1. CASE d = c
    BY <1>1, <1>5, <2>1 DEF Relocks
  <2>2. CASE d # c
    BY <1>1, <1>5, <2>2, CallAssumption DEF CallInductive, LocksAreHeld, Relocks
  <2>3. QED
    BY <2>1, <2>2
<1>6. LocksAreHeld'
  BY <1>5 DEF LocksAreHeld
<1>7. QED
  BY <1>2, <1>4, <1>6 DEF CallInductive

\* A task that enters request() where the breaker stands is sound if it was
\* before, whether it is turned away or sends with the token of its client.
Relock(c, pc) ==
    \/ pc = "sent" /\ lock' = lock
    \/ pc = "authorising"
       /\ lock' = [lock EXCEPT ![ClientOf[c]] = IF IsOpen(breaker[ClientOf[c]]) THEN Nil ELSE c]

\* A call that comes to its client is sent with the token or takes the lock.
LEMMA Entering ==
    ASSUME CallInductive, NEW c \in Calls, NEW pc, NEW t,
           EnterRequest(c, pc, t), UNCHANGED <<kind, clock, token, issued>>,
           call[c].pc \in {"idle", "queue"}, call[c].sent <= Before(call[c]),
           t \in {token[ClientOf[c]].name, Nil},
           pc = "sent" /\ kind # "header" => t \in Nat,
           Relock(c, pc)
    PROVE  CallInductive'
<1> DEFINE open == IsOpen(breaker[ClientOf[c]])
<1>1. /\ call[c] \in Tasks /\ ClientOf[c] \in Clients /\ issued \in Nat /\ MaxAttempts \in Nat \ {0}
      /\ Counted(call[c]) /\ Clean(call[c], token[ClientOf[c]].name, issued, kind)
      /\ token[ClientOf[c]] \in [name : Tokens, until : Nat]
  BY AtATask
<1>2. Renews
  BY LeftAlone
<1>3. lock' \in [Clients -> Calls \cup {Nil}] /\ \A k \in Clients : lock'[k] \in {lock[k], Nil, c}
  BY DEF Relock, CallInductive, CallTyped
<1>4. lock[ClientOf[c]] # c
  BY DEF CallInductive, LocksAreHeld
<1>5. CASE open
  <2> DEFINE ended == [call[c] EXCEPT !.pc = "done", !.outcome = "open"]
  <2>1. call' = [call EXCEPT ![c] = ended]
    BY <1>5 DEF EnterRequest, End, CallInductive, CallTyped
  <2>2. ended \in Tasks /\ Counted(ended) /\ Clean(ended, token[ClientOf[c]].name, issued, kind)
    BY <1>1 DEF Tasks, Counted, Clean, Before
  <2>3. lock'[ClientOf[c]] # c
    BY <1>1, <1>4, <1>5, CallAssumption DEF Relock, CallInductive, CallTyped
  <2> HIDE DEF ended
  <2>4. Sound(c, ended) /\ Relocks(c, ended)
    BY <1>3, <2>2, <2>3 DEF Sound, Relocks
  <2>5. QED
    BY <1>2, <2>1, <2>4, OneTask
<1>6. CASE ~open
  <2> DEFINE entered == [call[c] EXCEPT !.pc = pc, !.token = t, !.attempt = 1, !.sent = @ + 1]
  <2>1. call' = [call EXCEPT ![c] = entered]
    BY <1>6 DEF EnterRequest, CallInductive, CallTyped
  <2>2. /\ t \in Tokens /\ pc \in {"sent", "authorising"}
        /\ 1 \in 1..MaxAttempts /\ call[c].sent + 1 \in Nat
    BY <1>1 DEF Tasks, Tokens, Relock
  <2>3. entered \in Tasks
    BY <1>1, <2>2 DEF Tasks
  <2>4. Counted(entered)
    BY <1>1, <2>2 DEF Tasks, Counted, Before
  <2>5. t \notin call[c].refused /\ (t \in Nat => t \in 1..issued)
    BY <1>1, CallAssumption DEF Clean, Tasks
  <2>6. Clean(entered, token[ClientOf[c]].name, issued, kind)
    BY <1>1, <2>2, <2>5 DEF Tasks, Clean
  <2>7. lock'[ClientOf[c]] = c => entered.pc = "authorising"
    BY <1>1, <1>4, <1>6 DEF Tasks, Relock
  <2> HIDE DEF entered
  <2>8. Sound(c, entered) /\ Relocks(c, entered)
    BY <1>3, <2>3, <2>4, <2>6, <2>7 DEF Sound, Relocks
  <2>9. QED
    BY <1>2, <2>1, <2>8, OneTask
<1>7. QED
  BY <1>5, <1>6

\* start: with the token at hand, with none to ask for, or to the queue.
LEMMA StartStep ==
    ASSUME CallInductive, NEW c \in Calls, Start(c)
    PROVE  CallInductive'
<1>1. /\ call[c] \in Tasks /\ ClientOf[c] \in Clients /\ issued \in Nat
      /\ Counted(call[c]) /\ Clean(call[c], token[ClientOf[c]].name, issued, kind)
      /\ token[ClientOf[c]] \in [name : Tokens, until : Nat]
  BY AtATask
<1>2. call[c].pc = "idle" /\ call[c].sent <= Before(call[c]) /\ UNCHANGED <<kind, clock, token, lock, issued>>
  BY <1>1 DEF Start, Counted, Before
<1> DEFINE t == IF kind = "header" THEN Nil ELSE token[ClientOf[c]].name
<1>3. CASE kind = "header" \/ HasToken(ClientOf[c])
  <2>1. EnterRequest(c, "sent", t)
    BY <1>3 DEF Start
  <2>2. t \in {token[ClientOf[c]].name, Nil} /\ (kind # "header" => t \in Nat)
    BY <1>1, <1>3 DEF HasToken, Tokens
  <2>3. Relock(c, "sent")
    BY <1>2 DEF Relock
  <2> HIDE DEF t
  <2>4. QED
    BY <1>2, <2>1, <2>2, <2>3, Entering
<1>4. CASE kind # "header" /\ ~HasToken(ClientOf[c])
  <2> DEFINE queued == [call[c] EXCEPT !.pc = "queue"]
  <2>1. call' = [call EXCEPT ![c] = queued]
    BY <1>4 DEF Start, CallInductive, CallTyped
  <2>2. queued \in Tasks /\ Counted(queued) /\ Clean(queued, token[ClientOf[c]].name, issued, kind)
    BY <1>1, <1>2 DEF Tasks, Counted, Clean, Before
  <2>3. lock[ClientOf[c]] # c
    BY <1>2 DEF CallInductive, LocksAreHeld
  <2> HIDE DEF queued
  <2>4. Sound(c, queued) /\ Renews /\ Relocks(c, queued)
    BY <1>2, <2>2, <2>3, LeftAlone DEF Sound
  <2>5. QED
    BY <1>2, <2>1, <2>4, OneTask
<1>5. QED
  BY <1>3, <1>4

\* The lock is free, for a token that has come meanwhile or for authorising.
LEMMA TakeLockStep ==
    ASSUME CallInductive, NEW c \in Calls, TakeLock(c)
    PROVE  CallInductive'
<1>1. /\ call[c] \in Tasks /\ Counted(call[c]) /\ token[ClientOf[c]] \in [name : Tokens, until : Nat]
  BY AtATask
<1>2. call[c].pc = "queue" /\ call[c].sent <= Before(call[c]) /\ UNCHANGED <<kind, clock, token, issued>>
  BY <1>1 DEF TakeLock, Counted
<1>3. CASE HasToken(ClientOf[c])
  <2>1. token[ClientOf[c]].name \in Nat
    BY <1>1, <1>3 DEF HasToken, Tokens
  <2>2. EnterRequest(c, "sent", token[ClientOf[c]].name) /\ Relock(c, "sent")
    BY <1>3 DEF TakeLock, Relock
  <2>3. QED
    BY <1>2, <2>1, <2>2, Entering
<1>4. CASE ~HasToken(ClientOf[c])
  <2>1. EnterRequest(c, "authorising", Nil) /\ Relock(c, "authorising")
    BY <1>4 DEF TakeLock, Relock
  <2>2. QED
    BY <1>2, <2>1, Entering
<1>5. QED
  BY <1>3, <1>4

\* A new token is one that nobody was refused.
LEMMA AuthorisedStep ==
    ASSUME CallInductive, NEW c \in Calls, Authorised(c)
    PROVE  CallInductive'
<1>1. /\ call[c] \in Tasks /\ ClientOf[c] \in Clients /\ issued \in Nat /\ MaxAttempts \in Nat \ {0}
      /\ Counted(call[c]) /\ Clean(call[c], token[ClientOf[c]].name, issued, kind)
  BY AtATask
<1> DEFINE sending == [call[c] EXCEPT !.pc = "sent", !.token = issued + 1, !.attempt = 1,
                                      !.sent = @ + 1, !.authorised = @ + 1]
<1>2. call' = [call EXCEPT ![c] = sending] /\ issued' = issued + 1 /\ UNCHANGED <<kind, clock>>
  BY DEF Authorised, CallInductive, CallTyped
<1>3. sending \in Tasks
  <2>1. issued + 1 \in Tokens /\ call[c].sent + 1 \in Nat /\ call[c].authorised + 1 \in Nat /\ 1 \in 1..MaxAttempts
    BY <1>1 DEF Tasks, Tokens
  <2>2. QED
    BY <1>1, <2>1 DEF Tasks
<1>4. Counted(sending)
  BY <1>1 DEF Authorised, Tasks, Counted, Before
<1>5. PICK life \in {0, Cooldown + 1} :
        token' = [token EXCEPT ![ClientOf[c]] = [name |-> issued + 1, until |-> clock + life]]
  BY DEF Authorised
<1>6. token' \in [Clients -> [name : Tokens, until : Nat]] /\ token'[ClientOf[c]].name = issued + 1
  BY <1>1, <1>5, CallAssumption DEF CallInductive, CallTyped, Tokens
<1>7. \A k \in Clients : k # ClientOf[c] => token'[k] = token[k]
  BY <1>5 DEF CallInductive, CallTyped
<1>8. issued + 1 \notin call[c].refused /\ issued + 1 \in 1..issued + 1
      /\ call[c].refused \subseteq 1..issued + 1
  BY <1>1 DEF Clean
<1>9. Clean(sending, issued + 1, issued + 1, kind)
  BY <1>1, <1>8 DEF Tasks, Clean
<1>10. Renews
  BY <1>2, <1>6, <1>7 DEF Renews
<1> HIDE DEF sending
<1>11. Relocks(c, sending)
  BY <1>1, CallAssumption DEF Authorised, CallInductive, CallTyped, Relocks
<1>12. Sound(c, sending)
  BY <1>2, <1>3, <1>4, <1>6, <1>9 DEF Sound
<1>13. QED
  BY <1>2, <1>10, <1>11, <1>12, OneTask

\* A task that ends is sound, whatever it ends with.
LEMMA Ending ==
    ASSUME CallInductive, NEW c \in Calls, NEW ending \in Answers \cup {"open", "cancelled"}, End(c, ending),
           UNCHANGED <<kind, clock, issued>>, call[c].pc # "idle",
           Renews, \A t : Relocks(c, t)
    PROVE  CallInductive'
<1>1. /\ call[c] \in Tasks /\ ClientOf[c] \in Clients /\ issued \in Nat
      /\ Counted(call[c]) /\ Clean(call[c], token[ClientOf[c]].name, issued, kind)
  BY AtATask
<1> DEFINE ended == [call[c] EXCEPT !.pc = "done", !.outcome = ending]
<1>2. call' = [call EXCEPT ![c] = ended]
  BY DEF End, CallInductive, CallTyped
<1>3. Clean(call[c], token'[ClientOf[c]].name, issued, kind)
  BY <1>1, OtherTasks DEF Renews
<1>4. ended \in Tasks /\ Counted(ended) /\ Clean(ended, token'[ClientOf[c]].name, issued, kind)
  BY <1>1, <1>3 DEF Tasks, Counted, Clean, Before
<1> HIDE DEF ended
<1>5. Sound(c, ended)
  BY <1>4 DEF Sound
<1>6. QED
  BY <1>2, <1>5, OneTask

\* What only gives the lock back, if the task has it, relocks for no task.
LEMMA Releasing ==
    ASSUME CallInductive, NEW c \in Calls,
           \/ lock' = lock /\ call[c].pc # "authorising"
           \/ lock' = [lock EXCEPT ![ClientOf[c]] = Nil]
           \/ lock' = [lock EXCEPT ![ClientOf[c]] = IF @ = c THEN Nil ELSE @]
    PROVE  \A t : Relocks(c, t)
<1>1. /\ lock' \in [Clients -> Calls \cup {Nil}]
      /\ \A k \in Clients : lock'[k] \in {lock[k], Nil}
  BY DEF CallInductive, CallTyped
<1>2. lock'[ClientOf[c]] # c
  BY CallAssumption DEF CallInductive, CallTyped, LocksAreHeld
<1>3. QED
  BY <1>1, <1>2 DEF Relocks

\* A refused authorisation ends the task.
LEMMA UnauthorisedStep ==
    ASSUME CallInductive, NEW c \in Calls, Unauthorised(c)
    PROVE  CallInductive'
<1>1. PICK ending \in Answers \ {"ok"} : End(c, ending)
  BY DEF Unauthorised
<1>2. UNCHANGED <<kind, clock, issued>> /\ call[c].pc # "idle"
  BY DEF Unauthorised
<1>3. Renews /\ \A t : Relocks(c, t)
  BY LeftAlone, Releasing DEF Unauthorised
<1>4. QED
  BY <1>1, <1>2, <1>3, Ending

\* An answer ends the task.
LEMMA ServedStep ==
    ASSUME CallInductive, NEW c \in Calls, Served(c)
    PROVE  CallInductive'
<1>1. PICK answer \in Answers : End(c, answer)
  BY DEF Served, Possible
<1>2. UNCHANGED <<kind, clock, issued>> /\ call[c].pc # "idle"
  BY DEF Served
<1>3. Renews /\ \A t : Relocks(c, t)
  BY LeftAlone, Releasing DEF Served
<1>4. QED
  BY <1>1, <1>2, <1>3, Ending

\* A failure drops the refused token of the client and is followed by a pause, by
\* the second round or by the end of the task.
LEMMA FailedStep ==
    ASSUME CallInductive, NEW c \in Calls, Failed(c)
    PROVE  CallInductive'
<1>1. /\ call[c] \in Tasks /\ ClientOf[c] \in Clients /\ issued \in Nat /\ MaxAttempts \in Nat \ {0}
      /\ Counted(call[c]) /\ Clean(call[c], token[ClientOf[c]].name, issued, kind)
  BY AtATask
<1>2. UNCHANGED <<kind, clock, lock, issued>> /\ call[c].pc = "sent"
  BY DEF Failed
<1>3. PICK answer \in Answers :
        /\ token' = IF Forgets(c, answer) THEN [token EXCEPT ![ClientOf[c]] = NoToken] ELSE token
        /\ \/ MayRepeat(c, answer) /\ call' = [call EXCEPT ![c].pc = "pause"]
           \/ /\ MayRenew(c, answer)
              /\ call' = [call EXCEPT ![c].pc = "queue", ![c].round = 2, ![c].refused = @ \cup {call[c].token}]
           \/ End(c, answer)
  BY DEF Failed, Possible
<1>4. NoToken \in [name : Tokens, until : Nat] /\ NoToken.name = Nil
  BY DEF NoToken, Tokens
<1>5. /\ token' \in [Clients -> [name : Tokens, until : Nat]]
      /\ \A k \in Clients : token'[k].name \in {token[k].name, Nil}
  BY <1>3, <1>4 DEF CallInductive, CallTyped
<1>6. Renews
  BY <1>2, <1>5 DEF Renews
<1>7. \A t : Relocks(c, t)
  BY <1>2, Releasing
<1>8. Clean(call[c], token'[ClientOf[c]].name, issued, kind)
  BY <1>1, <1>5, OtherTasks
<1>9. CASE MayRepeat(c, answer) /\ call' = [call EXCEPT ![c].pc = "pause"]
  <2> DEFINE pausing == [call[c] EXCEPT !.pc = "pause"]
  <2>1. call' = [call EXCEPT ![c] = pausing]
    BY <1>9 DEF CallInductive, CallTyped
  <2>2. pausing \in Tasks /\ Counted(pausing) /\ Clean(pausing, token'[ClientOf[c]].name, issued, kind)
    BY <1>1, <1>2, <1>8, <1>9 DEF Tasks, Counted, Clean, Before, MayRepeat
  <2> HIDE DEF pausing
  <2>3. Sound(c, pausing)
    BY <1>2, <2>2 DEF Sound
  <2>4. QED
    BY <1>2, <1>6, <1>7, <2>1, <2>3, OneTask
<1>10. CASE /\ MayRenew(c, answer)
            /\ call' = [call EXCEPT ![c].pc = "queue", ![c].round = 2, ![c].refused = @ \cup {call[c].token}]
  <2> DEFINE again == [call[c] EXCEPT !.pc = "queue", !.round = 2, !.refused = call[c].refused \cup {call[c].token}]
  <2>1. call' = [call EXCEPT ![c] = again]
    BY <1>10 DEF CallInductive, CallTyped
  <2>2. call[c].round = 1 /\ kind # "header" /\ token'[ClientOf[c]].name = Nil
    <3>1. kind \in Kinds
      BY DEF CallInductive, CallTyped
    <3>2. Forgets(c, answer)
      BY <1>10, <3>1, CallAssumption DEF MayRenew, Forgets
    <3>3. QED
      BY <1>1, <1>3, <1>4, <1>10, <3>2 DEF MayRenew, CallInductive, CallTyped
  <2>3. call[c].token \in 1..issued /\ call[c].refused = {}
    BY <1>1, <1>2, <2>2 DEF Clean
  <2>4. again \in Tasks
    <3>1. call[c].refused \cup {call[c].token} \in SUBSET Nat
      BY <1>1, <2>3
    <3>2. QED
      BY <1>1, <3>1 DEF Tasks
  <2>5. Counted(again)
    BY <1>1, <1>2, <2>2 DEF Tasks, Counted, Before
  <2>6. Clean(again, token'[ClientOf[c]].name, issued, kind)
    BY <1>1, <2>2, <2>3, CallAssumption DEF Tasks, Clean
  <2> HIDE DEF again
  <2>7. Sound(c, again)
    BY <1>2, <2>4, <2>5, <2>6 DEF Sound
  <2>8. QED
    BY <1>2, <1>6, <1>7, <2>1, <2>7, OneTask
<1>11. CASE End(c, answer)
  BY <1>2, <1>6, <1>7, <1>11, Ending
<1>12. QED
  BY <1>3, <1>9, <1>10, <1>11

\* After the pause the request is sent again, with the token it had.
LEMMA RepeatStep ==
    ASSUME CallInductive, NEW c \in Calls, Repeat(c)
    PROVE  CallInductive'
<1>1. /\ call[c] \in Tasks /\ ClientOf[c] \in Clients /\ issued \in Nat /\ MaxAttempts \in Nat \ {0}
      /\ Counted(call[c]) /\ Clean(call[c], token[ClientOf[c]].name, issued, kind)
  BY AtATask
<1> DEFINE sending == [call[c] EXCEPT !.pc = "sent", !.attempt = @ + 1, !.sent = @ + 1]
<1>2. call' = [call EXCEPT ![c] = sending] /\ UNCHANGED <<kind, clock, token, lock, issued>>
      /\ call[c].pc = "pause"
  BY DEF Repeat, CallInductive, CallTyped
<1>3. call[c].attempt + 1 \in 1..MaxAttempts /\ call[c].sent + 1 \in Nat
  BY <1>1, <1>2 DEF Tasks, Counted
<1>4. sending \in Tasks
  BY <1>1, <1>3 DEF Tasks
<1>5. Counted(sending)
  BY <1>1, <1>2, <1>3 DEF Tasks, Counted, Before
<1>6. Clean(sending, token[ClientOf[c]].name, issued, kind)
  BY <1>1, <1>2 DEF Tasks, Clean
<1> HIDE DEF sending
<1>7. Renews /\ (\A t : Relocks(c, t)) /\ Sound(c, sending)
  BY <1>2, <1>4, <1>5, <1>6, LeftAlone, Releasing DEF Sound
<1>8. QED
  BY <1>2, <1>7, OneTask

\* A cancelled task gives its lock back.
LEMMA CancelledStep ==
    ASSUME CallInductive, NEW c \in Calls, Cancelled(c)
    PROVE  CallInductive'
<1>1. End(c, "cancelled") /\ UNCHANGED <<kind, clock, issued>> /\ call[c].pc # "idle"
  BY DEF Cancelled
<1>2. Renews /\ \A t : Relocks(c, t)
  BY LeftAlone, Releasing DEF Cancelled
<1>3. QED
  BY <1>1, <1>2, Ending

\* Every step keeps the invariant.
LEMMA CallStep == CallInductive /\ [CallNext]_callVars => CallInductive'
<1> SUFFICES ASSUME CallInductive, [CallNext]_callVars PROVE CallInductive'
  OBVIOUS
<1>1. ASSUME NEW c \in Calls,
             \/ Start(c) \/ TakeLock(c) \/ Authorised(c) \/ Unauthorised(c)
             \/ Served(c) \/ Failed(c) \/ Repeat(c) \/ Cancelled(c)
      PROVE  CallInductive'
  BY <1>1, StartStep, TakeLockStep, AuthorisedStep, UnauthorisedStep, ServedStep, FailedStep, RepeatStep,
     CancelledStep
<1>2. CASE CallTick
  BY <1>2 DEF CallTick, CallInductive, CallTyped, TasksAreSound, LocksAreHeld
<1>3. CASE Revoke \/ UNCHANGED callVars
  BY <1>3 DEF Revoke, callVars, CallInductive, CallTyped, TasksAreSound, LocksAreHeld
<1>4. QED
  BY <1>1, <1>2, <1>3 DEF CallNext

\* The first state is sound: nobody has sent or was refused anything.
LEMMA CallStart == CallInit => CallInductive
<1> SUFFICES ASSUME CallInit PROVE CallInductive
  OBVIOUS
<1>1. Fresh \in Tasks /\ NoToken \in [name : Tokens, until : Nat] /\ NoToken.name = Nil
  BY CallAssumption DEF Fresh, NoToken, Tasks, Tokens
<1>2. CallTyped
  BY <1>1 DEF CallInit, CallTyped
<1>3. ASSUME NEW c \in Calls PROVE Counted(call[c]) /\ Clean(call[c], token[ClientOf[c]].name, issued, kind)
  <2>1. call[c] = Fresh /\ token[ClientOf[c]].name = Nil /\ issued = 0
    BY <1>1, CallAssumption DEF CallInit
  <2>2. QED
    BY <2>1, CallAssumption DEF Fresh, Counted, Clean
<1>4. LocksAreHeld
  BY CallAssumption DEF CallInit, LocksAreHeld
<1>5. QED
  BY <1>2, <1>3, <1>4 DEF CallInductive, TasksAreSound

\* However the tasks of one client renew its token, repeat and are cancelled: a
\* call does not send a token that was refused to it, sends no more than two
\* ladders with an authorisation each, and leaves no lock behind
\* (CarrierHttpClient.request and the token and session of CDEK and Dellin).
THEOREM CallsRepeatWithinBounds == CallSpec => []RepeatsAreBounded
<1>1. CallInductive => RepeatsAreBounded
  BY DEF CallInductive, TasksAreSound, Counted, Clean, LocksAreHeld, RepeatsAreBounded
<1>2. QED
  BY <1>1, CallStart, CallStep, PTL DEF CallSpec

-----------------------------------------------------------------------------
(* The orders. The carrier only adds orders and never renumbers one, so what a *)
(* shipment keeps stays an order of its number.                                *)
Rows == [number : Numbers, at : Nat, waybill : BOOLEAN, processed : BOOLEAN, refused : BOOLEAN]
OrdersTyped ==
    /\ carrier \in Carriers /\ now \in Nat
    /\ order \in Seq(Rows)
    /\ kept = [n \in Numbers |-> kept[n]]
    /\ \A n \in Numbers : kept[n] = [id |-> kept[n].id, tracking |-> kept[n].tracking, pending |-> kept[n].pending,
                                     label |-> kept[n].label, events |-> kept[n].events]
    /\ asked \in [Numbers -> {"never", "tried", "absent", "found"}]
OrdersInductive == OrdersTyped /\ KeepsItsOwn

\* What a search finds, and what a new order will be, has the number that was
\* asked for.
LEMMA FoundIsOwn ==
    ASSUME OrdersInductive, NEW n \in Numbers, NEW i \in Found(n)
    PROVE  i \in Held(n)
<1>1. carrier \in {"cdek", "pochta", "dellin", "pecom"}
  BY OrdersAssumption DEF OrdersInductive, OrdersTyped
<1>2. QED
  BY <1>1 DEF Found, Held, CdekListed, PochtaListed, PochtaFound, DellinListed, PecomFound, PecomListed

\* Whatever the carrier, the identifier it names is the order's.
LEMMA ResultNamesTheOrder ==
    ASSUME carrier \in {"cdek", "pochta", "dellin", "pecom"}, NEW i, NEW named
    PROVE  Created(i, named).id = i /\ Read(i).id = i
BY DEF Created, Read, Result, CdekCreated, PochtaCreated, DellinCreated, PecomCreated, CdekRead, DellinRead

\* A step that does to what is kept nothing, or takes an order of the number for
\* it, or changes another column of it.
LEMMA OneKept ==
    ASSUME OrdersInductive, NEW n \in Numbers,
           \/ kept' = kept
           \/ \E result : kept' = Apply(n, result) /\ result.id \in Held(n)'
           \/ kept' = [kept EXCEPT ![n].events = 1]
           \/ \E answer : kept' = [kept EXCEPT ![n].label = answer],
           \A m \in Numbers : Held(m) \subseteq Held(m)'
    PROVE  /\ kept' = [m \in Numbers |-> kept'[m]]
           /\ \A m \in Numbers : kept'[m] =
                  [id |-> kept'[m].id, tracking |-> kept'[m].tracking, pending |-> kept'[m].pending,
                   label |-> kept'[m].label, events |-> kept'[m].events]
           /\ KeepsItsOwn'
<1> DEFINE Whole(r) == r = [id |-> r.id, tracking |-> r.tracking, pending |-> r.pending,
                           label |-> r.label, events |-> r.events]
<1>1. kept = [m \in Numbers |-> kept[m]] /\ \A m \in Numbers : Whole(kept[m])
  BY DEF OrdersInductive, OrdersTyped
<1>2. \A m \in Numbers : kept[m].id # None => kept[m].id \in Held(m)
  BY DEF OrdersInductive, KeepsItsOwn
<1>3. PICK r : /\ kept' = [kept EXCEPT ![n] = r]
               /\ Whole(r) /\ (r.id = kept[n].id \/ r.id \in Held(n)')
  <2>1. CASE kept' = kept
    <3>1. kept' = [kept EXCEPT ![n] = kept[n]]
      BY <1>1, <2>1
    <3>2. QED
      BY <1>1, <3>1
  <2>2. CASE \E result : kept' = Apply(n, result) /\ result.id \in Held(n)'
    <3>1. PICK result : kept' = Apply(n, result) /\ result.id \in Held(n)'
      BY <2>2
    <3> DEFINE r == [id |-> result.id, tracking |-> result.tracking, pending |-> result.pending,
                     label |-> kept[n].label, events |-> kept[n].events]
    <3>2. kept' = [kept EXCEPT ![n] = r]
      BY <1>1, <3>1 DEF Apply
    <3>3. Whole(r) /\ r.id \in Held(n)'
      BY <3>1
    <3> HIDE DEF r, Whole
    <3>4. QED
      BY <3>2, <3>3
  <2>3. CASE kept' = [kept EXCEPT ![n].events = 1]
    <3> DEFINE r == [id |-> kept[n].id, tracking |-> kept[n].tracking, pending |-> kept[n].pending,
                     label |-> kept[n].label, events |-> 1]
    <3>0. kept' = [kept EXCEPT ![n] = [kept[n] EXCEPT !.events = 1]] /\ [kept[n] EXCEPT !.events = 1] = r
      <4>1. kept' = [kept EXCEPT ![n] = [kept[n] EXCEPT !.events = 1]]
        BY <1>1, <2>3
      <4>2. [kept[n] EXCEPT !.events = 1] = r
        BY <1>1
      <4>3. QED
        BY <4>1, <4>2
    <3>1. kept' = [kept EXCEPT ![n] = r]
      BY <3>0
    <3>2. Whole(r) /\ r.id = kept[n].id
      OBVIOUS
    <3> HIDE DEF r, Whole
    <3>3. QED
      BY <3>1, <3>2
  <2>4. CASE \E answer : kept' = [kept EXCEPT ![n].label = answer]
    <3>1. PICK answer : kept' = [kept EXCEPT ![n].label = answer]
      BY <2>4
    <3> DEFINE r == [id |-> kept[n].id, tracking |-> kept[n].tracking, pending |-> kept[n].pending,
                     label |-> answer, events |-> kept[n].events]
    <3>2. kept' = [kept EXCEPT ![n] = r]
      BY <1>1, <3>1
    <3>3. Whole(r) /\ r.id = kept[n].id
      OBVIOUS
    <3> HIDE DEF r, Whole
    <3>4. QED
      BY <3>2, <3>3
  <2>5. QED
    BY <2>1, <2>2, <2>3, <2>4
<1> HIDE DEF Whole
<1>4. kept' = [m \in Numbers |-> IF m = n THEN r ELSE kept[m]]
  BY <1>1, <1>3
<1>5. \A m \in Numbers : Whole(kept'[m])
  BY <1>1, <1>3, <1>4
<1>6. \A m \in Numbers : kept'[m].id # None => kept'[m].id \in Held(m)'
  BY <1>2, <1>3, <1>4
<1>7. QED
  BY <1>4, <1>5, <1>6 DEF Whole, KeepsItsOwn

\* The carrier may change an order in its place, but not its number.
LEMMA OneOrder ==
    ASSUME OrdersInductive, NEW i \in Orders, NEW r \in Rows, r.number = order[i].number,
           order' = [order EXCEPT ![i] = r]
    PROVE  order' \in Seq(Rows) /\ \A m \in Numbers : Held(m)' = Held(m)
<1>1. order \in Seq(Rows)
  BY DEF OrdersInductive, OrdersTyped
<1>2. order' \in Seq(Rows) /\ DOMAIN order' = DOMAIN order
  BY <1>1 DEF Orders
<1>3. \A j \in Orders : order'[j].number = order[j].number
  BY <1>1 DEF Orders
<1>4. QED
  BY <1>2, <1>3 DEF Held, Orders

\* Every step keeps the invariant.
LEMMA OrdersStep == OrdersInductive /\ [Next]_vars => OrdersInductive'
<1> SUFFICES ASSUME OrdersInductive, [Next]_vars PROVE OrdersInductive'
  OBVIOUS
<1>1. /\ carrier \in {"cdek", "pochta", "dellin", "pecom"} /\ now \in Nat /\ order \in Seq(Rows)
      /\ asked \in [Numbers -> {"never", "tried", "absent", "found"}]
  BY OrdersAssumption DEF OrdersInductive, OrdersTyped
<1>2. ASSUME NEW n \in Numbers, NotBooked(n) PROVE OrdersInductive'
  BY <1>1, <1>2 DEF NotBooked, Attempt, OrdersInductive, OrdersTyped, KeepsItsOwn, Held, Orders
<1>9. ASSUME NEW n \in Numbers, Create(n) PROVE OrdersInductive'
  <2>1. PICK named \in BOOLEAN, heard \in BOOLEAN :
          /\ order' = Append(order, [number |-> n, at |-> now, waybill |-> named /\ carrier # "dellin",
                                     processed |-> carrier # "dellin", refused |-> FALSE])
          /\ kept' = IF heard THEN Apply(n, Created(Len(order) + 1, named)) ELSE kept
    BY <1>9 DEF Create
  <2> DEFINE row == [number |-> n, at |-> now, waybill |-> named /\ carrier # "dellin",
                     processed |-> carrier # "dellin", refused |-> FALSE]
  <2>2. row \in Rows /\ row.number = n
    BY <1>1 DEF Rows
  <2>3. order' = Append(order, row)
    BY <2>1
  <2> HIDE DEF row
  <2>4. order' \in Seq(Rows) /\ (\A m \in Numbers : Held(m) \subseteq Held(m)') /\ Len(order) + 1 \in Held(n)'
    BY <1>1, <2>2, <2>3 DEF Held, Orders
  <2>5. Created(Len(order) + 1, named).id = Len(order) + 1
    BY <1>1, ResultNamesTheOrder
  <2>6. kept' = kept \/ \E result : kept' = Apply(n, result) /\ result.id \in Held(n)'
    BY <2>1, <2>4, <2>5
  <2>7. asked' \in [Numbers -> {"never", "tried", "absent", "found"}] /\ UNCHANGED <<carrier, now>>
    BY <1>1, <1>9 DEF Create, Attempt
  <2>8. QED
    BY <2>4, <2>6, <2>7, OneKept DEF OrdersInductive, OrdersTyped
<1>3. ASSUME NEW n \in Numbers, Find(n) PROVE OrdersInductive'
  <2>1. /\ UNCHANGED <<carrier, now, order>>
        /\ asked' \in [Numbers -> {"never", "tried", "absent", "found"}]
    BY <1>1, <1>3 DEF Find
  <2>2. \A m \in Numbers : Held(m)' = Held(m)
    BY <2>1 DEF Held, Orders
  <2>3. kept' = kept \/ \E i \in Found(n) : kept' = Apply(n, Read(i))
    BY <1>3 DEF Find
  <2>4. kept' = kept \/ \E result : kept' = Apply(n, result) /\ result.id \in Held(n)'
    BY <1>1, <2>2, <2>3, FoundIsOwn, ResultNamesTheOrder
  <2>5. QED
    BY <2>1, <2>2, <2>4, OneKept DEF OrdersInductive, OrdersTyped
<1>4. ASSUME NEW n \in Numbers, Poll(n) \/ Label(n) PROVE OrdersInductive'
  <2>1. UNCHANGED <<carrier, now, order, asked>>
    BY <1>4 DEF Poll, Label
  <2>2. \A m \in Numbers : Held(m)' = Held(m)
    BY <2>1 DEF Held, Orders
  <2>3. kept' = [kept EXCEPT ![n].events = 1] \/ \E answer : kept' = [kept EXCEPT ![n].label = answer]
    BY <1>4 DEF Poll, Label
  <2>4. QED
    BY <2>1, <2>2, <2>3, OneKept DEF OrdersInductive, OrdersTyped
<1>5. ASSUME NEW n \in Numbers, Cancel(n) PROVE OrdersInductive'
  <2>1. kept[n].id \in Orders
    BY <1>5 DEF Cancel, OrdersInductive, KeepsItsOwn, Held
  <2> DEFINE r == [order[kept[n].id] EXCEPT !.refused = TRUE]
  <2>2. r \in Rows /\ r.number = order[kept[n].id].number /\ order' = [order EXCEPT ![kept[n].id] = r]
    <3>1. order[kept[n].id] \in Rows
      BY <1>1, <2>1 DEF Orders
    <3>2. r \in Rows /\ r.number = order[kept[n].id].number
      BY <3>1 DEF Rows
    <3>3. order' = [order EXCEPT ![kept[n].id] = r]
      BY <1>1, <1>5, <2>1 DEF Cancel, Orders
    <3>4. QED
      BY <3>2, <3>3
  <2> HIDE DEF r
  <2>3. order' \in Seq(Rows) /\ \A m \in Numbers : Held(m)' = Held(m)
    BY <2>1, <2>2, OneOrder
  <2>4. QED
    BY <1>5, <2>3 DEF Cancel, OrdersInductive, OrdersTyped, KeepsItsOwn
<1>6. ASSUME NEW i \in Orders, Process(i) \/ Assign(i) PROVE OrdersInductive'
  <2>1. PICK r \in Rows : r.number = order[i].number /\ order' = [order EXCEPT ![i] = r]
    <3>1. order[i] \in Rows
      BY <1>1 DEF Orders
    <3>2. CASE Process(i)
      <4>1. [order[i] EXCEPT !.processed = TRUE] \in Rows
        BY <3>1 DEF Rows
      <4>2. QED
        BY <3>1, <3>2, <4>1 DEF Process, Rows
    <3>3. CASE Assign(i)
      <4>1. [order[i] EXCEPT !.waybill = TRUE] \in Rows
        BY <3>1 DEF Rows
      <4>2. QED
        BY <3>1, <3>3, <4>1 DEF Assign, Rows
    <3>4. QED
      BY <1>6, <3>2, <3>3
  <2>2. order' \in Seq(Rows) /\ \A m \in Numbers : Held(m)' = Held(m)
    BY <2>1, OneOrder
  <2>3. QED
    BY <1>6, <2>2 DEF Process, Assign, OrdersInductive, OrdersTyped, KeepsItsOwn
<1>7. CASE Tick \/ UNCHANGED vars
  BY <1>1, <1>7 DEF Tick, vars, OrdersInductive, OrdersTyped, KeepsItsOwn, Held, Orders
<1>8. QED
  BY <1>2, <1>9, <1>3, <1>4, <1>5, <1>6, <1>7 DEF Next

\* The first state: no order is booked and nothing is kept.
LEMMA OrdersStart == Init => OrdersInductive
<1> SUFFICES ASSUME Init PROVE OrdersInductive
  OBVIOUS
<1>1. order \in Seq(Rows)
  BY DEF Init
<1>2. \A n \in Numbers : kept[n] = Nothing
  BY DEF Init
<1>3. QED
  BY <1>1, <1>2 DEF Init, OrdersInductive, OrdersTyped, KeepsItsOwn, Nothing

\* A shipment keeps an order of its own number, whatever the search of the carrier
\* shows, however often a creation is lost and repeated (the find_by_number of the
\* adapters and ShipmentService._apply).
THEOREM ShipmentsKeepTheirOwnOrder == Spec => []KeepsItsOwn
<1>1. OrdersInductive => KeepsItsOwn
  BY DEF OrdersInductive
<1>2. QED
  BY <1>1, OrdersStart, OrdersStep, PTL DEF Spec

-----------------------------------------------------------------------------
\* The days of a later moment are as many or more, and more than w days later is
\* more than w days later.
LEMMA DaysPass ==
    ASSUME NEW a \in Int, NEW b \in Int, NEW w \in Int, NEW d \in Nat \ {0}, a <= b + w * d
    PROVE  a \div d <= b \div d + w
<1>1. \A x \in Int : x \div d \in Int /\ d * (x \div d) <= x /\ x < d * (x \div d) + d
  <2>1. ASSUME NEW x \in Int PROVE x \div d \in Int /\ x % d \in 0..(d - 1) /\ x = d * (x \div d) + (x % d)
    OBVIOUS
  <2>2. \A x \in Int : d * x \in Int
    OBVIOUS
  <2>3. QED
    BY <2>1, <2>2
<1> DEFINE more == a \div d - (b \div d + w)
<1>2. more \in Int /\ d * more = d * (a \div d) - d * (b \div d) - w * d
  BY <1>1
<1>3. d * more < d
  BY <1>1, <1>2
<1>4. ~(more >= 1)
  <2> HIDE DEF more
  <2>1. more >= 1 => d * more >= d
    BY <1>2
  <2>2. QED
    BY <1>2, <1>3, <2>1
<1>5. QED
  BY <1>1, <1>4

\* An order of ours that is settled is among what the search of its carrier finds.
LEMMA SettledIsFound ==
    ASSUME OrdersInductive, NEW n \in Numbers, NEW i \in Held(n), Settled(i)
    PROVE  i \in Found(n)
<1>1. /\ carrier \in {"cdek", "pochta", "dellin", "pecom"} /\ now \in Nat
      /\ i \in Orders /\ order[i] \in Rows /\ order[i].number = n
  BY OrdersAssumption DEF OrdersInductive, OrdersTyped, Held, Orders
<1>2. carrier = "cdek" => i \in Found(n)
  BY <1>1 DEF Found, CdekListed
<1>3. carrier = "pochta" => i \in Found(n)
  BY <1>1, OrdersAssumption DEF Found, PochtaFound, PochtaListed
<1>4. carrier = "dellin" => i \in Found(n)
  BY <1>1 DEF Found, DellinListed, Settled
<1>5. CASE carrier = "pecom"
  <2>1. order[i].at \in Nat /\ Offset \in Nat /\ Window \in Nat /\ Day \in Nat \ {0}
    BY <1>1, OrdersAssumption DEF Rows
  <2>2. PICK there \in Int, zero \in Int, t \in Int : there = order[i].at + Offset /\ zero = 0 /\ t = now
    BY <1>1, <2>1
  <2>3. there <= t + zero * Day /\ t <= there + Window * Day
    <3>1. PICK w \in Int : w = Window * Day
      BY <2>1
    <3>2. now >= order[i].at + Offset /\ now <= order[i].at + w
      BY <1>5, <3>1 DEF Settled
    <3>3. there <= t /\ t <= there + w
      BY <1>1, <2>1, <2>2, <3>2
    <3>4. zero * Day = 0
      BY <2>1, <2>2
    <3>5. QED
      BY <2>2, <3>1, <3>3, <3>4
  <2>4. there \div Day <= t \div Day + zero /\ t \div Day <= there \div Day + Window
    BY <2>1, <2>3, DaysPass
  <2>5. CarrierDate(order[i].at) \in PecomWindow
    BY <1>1, <2>1, <2>2, <2>4 DEF CarrierDate, PecomWindow, UtcDate
  <2>6. QED
    BY <1>1, <1>5, <2>5 DEF Found, PecomFound, PecomListed
<1>6. QED
  BY <1>1, <1>2, <1>3, <1>4, <1>5

\* A search says "not found" only if the carrier holds no order of the number; an
\* order of Dellin counts from its processing, one of Pecom past the offset of its
\* time zone and until the window of the search closes (find_by_number of the four
\* adapters): for every length of the day, of the window and of the offset.
THEOREM SearchesAreReliable == Spec => SearchIsReliable
<1>1. OrdersInductive /\ [Next]_vars => [ReliableSearch]_vars
  <2> SUFFICES ASSUME OrdersInductive, Next, NEW n \in Numbers, asked'[n] = "absent", asked[n] # "absent",
                      NEW i \in Held(n), Settled(i)
               PROVE  FALSE
    BY DEF ReliableSearch
  <2>1. Find(n) /\ asked' = [asked EXCEPT ![n] = "absent"] /\ Found(n) = {}
    <3>1. asked \in [Numbers -> {"never", "tried", "absent", "found"}]
      BY DEF OrdersInductive, OrdersTyped
    <3>2. \A m \in Numbers : ~NotBooked(m) /\ ~Create(m) /\ ~Poll(m) /\ ~Label(m) /\ ~Cancel(m)
      BY <3>1 DEF Attempt, NotBooked, Create, Poll, Label, Cancel
    <3>3. \A j \in Orders : ~Process(j) /\ ~Assign(j)
      BY DEF Process, Assign
    <3>4. PICK m \in Numbers : Find(m)
      BY <3>2, <3>3 DEF Next, Tick
    <3>5. QED
      BY <3>1, <3>4 DEF Find
  <2>2. QED
    BY <2>1, SettledIsFound
<1>2. QED
  BY <1>1, OrdersStart, OrdersStep, PTL DEF Spec, SearchIsReliable

-----------------------------------------------------------------------------
(* Quotes. What is asked for is a sequence, so the answers can be counted.   *)

\* A set of natural numbers that is not empty has a least one.
LEMMA LeastNumber ==
    ASSUME NEW T \in SUBSET Nat, T # {}
    PROVE  \E m \in T : \A n \in T : m <= n
<1>1. \E m \in T : \A n \in T : ~(<<n, m>> \in OpToRel(<, Nat))
  <2>1. IsWellFoundedOn(OpToRel(<, Nat), Nat)
    BY NatLessThanWellFounded
  <2> HIDE DEF OpToRel
  <2> QED BY <2>1, WFMin
<1>2. PICK m \in T : \A n \in T : ~(n < m)
  BY <1>1 DEF OpToRel
<1> QED BY <1>2

\* The products taken so far, of the names at some places of a wish.
TakenFrom(g, D, wish, known, twice) ==
    g = [S \in SUBSET D |->
            IF S = {} THEN <<>> ELSE Took(g[S \ {Max(S)}], wish[Max(S)], known, twice)]

LEMMA KnownByNames ==
    ASSUME NEW wish, NEW known, NEW twice
    PROVE  KnownOf(wish, known, twice) =
              (CHOOSE g : TakenFrom(g, DOMAIN wish, wish, known, twice))[DOMAIN wish]
BY DEF KnownOf, FoldLeft, MapThenFoldSet, TakenFrom

\* Products can be taken one after the other.
LEMMA TakingExists ==
    ASSUME NEW wish, NEW known, NEW twice, NEW n \in Nat
    PROVE  \E g : TakenFrom(g, 1..n, wish, known, twice)
<1> DEFINE Takeable(k) == \E g : TakenFrom(g, 1..k, wish, known, twice)
           Bad == {k \in Nat : ~Takeable(k)}
<1>1. Takeable(0)
  <2> DEFINE g == [S \in SUBSET (1..0) |-> <<>>]
  <2>1. SUBSET (1..0) = {{}}
    OBVIOUS
  <2>2. TakenFrom(g, 1..0, wish, known, twice)
    BY <2>1 DEF TakenFrom
  <2>3. QED
    BY <2>2
<1>2. ASSUME NEW k \in Nat, Takeable(k) PROVE Takeable(k + 1)
  <2>1. PICK g : TakenFrom(g, 1..k, wish, known, twice)
    BY <1>2
  <2> DEFINE Step(acc, x) == Took(acc, x, known, twice)
             h == [S \in SUBSET (1..(k + 1)) |->
                      IF k + 1 \in S THEN Step(g[S \ {k + 1}], wish[k + 1]) ELSE g[S]]
  <2> HIDE DEF Step
  <2>2. \A S \in SUBSET (1..k) : /\ S \in SUBSET (1..(k + 1)) /\ k + 1 \notin S /\ h[S] = g[S]
    OBVIOUS
  <2>3. ASSUME NEW S \in SUBSET (1..(k + 1))
        PROVE  h[S] = IF S = {} THEN <<>> ELSE Step(h[S \ {Max(S)}], wish[Max(S)])
    <3>1. CASE k + 1 \in S
      <4>1. Max(S) = k + 1
        <5>1. \A x \in S : k + 1 >= x
          OBVIOUS
        <5>2. \A x \in S : (\A y \in S : x >= y) => x = k + 1
          BY <3>1, <5>1
        <5>3. QED
          BY <3>1, <5>1, <5>2 DEF Max
      <4>2. S \ {k + 1} \in SUBSET (1..k)
        OBVIOUS
      <4>3. h[S \ {k + 1}] = g[S \ {k + 1}] /\ h[S] = Step(g[S \ {k + 1}], wish[k + 1])
        BY <2>2, <3>1, <4>2
      <4> HIDE DEF h
      <4>4. QED
        BY <3>1, <4>1, <4>3
    <3>2. CASE k + 1 \notin S
      <4>1. S \subseteq 1..k /\ S \ {Max(S)} \subseteq 1..k
        <5>1. S \subseteq 1..k
          BY <3>2
        <5>2. QED
          BY <5>1
      <4>2. g[S] = IF S = {} THEN <<>> ELSE Step(g[S \ {Max(S)}], wish[Max(S)])
        BY <2>1, <4>1 DEF TakenFrom, Step
      <4>3. h[S] = g[S] /\ h[S \ {Max(S)}] = g[S \ {Max(S)}]
        BY <2>2, <4>1
      <4> HIDE DEF h
      <4>4. QED
        BY <4>2, <4>3
    <3>3. QED
      BY <3>1, <3>2
  <2>4. TakenFrom(h, 1..(k + 1), wish, known, twice)
    <3>1. h = [S \in SUBSET (1..(k + 1)) |-> h[S]]
      OBVIOUS
    <3> HIDE DEF h
    <3>2. QED
      BY <2>3, <3>1 DEF TakenFrom, Step
  <2>5. QED
    BY <2>4
<1> HIDE DEF Takeable
<1>3. Bad = {}
  <2> SUFFICES ASSUME Bad # {} PROVE FALSE
    OBVIOUS
  <2>1. Bad \in SUBSET Nat
    OBVIOUS
  <2> HIDE DEF Bad
  <2>2. PICK k \in Bad : \A j \in Bad : k <= j
    BY <2>1, LeastNumber
  <2> USE DEF Bad
  <2>3. k \in Nat /\ k # 0 /\ ~Takeable(k)
    BY <1>1, <2>2
  <2>4. k - 1 \in Nat /\ k - 1 \notin Bad /\ (k - 1) + 1 = k
    BY <2>2, <2>3
  <2>5. QED
    BY <1>2, <2>3, <2>4
<1>4. QED
  BY <1>3 DEF Takeable

\* What is known of a wish is a sequence of products, however long the wish is.
LEMMA KnownIsSequence ==
    ASSUME NEW W, NEW wish \in Seq(W), NEW known, NEW twice
    PROVE  KnownOf(wish, known, twice) \in Seq(known)
<1> PICK n \in Nat : n = Len(wish)
  OBVIOUS
<1>1. DOMAIN wish = 1..n
  OBVIOUS
<1> DEFINE g == CHOOSE g : TakenFrom(g, 1..n, wish, known, twice)
<1>2. TakenFrom(g, 1..n, wish, known, twice)
  BY TakingExists
<1>3. KnownOf(wish, known, twice) = g[1..n]
  BY <1>1, KnownByNames
<1> HIDE DEF g
<1> DEFINE Bad == {k \in 0..n : g[1..k] \notin Seq(known)}
<1>4. g[1..0] = <<>>
  <2>1. g[{}] = <<>> /\ 1..0 = {}
    BY <1>2 DEF TakenFrom
  <2>2. QED
    BY <2>1
<1>5. ASSUME NEW k \in 1..n, g[1..(k - 1)] \in Seq(known) PROVE g[1..k] \in Seq(known)
  <2>1. 1..k \in SUBSET (1..n) /\ 1..k # {} /\ (1..k) \ {k} = 1..(k - 1)
    <3>1. 1..k \subseteq 1..n /\ k \in 1..k
      OBVIOUS
    <3>2. \A x : x \in (1..k) \ {k} <=> x \in 1..(k - 1)
      OBVIOUS
    <3>3. QED
      BY <3>1, <3>2
  <2>2. Max(1..k) = k
    <3>1. \A x \in 1..k : (\A y \in 1..k : x >= y) <=> x = k
      OBVIOUS
    <3>2. QED
      BY <3>1 DEF Max
  <2>3. g[1..k] = Took(g[1..(k - 1)], wish[k], known, twice)
    BY <1>2, <2>1, <2>2 DEF TakenFrom
  <2> PICK old \in Seq(known) : old = g[1..(k - 1)]
    BY <1>5
  <2>4. g[1..k] \in {old, Append(old, wish[k])} /\ (g[1..k] # old => wish[k] \in known)
    BY <2>3 DEF Took
  <2>5. wish[k] \in known => Append(old, wish[k]) \in Seq(known)
    OBVIOUS
  <2>6. QED
    BY <2>4, <2>5
<1>6. Bad = {}
  <2> SUFFICES ASSUME Bad # {} PROVE FALSE
    OBVIOUS
  <2>1. Bad \in SUBSET Nat
    OBVIOUS
  <2> HIDE DEF Bad
  <2>2. PICK k \in Bad : \A j \in Bad : k <= j
    BY <2>1, LeastNumber
  <2> USE DEF Bad
  <2>3. k \in 0..n /\ g[1..k] \notin Seq(known)
    BY <2>2
  <2>4. k # 0
    <3>1. <<>> \in Seq(known)
      OBVIOUS
    <3>2. QED
      BY <1>4, <2>3, <3>1
  <2>5. k \in 1..n /\ k - 1 \in 0..n /\ k - 1 \notin Bad
    BY <2>2, <2>3, <2>4
  <2>6. QED
    BY <1>5, <2>3, <2>5
<1>7. QED
  BY <1>3, <1>6

\* An adapter asks for a sequence of products.
LEMMA ProductsAreListed ==
    ASSUME NEW c \in Adapters, NEW r \in Wishes
    PROVE  \E n \in Nat : DOMAIN ProductsOf(c, r) = 1..n
<1>1. r.wish \in Seq(ToSet(r.wish)) /\ Defaults[c] \in Seq(Known[c])
  BY QuotesAssumption
<1>2. \A twice : OrDefaults(KnownOf(r.wish, Known[c], twice), Defaults[c]) \in Seq(Known[c])
  BY <1>1, KnownIsSequence DEF OrDefaults
<1>3. \/ \E twice : ProductsOf(c, r) = OrDefaults(KnownOf(r.wish, Known[c], twice), Defaults[c])
      \/ ProductsOf(c, r) = CdekRows
  BY QuotesAssumption DEF ProductsOf, ProductsFor, DeliveryTypesFor, TariffTypesFor
<1>4. DOMAIN CdekRows = 1..6
  BY DEF CdekRows
<1>5. \A s \in Seq(Known[c]) : Len(s) \in Nat /\ DOMAIN s = 1..Len(s)
  OBVIOUS
<1>6. QED
  BY <1>2, <1>3, <1>4, <1>5

(* What holds of a quote on its way. The products answered so far are those   *)
(* before a place, what is offered are the priced ones of them, each with its *)
(* price, and nothing is offered of a carrier that is asked for all at once.  *)

QuotesTyped ==
    /\ quoting \in Adapters
    /\ reply \in Seq(RepliesOf(quoting))
    /\ answered \in 0..Len(reply)

OneByOne == quoting \in {"pochta", "dellin"}
OffersSoFar ==
    outcome = "none" =>
        /\ \A i \in 1..Len(reply) : <<i, Price(i)>> \in offers <=> /\ i <= answered
                                                                 /\ reply[i].kind = "price"
        /\ \A o \in offers : \E i \in 1..Len(reply) : o = <<i, Price(i)>>
        /\ ~OneByOne => answered = 0
RefusalsSoFar ==
    outcome = "none" =>
        /\ refusal = TRUE => quoting = "pochta"
        /\ refusal # TRUE => \A i \in 1..answered : reply[i].kind # "refused"

QuotesInductive ==
    /\ QuotesTyped /\ OffersSoFar /\ RefusalsSoFar
    /\ AnswerIsWhole /\ CompleteAccountIsAsked

-----------------------------------------------------------------------------
\* A carrier's reply is of a kind, and what is taken from it has a total.
LEMMA RepliesOfCarriers ==
    ASSUME NEW c \in Adapters, NEW x \in RepliesOf(c)
    PROVE  /\ c = "pochta" => /\ x.kind \in {"price", "hollow", "refused", "fault"}
                              /\ x.kind = "price" => x.total \in Totals
           /\ c = "dellin" => x.kind \in {"price", "hollow", "refused", "contract", "fault"}
           /\ c = "pecom" => x.kind \in {"price", "hollow", "refused"}
           /\ c \in {"cdek", "major"} => x.kind \in {"price", "hollow"}
<1>1. CASE c = "pochta"
  <2>1. x \in PochtaReplies
    BY <1>1 DEF RepliesOf
  <2>2. QED
    BY <1>1, <2>1 DEF PochtaReplies, Of
<1>2. CASE c = "dellin"
  BY <1>2 DEF RepliesOf, DellinReplies, Of
<1>3. CASE c = "pecom"
  BY <1>3 DEF RepliesOf, RowReplies, Of
<1>4. CASE c \in {"cdek", "major"}
  BY <1>4 DEF RepliesOf, RowReplies, Of
<1>5. QED
  BY <1>1, <1>2, <1>3, <1>4, QuotesAssumption

\* The tax is in the price, and once if the answer explains itself.
LEMMA PricesAreTaxed ==
    ASSUME NEW t \in Totals
    PROVE  TaxedOnce(TotalPrice(t), t)
<1>1. t.rate \in Nat /\ t.vat \in Nat /\ t.parts \in Nat /\ t.partsVat \in Nat /\ t.due \in Nat
  BY QuotesAssumption
<1>2. CASE t.parts > 0
  <2>1. t.due = t.parts + t.partsVat /\ t.vat = t.partsVat /\ t.rate \in {t.parts, t.due}
    BY <1>2, QuotesAssumption
  <2>2. TotalPrice(t) = t.due
    BY <1>1, <1>2, <2>1 DEF TotalPrice, VatReading, VatTooBig, VatPercent
  <2>3. QED
    BY <1>2, <2>2 DEF TaxedOnce
<1>3. CASE t.parts = 0
  <2>1. t.due \in {t.rate, t.rate + t.vat}
    BY <1>3, QuotesAssumption
  <2>2. TotalPrice(t) = t.rate + t.vat
    BY <1>1, <1>3 DEF TotalPrice, VatReading
  <2>3. QED
    BY <1>1, <1>3, <2>1, <2>2 DEF TaxedOnce
<1>4. QED
  BY <1>1, <1>2, <1>3

\* An offer of Pochta holds its tax.
LEMMA OffersAreTaxed ==
    ASSUME QuotesTyped, quoting = "pochta", NEW i \in 1..Len(reply), reply[i].kind = "price"
    PROVE  TaxedOnce(Price(i), reply[i].total)
<1>1. reply[i] \in RepliesOf(quoting)
  BY DEF QuotesTyped
<1>2. reply[i].total \in Totals
  BY <1>1, RepliesOfCarriers DEF QuotesTyped
<1>3. QED
  BY <1>2, PricesAreTaxed DEF Price

-----------------------------------------------------------------------------
LEMMA QuotesStart == QuotesInit => QuotesInductive
<1> SUFFICES ASSUME QuotesInit PROVE QuotesInductive
  OBVIOUS
<1>1. QuotesTyped
  <2>1. PICK n \in Nat : DOMAIN ProductsOf(quoting, request) = 1..n
    BY ProductsAreListed DEF QuotesInit
  <2>2. reply \in [1..n -> RepliesOf(quoting)]
    BY <2>1 DEF QuotesInit
  <2>3. QED
    BY <2>2 DEF QuotesInit, QuotesTyped
<1>2. OffersSoFar /\ RefusalsSoFar
  BY <1>1 DEF QuotesInit, OffersSoFar, RefusalsSoFar, QuotesTyped
<1>3. AnswerIsWhole /\ CompleteAccountIsAsked
  BY DEF QuotesInit, AnswerIsWhole, CompleteAccountIsAsked
<1>4. QED
  BY <1>1, <1>2, <1>3 DEF QuotesInductive

\* A quote that ends with an error that is none of the carrier's leaves its state.
LEMMA EndsWithAnError ==
    ASSUME QuotesInductive, NEW error, EndQuote(error), error \notin {"none", "offers", "refused", "contract"},
           error # "validation" \/ CompleteAccountIsAsked'
    PROVE  QuotesInductive'
<1>1. QuotesTyped' /\ outcome' = error
  BY DEF QuotesInductive, QuotesTyped, EndQuote
<1>2. OffersSoFar' /\ RefusalsSoFar' /\ AnswerIsWhole'
  BY <1>1 DEF OffersSoFar, RefusalsSoFar, AnswerIsWhole
<1>3. CompleteAccountIsAsked'
  BY <1>1 DEF CompleteAccountIsAsked
<1>4. QED
  BY <1>1, <1>2, <1>3 DEF QuotesInductive

\* What the adapters insist on is what the check of the fields asks for.
LEMMA CompleteAccountsMayCall ==
    ASSUME quoting \in Adapters, quoting # "major", ~MayCall(quoting, profile),
           MissingFields(quoting, profile.has) = {}
    PROVE  \/ quoting = "pochta" /\ profile.url # "valid" /\ ~(profile.url = "none" /\ profile.sandbox)
           \/ quoting = "dellin" /\ profile.own
<1>1. Required[quoting] \subseteq profile.has
  BY DEF MissingFields
<1>2. CASE quoting = "cdek"
  BY <1>1, <1>2 DEF MayCall, CdekClient, Required
<1>3. CASE quoting = "pecom"
  BY <1>1, <1>3 DEF MayCall, PecomClient, Required
<1>4. CASE quoting = "dellin"
  <2>1. DellinClient(profile)
    BY <1>1, <1>4 DEF DellinClient, Required
  <2>2. ~DellinSessionForContract(profile)
    BY <1>4, <2>1 DEF MayCall
  <2>3. QED
    BY <1>4, <2>2 DEF DellinSessionForContract
<1>5. CASE quoting = "pochta"
  <2>1. "token" \in profile.has
    BY <1>1, <1>5 DEF Required
  <2>2. AnyOf[quoting] = <<{"user_key"}, {"login", "password"}>>
    BY <1>5 DEF AnyOf
  <2>3. \E i \in {1, 2} : AnyOf[quoting][i] \subseteq profile.has
    <3>1. DOMAIN AnyOf[quoting] = 1..2 /\ AnyOf[quoting] # <<>> /\ AnyOf[quoting][1] # {}
      BY <2>2
    <3>2. \E i \in DOMAIN AnyOf[quoting] : AnyOf[quoting][i] \subseteq profile.has
      BY <3>1 DEF MissingFields
    <3>3. QED
      BY <3>1, <3>2
  <2>4. PochtaUserKey(profile)
    BY <2>2, <2>3 DEF PochtaUserKey
  <2>5. ~PochtaClient(profile)
    BY <1>5 DEF MayCall
  <2>6. QED
    BY <1>5, <2>1, <2>4, <2>5 DEF PochtaClient, PochtaBaseUrl
<1>6. QED
  BY <1>2, <1>3, <1>4, <1>5, QuotesAssumption

\* Nothing is asked of a carrier whose account its adapter refuses.
LEMMA RefuseStep ==
    ASSUME QuotesInductive, Refuse
    PROVE  QuotesInductive'
<1>1. EndQuote("validation")
  BY DEF Refuse
<1>2. CompleteAccountIsAsked'
  <2> SUFFICES ASSUME MissingFields(quoting, profile.has) = {}
               PROVE  \/ quoting = "pochta" /\ profile.url # "valid" /\ ~(profile.url = "none" /\ profile.sandbox)
                      \/ quoting = "dellin" /\ profile.own
    BY <1>1 DEF CompleteAccountIsAsked, EndQuote
  <2> QED
    BY CompleteAccountsMayCall DEF Refuse, QuotesInductive, QuotesTyped
<1>3. QED
  BY <1>1, <1>2, EndsWithAnError

\* CDEK and Pecom answer for all products at once.
LEMMA AskedOnceStep ==
    ASSUME QuotesInductive, outcome = "none", quoting \in {"cdek", "pecom"},
           offers' = {<<i, Price(i)>> : i \in Priced},
           answered' = Len(reply), outcome' = "offers", UNCHANGED <<quoting, profile, request, reply, refusal>>
    PROVE  QuotesInductive'
<1>1. QuotesTyped'
  BY DEF QuotesInductive, QuotesTyped
<1>2. OffersSoFar' /\ RefusalsSoFar' /\ CompleteAccountIsAsked'
  BY DEF OffersSoFar, RefusalsSoFar, CompleteAccountIsAsked
<1>3. AnswerIsWhole'
  <2>1. Priced' = Priced /\ Asked' = Asked
    BY DEF Priced, Asked
  <2>2. {o[1] : o \in offers'} = Priced
    <3>1. \A o \in offers' : \E i \in Priced : o = <<i, Price(i)>> /\ o[1] = i
      OBVIOUS
    <3>2. \A i \in Priced : <<i, Price(i)>> \in offers' /\ <<i, Price(i)>>[1] = i
      OBVIOUS
    <3>3. QED
      BY <3>1, <3>2
  <2>3. quoting = "cdek" => \A i \in Asked : reply[i].kind # "refused"
    <3>1. \A i \in Asked : reply[i] \in RepliesOf(quoting)
      BY DEF QuotesInductive, QuotesTyped, Asked
    <3>2. QED
      BY <3>1, RepliesOfCarriers DEF QuotesInductive, QuotesTyped
  <2>4. QED
    BY <2>1, <2>2, <2>3 DEF AnswerIsWhole
<1>4. QED
  BY <1>1, <1>2, <1>3 DEF QuotesInductive

\* Pochta and Dellin answer for one product more, and do not refuse the request.
LEMMA NextProductStep ==
    ASSUME QuotesInductive, outcome = "none", OneByOne, answered < Len(reply), NEW priced, NextProduct(priced),
           priced = TRUE => quoting = "pochta",
           priced # TRUE => refusal # TRUE /\ reply[answered + 1].kind # "refused"
    PROVE  QuotesInductive'
<1> PICK k \in Nat : k = answered
  BY DEF QuotesInductive, QuotesTyped
<1> PICK n \in Nat : n = Len(reply)
  BY DEF QuotesInductive, QuotesTyped
<1>1. QuotesTyped' /\ k + 1 \in 1..n
  BY DEF QuotesInductive, QuotesTyped, NextProduct
<1>2. OffersSoFar'
  <2>1. \A i \in 1..n : Price(i)' = Price(i)
    BY DEF NextProduct, Price
  <2>2. \A i \in 1..n : <<i, Price(i)>> \in offers' <=> i <= k + 1 /\ reply[i].kind = "price"
    <3> TAKE i \in 1..n
    <3>1. <<i, Price(i)>> \in offers <=> i <= k /\ reply[i].kind = "price"
      BY DEF QuotesInductive, OffersSoFar
    <3>2. <<i, Price(i)>> = <<k + 1, Price(k + 1)>> <=> i = k + 1
      OBVIOUS
    <3>3. QED
      BY <3>1, <3>2 DEF NextProduct
  <2>3. \A o \in offers' : \E i \in 1..n : o = <<i, Price(i)>>
    BY <1>1 DEF NextProduct, QuotesInductive, OffersSoFar
  <2>4. QED
    BY <2>1, <2>2, <2>3 DEF OffersSoFar, NextProduct, OneByOne
<1>3. RefusalsSoFar'
  <2>1. \A i \in 1..(k + 1) : i \in 1..k \/ i = k + 1
    OBVIOUS
  <2>2. QED
    BY <2>1 DEF NextProduct, QuotesInductive, RefusalsSoFar
<1>4. AnswerIsWhole' /\ CompleteAccountIsAsked'
  BY DEF AnswerIsWhole, CompleteAccountIsAsked, NextProduct
<1>5. QED
  BY <1>1, <1>2, <1>3, <1>4 DEF QuotesInductive

\* Pochta answers for a product, or refuses the request.
LEMMA AskPochtaStep ==
    ASSUME QuotesInductive, AskPochta
    PROVE  QuotesInductive'
<1>1. outcome = "none" /\ quoting = "pochta" /\ answered < Len(reply)
  BY DEF AskPochta, Running
<1>2. CASE ~TariffPayload(request)
  <2>1. EndQuote("validation")
    BY <1>2 DEF AskPochta
  <2>2. CompleteAccountIsAsked'
    BY <1>1, <1>2, <2>1 DEF CompleteAccountIsAsked, EndQuote, TariffPayload, RequireSinglePlace
  <2>3. QED
    BY <2>1, <2>2, EndsWithAnError
<1>3. CASE TariffPayload(request) /\ PochtaFatal(reply[answered + 1].kind)
  <2>1. EndQuote("fault")
    BY <1>3 DEF AskPochta, PochtaFatal
  <2>2. QED
    BY <2>1, EndsWithAnError
<1>4. CASE TariffPayload(request) /\ ~PochtaFatal(reply[answered + 1].kind)
  <2>1. NextProduct(refusal \/ reply[answered + 1].kind = "refused")
    BY <1>4 DEF AskPochta
  <2>2. QED
    BY <1>1, <2>1, NextProductStep DEF OneByOne
<1>5. QED
  BY <1>2, <1>3, <1>4

\* Dellin answers for a delivery type, or refuses the request.
LEMMA AskDellinStep ==
    ASSUME QuotesInductive, AskDellin
    PROVE  QuotesInductive'
<1>1. outcome = "none" /\ quoting = "dellin" /\ answered < Len(reply)
  BY DEF AskDellin, Running
<1>2. CASE reply[answered + 1].kind \in {"fault", "refused", "contract"}
  <2>1. EndQuote(reply[answered + 1].kind)
    BY <1>2 DEF AskDellin
  <2>2. QuotesTyped' /\ outcome' \in {"fault", "refused", "contract"}
    BY <1>2, <2>1 DEF EndQuote, QuotesInductive, QuotesTyped
  <2>3. OffersSoFar' /\ RefusalsSoFar' /\ AnswerIsWhole' /\ CompleteAccountIsAsked'
    BY <1>1, <2>1, <2>2 DEF OffersSoFar, RefusalsSoFar, AnswerIsWhole, CompleteAccountIsAsked, EndQuote
  <2>4. QED
    BY <2>2, <2>3 DEF QuotesInductive
<1>3. CASE reply[answered + 1].kind \notin {"fault", "refused", "contract"}
  <2>1. NextProduct(FALSE)
    BY <1>3 DEF AskDellin
  <2>2. refusal # TRUE /\ reply[answered + 1].kind # "refused"
    BY <1>1, <1>3 DEF QuotesInductive, RefusalsSoFar
  <2>3. QED
    BY <1>1, <2>1, <2>2, NextProductStep DEF OneByOne
<1>4. QED
  BY <1>2, <1>3

\* When everything is answered, what was priced is what is offered.
LEMMA FinishStep ==
    ASSUME QuotesInductive, Finish
    PROVE  QuotesInductive'
<1> PICK n \in Nat : n = Len(reply)
  BY DEF QuotesInductive, QuotesTyped
<1>1. /\ outcome = "none" /\ answered = n /\ Asked = 1..n
      /\ \A i \in 1..n : reply[i] \in RepliesOf(quoting)
  BY DEF Finish, QuotesInductive, QuotesTyped, Asked
<1>2. QuotesTyped' /\ UNCHANGED <<quoting, request, reply, offers>> /\ outcome' \in {"refused", "offers"}
  BY DEF Finish, EndQuote, QuotesInductive, QuotesTyped
<1>3. \A i \in 1..n : <<i, Price(i)>> \in offers <=> i \in Priced
  <2>1. quoting = "cdek" => n = 0
    BY <1>1 DEF QuotesInductive, OffersSoFar, OneByOne
  <2>2. QED
    BY <1>1, <2>1 DEF QuotesInductive, OffersSoFar, Priced
<1>4. \A o \in offers : \E i \in 1..n : o = <<i, Price(i)>>
  BY <1>1 DEF QuotesInductive, OffersSoFar
<1>5. {o[1] : o \in offers} = Priced
  <2>1. Priced \subseteq 1..n
    BY <1>1 DEF Priced
  <2>2. \A i \in Priced : <<i, Price(i)>> \in offers /\ <<i, Price(i)>>[1] = i
    BY <1>3, <2>1
  <2>3. \A o \in offers : o[1] \in Priced
    BY <1>3, <1>4
  <2>4. QED
    BY <2>2, <2>3
<1>6. quoting = "pochta" => \A o \in offers : TaxedOnce(o[2], reply[o[1]].total)
  <2> SUFFICES ASSUME quoting = "pochta", NEW o \in offers PROVE TaxedOnce(o[2], reply[o[1]].total)
    OBVIOUS
  <2>1. PICK i \in 1..n : o = <<i, Price(i)>>
    BY <1>4
  <2>2. reply[i].kind = "price"
    BY <1>3, <2>1 DEF Priced
  <2>3. TaxedOnce(Price(i), reply[i].total)
    BY <2>2, OffersAreTaxed DEF QuotesInductive
  <2>4. QED
    BY <2>1, <2>3
<1>7. AnswerIsWhole'
  <2>1. Priced' = Priced /\ Asked' = Asked
    BY <1>2 DEF Priced, Asked
  <2>2. outcome' = "refused" => offers = {} /\ refusal = TRUE
    BY DEF Finish, EndQuote
  <2>3. outcome' = "offers" => offers # {} \/ refusal # TRUE
    BY DEF Finish, EndQuote
  <2>4. refusal # TRUE => \A i \in 1..n : reply[i].kind # "refused"
    BY <1>1 DEF QuotesInductive, RefusalsSoFar
  <2>5. offers = {} <=> Priced = {}
    BY <1>5
  <2>6. outcome' = "offers" => Priced # {} \/ \A i \in Asked : reply[i].kind # "refused"
    BY <1>1, <2>3, <2>4, <2>5
  <2>7. QED
    BY <1>2, <1>5, <1>6, <2>1, <2>2, <2>5, <2>6 DEF AnswerIsWhole
<1>8. OffersSoFar' /\ RefusalsSoFar' /\ CompleteAccountIsAsked'
  BY <1>2 DEF OffersSoFar, RefusalsSoFar, CompleteAccountIsAsked
<1>9. QED
  BY <1>2, <1>7, <1>8 DEF QuotesInductive

LEMMA QuotesStep == QuotesInductive /\ [QuotesNext]_quoteVars => QuotesInductive'
<1> SUFFICES ASSUME QuotesInductive, [QuotesNext]_quoteVars PROVE QuotesInductive'
  OBVIOUS
<1>1. CASE Refuse
  BY <1>1, RefuseStep
<1>2. CASE NotConfigured
  BY <1>2, EndsWithAnError DEF NotConfigured
<1>3. CASE AskCdek
  <2>1. CASE EndQuote("fault")
    BY <2>1, EndsWithAnError
  <2>2. CASE ~EndQuote("fault")
    <3>1. outcome = "none" /\ quoting = "cdek"
      BY <1>3 DEF AskCdek, Running
    <3>2. Priced = {j \in Asked : reply[j].kind = "price" /\ CdekRows[j] \in ModesForRequest(request)}
      BY <3>1 DEF Priced
    <3>3. QED
      BY <1>3, <2>2, <3>1, <3>2, AskedOnceStep DEF AskCdek
  <2>3. QED
    BY <2>1, <2>2
<1>4. CASE AskPecom
  <2>1. CASE EndQuote("fault")
    BY <2>1, EndsWithAnError
  <2>2. CASE ~EndQuote("fault")
    <3>1. outcome = "none" /\ quoting = "pecom"
      BY <1>4 DEF AskPecom, Running
    <3>2. Priced = {j \in Asked : reply[j].kind = "price"}
      BY <3>1 DEF Priced
    <3>3. QED
      BY <1>4, <2>2, <3>1, <3>2, AskedOnceStep DEF AskPecom
  <2>3. QED
    BY <2>1, <2>2
<1>5. CASE AskPochta
  BY <1>5, AskPochtaStep
<1>6. CASE AskDellin
  BY <1>6, AskDellinStep
<1>7. CASE Finish
  BY <1>7, FinishStep
<1>8. CASE UNCHANGED quoteVars
  BY <1>8 DEF quoteVars, QuotesInductive, QuotesTyped, OffersSoFar, RefusalsSoFar, AnswerIsWhole,
              CompleteAccountIsAsked, Priced, Asked, Price, OneByOne
<1>9. QED
  BY <1>1, <1>2, <1>3, <1>4, <1>5, <1>6, <1>7, <1>8 DEF QuotesNext

\* A quote that ends with offers offers exactly the products the carrier priced
\* and, for CDEK, in a mode of the request; a carrier's refusal of one product
\* hides no other, a refusal of everything is told, and Pochta's price holds the
\* tax (quote() of the adapters): for every list of products that is known, asked
\* for by default or wished for, every length of it and every way to price.
THEOREM AnswersAreWhole == QuotesSpec => []AnswerIsWhole
<1>1. QuotesInductive => AnswerIsWhole
  BY DEF QuotesInductive
<1>2. QED
  BY <1>1, QuotesStart, QuotesStep, PTL DEF QuotesSpec

\* An account that passes the check of its fields is not refused by its adapter
\* before the carrier is asked (missing_fields and the clients of the adapters).
THEOREM CompleteAccountsAreAsked == QuotesSpec => []CompleteAccountIsAsked
<1>1. QuotesInductive => CompleteAccountIsAsked
  BY DEF QuotesInductive
<1>2. QED
  BY <1>1, QuotesStart, QuotesStep, PTL DEF QuotesSpec
=============================================================================
