---------------------------- MODULE CarrierCall ----------------------------
(* One call of a carrier (aerogram.carriers.http and the client modules of *)
(* the carriers): the ladder of repeats, the circuit breaker and the token *)
(* of CDEK or the session of Dellin, which tasks with one client share.    *)
(* A step runs from one await to the next: sending a request, waiting for  *)
(* the lock and the pause before a repeat are the places where a task      *)
(* yields. The carrier is external: it answers as it likes, refuses a      *)
(* token it has dropped, and names a new token at every authorisation.     *)
EXTENDS Naturals, FiniteSets

CONSTANTS Calls,        \* tasks, each of them one CarrierHttpClient.request
                        \* with the authorisation it takes
          Clients,
          ClientOf,     \* the client that a task was given
          Kinds,        \* "token" (CDEK), "session" (Dellin), "header" (the others)
          Lenient,      \* tasks that read the body of a refusal themselves
          MaxAttempts, Threshold, Cooldown,
          MaxClock,     \* bound: units of the monotonic clock
          MaxTokens,    \* bound: tokens the carrier issues
          Nil

ASSUME CallAssumption ==
    /\ ClientOf \in [Calls -> Clients] /\ Lenient \subseteq Calls /\ Kinds \subseteq {"token", "session", "header"}
    /\ MaxAttempts \in Nat \ {0} /\ Threshold \in Nat \ {0}
    /\ {Cooldown, MaxClock, MaxTokens} \subseteq Nat /\ Nil \notin Calls \cup Nat

VARIABLES kind,      \* which carrier is called
          clock,
          breaker,   \* per client: failures in a row and when it opened
          token,     \* per client: the token or session and when it expires
          lock,      \* per client: who holds _auth_lock
          valid,     \* carrier: the tokens it accepts
          issued,    \* carrier: how many tokens it has named
          call       \* per task: where it is, what it has used and how it ended
callVars == <<kind, clock, breaker, token, lock, valid, issued, call>>

NoToken == [name |-> Nil, until |-> 0]
Fresh == [pc |-> "idle", round |-> 1, attempt |-> 1, token |-> Nil, refused |-> {},
          sent |-> 0, authorised |-> 0, outcome |-> Nil]
CallInit == /\ kind \in Kinds /\ clock = 0 /\ issued = 0 /\ valid = {}
            /\ breaker = [k \in Clients |-> [failures |-> 0, opened |-> Nil]]
            /\ token = [k \in Clients |-> NoToken]
            /\ lock = [k \in Clients |-> Nil]
            /\ call = [c \in Calls |-> Fresh]

(* CircuitBreaker: after the cool-down the breaker closes and forgets.     *)
Cooled(b) == b.opened # Nil /\ clock - b.opened >= Cooldown
IsOpen(b) == b.opened # Nil /\ ~Cooled(b)
Looked(b) == IF Cooled(b) THEN [failures |-> 0, opened |-> Nil] ELSE b
Success(b) == [failures |-> 0, opened |-> Nil]
Failure(b) == [failures |-> b.failures + 1,
               opened |-> IF b.failures + 1 >= Threshold THEN clock ELSE b.opened]

HasToken(k) == token[k].name # Nil /\ (kind = "token" => clock < token[k].until)

(* How an answer is read: _error_for_status and the transport errors.      *)
(* "transient" is a timeout, a lost connection, 429, 502, 503 or 504.      *)
Answers == {"ok", "auth", "transient", "validation", "error"}

End(c, outcome) == call' = [call EXCEPT ![c].pc = "done", ![c].outcome = outcome]

(* Entering request(): the breaker is asked once, before the first attempt.*)
EnterRequest(c, pc, t) ==
    LET k == ClientOf[c] IN
    /\ breaker' = [breaker EXCEPT ![k] = Looked(@)]
    /\ IF IsOpen(breaker[k])
         THEN End(c, "open")
         ELSE call' = [call EXCEPT ![c].pc = pc, ![c].token = t, ![c].attempt = 1,
                                   ![c].sent = @ + 1]

(* token() and session(): the token at hand, or the queue for the lock.    *)
(* The fast path does not yield before the request is sent.                *)
Start(c) ==
    /\ call[c].pc = "idle"
    /\ \/ /\ kind = "header" \/ HasToken(ClientOf[c])
          /\ EnterRequest(c, "sent", IF kind = "header" THEN Nil ELSE token[ClientOf[c]].name)
       \/ /\ kind # "header" /\ ~HasToken(ClientOf[c])
          /\ call' = [call EXCEPT ![c].pc = "queue"]
          /\ UNCHANGED breaker
    /\ UNCHANGED <<kind, clock, token, lock, valid, issued>>

(* The lock is free: whoever got it first may have authorised meanwhile.   *)
TakeLock(c) ==
    LET k == ClientOf[c] IN
    /\ call[c].pc = "queue" /\ lock[k] = Nil
    /\ \/ HasToken(k) /\ EnterRequest(c, "sent", token[k].name) /\ UNCHANGED lock
       \/ /\ ~HasToken(k) /\ EnterRequest(c, "authorising", Nil)
          /\ lock' = [lock EXCEPT ![k] = IF IsOpen(breaker[k]) THEN Nil ELSE c]
    /\ UNCHANGED <<kind, clock, token, valid, issued>>

(* _authorize got its token: the lock is released and the request leaves   *)
(* with it at once, even if the margin leaves it no time to live.          *)
Authorised(c) ==
    LET k == ClientOf[c] IN
    /\ call[c].pc = "authorising" /\ issued < MaxTokens
    /\ \E life \in {0, Cooldown + 1} :
         token' = [token EXCEPT ![k] = [name |-> issued + 1, until |-> clock + life]]
    /\ issued' = issued + 1 /\ valid' = valid \cup {issued + 1}
    /\ breaker' = [breaker EXCEPT ![k] = Success(@)]
    /\ lock' = [lock EXCEPT ![k] = Nil]
    /\ call' = [call EXCEPT ![c].pc = "sent", ![c].token = issued + 1, ![c].attempt = 1,
                            ![c].sent = @ + 1, ![c].authorised = @ + 1]
    /\ UNCHANGED <<kind, clock>>

(* A refused authorisation is not repeated and ends the call; a refusal in  *)
(* a body is an answer to the breaker and no failure.                       *)
Unauthorised(c) ==
    LET k == ClientOf[c] IN
    /\ call[c].pc = "authorising"
    /\ \E outcome \in Answers \ {"ok"}, inBody \in BOOLEAN :
         /\ inBody => outcome \in {"auth", "error"}
         /\ breaker' = [breaker EXCEPT ![k] = IF inBody THEN Success(@) ELSE Failure(@)]
         /\ End(c, outcome)
    /\ lock' = [lock EXCEPT ![k] = Nil]
    /\ UNCHANGED <<kind, clock, token, valid, issued>>

(* What the carrier may answer to a request that bears a token.            *)
Possible(c) == IF kind = "header" \/ call[c].token \in valid
                 THEN Answers ELSE Answers \ {"ok", "validation"}

(* raise_for_status=False: a refusal of the query is an answer, for whom   *)
(* the carrier is alive.                                                   *)
Served(c) ==
    /\ call[c].pc = "sent"
    /\ \E answer \in Possible(c) \cap (IF c \in Lenient THEN {"ok", "validation"} ELSE {"ok"}) :
         End(c, answer)
    /\ breaker' = [breaker EXCEPT ![ClientOf[c]] = Success(@)]
    /\ UNCHANGED <<kind, clock, token, lock, valid, issued>>

(* A failure is repeated up to MaxAttempts; the breaker is not asked again. *)
MayRepeat(c, answer) == answer = "transient" /\ call[c].attempt < MaxAttempts

\* Mutant of MayRenew: every refusal of a token is followed by a new one.
MayRenewAlways(c, answer) == answer = "auth" /\ kind # "header"

\* The first refusal of a token takes the call back to the beginning.
MayRenew(c, answer) == answer = "auth" /\ kind # "header" /\ call[c].round = 1

\* A refusal drops the token of the client, whichever it is by now: at CDEK each
\* one, at Dellin the first, for the second is raised before the session is
\* forgotten.
Forgets(c, answer) == answer = "auth" /\ (kind = "session" => call[c].round = 1) /\ kind # "header"

Failed(c) ==
    LET k == ClientOf[c] IN
    /\ call[c].pc = "sent"
    /\ breaker' = [breaker EXCEPT ![k] = Failure(@)]
    /\ \E answer \in Possible(c) \ (IF c \in Lenient THEN {"ok", "validation"} ELSE {"ok"}) :
         /\ token' = IF Forgets(c, answer) THEN [token EXCEPT ![k] = NoToken] ELSE token
         /\ \/ /\ MayRepeat(c, answer)
               /\ call' = [call EXCEPT ![c].pc = "pause"]
            \/ /\ MayRenew(c, answer)
               /\ call' = [call EXCEPT ![c].pc = "queue", ![c].round = 2,
                                       ![c].refused = @ \cup {call[c].token}]
            \/ /\ ~MayRepeat(c, answer) /\ ~MayRenew(c, answer)
               /\ End(c, answer)
    /\ UNCHANGED <<kind, clock, lock, valid, issued>>

Repeat(c) ==
    /\ call[c].pc = "pause"
    /\ call' = [call EXCEPT ![c].pc = "sent", ![c].attempt = @ + 1, ![c].sent = @ + 1]
    /\ UNCHANGED <<kind, clock, breaker, token, lock, valid, issued>>

(* The deadline of the caller cancels a task where it waits; `async with`  *)
(* gives the lock back and nothing else is undone.                         *)
Cancelled(c) ==
    LET k == ClientOf[c] IN
    /\ call[c].pc \in {"queue", "authorising", "sent", "pause"}
    /\ End(c, "cancelled")
    /\ lock' = [lock EXCEPT ![k] = IF @ = c THEN Nil ELSE @]
    /\ UNCHANGED <<kind, clock, breaker, token, valid, issued>>

CallTick == /\ clock < MaxClock /\ clock' = clock + 1
            /\ UNCHANGED <<kind, breaker, token, lock, valid, issued, call>>
(* The carrier drops what it has issued (a session signed out elsewhere).  *)
Revoke == /\ valid # {} /\ valid' = {}
          /\ UNCHANGED <<kind, clock, breaker, token, lock, issued, call>>

CallNext == \/ \E c \in Calls : \/ Start(c) \/ TakeLock(c) \/ Authorised(c) \/ Unauthorised(c)
                                \/ Served(c) \/ Failed(c) \/ Repeat(c) \/ Cancelled(c)
            \/ CallTick \/ Revoke
CallSpec == CallInit /\ [][CallNext]_callVars

(* A token the carrier has refused to this call is not sent by it again, a  *)
(* call sends no more than two ladders with an authorisation before each,   *)
(* and a task that has ended holds no lock: http.py's repeats inside the    *)
(* client's own, with other tasks renewing the token of both.               *)
RepeatsAreBounded ==
    \A c \in Calls :
        /\ call[c].pc = "sent" => call[c].token \notin call[c].refused
        /\ call[c].sent <= 2 * (MaxAttempts + 1)
        /\ call[c].pc = "done" => lock[ClientOf[c]] # c

(* cdek/client.py:73 and dellin/client.py:119: parallel quotes do not lead  *)
(* to several authorisations of one account at a time.                      *)
OneAuthorisation == Cardinality({c \in Calls : call[c].pc = "authorising"}) <= 1
=============================================================================
