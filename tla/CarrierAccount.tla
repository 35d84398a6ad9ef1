---------------------------- MODULE CarrierAccount ----------------------------
(* A tenant's account at one carrier: its credentials, which an operator of *)
(* the platform enters with scripts/set_carrier_credentials.py, and the     *)
(* verdict of their check, CarrierDirectoryService.check and the helpers of *)
(* carriers/health.py. A check asks the carrier in the middle of its        *)
(* transaction. Whether the carrier accepts credentials may change.         *)
EXTENDS Naturals

CONSTANTS Credentials,
          Readable,    \* those the keys of the platform still decrypt
          Sessions,
          MaxEntries,  \* bound on entries, which also number themselves
          NoAccount

Accounts == [credentials : Credentials, entry : Nat, status : {"unchecked", "ok", "error"}]
ASSUME NoAccountIsNone == NoAccount \notin Accounts

VARIABLES account,    \* [credentials, entry, status], or NoAccount
          check,      \* the open checks
          accepted,   \* external: credentials the carrier accepts now
          verdicts,   \* history: what the checks of each entry have found
          crossed     \* history: credentials were entered during a check
accountVars == <<account, check, accepted, verdicts, crossed>>

Idle == [step |-> "idle"]
Entry == IF account = NoAccount THEN 0 ELSE account.entry

AccountInit ==
    /\ account = NoAccount
    /\ check = [s \in Sessions |-> Idle]
    /\ accepted \in SUBSET Credentials
    /\ verdicts = {} /\ crossed = FALSE

\* Mutant of Entered: the verdict stays.
EnteredKeepingVerdict(c) ==
    [credentials |-> c, entry |-> Entry + 1,
     status |-> IF account = NoAccount THEN "unchecked" ELSE account.status]

\* _store: the row is made or changed, its verdict is of other credentials.
Entered(c) == [credentials |-> c, entry |-> Entry + 1, status |-> "unchecked"]

Enter(c) ==
    /\ Entry < MaxEntries
    /\ account' = Entered(c)
    /\ crossed' = (crossed \/ \E s \in Sessions : check[s] # Idle)
    /\ UNCHANGED <<check, accepted, verdicts>>

\* check: without an account there is nothing to ask about.
Begin(s) ==
    /\ check[s] = Idle /\ account # NoAccount
    /\ check' = [check EXCEPT ![s] = [step |-> "probe", read |-> account]]
    /\ UNCHANGED <<account, accepted, verdicts, crossed>>

\* _probe, probe and guard: whatever is raised, by the decryption, the adapter
\* or the carrier, is a verdict too; only an answer of the carrier is a good one.
VerdictOf(c, answers) == IF c \in Readable /\ answers /\ c \in accepted THEN "ok" ELSE "error"

Probe(s, answers) ==
    /\ check[s].step = "probe"
    /\ LET read == check[s].read
           found == VerdictOf(read.credentials, answers)
       IN  /\ check' = [check EXCEPT ![s] = [step |-> "commit", read |-> read, found |-> found]]
           /\ verdicts' = verdicts \cup {<<read.entry, found>>}
    /\ UNCHANGED <<account, accepted, crossed>>

\* The UPDATE has the columns that differ from what was read.
Commit(s) ==
    /\ check[s].step = "commit"
    /\ account' = IF check[s].found = check[s].read.status THEN account
                  ELSE [account EXCEPT !.status = check[s].found]
    /\ check' = [check EXCEPT ![s] = Idle]
    /\ UNCHANGED <<accepted, verdicts, crossed>>

\* The process dies or the client goes away.
Abort(s) ==
    /\ check[s] # Idle
    /\ check' = [check EXCEPT ![s] = Idle]
    /\ UNCHANGED <<account, accepted, verdicts, crossed>>

\* External: the carrier opens or closes an access.
Carrier(c) ==
    /\ accepted' = IF c \in accepted THEN accepted \ {c} ELSE accepted \cup {c}
    /\ UNCHANGED <<account, check, verdicts, crossed>>

AccountNext ==
    \/ \E c \in Credentials : Enter(c) \/ Carrier(c)
    \/ \E s \in Sessions : Begin(s) \/ Commit(s) \/ Abort(s) \/ \E answers \in BOOLEAN : Probe(s, answers)

AccountSpec == AccountInit /\ [][AccountNext]_accountVars

-----------------------------------------------------------------------------
\* An account says "ok" or "error" only if a check of the credentials it has
\* found so, unless they were entered while a check was out.
VerdictIsOfItsCredentials ==
    ~crossed /\ account # NoAccount =>
        account.status = "unchecked" \/ <<account.entry, account.status>> \in verdicts

\* "The former verdict has nothing to do with the new data"
\* (set_carrier_credentials.py): it may, if the check outlasts the entry.
VerdictIsNeverStale ==
    account # NoAccount => account.status = "unchecked" \/ <<account.entry, account.status>> \in verdicts
=============================================================================
