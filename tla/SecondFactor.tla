---------------------------- MODULE SecondFactor ----------------------------
(***************************************************************************)
(* The second factor of one user: core/service.py (AuthService.login,      *)
(* verify_totp, MfaService), the conditional UPDATE that burns the step of *)
(* a code (core/repository.py) and shared/totp.py.                         *)
(*                                                                         *)
(* A request is one transaction: it loads the user's row and checks the    *)
(* code against what it loaded (Present), and later burns the step and     *)
(* writes the columns it changed (Commit).  The UPDATE that burns the step *)
(* locks the row until the commit, so the two are one step.  A code is the *)
(* pair of the secret that generates it and its step of 30 seconds;        *)
(* whoever saw it may present it again.                                    *)
(***************************************************************************)
EXTENDS Naturals, FiniteSets

CONSTANTS Sessions,     \* requests of the user or of somebody who saw a code
          Secrets,      \* secrets the generator hands out, 1 .. n
          MaxStep,      \* bound on the clock, in steps of a code
          Drift,        \* _DEFAULT_WINDOW of shared/totp.py
          Null

VARIABLES user,         \* the row: secret, enabled, lastStep
          now,          \* timecode(utcnow())
          attempt,      \* what each transaction has loaded
          issued,       \* secrets handed out so far
          accepted      \* accepted codes of the present secret, by request

mfaVars == <<user, now, attempt, issued, accepted>>

Codes == [secret : Secrets, step : 0 .. MaxStep + Drift]

MfaInit ==
    /\ user = [secret |-> Null, enabled |-> FALSE, lastStep |-> Null]
    /\ now = Drift
    /\ attempt = [s \in Sessions |-> [kind |-> "idle"]]
    /\ issued = {} /\ accepted = {}

(* verify_totp: the code of this secret, of a step near the present one.   *)
Verified(row, code) ==
    /\ row.secret # Null
    /\ code.secret = row.secret
    /\ code.step \in (now - Drift) .. (now + Drift)

(* The same comparison against the row the request had loaded.             *)
StepIsNewToRequest(s) ==
    \/ attempt[s].row.lastStep = Null
    \/ attempt[s].row.lastStep < attempt[s].code.step

(* WHERE mfa_last_step IS NULL OR mfa_last_step < step: against the row as *)
(* it is when the UPDATE gets its lock, not as the request loaded it.      *)
StepIsNew(s) ==
    \/ user.lastStep = Null
    \/ user.lastStep < attempt[s].code.step

(* What each request requires of the row before it looks at the code.      *)
Admitted(kind, code) ==
    CASE kind = "login" -> user.enabled => Verified(user, code)
      [] kind = "setup" -> ~user.enabled
      [] kind = "enable" -> ~user.enabled /\ Verified(user, code)
      [] kind = "disable" -> user.enabled /\ Verified(user, code)

Present(s, kind, code) ==
    /\ attempt[s].kind = "idle"
    /\ Admitted(kind, code)
    /\ attempt' = [attempt EXCEPT ![s] = [kind |-> kind, row |-> user, code |-> code]]
    /\ UNCHANGED <<user, now, issued, accepted>>

Closed(s) == attempt' = [attempt EXCEPT ![s] = [kind |-> "done"]]

(* login asks for a code only if the factor was on in the row it loaded;   *)
(* a step that is not new refuses the code and rolls everything back.      *)
Login(s) ==
    /\ attempt[s].kind = "login"
    /\ IF attempt[s].row.enabled /\ StepIsNew(s)
       THEN /\ user' = [user EXCEPT !.lastStep = attempt[s].code.step]
            /\ accepted' = accepted \cup {[by |-> s, code |-> attempt[s].code]}
       ELSE UNCHANGED <<user, accepted>>
    /\ Closed(s)
    /\ UNCHANGED <<now, issued>>

(* setup: a new secret; the ORM writes mfa_last_step only if it was set.   *)
Setup(s) ==
    /\ attempt[s].kind = "setup"
    /\ \E secret \in Secrets \ issued :
          /\ \A older \in issued : older < secret
          /\ user' = [user EXCEPT !.secret = secret,
                        !.lastStep = IF attempt[s].row.lastStep = Null THEN @ ELSE Null]
          /\ issued' = issued \cup {secret}
    /\ accepted' = {}
    /\ Closed(s)
    /\ UNCHANGED now

Enable(s) ==
    /\ attempt[s].kind = "enable"
    /\ IF StepIsNew(s)
       THEN /\ user' = [user EXCEPT !.lastStep = attempt[s].code.step, !.enabled = TRUE]
            /\ accepted' = accepted \cup {[by |-> s, code |-> attempt[s].code]}
       ELSE UNCHANGED <<user, accepted>>
    /\ Closed(s)
    /\ UNCHANGED <<now, issued>>

(* disable burns the step and then forgets it with the secret.             *)
Disable(s) ==
    /\ attempt[s].kind = "disable"
    /\ IF StepIsNew(s)
       THEN /\ user' = [secret |-> Null, enabled |-> FALSE, lastStep |-> Null]
            /\ accepted' = {}
       ELSE UNCHANGED <<user, accepted>>
    /\ Closed(s)
    /\ UNCHANGED <<now, issued>>

Tick == /\ now < MaxStep
        /\ now' = now + 1
        /\ UNCHANGED <<user, attempt, issued, accepted>>

MfaNext ==
    \/ \E s \in Sessions, code \in Codes :
          \/ Present(s, "login", code)
          \/ Present(s, "setup", code)
          \/ Present(s, "enable", code)
          \/ Present(s, "disable", code)
    \/ \E s \in Sessions : Login(s) \/ Setup(s) \/ Enable(s) \/ Disable(s)
    \/ Tick

MfaSpec == MfaInit /\ [][MfaNext]_mfaVars

(***************************************************************************)
(* Properties.                                                             *)
(***************************************************************************)

(* A code lets somebody in once: of all requests that present it while its *)
(* secret is the user's, at most one is accepted, however they overlap.    *)
(* (disable forgets the burnt step together with the secret.)              *)
CodeWorksOnce ==
    \A a, b \in accepted : a.code = b.code => a = b
=============================================================================
