---------------------------- MODULE MCWebhookQueue ----------------------------
(* Small instances of WebhookQueue for TLC. *)
EXTENDS WebhookQueue, TLC

CONSTANTS t1, t2, s1, s2, d1, d2, d3

OneTenant == <<t1>>
TwoTenants == <<t1, t2>>

\* Two notices to one receiver, or one to each of two.
Together == d1 :> s1 @@ d2 :> s1
Apart == d1 :> s1 @@ d2 :> s2
\* Two notices to the first receiver and one to the second.
Unequal == d1 :> s1 @@ d2 :> s1 @@ d3 :> s2

OwnOne == s1 :> t1
OwnTwo == s1 :> t1 @@ s2 :> t2

\* Receivers that answer as they like.
AnyAnswer == [s \in Subscriptions |-> AnswerKinds]
\* The first receiver never answers, the second always accepts.
OneSilent == s1 :> {"silent"} @@ s2 :> {"accepted"}

SymmetricRuns == Permutations(Runs)
=============================================================================
