----------------------------- MODULE MCDocuments ------------------------------
(* Small instances of Documents for TLC: one label that two sweeps fetch at   *)
(* once, or labels of two shipments that share a transaction.                 *)
EXTENDS Documents, TLC

VARIABLE part

Asked == {d \in Docs : docs[d] # None \/ \E s \in Sessions : Open(s) /\ session[s].new[d] # None}

\* overlap: one document, all sessions overlap.
\* batch: two documents, the sessions follow one another.
Taking ==
    CASE part = "overlap" -> Cardinality(Asked') <= 1
      [] part = "batch"   -> Cardinality({s \in Sessions : Open(s)'}) <= 1

MCInit == Init /\ part \in {"overlap", "batch"}
MCNext == Next /\ Taking /\ UNCHANGED part
MCSpec == MCInit /\ [][MCNext]_<<vars, part>> /\ Fairness
=============================================================================
