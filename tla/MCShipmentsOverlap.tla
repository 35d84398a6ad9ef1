-------------------------- MODULE MCShipmentsOverlap --------------------------
(* Overlapping handlers, sweeps, polls and webhooks. A behaviour runs one of  *)
(* three parts of the system, for all of it at once is too large for TLC.     *)
EXTENDS MCShipments

VARIABLE part

OneShipment ==
    /\ rows'[k2] = None /\ \A w \in Workers : job'[w].shipment # k2
    /\ Cardinality({o \in OrderIds : orders'[o] # None}) <= 1
Busy(W) == {w \in W : job'[w] # Idle}

\* numbers: two keys with one number, two handlers and the sweep.
\* writes: one key, one order; two handlers and the sessions of a poll and a webhook.
\* sweep: one key, one order; one handler at a time, the sweep and both sessions.
Taking ==
    CASE part = "numbers" -> UNCHANGED session
      [] part = "writes"  -> OneShipment /\ Busy(Sweepers) = {}
      [] part = "sweep"   -> OneShipment /\ Cardinality(Busy(Handlers)) <= 1

MCInit == Init /\ part \in {"numbers", "writes", "sweep"}
MCNext == Next /\ Taking /\ UNCHANGED part
MCSpec == MCInit /\ [][MCNext]_<<vars, part>>
=============================================================================
