----------------------------- MODULE MCShipments -----------------------------
(* Small instances of Shipments for TLC. *)
EXTENDS ShipmentsLedger, TLC

CONSTANTS k1, k2, d1, d2, n1

\* The same request sent as often as its client likes.
OneRequest == {[key |-> k1, decision |-> d1, external_id |-> None]}

\* Two keys; the second request gives a number of the client's own.
TwoRequests == OneRequest \cup {[key |-> k2, decision |-> d2, external_id |-> n1]}

\* Two requests that give the same number under two keys.
SameNumber ==
    {[key |-> k1, decision |-> d1, external_id |-> n1],
     [key |-> k2, decision |-> d2, external_id |-> n1]}

Symmetric == Permutations(OrderIds) \cup Permutations(Handlers)
=============================================================================
