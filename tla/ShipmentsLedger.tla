--------------------------- MODULE ShipmentsLedger ---------------------------
(* The shipments module keeps the promise of OrderLedger. *)
EXTENDS Shipments

\* The books of OrderLedger, read off the table and the carrier's orders.
Intents == {rows[k].number : k \in {j \in Keys : Exists(j)}}
Placements == {<<o, orders[o].number>> : o \in {p \in OrderIds : Placed(p)}}
Links ==
    {<<rows[k].number, rows[k].external_id>> :
        k \in {j \in Keys : Exists(j) /\ rows[j].external_id # None}}

Ledger == INSTANCE OrderLedger WITH intents <- Intents, placed <- Placements, linked <- Links

\* Whatever crashes, times out or races, every step of the code is a step of the
\* ledger or changes nothing in it: the draft is on record before the carrier is
\* asked, and no row ever loses its order or takes another shipment's.
LedgerKept == Ledger!Spec
=============================================================================
