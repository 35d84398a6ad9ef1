----------------------------- MODULE OrderLedger -----------------------------
(***************************************************************************)
(* What the shipments module promises, without saying how: the carrier is  *)
(* never asked for an order before our intention to have it is on record;  *)
(* an intention is never forgotten and an order never changes hands; a     *)
(* shipment is linked only to an order placed for it, and once linked it   *)
(* is never without an order again.                                        *)
(***************************************************************************)
CONSTANTS Numbers, OrderIds

VARIABLES
    intents,    \* numbers whose draft is committed
    placed,     \* pairs <<order, number>> in the carrier's books
    linked      \* pairs <<number, order>> in our books

ledger == <<intents, placed, linked>>

Init == intents = {} /\ placed = {} /\ linked = {}

Intend(n) ==
    /\ n \notin intents
    /\ intents' = intents \cup {n}
    /\ UNCHANGED <<placed, linked>>

Place(o, n) ==
    /\ n \in intents
    /\ \A m \in Numbers : <<o, m>> \notin placed
    /\ placed' = placed \cup {<<o, n>>}
    /\ UNCHANGED <<intents, linked>>

Link(n, o) ==
    /\ <<o, n>> \in placed
    /\ linked' = {l \in linked : l[1] # n} \cup {<<n, o>>}
    /\ UNCHANGED <<intents, placed>>

Next ==
    \/ \E n \in Numbers : Intend(n)
    \/ \E n \in Numbers, o \in OrderIds : Place(o, n) \/ Link(n, o)

Spec == Init /\ [][Next]_ledger
=============================================================================
