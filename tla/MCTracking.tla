----------------------------- MODULE MCTracking ------------------------------
(* Small instances of Tracking for TLC: a delivery with two or three events,  *)
(* the final one last.                                                        *)
EXTENDS Tracking, TLC

\* Events are named by the time they happened.
Moments == [e \in Events |-> e]
Steps == <<"PICKED_UP", "IN_TRANSIT", "OUT_FOR_DELIVERY", "DELIVERED">>
Statused == [e \in Events |-> Steps[e]]

\* One event of the way and the delivery.
Delivery == {3, 4}
\* The pick-up, which may be heard of last, and the delivery.
PickupAndDelivery == {1, 4}

SymmetricSessions == Permutations(Polls) \cup Permutations(Hooks)
=============================================================================
