--------------------------- MODULE CarrierOrders ---------------------------
(* The orders of one account at one carrier, as its adapter makes them,    *)
(* looks for them, follows, labels and cancels them (aerogram.carriers:    *)
(* the adapter and orders modules of CDEK, Pochta, Dellin and Pecom), and   *)
(* what a shipment keeps of the answers (ShipmentService). The carriers    *)
(* are external: what their search shows is what the adapters' docstrings   *)
(* say of it. A number contains another when the carrier's search by       *)
(* substring finds the one by the other. Time is counted in parts of a day,*)
(* and Pecom lives Offset of them ahead of UTC.                            *)
EXTENDS Integers, Sequences

CONSTANTS Carriers,      \* a subset of {"cdek", "pochta", "dellin", "pecom"}
          Numbers,       \* our numbers, which the shipments give to the orders
          Containing,      \* pairs <<m, n>>: m contains n
          Request,       \* per number: the places, whether the product is known,
                         \* the recipient's index and full name, a post office
                         \* (of the account or the sender) and the extras
          Day, Offset, Window,
          MaxTime, MaxOrders,  \* bounds: parts of days, orders at the carrier
          None

ASSUME OrdersAssumption ==
    /\ Carriers \subseteq {"cdek", "pochta", "dellin", "pecom"}
    /\ \A n \in Numbers : <<n, n>> \in Containing
    /\ Day \in Nat \ {0} /\ {Offset, Window, MaxTime, MaxOrders} \subseteq Nat

VARIABLES carrier,
          now,
          order,    \* carrier: the orders it holds, in the order it booked them
          kept,     \* per number: what the shipment keeps
          asked     \* per number: the answer of the last search
vars == <<carrier, now, order, kept, asked>>

Orders == DOMAIN order
Nothing == [id |-> None, tracking |-> None, pending |-> FALSE, label |-> "none", events |-> 0]
Init == /\ carrier \in Carriers /\ now = 0 /\ order = <<>>
        /\ kept = [n \in Numbers |-> Nothing]
        /\ asked = [n \in Numbers |-> "never"]
-----------------------------------------------------------------------------
(* What an adapter refuses before it calls: the payload needs data that the *)
(* request may lack. CDEK's takes what every request has.                   *)
CdekTakes(r) == r.places > 0
PochtaTakes(r) == /\ r.product /\ r.places = 1 /\ r.index
                  /\ r.name \/ {"surname", "given_name"} \subseteq r.extras
                  /\ {"region", "street", "house"} \subseteq r.extras
                  /\ r.office \/ "postoffice_code" \in r.extras
DellinTakes(r) == r.places > 0 /\ "freight_uid" \in r.extras
PecomTakes(r) == r.places > 0 /\ "cargo_description" \in r.extras
Takes(r) == CASE carrier = "cdek" -> CdekTakes(r) [] carrier = "pochta" -> PochtaTakes(r)
              [] carrier = "dellin" -> DellinTakes(r) [] carrier = "pecom" -> PecomTakes(r)

(* ShipmentResult of a new order. The carrier may name a waybill number at  *)
(* once (Pochta: if it has a barcode; Dellin: a barcode of the request,     *)
(* which stays pending), the cargo code is both (Pecom), or it comes later  *)
(* (CDEK names the order only).                                             *)
Result(i, tracking) == [id |-> i, tracking |-> tracking, pending |-> tracking = None]
CdekCreated(i, named) == Result(i, IF named THEN i ELSE None)
PochtaCreated(i, named) == Result(i, IF named THEN i ELSE None)
DellinCreated(i, named) == [id |-> i, tracking |-> IF named THEN i ELSE None, pending |-> TRUE]
PecomCreated(i, named) == Result(i, i)
Created(i, named) == CASE carrier = "cdek" -> CdekCreated(i, named)
                       [] carrier = "pochta" -> PochtaCreated(i, named)
                       [] carrier = "dellin" -> DellinCreated(i, named)
                       [] carrier = "pecom" -> PecomCreated(i, named)

(* The same order read from the answer of a search.                         *)
CdekRead(i) == Result(i, IF order[i].waybill THEN i ELSE None)
DellinRead(i) == Result(i, i)
Read(i) == CASE carrier = "cdek" -> CdekRead(i) [] carrier = "dellin" -> DellinRead(i)
             [] OTHER -> Created(i, order[i].waybill)

(* What a search lists: CDEK and Dellin filter by our number (a request is  *)
(* not in Dellin's journal), Pochta finds substrings, Pecom lists days.     *)
CdekListed(n) == {i \in Orders : order[i].number = n}
PochtaListed(n) == {i \in Orders : <<order[i].number, n>> \in Containing}
DellinListed(n) == {i \in Orders : order[i].number = n /\ order[i].processed}
UtcDate(t) == t \div Day
CarrierDate(t) == (t + Offset) \div Day

\* Mutant of PecomWindow: today's orders only.
PecomWindowToday == UtcDate(now) .. UtcDate(now)

\* list_orders_payload.
PecomWindow == UtcDate(now) - Window .. UtcDate(now)

PecomListed == {i \in Orders : CarrierDate(order[i].at) \in PecomWindow}

\* Mutant of PochtaFound: what the search lists is taken for ours.
PochtaFoundAny(n) == PochtaListed(n)

\* What the adapter takes of it: any of those that match.
PochtaFound(n) == {i \in PochtaListed(n) : order[i].number = n}

PecomFound(n) == {i \in PecomListed : order[i].number = n}
Found(n) == CASE carrier = "cdek" -> CdekListed(n) [] carrier = "pochta" -> PochtaFound(n)
              [] carrier = "dellin" -> DellinListed(n) [] carrier = "pecom" -> PecomFound(n)

(* The events of an order by the identifier that is kept: a request of      *)
(* Dellin has no history under its own number, and Pochta's tracking is not *)
(* there.                                                                   *)
DellinKnows(n) == ~kept[n].pending
HasHistory(n) == CASE carrier = "pochta" -> FALSE [] carrier = "dellin" -> DellinKnows(n)
                   [] OTHER -> TRUE

(* What a call of label() may end with. CDEK orders a form anew each time   *)
(* and asks for it once, Pochta answers with the file or with an error,     *)
(* Dellin looks for the waybill of the order first, and a file that Pecom's *)
(* answer does not show is not ready yet.                                   *)
CdekLabel == {"ready", "pending"}
PochtaLabel == {"ready"}
DellinLabel(n) == IF DellinKnows(n) THEN {"ready", "pending"} ELSE {"pending"}
PecomLabel == {"ready", "pending"}
Labels(n) == CASE carrier = "cdek" -> CdekLabel [] carrier = "pochta" -> PochtaLabel
               [] carrier = "dellin" -> DellinLabel(n) [] carrier = "pecom" -> PecomLabel
-----------------------------------------------------------------------------
(* _apply: the answer of create() or of the search replaces what was kept. *)
Apply(n, result) == [kept EXCEPT ![n].id = result.id, ![n].tracking = result.tracking,
                                 ![n].pending = result.pending]

(* A request for a stored draft comes first, or is repeated after a search  *)
(* that found nothing. The adapter may refuse it, it may be lost on its way *)
(* or be refused by the carrier, and of an order the answer may be lost.    *)
Attempt(n) == /\ kept[n].id = None /\ asked[n] \in {"never", "absent"}
              /\ asked' = [asked EXCEPT ![n] = "tried"]
              /\ UNCHANGED <<carrier, now>>
NotBooked(n) == Attempt(n) /\ UNCHANGED <<order, kept>>
Create(n) ==
    /\ Attempt(n) /\ Takes(Request[n]) /\ Len(order) < MaxOrders
    /\ \E named \in BOOLEAN, heard \in BOOLEAN :
         /\ named => carrier # "cdek"
         /\ carrier = "pecom" => named
         /\ order' = Append(order, [number |-> n, at |-> now, waybill |-> named /\ carrier # "dellin",
                                    processed |-> carrier # "dellin", refused |-> FALSE])
         /\ kept' = IF heard THEN Apply(n, Created(Len(order) + 1, named)) ELSE kept

(* find_by_number by a repeated request or by the reconciliation: an error  *)
(* of the call changes nothing and is not a step.                           *)
Find(n) ==
    /\ kept[n].id = None /\ asked[n] # "never"
    /\ \/ /\ Found(n) = {} /\ asked' = [asked EXCEPT ![n] = "absent"] /\ UNCHANGED kept
       \/ \E i \in Found(n) : /\ asked' = [asked EXCEPT ![n] = "found"]
                              /\ kept' = Apply(n, Read(i))
    /\ UNCHANGED <<carrier, now, order>>

(* The poll of a shipment takes the events of its order and nothing else.  *)
Poll(n) ==
    /\ kept[n].id # None /\ HasHistory(n)
    /\ kept' = [kept EXCEPT ![n].events = 1]
    /\ UNCHANGED <<carrier, now, order, asked>>

Label(n) ==
    /\ kept[n].id # None /\ kept[n].label # "ready"
    /\ \E answer \in Labels(n) : kept' = [kept EXCEPT ![n].label = answer]
    /\ UNCHANGED <<carrier, now, order, asked>>

(* Only CDEK's adapter cancels, by a refusal of the order.                  *)
Cancel(n) ==
    /\ carrier = "cdek" /\ kept[n].id # None
    /\ order' = [order EXCEPT ![kept[n].id].refused = TRUE]
    /\ UNCHANGED <<carrier, now, kept, asked>>

(* The carrier: a request becomes an order, an order gets its waybill.     *)
Process(i) == /\ ~order[i].processed
              /\ order' = [order EXCEPT ![i].processed = TRUE]
              /\ UNCHANGED <<carrier, now, kept, asked>>
Assign(i) == /\ order[i].processed /\ ~order[i].waybill
             /\ order' = [order EXCEPT ![i].waybill = TRUE]
             /\ UNCHANGED <<carrier, now, kept, asked>>
Tick == now < MaxTime /\ now' = now + 1 /\ UNCHANGED <<carrier, order, kept, asked>>

Next == \/ \E n \in Numbers : NotBooked(n) \/ Create(n) \/ Find(n) \/ Poll(n) \/ Label(n) \/ Cancel(n)
        \/ \E i \in Orders : Process(i) \/ Assign(i)
        \/ Tick
Spec == Init /\ [][Next]_vars
-----------------------------------------------------------------------------
Held(n) == {i \in Orders : order[i].number = n}

(* A shipment keeps an order of its own number, however much of other       *)
(* numbers the search lists (pochta/orders.py:251: otherwise a reconcile    *)
(* would take for ours an order whose number begins alike).                 *)
KeepsItsOwn == \A n \in Numbers : kept[n].id # None => kept[n].id \in Held(n)

(* cdek/orders.py:47: a false "not found" means a second order with its     *)
(* payment and its cargo. An order of CDEK or Pochta is found from the      *)
(* moment it is booked, one of Dellin from the moment its request is        *)
(* processed, and one of Pecom from the moment the hour of its clock has    *)
(* come in UTC too until the window closes. The rest of the time is         *)
(* AbsentIsNotBooked.                                                       *)
Settled(i) ==
    /\ carrier = "dellin" => order[i].processed
    /\ carrier = "pecom" => now >= order[i].at + Offset /\ now <= order[i].at + Window * Day
ReliableSearch == \A n \in Numbers :
    asked'[n] = "absent" /\ asked[n] # "absent" => \A i \in Held(n) : ~Settled(i)
SearchIsReliable == [][ReliableSearch]_vars

(* dellin/orders.py:195: "not found" means that the creation did not go      *)
(* through. (Does not hold at Dellin, whose journal has no requests, nor at  *)
(* Pecom, whose date is ahead of the day that is asked for.)                 *)
AbsentIsNotBooked ==
    [][\A n \in Numbers : asked'[n] = "absent" /\ asked[n] # "absent" => Held(n) = {}]_vars

(* carriers/base.py:201, dellin/orders.py:11: the number of a shipment that *)
(* was taken asynchronously comes later, with the next poll. (Does not hold: *)
(* the poll asks for events, and nobody asks for the order again.)          *)
PollBringsNumber == \A n \in Numbers :
    kept[n].pending /\ kept[n].events = 0 /\ kept'[n].events = 1 /\ order[kept[n].id].waybill
        => kept'[n].tracking # None
NumberArrives == [][PollBringsNumber]_vars
=============================================================================
