----------------------------- MODULE MCCarriers -----------------------------
(* The four models of the carriers, which share no state: a behaviour runs  *)
(* one of them. Two calls share a client of CDEK, Dellin or a carrier       *)
(* without a token; a shipment's number is the beginning of another's; one  *)
(* request names its products, twice and wrongly. Two checks of an account, *)
(* and credentials whose key the platform has no more.                      *)
EXTENDS CarrierAccount, CarrierCall, CarrierOrders, CarrierQuotes

CONSTANTS c1, c2

VARIABLE part

Codes == {"cdek", "pochta", "dellin", "pecom", "major"}

(* Two tasks of one client, one of which reads refusals itself.             *)
MCClientOf == [c \in Calls |-> 1]
MCKinds == {"token", "session", "header"}

(* Two numbers of which one begins with the other, and the data of both;    *)
(* Dellin refuses the longer one's.                                         *)
MCCarriersOfOrders == Codes \ {"major"}
MCContaining == {<<"1", "1">>, <<"10", "10">>, <<"10", "1">>}
Everything == [places |-> 1, product |-> TRUE, index |-> TRUE, name |-> TRUE, office |-> TRUE,
               extras |-> {"region", "street", "house", "freight_uid", "cargo_description"}]
MCRequest == [n \in Numbers |-> IF n = "1" THEN Everything ELSE [Everything EXCEPT !.extras = @ \ {"freight_uid"}]]

Wish(wish, pickup, door, insured) ==
    [wish |-> wish, places |-> 1, index |-> TRUE, insured |-> insured, rub |-> ~insured,
     pickup |-> pickup, door |-> door]
Total(rate, vat, parts, partsVat, due) ==
    [rate |-> rate, vat |-> vat, parts |-> parts, partsVat |-> partsVat, due |-> due]
MCKnown == [c \in Codes |-> {"a", "b"}]
MCDefaults == [c \in Codes |-> IF c = "pochta" THEN <<"a", "b">> ELSE <<"a">>]
MCWishes == {Wish(<<>>, TRUE, TRUE, FALSE), Wish(<<"x">>, TRUE, FALSE, TRUE),
             Wish(<<"b", "a", "b", "x">>, FALSE, FALSE, FALSE)}
MCTotals == {Total(1224, 221, 1003, 221, 1224), Total(1003, 221, 1003, 221, 1224),
             Total(1003, 221, 0, 0, 1224), Total(1224, 221, 0, 0, 1224)}

(* What a part does not use stands still in one of its initial states.      *)
IdleCall == CallInit /\ kind = "header"
IdleOrders == Init /\ carrier = "cdek"
IdleQuotes == /\ quoting = "none" /\ profile = Unpriced /\ request = Unpriced /\ reply = <<>>
              /\ answered = 0 /\ offers = {} /\ refusal = FALSE /\ outcome = "none"
IdleAccount == AccountInit /\ accepted = {}

MCInit ==
    \/ part = "call" /\ CallInit /\ IdleOrders /\ IdleQuotes /\ IdleAccount
    \/ part = "orders" /\ Init /\ IdleCall /\ IdleQuotes /\ IdleAccount
    \/ part = "quotes" /\ QuotesInit /\ IdleCall /\ IdleOrders /\ IdleAccount
    \/ part = "account" /\ AccountInit /\ IdleCall /\ IdleOrders /\ IdleQuotes

MCNext ==
    /\ UNCHANGED part
    /\ \/ part = "call" /\ CallNext /\ UNCHANGED <<vars, quoteVars, accountVars>>
       \/ part = "orders" /\ Next /\ UNCHANGED <<callVars, quoteVars, accountVars>>
       \/ part = "quotes" /\ QuotesNext /\ UNCHANGED <<callVars, vars, accountVars>>
       \/ part = "account" /\ AccountNext /\ UNCHANGED <<callVars, vars, quoteVars>>

MCSpec == MCInit /\ [][MCNext]_<<part, callVars, vars, quoteVars, accountVars>>
=============================================================================
