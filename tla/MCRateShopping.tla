---------------------------- MODULE MCRateShopping ----------------------------
(* A small instance of RateShopping for TLC: accounts of two carriers, one of *)
(* them without insurance and with credentials that cannot be read; rules     *)
(* that allow all, or require insurance and deny one carrier to one city.     *)
EXTENDS RateShopping, TLC

CONSTANTS cdek, pochta, kazan, a1, a2

MCCarrierOf == (a1 :> cdek) @@ (a2 :> pochta)
MCPayloads == {[white |-> {}, black |-> {}, cities |-> {kazan}, deadline |-> TRUE],
               [white |-> {cdek, pochta}, black |-> {pochta}, cities |-> {kazan}, deadline |-> FALSE]}
MCDenied == [version \in Policies |-> [facts \in Facts |->
                IF version = "strict" /\ kazan \in facts[2] THEN {cdek} ELSE {}]]
MCInsuring == {"strict"} \X Facts
=============================================================================
