--------------------------- MODULE CarrierQuotes ---------------------------
(* quote() of the adapters: which products of a carrier are asked for, what *)
(* stops a request before it is sent, how a reply is read and whose refusal *)
(* ends the request. CDEK and Pecom are asked once for all products, Pochta *)
(* and Dellin once for each; Major has no integration. Addresses, sizes and *)
(* dates are left out: no carrier's adapter decides by them.                *)
EXTENDS Integers, Sequences, SequencesExt

CONSTANTS Adapters,   \* a subset of {"cdek", "pochta", "dellin", "pecom", "major"}
          Known,      \* per carrier: the products its adapter knows
          Defaults,   \* per carrier: the products asked for if none are named
          Wishes,     \* records [wish, places, index, insured, rub, pickup, door]
          Totals,     \* external: how Pochta may price a parcel, [rate, vat,
                      \* parts, partsVat, due]
          Unpriced

(* An answer of Pochta that shows its parts explains itself: they are the   *)
(* whole tax, and the total is without it or with it.                       *)
ASSUME QuotesAssumption ==
    /\ Adapters \subseteq {"cdek", "pochta", "dellin", "pecom", "major"}
    /\ \A c \in Adapters : Defaults[c] \in Seq(Known[c])
    /\ \A r \in Wishes : r.wish \in Seq(ToSet(r.wish))
    /\ \A t \in Totals :
          /\ {t.rate, t.vat, t.parts, t.partsVat, t.due} \subseteq Nat
          /\ t.parts > 0 => /\ t.due = t.parts + t.partsVat /\ t.vat = t.partsVat
                            /\ t.rate \in {t.parts, t.due}
          /\ t.parts = 0 => t.due \in {t.rate, t.rate + t.vat}

VARIABLES quoting,
          profile,   \* [has: credentials, own: by the client's contract, sandbox,
             \*  url: "none", "valid" or "invalid"]
          request,
          reply,     \* external: how the carrier will answer for each product
          answered,  \* how many of the products have been answered
          offers,    \* pairs of a product asked for and its price
          refusal,   \* Pochta's adapter keeps the last refusal
          outcome    \* "none", "offers" or the error that left quote()
quoteVars == <<quoting, profile, request, reply, answered, offers, refusal, outcome>>
-----------------------------------------------------------------------------
(* What is asked for.                                                      *)
Took(acc, x, known, twice) ==
    IF x \in known /\ (twice \/ x \notin ToSet(acc)) THEN Append(acc, x) ELSE acc
KnownOf(wish, known, twice) == FoldLeft(LAMBDA acc, x : Took(acc, x, known, twice), <<>>, wish)
OrDefaults(chosen, defaults) == IF chosen = <<>> THEN defaults ELSE chosen

(* products_for, delivery_types_for, tariff_types_for: unknown products are *)
(* dropped, and if nothing remains the defaults are asked for. Dellin is    *)
(* asked twice for what is named twice.                                     *)
ProductsFor(wish) == OrDefaults(KnownOf(wish, Known["pochta"], FALSE), Defaults["pochta"])
DeliveryTypesFor(wish) == OrDefaults(KnownOf(wish, Known["dellin"], TRUE), Defaults["dellin"])
TariffTypesFor(wish) == OrDefaults(KnownOf(wish, Known["pecom"], FALSE), Defaults["pecom"])

(* CDEK answers with every tariff it has, in its delivery modes.            *)
CdekRows == <<1, 2, 3, 4, 6, 7>>
ModesForRequest(r) == IF r.pickup THEN IF r.door THEN {1} ELSE {2, 6}
                                  ELSE IF r.door THEN {3} ELSE {4, 7}

ProductsOf(c, r) == CASE c = "pochta" -> ProductsFor(r.wish) [] c = "dellin" -> DeliveryTypesFor(r.wish)
                      [] c = "pecom" -> TariffTypesFor(r.wish) [] OTHER -> CdekRows
Asked == DOMAIN reply
-----------------------------------------------------------------------------
(* Credentials: CREDENTIAL_SCHEMAS, with the sets of fields that stand for  *)
(* each other, the one that is named as missing first.                      *)
Required == [cdek |-> {"client_id", "client_secret"}, pochta |-> {"token"}, dellin |-> {"appkey"},
             pecom |-> {"login", "api_key"}, major |-> {"login", "password"}]
AnyOf == [c \in Adapters |-> IF c = "pochta" THEN <<{"user_key"}, {"login", "password"}>> ELSE <<>>]
Fields(c) == Required[c] \cup (IF c \in {"pochta", "dellin"} THEN {"pat", "user_key", "login", "password"} ELSE {})

\* Mutant of MissingFields: the alternatives are nobody's requirement.
MissingFieldsOneByOne(c, has) == Required[c] \ has

\* missing_fields: what an account is refused for when it is written.
MissingFields(c, has) ==
    (Required[c] \ has)
    \cup (IF AnyOf[c] = <<>> \/ \E i \in DOMAIN AnyOf[c] : AnyOf[c][i] \subseteq has
            THEN {} ELSE AnyOf[c][1])

(* What the adapters' own _default_client and the clients insist on.        *)
CdekClient(a) == {"client_id", "client_secret"} \subseteq a.has
PochtaUserKey(a) == "user_key" \in a.has \/ {"login", "password"} \subseteq a.has
(* A given address is checked, in the sandbox too.                          *)
PochtaBaseUrl(a) == a.url = "valid" \/ (a.url = "none" /\ a.sandbox)
PochtaClient(a) == "token" \in a.has /\ PochtaUserKey(a) /\ PochtaBaseUrl(a)
DellinClient(a) == "appkey" \in a.has
DellinCanAuthorize(a) == "pat" \in a.has \/ {"login", "password"} \subseteq a.has
(* A contract price needs the way into the client's account.                *)
DellinSessionForContract(a) == a.own => DellinCanAuthorize(a)
PecomClient(a) == {"login", "api_key"} \subseteq a.has
MayCall(c, a) == CASE c = "cdek" -> CdekClient(a) [] c = "pochta" -> PochtaClient(a)
                   [] c = "dellin" -> DellinClient(a) /\ DellinSessionForContract(a)
                   [] c = "pecom" -> PecomClient(a) [] OTHER -> FALSE

(* Pochta prices one place by post codes, and insures in roubles.           *)
RequireSinglePlace(r) == r.places = 1
TariffPayload(r) == RequireSinglePlace(r) /\ r.index /\ (r.insured => r.rub)
-----------------------------------------------------------------------------
(* Pochta's price: whether the total holds the tax. The parts of the answer *)
(* say it exactly; without them a tax above 22/122 of the total shows that  *)
(* it comes on top; and what remains unclear is added.                      *)
VatPercent == 22
VatTooBig(t) == t.vat > 0 /\ t.vat * (100 + VatPercent) > t.rate * VatPercent

\* vat_reading.
VatReading(t) ==
    IF t.parts > 0 /\ t.partsVat > 0 /\ t.rate = t.parts THEN "excluded"
    ELSE IF t.parts > 0 /\ t.partsVat > 0 /\ t.rate = t.parts + t.partsVat THEN "included"
    ELSE IF VatTooBig(t) THEN "excluded" ELSE "inconclusive"

\* total_price.
TotalPrice(t) == IF VatReading(t) = "included" THEN t.rate ELSE t.rate + t.vat

(* "price": an offer; "hollow": no price or no tariff in the reply;         *)
(* "refused": the carrier will not take this product; "contract": a price   *)
(* on demand (Dellin); "fault": a refusal of the request, the token or the  *)
(* call. In an answer for all products at once a refused one is left out,   *)
(* and the call has a fault or has none.                                    *)
Of(kinds) == {[kind |-> k, total |-> Unpriced] : k \in kinds}
PochtaReplies == Of({"hollow", "refused", "fault"}) \cup {[kind |-> "price", total |-> t] : t \in Totals}
DellinReplies == Of({"price", "hollow", "refused", "contract", "fault"})
RowReplies == Of({"price", "hollow"})
RepliesOf(c) == CASE c = "pochta" -> PochtaReplies [] c = "dellin" -> DellinReplies
                  [] c = "pecom" -> RowReplies \cup Of({"refused"}) [] OTHER -> RowReplies
Price(i) == IF quoting = "pochta" THEN TotalPrice(reply[i].total) ELSE 0

Profiles(c) == {[has |-> h, own |-> o, sandbox |-> TRUE, url |-> "none"] :
                   h \in SUBSET Fields(c), o \in BOOLEAN}
               \cup {[has |-> Fields(c), own |-> FALSE, sandbox |-> s, url |-> u] :
                        s \in BOOLEAN, u \in {"none", "valid", "invalid"}}

QuotesInit ==
    /\ quoting \in Adapters /\ profile \in Profiles(quoting)
    /\ request \in Wishes
    /\ reply \in [DOMAIN ProductsOf(quoting, request) -> RepliesOf(quoting)]
    /\ answered = 0 /\ offers = {} /\ refusal = FALSE /\ outcome = "none"

EndQuote(result) ==
    /\ outcome' = result
    /\ UNCHANGED <<quoting, profile, request, reply, answered, offers, refusal>>

Refuse == /\ outcome = "none" /\ answered = 0 /\ quoting # "major" /\ ~MayCall(quoting, profile)
          /\ EndQuote("validation")
(* Major: fields, then the description of its service, then the method.    *)
NotConfigured == /\ outcome = "none" /\ quoting = "major"
                 /\ EndQuote("not configured")

Running(c) == outcome = "none" /\ quoting = c /\ MayCall(c, profile) /\ answered < Len(reply)

(* CDEK: rows of another mode and rows without a price drop out; errors of  *)
(* the request are raised.                                                  *)
AskCdek ==
    /\ Running("cdek")
    /\ \/ EndQuote("fault")
       \/ /\ offers' = {<<i, Price(i)>> : i \in {j \in Asked : /\ reply[j].kind = "price"
                                                              /\ CdekRows[j] \in ModesForRequest(request)}}
          /\ answered' = Len(reply) /\ outcome' = "offers"
          /\ UNCHANGED <<quoting, profile, request, reply, refusal>>

(* Pecom: a row with an error of its own or without a price drops out.      *)
AskPecom ==
    /\ Running("pecom")
    /\ \/ EndQuote("fault")
       \/ /\ offers' = {<<i, Price(i)>> : i \in {j \in Asked : reply[j].kind = "price"}}
          /\ answered' = Len(reply) /\ outcome' = "offers"
          /\ UNCHANGED <<quoting, profile, request, reply, refusal>>

NextProduct(kept) ==
    /\ answered' = answered + 1
    /\ offers' = IF reply[answered + 1].kind = "price"
                   THEN offers \cup {<<answered + 1, Price(answered + 1)>>} ELSE offers
    /\ refusal' = kept
    /\ UNCHANGED <<quoting, profile, request, reply, outcome>>

\* Mutant of PochtaFatal: every refusal ends the request.
PochtaFatalAlways(kind) == kind \in {"fault", "refused"}

\* What concerns the whole request ends it, a product that is refused does not.
PochtaFatal(kind) == kind = "fault"

\* Pochta: one call for each product.
AskPochta ==
    /\ Running("pochta")
    /\ IF ~TariffPayload(request) THEN EndQuote("validation")
       ELSE IF PochtaFatal(reply[answered + 1].kind) THEN EndQuote(reply[answered + 1].kind)
       ELSE NextProduct(refusal \/ reply[answered + 1].kind = "refused")

(* Dellin: one call for each delivery type; any refusal ends the request.   *)
AskDellin ==
    /\ Running("dellin")
    /\ IF reply[answered + 1].kind \in {"fault", "refused", "contract"}
         THEN EndQuote(reply[answered + 1].kind)
         ELSE NextProduct(FALSE)

(* Everything is answered; if no offer survived, the last refusal is raised. *)
Finish == /\ outcome = "none" /\ answered = Len(reply)
          /\ EndQuote(IF offers = {} /\ refusal THEN "refused" ELSE "offers")

QuotesNext == Refuse \/ NotConfigured \/ AskCdek \/ AskPecom \/ AskPochta \/ AskDellin \/ Finish
QuotesSpec == QuotesInit /\ [][QuotesNext]_quoteVars
-----------------------------------------------------------------------------
Priced == {i \in Asked : /\ reply[i].kind = "price"
                         /\ quoting = "cdek" => CdekRows[i] \in ModesForRequest(request)}

(* pochta/adapter.py:179: a product the carrier will not take hides itself  *)
(* and not the others (at Dellin any refusal ends the request), and a       *)
(* reasoned refusal of everything is not told as "nothing goes there"       *)
(* (Pecom's is). mapping.py:284: a price holds the tax, once if the answer  *)
(* explains itself.                                                         *)
TaxedOnce(price, t) == IF t.parts > 0 THEN price = t.due ELSE price >= t.due
AnswerIsWhole ==
    /\ outcome = "offers" =>
         /\ {o[1] : o \in offers} = Priced
         /\ quoting # "pecom" => Priced # {} \/ \A i \in Asked : reply[i].kind # "refused"
         /\ quoting = "pochta" => \A o \in offers : TaxedOnce(o[2], reply[o[1]].total)
    /\ outcome \in {"refused", "contract"} => quoting = "dellin" \/ Priced = {}

(* credentials.py:80: an account that passes the check of its fields does   *)
(* not fail at the first quote. What may still be refused is the request    *)
(* itself, a contract without the way into it (Dellin) and Pochta's address, *)
(* which is no credential, if it is wrong or the real service has none.     *)
CompleteAccountIsAsked ==
    outcome = "validation" /\ MissingFields(quoting, profile.has) = {} =>
        \/ /\ quoting = "pochta"
           /\ \/ ~TariffPayload(request)
              \/ profile.url # "valid" /\ ~(profile.url = "none" /\ profile.sandbox)
        \/ quoting = "dellin" /\ profile.own
=============================================================================
