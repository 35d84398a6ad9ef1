----------------------------- MODULE AddressBook -----------------------------
(***************************************************************************)
(* The address book of a tenant: AddressBookService (core/service.py), its *)
(* two repositories, the unique indexes of core/models.py and the fitness  *)
(* of an address (shared/addresses.py).                                    *)
(*                                                                         *)
(* A request is one transaction at READ COMMITTED: it loads rows (Begin),  *)
(* an operation that names a default sender takes the mark from the rows   *)
(* that have it (ClearDefault) and locks them, and Commit writes the       *)
(* columns the ORM saw change, or nothing if a unique index refuses.       *)
(***************************************************************************)
EXTENDS Naturals, FiniteSets

CONSTANTS Counterparties, Addresses, Transactions, Keys, NoValue,
          MaxOperations, \* bound on the requests of a behaviour
          Fields        \* what an address may say of its city, house and country

ASSUME BookAssumption ==
    /\ Fields \subseteq [{"city", "house", "foreign"} -> BOOLEAN]
    /\ NoValue \notin {"yes", "no"} /\ MaxOperations \in Nat

VARIABLES party,        \* counterparties: their INN and KPP, and whether they live
          address,      \* rows of addresses
          session,      \* open transactions
          begun,        \* requests so far
          crossed       \* two requests that spoil each other's rows were open at once

bookVars == <<party, address, session, begun, crossed>>

(* assess_fitness.  Of the fields of an address the model keeps what its   *)
(* fitness depends on; city stands for city_fias_id, which update_address  *)
(* changes only together with the name of the city.                        *)
Fitness(f) ==
    IF f.foreign \/ ~f.city THEN "unusable" ELSE IF f.house THEN "door" ELSE "locality"

Absent == [alive |-> FALSE]
Resting == [pc |-> "idle"]

BookInit == /\ party = [p \in Counterparties |-> Absent]
        /\ address = [a \in Addresses |-> Absent]
        /\ session = [s \in Transactions |-> Resting]
        /\ begun = 0 /\ crossed = FALSE

LiveParty(p) == party[p].alive
LiveAddress(a) == address[a].alive
DefaultSenders == {a \in Addresses : LiveAddress(a) /\ address[a].default}
OpenOn(p) == {s \in Transactions : session[s].pc # "idle" /\ session[s].party = p}

\* Two edits of one address, or an address added to a counterparty that another
\* request deletes.
Crosses(t, u) ==
    \/ t.op = "update" /\ u.op = "update" /\ t.address = u.address
    \/ t.party = u.party /\ {t.op, u.op} = {"add", "delete"}

Starts(s, record) ==
    /\ session[s] = Resting /\ begun < MaxOperations
    /\ begun' = begun + 1
    /\ session' = [session EXCEPT ![s] = record]
    /\ crossed' = (crossed \/ \E q \in Transactions : session[q] # Resting /\ Crosses(session[q], record))
    /\ UNCHANGED <<party, address>>

(* get_by_inn: live counterparties with the pair INN and KPP.              *)
Known(key) == \E p \in Counterparties : LiveParty(p) /\ party[p].key = key

(* create: refused if the pair is known; ids are fresh.                    *)
BeginCreate(s, p, key) ==
    /\ party[p] = Absent /\ OpenOn(p) = {}
    /\ key # NoValue => ~Known(key)
    /\ Starts(s, [pc |-> "commit", op |-> "create", party |-> p, key |-> key, cleared |-> {}])

(* add_address: the counterparty was read first (404 if it is deleted).    *)
BeginAdd(s, p, a, fields, default) ==
    /\ LiveParty(p) /\ address[a] = Absent
    /\ \A q \in Transactions : session[q].pc # "idle" /\ session[q].op = "add" => session[q].address # a
    /\ Starts(s, [pc |-> IF default THEN "clear" ELSE "commit", op |-> "add", party |-> p,
                  address |-> a, cleared |-> {},
                  row |-> [owner |-> p, fields |-> fields, default |-> default,
                           fitness |-> Fitness(fields), alive |-> TRUE]])

(* update_address: the row is loaded with its owner.  No value for default *)
(* the mark as it is; the country is none of the fields of AddressUpdate.  *)
BeginUpdate(s, p, a, fields, default) ==
    /\ LiveParty(p) /\ LiveAddress(a) /\ address[a].owner = p
    /\ fields.foreign = address[a].fields.foreign
    /\ Starts(s, [pc |-> IF default = "yes" THEN "clear" ELSE "commit", op |-> "update",
                  party |-> p, address |-> a, cleared |-> {}, loaded |-> address[a],
                  row |-> [address[a] EXCEPT !.fields = fields, !.fitness = Fitness(fields),
                             !.default = IF default = NoValue THEN @ ELSE default = "yes"]])

(* soft_delete: the counterparty and the list of its addresses are read.   *)
BeginDelete(s, p) ==
    /\ LiveParty(p)
    /\ Starts(s, [pc |-> "commit", op |-> "delete", party |-> p, cleared |-> {},
                  addresses |-> {a \in Addresses : LiveAddress(a) /\ address[a].owner = p}])

(* clear_default_sender: the UPDATE waits for rows another one has locked. *)
ClearDefault(s) ==
    LET marked == IF session[s].op = "update" THEN DefaultSenders \ {session[s].address}
                                              ELSE DefaultSenders
    IN  /\ session[s].pc = "clear"
        /\ \A q \in Transactions \ {s} : session[q].pc = "commit" => session[q].cleared \cap marked = {}
        /\ session' = [session EXCEPT ![s].pc = "commit", ![s].cleared = marked]
        /\ UNCHANGED <<party, address, begun, crossed>>

(* The fitness as it was stored, whatever the fields are now.              *)
MergedStaleFitness(s, now) ==
    LET old == session[s].loaded
        new == session[s].row
    IN  [now EXCEPT
           !.fields = [f \in DOMAIN now.fields |->
               IF new.fields[f] = old.fields[f] THEN now.fields[f] ELSE new.fields[f]],
           !.default = IF new.default = old.default THEN @ ELSE new.default]

(* The columns an update changed, over whatever the row holds now.         *)
Merged(s, now) ==
    LET old == session[s].loaded
        new == session[s].row
    IN  [now EXCEPT
           !.fields = [f \in DOMAIN now.fields |->
               IF new.fields[f] = old.fields[f] THEN now.fields[f] ELSE new.fields[f]],
           !.default = IF new.default = old.default THEN @ ELSE new.default,
           !.fitness = IF new.fitness = old.fitness THEN @ ELSE new.fitness]

Unmarked(row) == [row EXCEPT !.default = FALSE]
Gone(row) == [row EXCEPT !.alive = FALSE, !.default = FALSE]

(* What the addresses are if the transaction commits.                      *)
Written(s) ==
    [a \in Addresses |->
       CASE a \in session[s].cleared -> Unmarked(address[a])
         [] session[s].op = "add" /\ a = session[s].address -> session[s].row
         [] session[s].op = "update" /\ a = session[s].address -> Merged(s, address[a])
         [] session[s].op = "delete" /\ a \in session[s].addresses -> Gone(address[a])
         [] OTHER -> address[a]]

WrittenParty(s) ==
    CASE session[s].op = "create" ->
           [party EXCEPT ![session[s].party] = [key |-> session[s].key, alive |-> TRUE]]
      [] session[s].op = "delete" -> [party EXCEPT ![session[s].party].alive = FALSE]
      [] OTHER -> party

(* uq_addresses_tenant_id_default_sender, uq_counterparties_..._inn_kpp.   *)
IndexesHold(parties, addresses) ==
    /\ Cardinality({a \in Addresses : addresses[a].alive /\ addresses[a].default}) <= 1
    /\ \A p, q \in Counterparties :
          (parties[p].alive /\ parties[q].alive /\ parties[p].key = parties[q].key) =>
              (p = q \/ parties[p].key = NoValue)

(* The answer is 409 if an index refuses, and nothing of it is kept.       *)
Commit(s) ==
    /\ session[s].pc = "commit"
    /\ IF IndexesHold(WrittenParty(s), Written(s))
       THEN party' = WrittenParty(s) /\ address' = Written(s)
       ELSE UNCHANGED <<party, address>>
    /\ session' = [session EXCEPT ![s] = Resting]
    /\ UNCHANGED <<begun, crossed>>

(* An operation that is refused after it took the mark from the others     *)
(* (update_address clears before _apply rejects an empty city), or whose   *)
(* process dies: the transaction is rolled back.                           *)
Refuse(s) ==
    /\ session[s].pc = "commit"
    /\ session' = [session EXCEPT ![s] = Resting]
    /\ UNCHANGED <<party, address, begun, crossed>>

BookNext == \E s \in Transactions :
          \/ \E p \in Counterparties :
                \/ \E key \in Keys \cup {NoValue} : BeginCreate(s, p, key)
                \/ \E a \in Addresses, fields \in Fields :
                      \/ \E default \in BOOLEAN : BeginAdd(s, p, a, fields, default)
                      \/ \E default \in {"yes", "no", NoValue} : BeginUpdate(s, p, a, fields, default)
                \/ BeginDelete(s, p)
          \/ ClearDefault(s)
          \/ Commit(s)
          \/ Refuse(s)

BookSpec == BookInit /\ [][BookNext]_bookVars

(***************************************************************************)
(* Properties.                                                             *)
(***************************************************************************)

(* An address is as fit as its fields say (a shipment to the door is       *)
(* refused by it) and a deleted counterparty leaves no address behind,     *)
(* through any overlap of requests but two: two edits of one address, and  *)
(* an address added while its counterparty is deleted.                     *)
BookIsConsistent ==
    ~crossed => \A a \in Addresses : LiveAddress(a) =>
        /\ address[a].fitness = Fitness(address[a].fields)
        /\ LiveParty(address[a].owner)

(* "There is exactly one default sender" (update_address): a step leaves   *)
(* none only if it deletes that address or takes the mark from it by name. *)
MarkIsHandedOn ==
    [][DefaultSenders # {} /\ DefaultSenders' = {} =>
         \E s \in Transactions :
            /\ session[s].pc = "commit"
            /\ \/ session[s].op = "delete"
               \/ session[s].op = "update" /\ ~session[s].row.default]_bookVars

(* "The fitness is computed anew, or the edit looks accepted and the       *)
(* shipment still cannot be created" (update_address): of every address.   *)
FitnessIsOfTheFields ==
    \A a \in Addresses : LiveAddress(a) => address[a].fitness = Fitness(address[a].fields)
=============================================================================
