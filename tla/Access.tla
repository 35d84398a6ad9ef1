------------------------------- MODULE Access -------------------------------
(***************************************************************************)
(* Who sees which rows: the pool of connections and the settings of a      *)
(* transaction (db.py), the row-level policies of the migrations 0002,     *)
(* 0008 and 0010, the two look-up windows of core/service.py, the one of   *)
(* shipments/repository.py, and the way a request finds its tenant         *)
(* (core/deps.py, tracking/inbound.py, session_scope of the worker).       *)
(*                                                                         *)
(* A row is a table and the tenant it belongs to.  The work of a request   *)
(* is a statement without WHERE: it reads and updates every row the        *)
(* policies let it.                                                        *)
(***************************************************************************)
EXTENDS FiniteSets

CONSTANTS Tenants, Connections, Requests, None

VARIABLES settings,     \* of each connection: app.tenant_id and app.auth_scope
          request,      \* how far each request is
          live,         \* users that are active and keys that are not revoked
          touched       \* the rows a request has read or written at its work

vars == <<settings, request, live, touched>>

Tables == {"users", "api_keys", "shipments"}
Rows == Tables \X Tenants
Unset == [tenant |-> None, scope |-> None]
Idle == [pc |-> "idle"]

(* The policies: tenant_isolation on every table, and per table a window   *)
(* for SELECT that a scope opens.                                          *)
Window == [users |-> "login", api_keys |-> "api_key", shipments |-> "webhook"]
Readable(c) == {row \in Rows : \/ row[2] = settings[c].tenant
                               \/ settings[c].scope = Window[row[1]]}
Writable(c) == {row \in Rows : row[2] = settings[c].tenant}

(* How a request says who it is.                                           *)
WindowOf == [login |-> "login", key |-> "api_key", webhook |-> "webhook"]
TableOf == [login |-> "users", key |-> "api_keys", webhook |-> "shipments", token |-> "users"]
Kinds == {"login", "key", "webhook", "token", "task", "platform"}

Init == /\ settings = [c \in Connections |-> Unset]
        /\ request = [r \in Requests |-> Idle]
        /\ live = {"users", "api_keys"} \X Tenants
        /\ touched = [r \in Requests |-> {}]

(* Between its two transactions the webhook holds no connection.           *)
Between(r) == request[r].pc = "found" /\ request[r].kind = "webhook"
Holding == {r \in Requests : request[r].pc \notin {"idle", "done"} /\ ~Between(r)}
Free(c) == \A r \in Holding : request[r].conn # c

(* A transaction starts on a free connection of the pool.  late: what the  *)
(* request presents had been revoked or switched off before.               *)
Begin(r, kind, tenant, c) ==
    /\ request[r] = Idle
    /\ Free(c)
    /\ request' = [request EXCEPT ![r] =
          [pc |-> "begun", kind |-> kind, tenant |-> tenant, conn |-> c,
           late |-> kind \in {"login", "key", "token"} /\ <<TableOf[kind], tenant>> \notin live]]
    /\ UNCHANGED <<settings, live, touched>>

Goes(r, pc) == request' = [request EXCEPT ![r].pc = pc]

(* SET without LOCAL: the tenant outlives the transaction.                 *)
EndedKeepsTenant(c) == settings' = [settings EXCEPT ![c].scope = None]

(* set_config(..., true): until the end of the transaction.                *)
Ended(c) == settings' = [settings EXCEPT ![c] = Unset]

(* _lookup_user, _lookup_key, find_for_webhook: the tenant is not known    *)
(* yet, a window on one table opens.                                       *)
OpenWindow(r) ==
    /\ request[r].pc = "begun" /\ request[r].kind \in DOMAIN WindowOf
    /\ settings' = [settings EXCEPT ![request[r].conn].scope = WindowOf[request[r].kind]]
    /\ Goes(r, "window")
    /\ UNCHANGED <<live, touched>>

(* get_by_email, get_by_hash, the SELECT of find_for_webhook.  A revoked   *)
(* key is not found, a user who is switched off is refused.                *)
Found(r) ==
    LET row == <<TableOf[request[r].kind], request[r].tenant>>
    IN  row \in Readable(request[r].conn) /\ (row[1] \in {"users", "api_keys"} => row \in live)

(* The window is closed again; the webhook's closes with its transaction,  *)
(* and the rest runs in a second one under the tenant of the shipment.     *)
LookUp(r) ==
    /\ request[r].pc = "window"
    /\ Found(r)
    /\ IF request[r].kind = "webhook"
       THEN Ended(request[r].conn)
       ELSE settings' = [settings EXCEPT ![request[r].conn].scope = None]
    /\ Goes(r, "found")
    /\ UNCHANGED <<live, touched>>

(* The second transaction of the webhook may get another connection.       *)
SetTenant(r) ==
    /\ \/ request[r].pc = "found"
       \/ request[r].pc = "begun" /\ request[r].kind \in {"token", "task"}
    /\ \E c \in Connections :
          /\ IF Between(r) THEN Free(c) ELSE c = request[r].conn
          /\ settings' = [settings EXCEPT ![c].tenant = request[r].tenant]
          /\ request' = [request EXCEPT ![r].pc =
                            IF request[r].kind = "token" THEN "tenant" ELSE "work",
                         ![r].conn = c]
    /\ UNCHANGED <<live, touched>>

(* current_principal: the token is signed by us, but its user may have     *)
(* been switched off since; the row is read under the tenant.              *)
CheckUser(r) ==
    /\ request[r].pc = "tenant"
    /\ Found(r)
    /\ Goes(r, "work")
    /\ UNCHANGED <<settings, live, touched>>

(* session_scope() without a tenant: the worker's list of tenants, the     *)
(* directories.  It works under no tenant at all.                          *)
NoTenant(r) ==
    /\ request[r].pc = "begun" /\ request[r].kind = "platform"
    /\ Goes(r, "work")
    /\ UNCHANGED <<settings, live, touched>>

Work(r) ==
    /\ request[r].pc = "work"
    /\ touched' = [touched EXCEPT ![r] = Readable(request[r].conn) \cup Writable(request[r].conn)]
    /\ Ended(request[r].conn)
    /\ Goes(r, "done")
    /\ UNCHANGED live

(* A refusal, an exception or the death of the process, at any point: the  *)
(* transaction is rolled back and the connection returns to the pool.      *)
Abort(r) ==
    /\ request[r].pc \notin {"idle", "done"}
    /\ IF Between(r) THEN UNCHANGED settings ELSE Ended(request[r].conn)
    /\ Goes(r, "done")
    /\ UNCHANGED <<live, touched>>

(* ApiKeyService.revoke; a user is switched off in the database.           *)
Revoke(row) ==
    /\ live' = live \ {row}
    /\ row \in live
    /\ UNCHANGED <<settings, request, touched>>

Next == \/ \E r \in Requests, kind \in Kinds, t \in Tenants, c \in Connections : Begin(r, kind, t, c)
        \/ \E r \in Requests : OpenWindow(r) \/ LookUp(r) \/ SetTenant(r) \/ CheckUser(r)
                                  \/ NoTenant(r) \/ Work(r) \/ Abort(r)
        \/ \E row \in live : Revoke(row)

Spec == Init /\ [][Next]_vars

(***************************************************************************)
(* Properties.                                                             *)
(***************************************************************************)

(* Isolation: whatever a request touches belongs to the tenant it proved   *)
(* to act for (to nobody, if it acts for the platform), whoever used its   *)
(* connection before, however that ended and whatever window it had open;  *)
(* and while a window is open nothing can be written. Who was revoked or    *)
(* switched off before a request began touches nothing by it.              *)
OwnRowsOnly ==
    /\ \A r \in Requests : touched[r] # {} =>
          /\ request[r].kind # "platform" /\ ~request[r].late
          /\ \A row \in touched[r] : row[2] = request[r].tenant
    /\ \A c \in Connections : settings[c].scope # None => Writable(c) = {}
=============================================================================
