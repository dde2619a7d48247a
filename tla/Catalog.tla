-------------------------------- MODULE Catalog --------------------------------
(***************************************************************************)
(* Clients and locations, and the work orders that name them:              *)
(*   backend/app/api/v1/clients.py, backend/app/api/v1/locations.py,       *)
(*   the places of orders in backend/app/services/work_order_service.py    *)
(*                                                                         *)
(* As in WorkOrders, a request reads in one step and commits in another.   *)
(* Rows are deleted by setting deleted_at, so a deleted row still counts   *)
(* for the unique constraints and foreign keys.                            *)
(***************************************************************************)
CONSTANTS
    Clients,    \* ids a clients row may get
    Codes,      \* client codes
    Locations,  \* ids a locations row may get
    Tokens,     \* QR code tokens
    Blank,      \* the empty string among them
    WorkOrders, \* ids a work_orders row may get
    Workers,    \* requests that can be in flight at the same time
    None        \* SQL NULL

ASSUME NoneAssumption == None \notin Clients \cup Codes \cup Locations \cup Tokens \cup WorkOrders
ASSUME BlankAssumption == Blank \in Tokens

VARIABLES
    clients,
    locations,
    orders,    \* the places of the work_orders rows, and whether they are open
    session,   \* what the request each worker is serving has read
    raced      \* history: what two requests in flight at a time were about

vars == <<clients, locations, orders, session, raced>>

-----------------------------------------------------------------------------
(* Rows.  A row with its first column None is not there. *)

Things == Codes \cup Tokens \cup Clients \cup Locations

ClientRow == [code : Codes \cup {None}, deleted : BOOLEAN]
LocationRow == [client : Clients \cup {None}, token : Tokens \cup {None}, deleted : BOOLEAN]

\* open: the status is draft, scheduled, in_progress or on_hold.  late is history:
\* the client was deleted when the order was made.
OrderRow == [client : Clients \cup {None}, location : Locations \cup {None}, open : BOOLEAN,
             deleted : BOOLEAN, parent : WorkOrders \cup {None}, late : BOOLEAN]

NoClient == [code |-> None, deleted |-> FALSE]
NoLocation == [client |-> None, token |-> None, deleted |-> FALSE]
NoOrder == [client |-> None, location |-> None, open |-> FALSE, deleted |-> FALSE,
            parent |-> None, late |-> FALSE]
Idle == [op |-> "idle", about |-> {}]

\* _get_client_or_404, _assert_client_exists, _get_location_or_404
LiveClient(c) == clients[c].code # None /\ ~clients[c].deleted
LiveLocation(l) == locations[l].client # None /\ ~locations[l].deleted

Open(w) == orders[w].open /\ ~orders[w].deleted
Fresh == {w \in WorkOrders : orders[w].client = None}

\* The unique constraints on (tenant_id, code) and on qr_code_token let c have the
\* code and l the token.
CodeFits(c, code) == \A d \in Clients \ {c} : clients[d].code # code
TokenFits(l, token) == \A m \in Locations \ {l} : token # None => locations[m].token # token

\* The value a column has after an assignment to the loaded object: unchanged
\* columns are not written.
Written(now, loaded, assigned) == IF assigned = loaded THEN now ELSE assigned

-----------------------------------------------------------------------------
(* Sessions. *)

Begin(k, request) ==
    /\ session[k] = Idle
    /\ session' = [session EXCEPT ![k] = request]
    /\ raced' = raced \cup (request.about \cap UNION {session[j].about : j \in Workers})
    /\ UNCHANGED <<clients, locations, orders>>

Serving(k, op) == session[k].op = op
Done(k) == session' = [session EXCEPT ![k] = Idle] /\ UNCHANGED raced

\* An exception rolls the request back: a unique constraint, a bad payload, a lost
\* connection.
Rollback(k) ==
    /\ session[k] # Idle
    /\ Done(k)
    /\ UNCHANGED <<clients, locations, orders>>

-----------------------------------------------------------------------------
(* POST /clients, and PATCH /clients/{id} with a new code.  The check for    *)
(* duplicates looks at live clients.                                        *)

CodeUnused(code) == \A c \in Clients : LiveClient(c) => clients[c].code # code

CreateClientRead(k, code) ==
    /\ CodeUnused(code)
    /\ Begin(k, [op |-> "create_client", code |-> code, about |-> {code}])

CreateClientCommit(k, c) ==
    LET s == session[k] IN
    /\ Serving(k, "create_client")
    /\ clients[c].code = None
    /\ CodeFits(c, s.code)
    /\ clients' = [clients EXCEPT ![c] = [code |-> s.code, deleted |-> FALSE]]
    /\ Done(k)
    /\ UNCHANGED <<locations, orders>>

UpdateClientRead(k, c, code) ==
    /\ LiveClient(c)
    /\ code # clients[c].code
    /\ CodeUnused(code)
    /\ Begin(k, [op |-> "update_client", client |-> c, code |-> code, about |-> {code}])

UpdateClientCommit(k) ==
    LET s == session[k] IN
    /\ Serving(k, "update_client")
    /\ CodeFits(s.client, s.code)
    /\ clients' = [clients EXCEPT ![s.client].code = s.code]
    /\ Done(k)
    /\ UNCHANGED <<locations, orders>>

-----------------------------------------------------------------------------
(* DELETE /clients/{id}: refused while the client has open work orders.     *)

DeleteClientRead(k, c) ==
    /\ LiveClient(c)
    /\ ~\E w \in WorkOrders : Open(w) /\ orders[w].client = c
    /\ Begin(k, [op |-> "delete_client", client |-> c, about |-> {c}])

DeleteClientCommit(k) ==
    /\ Serving(k, "delete_client")
    /\ clients' = [clients EXCEPT ![session[k].client].deleted = TRUE]
    /\ Done(k)
    /\ UNCHANGED <<locations, orders>>

-----------------------------------------------------------------------------
(* POST /locations and PATCH /locations/{id}.  The check for duplicates      *)
(* looks at deleted locations too, but not at all for the empty string.      *)

TokenUnusedByLive(l, token) ==
    \A m \in Locations \ {l} :
        LiveLocation(m) => token \in {None, Blank} \/ locations[m].token # token

TokenUnused(l, token) ==
    \A m \in Locations \ {l} : token \in {None, Blank} \/ locations[m].token # token

CreateLocationRead(k, c, token) ==
    /\ LiveClient(c)
    /\ TokenUnused(None, token)
    /\ Begin(k, [op |-> "create_location", client |-> c, token |-> token,
                 about |-> {token} \ {None}])

CreateLocationCommit(k, l) ==
    LET s == session[k] IN
    /\ Serving(k, "create_location")
    /\ locations[l].client = None
    /\ TokenFits(l, s.token)
    /\ locations' = [locations EXCEPT ![l] =
                       [client |-> s.client, token |-> s.token, deleted |-> FALSE]]
    /\ Done(k)
    /\ UNCHANGED <<clients, orders>>

\* c = None: the payload names no client.  A token equal to the loaded one stands
\* for none in the payload.
UpdateLocationRead(k, l, c, token) ==
    /\ LiveLocation(l)
    /\ token # locations[l].token => TokenUnused(l, token)
    /\ c # None => LiveClient(c)
    /\ Begin(k, [op |-> "update_location", location |-> l, client |-> c, token |-> token,
                 seen |-> locations[l], about |-> {token} \ {None, locations[l].token}])

UpdatedLocationUnset(row, seen, c, token) ==
    [row EXCEPT !.token = Written(@, seen.token, token),
                !.client = Written(@, seen.client, c)]

UpdatedLocation(row, seen, c, token) ==
    [row EXCEPT !.token = Written(@, seen.token, token),
                !.client = IF c = None THEN @ ELSE Written(@, seen.client, c)]

UpdateLocationCommit(k) ==
    LET s == session[k]
        new == UpdatedLocation(locations[s.location], s.seen, s.client, s.token)
    IN
    /\ Serving(k, "update_location")
    /\ TokenFits(s.location, new.token)
    /\ locations' = [locations EXCEPT ![s.location] = new]
    /\ Done(k)
    /\ UNCHANGED <<clients, orders>>

-----------------------------------------------------------------------------
(* DELETE /locations/{id}: refused while it has open work orders.           *)

DeleteLocationReadAny(k, l) ==
    /\ LiveLocation(l)
    /\ Begin(k, [op |-> "delete_location", location |-> l, about |-> {l}])

DeleteLocationRead(k, l) ==
    /\ LiveLocation(l)
    /\ ~\E w \in WorkOrders : Open(w) /\ orders[w].location = l
    /\ Begin(k, [op |-> "delete_location", location |-> l, about |-> {l}])

DeleteLocationCommit(k) ==
    /\ Serving(k, "delete_location")
    /\ locations' = [locations EXCEPT ![session[k].location].deleted = TRUE]
    /\ Done(k)
    /\ UNCHANGED <<clients, orders>>

-----------------------------------------------------------------------------
(* Work orders, as far as they name places.                                 *)

Places(w) == {orders[w].client, orders[w].location}
NewOrder(c, l, parent, late) ==
    [client |-> c, location |-> l, open |-> TRUE, deleted |-> FALSE,
     parent |-> parent, late |-> late]

\* POST /work-orders: the location is looked up, the client only has to be a row.
CreateOrderRead(k, c, l) ==
    /\ clients[c].code # None
    /\ LiveLocation(l)
    /\ Begin(k, [op |-> "create_order", client |-> c, location |-> l,
                 late |-> clients[c].deleted, about |-> {c, l}])

CreateOrderCommit(k, w) ==
    LET s == session[k] IN
    /\ Serving(k, "create_order")
    /\ w \in Fresh
    /\ orders' = [orders EXCEPT ![w] = NewOrder(s.client, s.location, None, s.late)]
    /\ Done(k)
    /\ UNCHANGED <<clients, locations>>

\* PATCH /work-orders/{id}, check-in and /complete of an open order.
ChangeStatusRead(k, w) ==
    /\ orders[w].client # None
    /\ Open(w)
    /\ Begin(k, [op |-> "status", order |-> w, about |-> Places(w)])

\* PATCH and check-in: the order gets a status, or keeps the one it has.
ChangeStatusCommit(k) ==
    /\ Serving(k, "status")
    /\ \E open \in BOOLEAN : orders' = [orders EXCEPT ![session[k].order].open = open]
    /\ Done(k)
    /\ UNCHANGED <<clients, locations>>

WithInstances(table, new, parent) ==
    [w \in WorkOrders |-> IF w \in new
                          THEN NewOrder(orders[parent].client, orders[parent].location, parent, FALSE)
                          ELSE table[w]]

\* /complete: at most one instance, where the root of the series is.
CompleteCommit(k) ==
    LET w == session[k].order
        root == IF orders[w].parent = None THEN w ELSE orders[w].parent
    IN
    /\ Serving(k, "status")
    /\ \E new \in SUBSET Fresh :
          /\ \A c, d \in new : c = d
          /\ orders' = WithInstances([orders EXCEPT ![w].open = FALSE], new, root)
    /\ Done(k)
    /\ UNCHANGED <<clients, locations>>

\* /generate-instances: neither the status of the parent nor its places are looked
\* at.
GenerateInstances(w) ==
    /\ orders[w].client # None
    /\ \E new \in SUBSET Fresh : orders' = WithInstances(orders, new, w)
    /\ UNCHANGED <<clients, locations, session, raced>>

DeleteOrder(w) ==
    /\ orders[w].client # None
    /\ ~orders[w].deleted
    /\ orders' = [orders EXCEPT ![w].deleted = TRUE]
    /\ UNCHANGED <<clients, locations, session, raced>>

-----------------------------------------------------------------------------

Init ==
    /\ clients = [c \in Clients |-> NoClient]
    /\ locations = [l \in Locations |-> NoLocation]
    /\ orders = [w \in WorkOrders |-> NoOrder]
    /\ session = [k \in Workers |-> Idle]
    /\ raced = {}

ClientRequest(k) ==
    \/ \E code \in Codes : CreateClientRead(k, code)
    \/ \E c \in Clients : CreateClientCommit(k, c)
    \/ \E c \in Clients, code \in Codes : UpdateClientRead(k, c, code)
    \/ UpdateClientCommit(k)
    \/ \E c \in Clients : DeleteClientRead(k, c)
    \/ DeleteClientCommit(k)

LocationRequest(k) ==
    \/ \E c \in Clients, token \in Tokens \cup {None} : CreateLocationRead(k, c, token)
    \/ \E l \in Locations : CreateLocationCommit(k, l)
    \/ \E l \in Locations, c \in Clients \cup {None}, token \in Tokens \cup {None} :
          UpdateLocationRead(k, l, c, token)
    \/ UpdateLocationCommit(k)
    \/ \E l \in Locations : DeleteLocationRead(k, l)
    \/ DeleteLocationCommit(k)

OrderRequest(k) ==
    \/ \E c \in Clients, l \in Locations : CreateOrderRead(k, c, l)
    \/ \E w \in WorkOrders : CreateOrderCommit(k, w)
    \/ \E w \in WorkOrders : ChangeStatusRead(k, w)
    \/ ChangeStatusCommit(k)
    \/ CompleteCommit(k)

Next ==
    \/ \E k \in Workers : ClientRequest(k) \/ LocationRequest(k) \/ OrderRequest(k) \/ Rollback(k)
    \/ \E w \in WorkOrders : GenerateInstances(w) \/ DeleteOrder(w)

Spec == Init /\ [][Next]_vars

-----------------------------------------------------------------------------

CreateClientSession == [op : {"create_client"}, code : Codes, about : SUBSET Things]
UpdateClientSession == [op : {"update_client"}, client : Clients, code : Codes,
                        about : SUBSET Things]
DeleteClientSession == [op : {"delete_client"}, client : Clients, about : SUBSET Things]
CreateLocationSession == [op : {"create_location"}, client : Clients,
                          token : Tokens \cup {None}, about : SUBSET Things]
UpdateLocationSession == [op : {"update_location"}, location : Locations,
                          client : Clients \cup {None}, token : Tokens \cup {None},
                          seen : LocationRow, about : SUBSET Things]
DeleteLocationSession == [op : {"delete_location"}, location : Locations, about : SUBSET Things]
CreateOrderSession == [op : {"create_order"}, client : Clients, location : Locations,
                       late : BOOLEAN, about : SUBSET Things]
StatusSession == [op : {"status"}, order : WorkOrders, about : SUBSET Things]
Request == CreateClientSession \cup UpdateClientSession \cup DeleteClientSession
           \cup CreateLocationSession \cup UpdateLocationSession \cup DeleteLocationSession
           \cup CreateOrderSession \cup StatusSession

\* Foreign keys refer to rows there are, deleted or not.
References ==
    /\ \A l \in Locations : LET c == locations[l].client IN c # None => clients[c].code # None
    /\ \A w \in WorkOrders :
          LET row == orders[w] IN
          /\ row.client # None => /\ clients[row.client].code # None
                                 /\ row.location # None
                                 /\ locations[row.location].client # None
          /\ row.parent # None => orders[row.parent].client # None

\* Every row and every open session has the columns the models declare, and the
\* foreign keys hold.
TypeOK ==
    /\ References
    /\ clients \in [Clients -> ClientRow]
    /\ locations \in [Locations -> LocationRow]
    /\ orders \in [WorkOrders -> OrderRow]
    /\ session \in [Workers -> Request \cup {Idle}]
    /\ raced \in SUBSET Things

\* A client code names one client and a QR code one location, deleted ones
\* included, whatever requests raced past the checks for duplicates.
NamesUnique ==
    /\ \A c, d \in Clients : clients[c].code # None /\ clients[c].code = clients[d].code => c = d
    /\ \A l, m \in Locations :
          locations[l].token # None /\ locations[l].token = locations[m].token => l = m

\* A request about to write a code or a QR token that its check let pass and no
\* other request was about meets it in use in two cases only: a deleted client has
\* the code, or the token is the empty string.
ClashExplained ==
    \A k \in Workers :
        LET s == session[k] IN
        /\ s.op \in {"create_client", "update_client"} /\ s.code \notin raced =>
              \A c \in Clients : clients[c].code = s.code => clients[c].deleted
        /\ s.op \in {"create_location", "update_location"} =>
              \A t \in s.about \ (raced \cup {Blank}), l \in Locations : locations[l].token # t

\* Nobody is sent to a place that was deleted: an open order at a deleted location,
\* or for a deleted client, is an instance of a series, or was made when the client
\* was deleted already, or requests about the place overlapped.
DeletedPlacesIdle ==
    \A w \in WorkOrders :
        LET row == orders[w] IN
        Open(w) /\ row.parent = None =>
            /\ locations[row.location].deleted => row.location \in raced
            /\ clients[row.client].deleted => row.late \/ row.client \in raced

=============================================================================
