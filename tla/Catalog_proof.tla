---------------------------- MODULE Catalog_proof ----------------------------
(* Proofs about Catalog, for any number of clients, locations, orders,      *)
(* codes, tokens and requests in flight.                                    *)
EXTENDS Catalog, TLAPS

-----------------------------------------------------------------------------
(* The inductive invariant.  What a request has read about a thing stays     *)
(* true while the thing is not raced.                                        *)

\* What two requests in flight are both about is on record.
OverlapRaced ==
    \A j, k \in Workers : j # k => session[j].about \cap session[k].about \subseteq raced

\* An order that is open is a row.
OpenIsRow == \A w \in WorkOrders : orders[w].open => orders[w].client # None

CodeFacts(s) ==
    /\ s.op \in {"create_client", "update_client"} =>
          /\ s.code \in s.about
          /\ s.code \notin raced =>
                \A c \in Clients : clients[c].code = s.code => clients[c].deleted
    /\ s.op = "update_client" => clients[s.client].code # None

TokenFacts(s) ==
    /\ s.op = "create_location" => s.token \in s.about \cup {None} /\ clients[s.client].code # None
    /\ s.op = "update_location" =>
          /\ s.token \in s.about \cup {None, s.seen.token}
          /\ locations[s.location].client # None
          /\ s.client # None => clients[s.client].code # None
    /\ s.op \in {"create_location", "update_location"} =>
          /\ s.about \subseteq Tokens
          /\ \A t \in s.about \ (raced \cup {Blank}), l \in Locations : locations[l].token # t

DeleteFacts(s) ==
    /\ s.op = "delete_client" =>
          /\ s.client \in s.about /\ clients[s.client].code # None
          /\ s.client \notin raced =>
                \A w \in WorkOrders : Open(w) /\ orders[w].parent = None => orders[w].client # s.client
    /\ s.op = "delete_location" =>
          /\ s.location \in s.about /\ locations[s.location].client # None
          /\ s.location \notin raced =>
                \A w \in WorkOrders : Open(w) /\ orders[w].parent = None => orders[w].location # s.location

OrderFacts(s) ==
    /\ s.op = "create_order" =>
          /\ s.client \in s.about /\ clients[s.client].code # None
          /\ s.location \in s.about /\ locations[s.location].client # None
          /\ locations[s.location].deleted => s.location \in raced
          /\ clients[s.client].deleted => s.late \/ s.client \in raced
    /\ s.op = "status" =>
          /\ orders[s.order].client # None
          /\ Places(s.order) \subseteq s.about
          /\ orders[s.order].parent = None =>
                /\ locations[orders[s.order].location].deleted => orders[s.order].location \in raced
                /\ clients[orders[s.order].client].deleted =>
                      orders[s.order].late \/ orders[s.order].client \in raced

Facts(s) == CodeFacts(s) /\ TokenFacts(s) /\ DeleteFacts(s) /\ OrderFacts(s)

SessionsHold == \A k \in Workers : Facts(session[k])

IInv ==
    /\ TypeOK
    /\ NamesUnique
    /\ DeletedPlacesIdle
    /\ OpenIsRow
    /\ OverlapRaced
    /\ SessionsHold

-----------------------------------------------------------------------------
(* What a session holds is told by its op. *)
LEMMA RequestKinds ==
    ASSUME NEW s \in Request \cup {Idle}
    PROVE  /\ s.op = "create_client" => s \in CreateClientSession
           /\ s.op = "update_client" => s \in UpdateClientSession
           /\ s.op = "delete_client" => s \in DeleteClientSession
           /\ s.op = "create_location" => s \in CreateLocationSession
           /\ s.op = "update_location" => s \in UpdateLocationSession
           /\ s.op = "delete_location" => s \in DeleteLocationSession
           /\ s.op = "create_order" => s \in CreateOrderSession
           /\ s.op = "status" => s \in StatusSession
           /\ s.about \in SUBSET Things
  BY DEF Request, Idle, CreateClientSession, UpdateClientSession, DeleteClientSession,
         CreateLocationSession, UpdateLocationSession, DeleteLocationSession,
         CreateOrderSession, StatusSession

-----------------------------------------------------------------------------
(* What a step that is about the things A leaves for the other requests. *)

\* Rows stay, and so do the columns of an order that nothing writes.
RowsStay ==
    /\ \A c \in Clients : clients[c].code # None => clients'[c].code # None
    /\ \A l \in Locations : locations[l].client # None => locations'[l].client # None
    /\ \A w \in WorkOrders :
          orders[w].client # None =>
              /\ orders'[w].client = orders[w].client
              /\ orders'[w].location = orders[w].location
              /\ orders'[w].parent = orders[w].parent
              /\ orders'[w].late = orders[w].late

\* Only names in A are given, and only rows in A deleted.
NamesIn(A) ==
    /\ \A c \in Clients :
          clients'[c].code \notin A \cup {None} =>
              /\ clients'[c].code = clients[c].code
              /\ clients[c].deleted => clients'[c].deleted
    /\ \A l \in Locations :
          locations'[l].token \notin A \cup {None} => locations'[l].token = locations[l].token

DeletionsIn(A) ==
    /\ \A c \in Clients :
          clients[c].code # None /\ c \notin A => clients'[c].deleted = clients[c].deleted
    /\ \A l \in Locations :
          locations[l].client # None /\ l \notin A => locations'[l].deleted = locations[l].deleted

\* Orders that are no instances are opened only at places in A.
OpeningsIn(A) ==
    \A w \in WorkOrders :
        LET row == orders'[w] IN
        row.open /\ ~row.deleted /\ row.parent = None =>
            \/ /\ Open(w) /\ orders[w].parent = None
               /\ row.client = orders[w].client /\ row.location = orders[w].location
            \/ row.client \in A /\ row.location \in A

Frame(A) == RowsStay /\ NamesIn(A) /\ DeletionsIn(A) /\ OpeningsIn(A)

LEMMA FrameOfNothing ==
    ASSUME UNCHANGED <<clients, locations, orders>>
    PROVE  Frame({})
  BY DEF Frame, RowsStay, NamesIn, DeletionsIn, OpeningsIn, Open

\* A request keeps its facts about what it does not share with such a step.
LEMMA FactsKept ==
    ASSUME TypeOK, NEW A, Frame(A), NEW s \in Request \cup {Idle}, Facts(s),
           raced \subseteq raced', s.about \cap A \subseteq raced'
    PROVE  Facts(s)'
<1>1. CodeFacts(s)'
  <2>1. s.op \in {"create_client", "update_client"} => s.code \in Codes
    BY RequestKinds DEF CreateClientSession, UpdateClientSession
  <2>2. s.op = "update_client" => s.client \in Clients
    BY RequestKinds DEF UpdateClientSession
  <2> QED BY <2>1, <2>2, NoneAssumption DEF Facts, CodeFacts, Frame, RowsStay, NamesIn
<1>2. TokenFacts(s)'
  <2>1. /\ s.op = "create_location" => s.client \in Clients
        /\ s.op = "update_location" => s.location \in Locations /\ s.client \in Clients \cup {None}
    BY RequestKinds DEF CreateLocationSession, UpdateLocationSession
  <2>2. s.op \in {"create_location", "update_location"} =>
           \A t \in s.about \ (raced' \cup {Blank}), l \in Locations : locations'[l].token # t
    BY NoneAssumption DEF Facts, TokenFacts, Frame, NamesIn
  <2> QED BY <2>1, <2>2 DEF Facts, TokenFacts, Frame, RowsStay
<1>3. DeleteFacts(s)'
  <2>1. /\ s.op = "delete_client" => s.client \in Clients
        /\ s.op = "delete_location" => s.location \in Locations
    BY RequestKinds DEF DeleteClientSession, DeleteLocationSession
  <2> QED BY <2>1 DEF Facts, DeleteFacts, Frame, RowsStay, OpeningsIn, Open
<1>4. OrderFacts(s)'
  <2>1. s.op = "create_order" => s.client \in Clients /\ s.location \in Locations
    BY RequestKinds DEF CreateOrderSession
  <2>2. CASE s.op = "create_order"
    BY <2>1, <2>2 DEF Facts, OrderFacts, Frame, RowsStay, DeletionsIn
  <2>3. CASE s.op = "status"
    <3> DEFINE row == orders[s.order]
    <3>1. s.order \in WorkOrders
      BY <2>3, RequestKinds DEF StatusSession
    <3>2. row.client # None /\ Places(s.order) \subseteq s.about
      BY <2>3 DEF Facts, OrderFacts
    <3>3. /\ row.client \in Clients /\ clients[row.client].code # None
          /\ row.location \in Locations /\ locations[row.location].client # None
      BY <3>1, <3>2 DEF TypeOK, References, OrderRow
    <3>4. /\ orders'[s.order].client = row.client /\ orders'[s.order].location = row.location
          /\ orders'[s.order].parent = row.parent /\ orders'[s.order].late = row.late
      BY <3>1, <3>2 DEF Frame, RowsStay
    <3>5. Places(s.order)' = Places(s.order)
      BY <3>4 DEF Places
    <3>6. row.client \in s.about /\ row.location \in s.about
      BY <3>2 DEF Places
    <3>7. locations'[row.location].deleted /\ row.location \notin raced' => locations[row.location].deleted
      BY <3>3, <3>6 DEF Frame, DeletionsIn
    <3>8. clients'[row.client].deleted /\ row.client \notin raced' => clients[row.client].deleted
      BY <3>3, <3>6 DEF Frame, DeletionsIn
    <3> QED BY <2>3, <3>2, <3>4, <3>5, <3>7, <3>8 DEF Facts, OrderFacts
  <2> QED BY <2>2, <2>3 DEF OrderFacts
<1> QED BY <1>1, <1>2, <1>3, <1>4 DEF Facts

-----------------------------------------------------------------------------
(* Steps by what they do to the sessions. *)

\* A request begins.
LEMMA BeginStep ==
    ASSUME IInv, NEW k \in Workers, NEW s \in Request, Facts(s), Begin(k, s)
    PROVE  IInv'
<1>0. /\ TypeOK /\ NamesUnique /\ DeletedPlacesIdle /\ OpenIsRow /\ OverlapRaced /\ SessionsHold
      /\ session[k] = Idle /\ session' = [session EXCEPT ![k] = s]
      /\ raced' = raced \cup (s.about \cap UNION {session[j].about : j \in Workers})
      /\ UNCHANGED <<clients, locations, orders>>
  BY DEF IInv, Begin
<1>1. s.about \in SUBSET Things
  BY RequestKinds
<1>2. raced \subseteq raced' /\ raced' \in SUBSET Things
  BY <1>0, <1>1 DEF TypeOK
<1>3. TypeOK'
  BY <1>0, <1>2 DEF TypeOK, References
<1>4. NamesUnique' /\ DeletedPlacesIdle' /\ OpenIsRow'
  BY <1>0, <1>2 DEF NamesUnique, DeletedPlacesIdle, OpenIsRow, Open
<1>5. \A j \in Workers : session'[j] = IF j = k THEN s ELSE session[j]
  BY <1>0 DEF TypeOK
<1>6. OverlapRaced'
  <2> SUFFICES ASSUME NEW i \in Workers, NEW j \in Workers, i # j,
                      NEW x \in session'[i].about \cap session'[j].about
               PROVE  x \in raced'
    BY DEF OverlapRaced
  <2>1. CASE i # k /\ j # k
    BY <2>1, <1>0, <1>2, <1>5 DEF OverlapRaced
  <2>2. CASE i = k \/ j = k
    BY <2>2, <1>0, <1>5
  <2> QED BY <2>1, <2>2
<1>7. SessionsHold'
  <2> SUFFICES ASSUME NEW j \in Workers, NEW r, r = session'[j] PROVE Facts(r)'
    BY DEF SessionsHold, Facts, CodeFacts, TokenFacts, DeleteFacts, OrderFacts
  <2>1. Frame({})
    BY <1>0, FrameOfNothing
  <2>2. r \in Request \cup {Idle} /\ Facts(r)
    BY <1>0, <1>5 DEF SessionsHold, TypeOK
  <2> QED BY <1>0, <1>2, <2>1, <2>2, FactsKept
<1> QED BY <1>3, <1>4, <1>6, <1>7 DEF IInv

\* A request ends: what it does to the tables is about the things it is about.
LEMMA CommitStep ==
    ASSUME IInv, NEW k \in Workers, Done(k), Frame(session[k].about),
           TypeOK', NamesUnique', DeletedPlacesIdle', OpenIsRow'
    PROVE  IInv'
<1>0. TypeOK /\ OverlapRaced /\ SessionsHold /\ raced' = raced
  BY DEF IInv, Done
<1>1. \A j \in Workers : session'[j] = IF j = k THEN Idle ELSE session[j]
  BY <1>0 DEF TypeOK, Done
<1>2. OverlapRaced'
  BY <1>0, <1>1 DEF OverlapRaced, Idle
<1>3. SessionsHold'
  <2> SUFFICES ASSUME NEW j \in Workers, NEW r, r = session'[j] PROVE Facts(r)'
    BY DEF SessionsHold, Facts, CodeFacts, TokenFacts, DeleteFacts, OrderFacts
  <2>1. CASE j = k
    BY <1>1, <2>1 DEF Facts, CodeFacts, TokenFacts, DeleteFacts, OrderFacts, Idle
  <2>2. CASE j # k
    <3>1. r = session[j] /\ r \in Request \cup {Idle} /\ Facts(r)
      BY <1>0, <1>1, <2>2 DEF SessionsHold, TypeOK
    <3>2. r.about \cap session[k].about \subseteq raced'
      BY <1>0, <2>2, <3>1 DEF OverlapRaced
    <3> QED BY <1>0, <3>1, <3>2, FactsKept
  <2> QED BY <2>1, <2>2
<1> QED BY <1>2, <1>3 DEF IInv

\* A step outside the sessions.
LEMMA TableStep ==
    ASSUME IInv, UNCHANGED <<session, raced>>, Frame({}),
           TypeOK', NamesUnique', DeletedPlacesIdle', OpenIsRow'
    PROVE  IInv'
<1>0. TypeOK /\ OverlapRaced /\ SessionsHold
  BY DEF IInv
<1>1. OverlapRaced'
  BY <1>0 DEF OverlapRaced
<1>2. SessionsHold'
  <2> SUFFICES ASSUME NEW j \in Workers, NEW r, r = session'[j] PROVE Facts(r)'
    BY DEF SessionsHold, Facts, CodeFacts, TokenFacts, DeleteFacts, OrderFacts
  <2>1. r \in Request \cup {Idle} /\ Facts(r)
    BY <1>0 DEF SessionsHold, TypeOK
  <2> QED BY <1>0, <2>1, FactsKept
<1> QED BY <1>1, <1>2 DEF IInv

-----------------------------------------------------------------------------
(* The reads: a check gives a request its facts. *)

LEMMA ClientReads ==
    ASSUME IInv, NEW k \in Workers
    PROVE  /\ \A code \in Codes : CreateClientRead(k, code) => IInv'
           /\ \A c \in Clients, code \in Codes : UpdateClientRead(k, c, code) => IInv'
           /\ \A c \in Clients : DeleteClientRead(k, c) => IInv'
<1>1. ASSUME NEW code \in Codes, CreateClientRead(k, code) PROVE IInv'
  <2> DEFINE s == [op |-> "create_client", code |-> code, about |-> {code}]
  <2>1. s \in Request
    BY DEF Request, CreateClientSession, Things
  <2>2. Facts(s)
    BY <1>1, NoneAssumption DEF Facts, CodeFacts, TokenFacts, DeleteFacts, OrderFacts,
       CreateClientRead, CodeUnused, LiveClient
  <2> QED BY <1>1, <2>1, <2>2, BeginStep DEF CreateClientRead
<1>2. ASSUME NEW c \in Clients, NEW code \in Codes, UpdateClientRead(k, c, code) PROVE IInv'
  <2> DEFINE s == [op |-> "update_client", client |-> c, code |-> code, about |-> {code}]
  <2>1. s \in Request
    BY DEF Request, UpdateClientSession, Things
  <2>2. Facts(s)
    BY <1>2, NoneAssumption DEF Facts, CodeFacts, TokenFacts, DeleteFacts, OrderFacts,
       UpdateClientRead, CodeUnused, LiveClient
  <2> QED BY <1>2, <2>1, <2>2, BeginStep DEF UpdateClientRead
<1>3. ASSUME NEW c \in Clients, DeleteClientRead(k, c) PROVE IInv'
  <2> DEFINE s == [op |-> "delete_client", client |-> c, about |-> {c}]
  <2>1. s \in Request
    BY DEF Request, DeleteClientSession, Things
  <2>2. Facts(s)
    BY <1>3 DEF Facts, CodeFacts, TokenFacts, DeleteFacts, OrderFacts, DeleteClientRead, LiveClient
  <2> QED BY <1>3, <2>1, <2>2, BeginStep DEF DeleteClientRead
<1> QED BY <1>1, <1>2, <1>3

LEMMA LocationReads ==
    ASSUME IInv, NEW k \in Workers
    PROVE  /\ \A c \in Clients, token \in Tokens \cup {None} :
                 CreateLocationRead(k, c, token) => IInv'
           /\ \A l \in Locations, c \in Clients \cup {None}, token \in Tokens \cup {None} :
                 UpdateLocationRead(k, l, c, token) => IInv'
           /\ \A l \in Locations : DeleteLocationRead(k, l) => IInv'
<1>1. ASSUME NEW c \in Clients, NEW token \in Tokens \cup {None}, CreateLocationRead(k, c, token)
      PROVE  IInv'
  <2> DEFINE s == [op |-> "create_location", client |-> c, token |-> token,
                   about |-> {token} \ {None}]
  <2>1. s \in Request
    BY <1>1 DEF Request, CreateLocationSession, Things
  <2>2. \A t \in s.about \ (raced \cup {Blank}), m \in Locations : locations[m].token # t
    <3>1. None \notin Locations
      BY NoneAssumption
    <3> QED BY <1>1, <3>1 DEF CreateLocationRead, TokenUnused
  <2>3. Facts(s)
    BY <1>1, <2>2 DEF Facts, CodeFacts, TokenFacts, DeleteFacts, OrderFacts, CreateLocationRead, LiveClient
  <2> QED BY <1>1, <2>1, <2>3, BeginStep DEF CreateLocationRead
<1>2. ASSUME NEW l \in Locations, NEW c \in Clients \cup {None}, NEW token \in Tokens \cup {None},
             UpdateLocationRead(k, l, c, token)
      PROVE  IInv'
  <2> DEFINE s == [op |-> "update_location", location |-> l, client |-> c, token |-> token,
                   seen |-> locations[l], about |-> {token} \ {None, locations[l].token}]
  <2>1. locations[l] \in LocationRow
    BY DEF IInv, TypeOK
  <2>2. s \in Request
    BY <2>1 DEF Request, UpdateLocationSession, Things
  <2>3. \A t \in s.about \ (raced \cup {Blank}), m \in Locations : locations[m].token # t
    BY <1>2 DEF UpdateLocationRead, TokenUnused
  <2>4. Facts(s)
    BY <1>2, <2>3 DEF Facts, CodeFacts, TokenFacts, DeleteFacts, OrderFacts, UpdateLocationRead,
       LiveLocation, LiveClient
  <2> QED BY <1>2, <2>2, <2>4, BeginStep DEF UpdateLocationRead
<1>3. ASSUME NEW l \in Locations, DeleteLocationRead(k, l) PROVE IInv'
  <2> DEFINE s == [op |-> "delete_location", location |-> l, about |-> {l}]
  <2>1. s \in Request
    BY DEF Request, DeleteLocationSession, Things
  <2>2. Facts(s)
    BY <1>3 DEF Facts, CodeFacts, TokenFacts, DeleteFacts, OrderFacts, DeleteLocationRead, LiveLocation
  <2> QED BY <1>3, <2>1, <2>2, BeginStep DEF DeleteLocationRead
<1> QED BY <1>1, <1>2, <1>3

LEMMA OrderReads ==
    ASSUME IInv, NEW k \in Workers
    PROVE  /\ \A c \in Clients, l \in Locations : CreateOrderRead(k, c, l) => IInv'
           /\ \A w \in WorkOrders : ChangeStatusRead(k, w) => IInv'
<1>0. TypeOK /\ DeletedPlacesIdle
  BY DEF IInv
<1>1. ASSUME NEW c \in Clients, NEW l \in Locations, CreateOrderRead(k, c, l) PROVE IInv'
  <2> DEFINE s == [op |-> "create_order", client |-> c, location |-> l,
                   late |-> clients[c].deleted, about |-> {c, l}]
  <2>1. s \in Request
    BY <1>0 DEF Request, CreateOrderSession, Things, TypeOK, ClientRow
  <2>2. Facts(s)
    BY <1>1 DEF Facts, CodeFacts, TokenFacts, DeleteFacts, OrderFacts, CreateOrderRead, LiveLocation
  <2> QED BY <1>1, <2>1, <2>2, BeginStep DEF CreateOrderRead
<1>2. ASSUME NEW w \in WorkOrders, ChangeStatusRead(k, w) PROVE IInv'
  <2> DEFINE s == [op |-> "status", order |-> w, about |-> Places(w)]
  <2>1. /\ orders[w].client # None /\ Open(w)
        /\ orders[w].client \in Clients /\ orders[w].location \in Locations
    BY <1>0, <1>2 DEF ChangeStatusRead, TypeOK, References, OrderRow
  <2>2. s \in Request
    BY <2>1 DEF Request, StatusSession, Things, Places
  <2>3. Facts(s)
    BY <1>0, <2>1 DEF Facts, CodeFacts, TokenFacts, DeleteFacts, OrderFacts, DeletedPlacesIdle
  <2> QED BY <1>2, <2>2, <2>3, BeginStep DEF ChangeStatusRead
<1> QED BY <1>1, <1>2

-----------------------------------------------------------------------------
(* The commits. *)

LEMMA RollbackStep ==
    ASSUME IInv, NEW k \in Workers, Rollback(k)
    PROVE  IInv'
<1>0. /\ TypeOK /\ NamesUnique /\ DeletedPlacesIdle /\ OpenIsRow
      /\ Done(k) /\ UNCHANGED <<clients, locations, orders, raced>>
  BY DEF IInv, Rollback, Done
<1>1. Frame(session[k].about)
  BY <1>0 DEF Frame, RowsStay, NamesIn, DeletionsIn, OpeningsIn, Open
<1>2. TypeOK'
  BY <1>0 DEF TypeOK, References, Done
<1>3. NamesUnique' /\ DeletedPlacesIdle' /\ OpenIsRow'
  BY <1>0 DEF NamesUnique, DeletedPlacesIdle, OpenIsRow, Open
<1> QED BY <1>0, <1>1, <1>2, <1>3, CommitStep

LEMMA ClientCommits ==
    ASSUME IInv, NEW k \in Workers
    PROVE  /\ \A c \in Clients : CreateClientCommit(k, c) => IInv'
           /\ UpdateClientCommit(k) => IInv'
           /\ DeleteClientCommit(k) => IInv'
<1> DEFINE s == session[k]
<1>0. /\ TypeOK /\ NamesUnique /\ DeletedPlacesIdle /\ OpenIsRow
      /\ s \in Request \cup {Idle} /\ Facts(s)
  BY DEF IInv, TypeOK, SessionsHold
\* Common to the three: one row d gets a code, or is deleted.
<1>1. ASSUME NEW d \in Clients, NEW row \in ClientRow, row.code # None,
             clients' = [clients EXCEPT ![d] = row],
             UNCHANGED <<locations, orders>>, Done(k),
             row.code = clients[d].code \/ (row.code \in s.about /\ CodeFits(d, row.code)),
             row.deleted => clients[d].deleted \/ d \in s.about,
             ~row.deleted => ~clients[d].deleted \/ clients[d].code = None,
             row.deleted /\ d \notin raced =>
                \A w \in WorkOrders : Open(w) /\ orders[w].parent = None
                                        /\ ~orders[w].late /\ ~clients[d].deleted
                                        => orders[w].client # d,
             row.code = clients[d].code /\ clients[d].deleted => row.deleted
      PROVE  IInv'
  <2>0. /\ \A e \in Clients : clients'[e] = IF e = d THEN row ELSE clients[e]
        /\ locations' = locations /\ orders' = orders /\ raced' = raced
        /\ session' = [session EXCEPT ![k] = Idle]
    BY <1>0, <1>1 DEF TypeOK, Done
  <2>1. Frame(s.about)
    <3>1. RowsStay
      BY <1>1, <2>0 DEF RowsStay
    <3>2. NamesIn(s.about)
      BY <1>1, <2>0 DEF NamesIn
    <3>3. DeletionsIn(s.about)
      BY <1>0, <1>1, <2>0 DEF DeletionsIn, TypeOK, ClientRow
    <3>4. OpeningsIn(s.about)
      BY <2>0 DEF OpeningsIn, Open
    <3> QED BY <3>1, <3>2, <3>3, <3>4 DEF Frame
  <2>2. TypeOK'
    <3>1. clients' \in [Clients -> ClientRow]
      BY <1>0, <1>1 DEF TypeOK
    <3>2. References'
      BY <1>0, <1>1, <2>0 DEF References, TypeOK, LocationRow, OrderRow
    <3>3. session' \in [Workers -> Request \cup {Idle}]
      BY <1>0, <2>0 DEF TypeOK
    <3> QED BY <1>0, <2>0, <3>1, <3>2, <3>3 DEF TypeOK
  <2>3. NamesUnique'
    BY <1>0, <1>1, <2>0 DEF NamesUnique, CodeFits
  <2>4. DeletedPlacesIdle'
    <3> SUFFICES ASSUME NEW w \in WorkOrders, Open(w), orders[w].parent = None
                 PROVE  /\ locations[orders[w].location].deleted => orders[w].location \in raced
                        /\ clients'[orders[w].client].deleted =>
                              orders[w].late \/ orders[w].client \in raced
      BY <2>0 DEF DeletedPlacesIdle, Open
    <3>1. orders[w].client \in Clients
      BY <1>0 DEF OpenIsRow, Open, TypeOK, OrderRow
    <3> QED BY <1>0, <1>1, <2>0, <3>1 DEF DeletedPlacesIdle
  <2>5. OpenIsRow'
    BY <1>0, <2>0 DEF OpenIsRow
  <2> QED BY <1>1, <2>1, <2>2, <2>3, <2>4, <2>5, CommitStep
<1>2. ASSUME NEW c \in Clients, CreateClientCommit(k, c) PROVE IInv'
  <2> DEFINE row == [code |-> s.code, deleted |-> FALSE]
  <2>1. s.op = "create_client" /\ s.code \in Codes /\ s.code \in s.about
    BY <1>0, <1>2, RequestKinds DEF CreateClientCommit, Serving, CreateClientSession, Facts, CodeFacts
  <2>2. row \in ClientRow /\ row.code # None
    BY <2>1, NoneAssumption DEF ClientRow
  <2>3. /\ clients' = [clients EXCEPT ![c] = row] /\ clients[c].code = None
        /\ UNCHANGED <<locations, orders>> /\ Done(k) /\ CodeFits(c, s.code)
    BY <1>2 DEF CreateClientCommit
  <2> QED BY <1>1, <2>1, <2>2, <2>3
<1>3. ASSUME UpdateClientCommit(k) PROVE IInv'
  <2> DEFINE d == s.client
             row == [clients[d] EXCEPT !.code = s.code]
  <2>1. /\ s.op = "update_client" /\ s.code \in Codes /\ s.code \in s.about
        /\ d \in Clients /\ clients[d].code # None
    BY <1>0, <1>3, RequestKinds DEF UpdateClientCommit, Serving, UpdateClientSession, Facts, CodeFacts
  <2>2. /\ row \in ClientRow /\ row.code = s.code /\ row.code # None
        /\ row.deleted = clients[d].deleted
    BY <1>0, <2>1, NoneAssumption DEF TypeOK, ClientRow
  <2>3. /\ clients' = [clients EXCEPT ![d] = row]
        /\ UNCHANGED <<locations, orders>> /\ Done(k) /\ CodeFits(d, s.code)
    BY <1>3 DEF UpdateClientCommit
  <2>4. row.deleted /\ d \notin raced =>
          \A w \in WorkOrders : Open(w) /\ orders[w].parent = None
                                  /\ ~orders[w].late /\ ~clients[d].deleted
                                  => orders[w].client # d
    BY <2>2
  <2> HIDE DEF row
  <2> QED BY <1>1, <2>1, <2>2, <2>3, <2>4
<1>4. ASSUME DeleteClientCommit(k) PROVE IInv'
  <2> DEFINE d == s.client
             row == [clients[d] EXCEPT !.deleted = TRUE]
  <2>1. s.op = "delete_client" /\ d \in Clients /\ d \in s.about /\ clients[d].code # None
    BY <1>0, <1>4, RequestKinds DEF DeleteClientCommit, Serving, DeleteClientSession, Facts, DeleteFacts
  <2>2. row \in ClientRow /\ row.code = clients[d].code /\ row.deleted = TRUE
    BY <1>0, <2>1 DEF TypeOK, ClientRow
  <2>3. /\ clients' = [clients EXCEPT ![d] = row]
        /\ UNCHANGED <<locations, orders>> /\ Done(k)
    BY <1>4 DEF DeleteClientCommit
  <2>4. row.deleted /\ d \notin raced =>
          \A w \in WorkOrders : Open(w) /\ orders[w].parent = None
                                  /\ ~orders[w].late /\ ~clients[d].deleted
                                  => orders[w].client # d
    BY <1>0, <2>1 DEF Facts, DeleteFacts
  <2> HIDE DEF row
  <2> QED BY <1>1, <2>1, <2>2, <2>3, <2>4
<1> QED BY <1>2, <1>3, <1>4

LEMMA LocationCommits ==
    ASSUME IInv, NEW k \in Workers
    PROVE  /\ \A l \in Locations : CreateLocationCommit(k, l) => IInv'
           /\ UpdateLocationCommit(k) => IInv'
           /\ DeleteLocationCommit(k) => IInv'
<1> DEFINE s == session[k]
<1>0. /\ TypeOK /\ NamesUnique /\ DeletedPlacesIdle /\ OpenIsRow
      /\ s \in Request \cup {Idle} /\ Facts(s)
  BY DEF IInv, TypeOK, SessionsHold
\* Common to the three: one row m gets a client and a token, or is deleted.
<1>1. ASSUME NEW m \in Locations, NEW row \in LocationRow,
             row.client # None, clients[row.client].code # None,
             locations' = [locations EXCEPT ![m] = row],
             UNCHANGED <<clients, orders>>, Done(k),
             TokenFits(m, row.token),
             row.token \in s.about \cup {None, locations[m].token},
             row.deleted => locations[m].deleted \/ m \in s.about,
             ~row.deleted => ~locations[m].deleted \/ locations[m].client = None,
             row.deleted /\ m \notin raced =>
                \A w \in WorkOrders : Open(w) /\ orders[w].parent = None /\ ~locations[m].deleted
                                        => orders[w].location # m
      PROVE  IInv'
  <2>0. /\ \A n \in Locations : locations'[n] = IF n = m THEN row ELSE locations[n]
        /\ clients' = clients /\ orders' = orders /\ raced' = raced
        /\ session' = [session EXCEPT ![k] = Idle]
    BY <1>0, <1>1 DEF TypeOK, Done
  <2>1. Frame(s.about)
    <3>1. RowsStay
      BY <1>1, <2>0 DEF RowsStay
    <3>2. NamesIn(s.about)
      BY <1>1, <2>0 DEF NamesIn
    <3>3. DeletionsIn(s.about)
      BY <1>0, <1>1, <2>0 DEF DeletionsIn, TypeOK, LocationRow
    <3>4. OpeningsIn(s.about)
      BY <2>0 DEF OpeningsIn, Open
    <3> QED BY <3>1, <3>2, <3>3, <3>4 DEF Frame
  <2>2. TypeOK'
    <3>1. locations' \in [Locations -> LocationRow]
      BY <1>0, <1>1 DEF TypeOK
    <3>2. References'
      BY <1>0, <1>1, <2>0 DEF References, TypeOK, OrderRow
    <3>3. session' \in [Workers -> Request \cup {Idle}]
      BY <1>0, <2>0 DEF TypeOK
    <3> QED BY <1>0, <2>0, <3>1, <3>2, <3>3 DEF TypeOK
  <2>3. NamesUnique'
    BY <1>0, <1>1, <2>0 DEF NamesUnique, TokenFits
  <2>4. DeletedPlacesIdle'
    <3> SUFFICES ASSUME NEW w \in WorkOrders, Open(w), orders[w].parent = None
                 PROVE  /\ locations'[orders[w].location].deleted => orders[w].location \in raced
                        /\ clients[orders[w].client].deleted =>
                              orders[w].late \/ orders[w].client \in raced
      BY <2>0 DEF DeletedPlacesIdle, Open
    <3>1. orders[w].location \in Locations
      BY <1>0 DEF OpenIsRow, Open, TypeOK, OrderRow, References
    <3> QED BY <1>0, <1>1, <2>0, <3>1 DEF DeletedPlacesIdle
  <2>5. OpenIsRow'
    BY <1>0, <2>0 DEF OpenIsRow
  <2> QED BY <1>1, <2>1, <2>2, <2>3, <2>4, <2>5, CommitStep
<1>2. ASSUME NEW l \in Locations, CreateLocationCommit(k, l) PROVE IInv'
  <2> DEFINE row == [client |-> s.client, token |-> s.token, deleted |-> FALSE]
  <2>1. /\ s.client \in Clients /\ s.token \in Tokens \cup {None}
        /\ s.token \in s.about \cup {None} /\ clients[s.client].code # None
    BY <1>0, <1>2, RequestKinds DEF CreateLocationCommit, Serving, CreateLocationSession, Facts, TokenFacts
  <2>2. row \in LocationRow /\ row.client # None
    BY <2>1, NoneAssumption DEF LocationRow
  <2>3. /\ locations' = [locations EXCEPT ![l] = row] /\ locations[l].client = None
        /\ UNCHANGED <<clients, orders>> /\ Done(k) /\ TokenFits(l, s.token)
    BY <1>2 DEF CreateLocationCommit
  <2> QED BY <1>1, <2>1, <2>2, <2>3
<1>3. ASSUME UpdateLocationCommit(k) PROVE IInv'
  <2> DEFINE m == s.location
             row == UpdatedLocation(locations[m], s.seen, s.client, s.token)
  <2>1. /\ m \in Locations /\ locations[m].client # None
        /\ s.client \in Clients \cup {None} /\ s.token \in Tokens \cup {None}
        /\ s.token \in s.about \cup {None, s.seen.token}
        /\ s.client # None => clients[s.client].code # None
    BY <1>0, <1>3, RequestKinds DEF UpdateLocationCommit, Serving, UpdateLocationSession, Facts, TokenFacts
  <2>2. /\ locations[m] \in LocationRow /\ clients[locations[m].client].code # None
    BY <1>0, <2>1 DEF TypeOK, References
  <2>3. /\ row.client \in {locations[m].client, s.client} /\ row.client # None
        /\ row.token \in s.about \cup {None, locations[m].token}
        /\ row.token \in Tokens \cup {None}
        /\ row.deleted = locations[m].deleted
    BY <2>1, <2>2 DEF UpdatedLocation, Written, LocationRow
  <2>4. row \in LocationRow
    BY <2>1, <2>2 DEF UpdatedLocation, Written, LocationRow
  <2>5. clients[row.client].code # None
    BY <2>1, <2>2, <2>3
  <2>6. /\ locations' = [locations EXCEPT ![m] = row]
        /\ UNCHANGED <<clients, orders>> /\ Done(k) /\ TokenFits(m, row.token)
    BY <1>3 DEF UpdateLocationCommit
  <2> HIDE DEF row
  <2> QED BY <1>1, <2>1, <2>3, <2>4, <2>5, <2>6
<1>4. ASSUME DeleteLocationCommit(k) PROVE IInv'
  <2> DEFINE m == s.location
             row == [locations[m] EXCEPT !.deleted = TRUE]
  <2>1. s.op = "delete_location" /\ m \in Locations /\ m \in s.about /\ locations[m].client # None
    BY <1>0, <1>4, RequestKinds DEF DeleteLocationCommit, Serving, DeleteLocationSession, Facts, DeleteFacts
  <2>2. locations[m] \in LocationRow /\ clients[locations[m].client].code # None
    BY <1>0, <2>1 DEF TypeOK, References
  <2>3. /\ row \in LocationRow /\ row.client = locations[m].client /\ row.token = locations[m].token
        /\ row.deleted = TRUE
    BY <2>2 DEF LocationRow
  <2>4. TokenFits(m, row.token)
    BY <1>0, <2>1, <2>3 DEF NamesUnique, TokenFits
  <2>5. /\ locations' = [locations EXCEPT ![m] = row]
        /\ UNCHANGED <<clients, orders>> /\ Done(k)
    BY <1>4 DEF DeleteLocationCommit
  <2>6. m \notin raced =>
          \A w \in WorkOrders : Open(w) /\ orders[w].parent = None => orders[w].location # m
    BY <1>0, <2>1 DEF Facts, DeleteFacts
  <2> HIDE DEF row
  <2> QED BY <1>1, <2>1, <2>2, <2>3, <2>4, <2>5, <2>6
<1> QED BY <1>2, <1>3, <1>4

\* An orders table that agrees with the invariant, and in which orders were opened
\* at places in A only, apart from instances.
OrdersAgree(table, A) ==
    /\ \A w \in WorkOrders :
          orders[w].client # None =>
              /\ table[w].client = orders[w].client
              /\ table[w].location = orders[w].location
              /\ table[w].parent = orders[w].parent
              /\ table[w].late = orders[w].late
    /\ \A w \in WorkOrders : table[w].open => table[w].client # None
    /\ \A w \in WorkOrders :
          table[w].client # None =>
              /\ clients[table[w].client].code # None
              /\ table[w].location # None
              /\ locations[table[w].location].client # None
    /\ \A w \in WorkOrders :
          table[w].parent # None => orders[table[w].parent].client # None
    /\ \A w \in WorkOrders :
          table[w].open /\ ~table[w].deleted /\ table[w].parent = None =>
              \/ /\ Open(w) /\ orders[w].client # None
              \/ /\ table[w].client \in A /\ table[w].location \in A
                 /\ locations[table[w].location].deleted => table[w].location \in raced
                 /\ clients[table[w].client].deleted =>
                       table[w].late \/ table[w].client \in raced

LEMMA OrdersStep ==
    ASSUME IInv, NEW A, UNCHANGED <<clients, locations, raced>>,
           session' \in [Workers -> Request \cup {Idle}],
           orders' \in [WorkOrders -> OrderRow],
           NEW table, table = orders', OrdersAgree(table, A)
    PROVE  Frame(A) /\ TypeOK' /\ NamesUnique' /\ DeletedPlacesIdle' /\ OpenIsRow'
<1>0. TypeOK /\ NamesUnique /\ DeletedPlacesIdle /\ OpenIsRow
  BY DEF IInv
<1>1. Frame(A)
  <2>1. RowsStay
    BY DEF RowsStay, OrdersAgree
  <2>2. NamesIn(A) /\ DeletionsIn(A)
    BY DEF NamesIn, DeletionsIn
  <2>3. OpeningsIn(A)
    BY DEF OpeningsIn, OrdersAgree
  <2> QED BY <2>1, <2>2, <2>3 DEF Frame
<1>2. TypeOK'
  <2>1. \A w \in WorkOrders : table[w].parent # None => table[table[w].parent].client # None
    <3> TAKE w \in WorkOrders
    <3> HAVE table[w].parent # None
    <3>1. table[w].parent \in WorkOrders
      BY DEF OrderRow
    <3> QED BY <3>1 DEF OrdersAgree
  <2>2. References'
    BY <1>0, <2>1 DEF TypeOK, References, OrdersAgree
  <2> QED BY <1>0, <2>2 DEF TypeOK
<1>3. NamesUnique' /\ OpenIsRow'
  BY <1>0 DEF NamesUnique, OpenIsRow, OrdersAgree
<1>4. DeletedPlacesIdle'
  <2> SUFFICES ASSUME NEW w \in WorkOrders, table[w].open, ~table[w].deleted, table[w].parent = None
               PROVE  /\ locations[table[w].location].deleted => table[w].location \in raced
                      /\ clients[table[w].client].deleted =>
                            table[w].late \/ table[w].client \in raced
    BY DEF DeletedPlacesIdle, Open
  <2> QED BY <1>0 DEF DeletedPlacesIdle, OrdersAgree
<1> QED BY <1>1, <1>2, <1>3, <1>4

\* Adding instances of p to a table with the rows of orders, none of them opened.
LEMMA InstancesStep ==
    ASSUME IInv, NEW p \in WorkOrders, orders[p].client # None, NEW new \in SUBSET Fresh,
           NEW table \in [WorkOrders -> OrderRow],
           \A w \in WorkOrders :
              /\ table[w].open => orders[w].open
              /\ table[w].client = orders[w].client /\ table[w].location = orders[w].location
              /\ table[w].parent = orders[w].parent /\ table[w].late = orders[w].late
              /\ table[w].deleted = orders[w].deleted,
           NEW A, NEW result, result = WithInstances(table, new, p)
    PROVE  result \in [WorkOrders -> OrderRow] /\ OrdersAgree(result, A)
<1>0. TypeOK /\ OpenIsRow /\ References
  BY DEF IInv, TypeOK
<1> DEFINE instance == NewOrder(orders[p].client, orders[p].location, p, FALSE)
<1>1. orders[p].client \in Clients /\ orders[p].location \in Locations /\ p # None
  BY <1>0, NoneAssumption DEF TypeOK, OrderRow, References
<1>2. /\ instance \in OrderRow /\ instance.parent = p
      /\ instance.client = orders[p].client /\ instance.location = orders[p].location
  BY <1>1 DEF NewOrder, OrderRow
<1>3. new \subseteq WorkOrders /\ \A w \in new : orders[w].client = None
  BY DEF Fresh
<1>4. result = [w \in WorkOrders |-> IF w \in new THEN instance ELSE table[w]]
  BY DEF WithInstances
<1> HIDE DEF instance
<1>5. result \in [WorkOrders -> OrderRow]
  BY <1>2, <1>4
<1>6. \A w \in WorkOrders : result[w] = IF w \in new THEN instance ELSE table[w]
  BY <1>4
<1>7. \A w \in WorkOrders :
          orders[w].client # None =>
              /\ result[w].client = orders[w].client
              /\ result[w].location = orders[w].location
              /\ result[w].parent = orders[w].parent
              /\ result[w].late = orders[w].late
  BY <1>3, <1>6
<1>8. \A w \in WorkOrders : result[w].open => result[w].client # None
  BY <1>0, <1>2, <1>6 DEF OpenIsRow
<1>9. \A w \in WorkOrders :
          result[w].client # None =>
              /\ clients[result[w].client].code # None
              /\ result[w].location # None
              /\ locations[result[w].location].client # None
  BY <1>0, <1>2, <1>6 DEF References
<1>10. \A w \in WorkOrders :
          result[w].parent # None => orders[result[w].parent].client # None
  BY <1>0, <1>2, <1>6 DEF References
<1>11. \A w \in WorkOrders :
          result[w].open /\ ~result[w].deleted /\ result[w].parent = None =>
              Open(w) /\ orders[w].client # None
  BY <1>0, <1>1, <1>2, <1>6 DEF OpenIsRow, Open
<1> QED BY <1>5, <1>7, <1>8, <1>9, <1>10, <1>11 DEF OrdersAgree

LEMMA OrderCommits ==
    ASSUME IInv, NEW k \in Workers
    PROVE  /\ \A w \in WorkOrders : CreateOrderCommit(k, w) => IInv'
           /\ ChangeStatusCommit(k) => IInv'
           /\ CompleteCommit(k) => IInv'
<1> DEFINE s == session[k]
           A == s.about
<1>0. /\ TypeOK /\ NamesUnique /\ DeletedPlacesIdle /\ OpenIsRow
      /\ s \in Request \cup {Idle} /\ Facts(s)
      /\ \A v \in WorkOrders : orders[v].client # None =>
            /\ clients[orders[v].client].code # None /\ orders[v].location # None
            /\ locations[orders[v].location].client # None
      /\ \A v \in WorkOrders : orders[v].parent # None => orders[orders[v].parent].client # None
  BY DEF IInv, TypeOK, SessionsHold, References
<1>1. ASSUME NEW w \in WorkOrders, CreateOrderCommit(k, w) PROVE IInv'
  <2> DEFINE row == NewOrder(s.client, s.location, None, s.late)
  <2>1. /\ s.client \in Clients /\ s.location \in Locations /\ s.late \in BOOLEAN
        /\ s.client \in A /\ clients[s.client].code # None
        /\ s.location \in A /\ locations[s.location].client # None
        /\ locations[s.location].deleted => s.location \in raced
        /\ clients[s.client].deleted => s.late \/ s.client \in raced
    BY <1>0, <1>1, RequestKinds DEF CreateOrderCommit, Serving, CreateOrderSession, Facts, OrderFacts
  <2>2. /\ row \in OrderRow /\ row.client = s.client /\ row.location = s.location
        /\ row.parent = None /\ row.late = s.late
    BY <2>1 DEF NewOrder, OrderRow
  <2>3. /\ orders[w].client = None /\ orders' = [orders EXCEPT ![w] = row]
        /\ UNCHANGED <<clients, locations, raced>> /\ Done(k)
    BY <1>1 DEF CreateOrderCommit, Fresh, Done
  <2>4. session' \in [Workers -> Request \cup {Idle}]
    BY <1>0, <2>3 DEF Done, TypeOK
  <2>5. orders' \in [WorkOrders -> OrderRow] /\ \A v \in WorkOrders : orders'[v] = IF v = w THEN row ELSE orders[v]
    BY <1>0, <2>2, <2>3 DEF TypeOK
  <2>6. s.client # None /\ s.location # None
    BY <2>1, NoneAssumption
  <2> HIDE DEF row
  <2>7. Frame(A) /\ TypeOK' /\ NamesUnique' /\ DeletedPlacesIdle' /\ OpenIsRow'
    <3>1. PICK table : table = orders'
      OBVIOUS
    <3>2. \A v \in WorkOrders : table[v] = IF v = w THEN row ELSE orders[v]
      BY <2>5, <3>1
    <3>3. \A v \in WorkOrders : table[v].open => table[v].client # None
      BY <1>0, <2>2, <2>6, <3>2 DEF OpenIsRow
    <3>4. OrdersAgree(table, A)
      BY <1>0, <2>1, <2>2, <2>3, <2>6, <3>2, <3>3 DEF OrdersAgree, Open
    <3> QED BY <2>3, <2>4, <2>5, <3>1, <3>4, OrdersStep
  <2> QED BY <2>3, <2>7, CommitStep
<1>2. ASSUME s.op = "status"
      PROVE  /\ s.order \in WorkOrders /\ orders[s.order].client # None
             /\ orders[s.order].client \in A /\ orders[s.order].location \in A
             /\ orders[s.order].parent = None =>
                   /\ locations[orders[s.order].location].deleted => orders[s.order].location \in raced
                   /\ clients[orders[s.order].client].deleted =>
                         orders[s.order].late \/ orders[s.order].client \in raced
  BY <1>0, <1>2, RequestKinds DEF StatusSession, Facts, OrderFacts, Places
<1>3. ASSUME ChangeStatusCommit(k) PROVE IInv'
  <2> DEFINE d == s.order
  <2>1. PICK open \in BOOLEAN : orders' = [orders EXCEPT ![d].open = open]
    BY <1>3 DEF ChangeStatusCommit
  <2>2. s.op = "status" /\ UNCHANGED <<clients, locations, raced>> /\ Done(k)
    BY <1>3 DEF ChangeStatusCommit, Serving, Done
  <2>3. session' \in [Workers -> Request \cup {Idle}]
    BY <1>0, <2>2 DEF Done, TypeOK
  <2>4. /\ orders' \in [WorkOrders -> OrderRow]
        /\ \A v \in WorkOrders :
              /\ v # d => orders'[v] = orders[v]
              /\ orders'[v].client = orders[v].client /\ orders'[v].location = orders[v].location
              /\ orders'[v].parent = orders[v].parent /\ orders'[v].late = orders[v].late
    BY <1>0, <1>2, <2>1, <2>2 DEF TypeOK, OrderRow
  <2>5. Frame(A) /\ TypeOK' /\ NamesUnique' /\ DeletedPlacesIdle' /\ OpenIsRow'
    <3>1. PICK table : table = orders'
      OBVIOUS
    <3>2. \A v \in WorkOrders :
              /\ v # d => table[v] = orders[v]
              /\ table[v].client = orders[v].client /\ table[v].location = orders[v].location
              /\ table[v].parent = orders[v].parent /\ table[v].late = orders[v].late
      BY <2>4, <3>1
    <3>3. \A v \in WorkOrders : table[v].open => table[v].client # None
      BY <1>0, <1>2, <2>2, <3>2 DEF OpenIsRow
    <3>4. \A v \in WorkOrders :
             table[v].open /\ ~table[v].deleted /\ table[v].parent = None =>
                    \/ /\ Open(v) /\ orders[v].client # None
                    \/ /\ table[v].client \in A /\ table[v].location \in A
                       /\ locations[table[v].location].deleted => table[v].location \in raced
                       /\ clients[table[v].client].deleted =>
                             table[v].late \/ table[v].client \in raced
      BY <1>0, <1>2, <2>2, <3>2 DEF OpenIsRow, Open
    <3>5. OrdersAgree(table, A)
      BY <1>0, <3>2, <3>3, <3>4 DEF OrdersAgree
    <3> QED BY <2>2, <2>3, <2>4, <3>1, <3>5, OrdersStep
  <2> QED BY <2>2, <2>5, CommitStep
<1>4. ASSUME CompleteCommit(k) PROVE IInv'
  <2> DEFINE d == s.order
             root == IF orders[d].parent = None THEN d ELSE orders[d].parent
             closed == [orders EXCEPT ![d].open = FALSE]
  <2>1. PICK new \in SUBSET Fresh : orders' = WithInstances(closed, new, root)
    BY <1>4 DEF CompleteCommit
  <2>2. s.op = "status" /\ UNCHANGED <<clients, locations, raced>> /\ Done(k)
    BY <1>4 DEF CompleteCommit, Serving, Done
  <2>3. session' \in [Workers -> Request \cup {Idle}]
    BY <1>0, <2>2 DEF Done, TypeOK
  <2>4. root \in WorkOrders /\ orders[root].client # None
    BY <1>0, <1>2, <2>2 DEF TypeOK, OrderRow
  <2>5. /\ closed \in [WorkOrders -> OrderRow]
        /\ \A v \in WorkOrders :
              /\ closed[v].open => orders[v].open
              /\ closed[v].client = orders[v].client /\ closed[v].location = orders[v].location
              /\ closed[v].parent = orders[v].parent /\ closed[v].late = orders[v].late
              /\ closed[v].deleted = orders[v].deleted
    BY <1>0, <1>2, <2>2 DEF TypeOK, OrderRow
  <2> HIDE DEF root, closed
  <2>6. Frame(A) /\ TypeOK' /\ NamesUnique' /\ DeletedPlacesIdle' /\ OpenIsRow'
    <3>1. PICK table : table = orders'
      OBVIOUS
    <3>2. table \in [WorkOrders -> OrderRow] /\ OrdersAgree(table, A)
      BY <2>1, <2>4, <2>5, <3>1, InstancesStep
    <3> QED BY <2>2, <2>3, <3>1, <3>2, OrdersStep
  <2> QED BY <2>2, <2>6, CommitStep
<1> QED BY <1>1, <1>3, <1>4

LEMMA OutsideSessions ==
    ASSUME IInv, NEW w \in WorkOrders
    PROVE  /\ GenerateInstances(w) => IInv'
           /\ DeleteOrder(w) => IInv'
<1>0. TypeOK /\ OpenIsRow /\ References
  BY DEF IInv, TypeOK
<1>1. ASSUME GenerateInstances(w) PROVE IInv'
  <2>1. PICK new \in SUBSET Fresh : orders' = WithInstances(orders, new, w)
    BY <1>1 DEF GenerateInstances
  <2>2. orders[w].client # None /\ UNCHANGED <<clients, locations, session, raced>>
    BY <1>1 DEF GenerateInstances
  <2>3. PICK table : table = orders'
    OBVIOUS
  <2>4. orders \in [WorkOrders -> OrderRow] /\ session' \in [Workers -> Request \cup {Idle}]
    BY <1>0, <2>2 DEF TypeOK
  <2>5. table \in [WorkOrders -> OrderRow] /\ OrdersAgree(table, {})
    BY <2>1, <2>2, <2>3, <2>4, InstancesStep
  <2>6. Frame({}) /\ TypeOK' /\ NamesUnique' /\ DeletedPlacesIdle' /\ OpenIsRow'
    BY <2>2, <2>3, <2>4, <2>5, OrdersStep
  <2> QED BY <2>2, <2>6, TableStep
<1>2. ASSUME DeleteOrder(w) PROVE IInv'
  <2>1. /\ orders[w].client # None /\ orders' = [orders EXCEPT ![w].deleted = TRUE]
        /\ UNCHANGED <<clients, locations, session, raced>>
    BY <1>2 DEF DeleteOrder
  <2>2. PICK table : table = orders'
    OBVIOUS
  <2>3. /\ table \in [WorkOrders -> OrderRow] /\ session' \in [Workers -> Request \cup {Idle}]
        /\ \A v \in WorkOrders :
              /\ table[v].open = orders[v].open
              /\ table[v].client = orders[v].client /\ table[v].location = orders[v].location
              /\ table[v].parent = orders[v].parent /\ table[v].late = orders[v].late
              /\ ~table[v].deleted => ~orders[v].deleted
    BY <1>0, <2>1, <2>2 DEF TypeOK, OrderRow
  <2>4. OrdersAgree(table, {})
    BY <1>0, <2>3 DEF OrdersAgree, References, OpenIsRow, Open
  <2>5. Frame({}) /\ TypeOK' /\ NamesUnique' /\ DeletedPlacesIdle' /\ OpenIsRow'
    BY <2>1, <2>2, <2>3, <2>4, OrdersStep
  <2> QED BY <2>1, <2>5, TableStep
<1> QED BY <1>1, <1>2

-----------------------------------------------------------------------------
(* The theorems. *)

LEMMA InitIInv == Init => IInv
<1> SUFFICES ASSUME Init PROVE IInv
  OBVIOUS
<1>1. \A k \in Workers : session[k] = Idle
  BY DEF Init
<1>2. TypeOK
  <2>1. NoClient \in ClientRow /\ NoLocation \in LocationRow /\ NoOrder \in OrderRow
    BY DEF NoClient, NoLocation, NoOrder, ClientRow, LocationRow, OrderRow
  <2>2. References
    BY DEF References, Init, NoLocation, NoOrder
  <2> QED BY <2>1, <2>2 DEF TypeOK, Init
<1>3. NamesUnique
  BY DEF NamesUnique, Init, NoClient, NoLocation
<1>4. DeletedPlacesIdle /\ OpenIsRow
  BY DEF DeletedPlacesIdle, OpenIsRow, Open, Init, NoOrder
<1>5. OverlapRaced
  BY <1>1 DEF OverlapRaced, Idle
<1>6. SessionsHold
  BY <1>1 DEF SessionsHold, Facts, CodeFacts, TokenFacts, DeleteFacts, OrderFacts, Idle
<1> QED BY <1>2, <1>3, <1>4, <1>5, <1>6 DEF IInv

LEMMA NextIInv == IInv /\ [Next]_vars => IInv'
<1> SUFFICES ASSUME IInv, [Next]_vars PROVE IInv'
  OBVIOUS
<1>1. ASSUME NEW k \in Workers, ClientRequest(k) PROVE IInv'
  BY <1>1, ClientReads, ClientCommits DEF ClientRequest
<1>2. ASSUME NEW k \in Workers, LocationRequest(k) PROVE IInv'
  BY <1>2, LocationReads, LocationCommits DEF LocationRequest
<1>3. ASSUME NEW k \in Workers, OrderRequest(k) PROVE IInv'
  BY <1>3, OrderReads, OrderCommits DEF OrderRequest
<1>4. ASSUME NEW k \in Workers, Rollback(k) PROVE IInv'
  BY <1>4, RollbackStep
<1>5. ASSUME NEW w \in WorkOrders, GenerateInstances(w) \/ DeleteOrder(w) PROVE IInv'
  BY <1>5, OutsideSessions
<1>6. CASE UNCHANGED vars
  <2>1. UNCHANGED <<session, raced>> /\ UNCHANGED <<clients, locations, orders>>
    BY <1>6 DEF vars
  <2>2. TypeOK' /\ NamesUnique' /\ DeletedPlacesIdle' /\ OpenIsRow'
    BY <2>1 DEF IInv, TypeOK, References, NamesUnique, DeletedPlacesIdle, OpenIsRow, Open
  <2> QED BY <2>1, <2>2, FrameOfNothing, TableStep
<1> QED BY <1>1, <1>2, <1>3, <1>4, <1>5, <1>6 DEF Next

\* Overlapping requests about a thing are on record in raced, and what a request in
\* flight checked about a thing holds unless the thing is on record.
THEOREM Invariance == Spec => []IInv
<1> QED BY InitIInv, NextIInv, PTL DEF Spec

\* Every row is well typed, and every foreign key names a row, deleted or not.
THEOREM TypeCorrect == Spec => []TypeOK
<1>1. IInv => TypeOK
  BY DEF IInv
<1> QED BY <1>1, Invariance, PTL

\* A client code names one client and a QR code one location, deleted ones included.
THEOREM NamesTheorem == Spec => []NamesUnique
<1>1. IInv => NamesUnique
  BY DEF IInv
<1> QED BY <1>1, Invariance, PTL

\* What the checks for duplicates miss, but for races, is deleted clients and the
\* empty token.
THEOREM ClashTheorem == Spec => []ClashExplained
<1>1. IInv => ClashExplained
  BY DEF IInv, SessionsHold, Facts, CodeFacts, TokenFacts, ClashExplained
<1> QED BY <1>1, Invariance, PTL

\* Open work at a deleted place is an instance of a series, was made for a client
\* deleted before, or comes from a race about the place.
THEOREM IdleTheorem == Spec => []DeletedPlacesIdle
<1>1. IInv => DeletedPlacesIdle
  BY DEF IInv
<1> QED BY <1>1, Invariance, PTL

=============================================================================
