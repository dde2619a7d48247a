---------------------------- MODULE Deployment_proof ----------------------------
(***************************************************************************)
(* Proofs about Deployment, for any number of containers, machines,        *)
(* deploys, resets, seedings, downgrades and crashes.                      *)
(*                                                                         *)
(* First what the scripts do, from their text: which objects a statement   *)
(* makes, in which order, from what.  Then the invariant: of all open      *)
(* transactions at most one (a holder) has done what changes the version,  *)
(* the locks it holds keep every other from doing so, and nobody has rows  *)
(* in a transaction while a wipe is open.  So a holder still commits on    *)
(* the version it found, and the schema it commits is that of a version.   *)
(***************************************************************************)
EXTENDS Deployment, SequenceTheorems, TLAPS

-----------------------------------------------------------------------------
(* The tables.  The rank of a name is the place, from 0, of the statement   *)
(* of the way up that makes it: it tells names apart, and their order.      *)

Rank(n) ==
    CASE n = "alembic_version" -> 0
      [] n = "subscription_plans" -> 1
      [] n = "tenants" -> 2
      [] n = "subscription_status" -> 3
      [] n = "tenant_subscriptions" -> 3
      [] n = "user_role" -> 4
      [] n = "users" -> 4
      [] n = "refresh_tokens" -> 5
      [] n = "employee_profiles" -> 6
      [] n = "clients" -> 7
      [] n = "industry_type" -> 7
      [] n = "client_contacts" -> 8
      [] n = "locations" -> 9
      [] n = "crews" -> 10
      [] n = "crew_member_role" -> 11
      [] n = "crew_members" -> 11
      [] n = "priority" -> 12
      [] n = "work_order_status" -> 12
      [] n = "work_orders" -> 12
      [] n = "work_type" -> 12
      [] n = "task_status" -> 13
      [] n = "work_order_tasks" -> 13
      [] n = "attachment_type" -> 14
      [] n = "work_order_attachments" -> 14
      [] n = "check_in_method" -> 15
      [] n = "work_order_check_ins" -> 15
      [] n = "equipment" -> 16
      [] n = "equipment_status" -> 16
      [] n = "inventory_items" -> 17
      [] n = "inventory_transactions" -> 18
      [] n = "transaction_type" -> 18
      [] n = "invoice_status" -> 19
      [] n = "invoices" -> 19
      [] n = "invoice_line_items" -> 20
      [] n = "payment_method" -> 21
      [] n = "payments" -> 21
      [] n = "audit_logs" -> 22
      [] n = "idx_clients_tenant_active" -> 23
      [] n = "idx_work_orders_tenant_status" -> 24
      [] n = "idx_work_orders_crew_date" -> 25
      [] n = "idx_work_orders_location" -> 26
      [] n = "idx_check_ins_user_date" -> 27
      [] n = "idx_invoices_client_status" -> 28
      [] n = "idx_audit_logs_tenant_date" -> 29
      [] n = "audit_logs.request_id" -> 30
      [] n = "ix_audit_logs_request_id" -> 31
      [] n = "v_audit_events" -> 32
      [] OTHER -> 99

\* The rank of every name, by the statement of the way up that makes it.
LEMMA RankOf ==
    /\ Rank("alembic_version") = 0
    /\ Rank("subscription_plans") = 1
    /\ Rank("tenants") = 2
    /\ Rank("subscription_status") = 3
    /\ Rank("tenant_subscriptions") = 3
    /\ Rank("user_role") = 4
    /\ Rank("users") = 4
    /\ Rank("refresh_tokens") = 5
    /\ Rank("employee_profiles") = 6
    /\ Rank("clients") = 7
    /\ Rank("industry_type") = 7
    /\ Rank("client_contacts") = 8
    /\ Rank("locations") = 9
    /\ Rank("crews") = 10
    /\ Rank("crew_member_role") = 11
    /\ Rank("crew_members") = 11
    /\ Rank("priority") = 12
    /\ Rank("work_order_status") = 12
    /\ Rank("work_orders") = 12
    /\ Rank("work_type") = 12
    /\ Rank("task_status") = 13
    /\ Rank("work_order_tasks") = 13
    /\ Rank("attachment_type") = 14
    /\ Rank("work_order_attachments") = 14
    /\ Rank("check_in_method") = 15
    /\ Rank("work_order_check_ins") = 15
    /\ Rank("equipment") = 16
    /\ Rank("equipment_status") = 16
    /\ Rank("inventory_items") = 17
    /\ Rank("inventory_transactions") = 18
    /\ Rank("transaction_type") = 18
    /\ Rank("invoice_status") = 19
    /\ Rank("invoices") = 19
    /\ Rank("invoice_line_items") = 20
    /\ Rank("payment_method") = 21
    /\ Rank("payments") = 21
    /\ Rank("audit_logs") = 22
    /\ Rank("idx_clients_tenant_active") = 23
    /\ Rank("idx_work_orders_tenant_status") = 24
    /\ Rank("idx_work_orders_crew_date") = 25
    /\ Rank("idx_work_orders_location") = 26
    /\ Rank("idx_check_ins_user_date") = 27
    /\ Rank("idx_invoices_client_status") = 28
    /\ Rank("idx_audit_logs_tenant_date") = 29
    /\ Rank("audit_logs.request_id") = 30
    /\ Rank("ix_audit_logs_request_id") = 31
    /\ Rank("v_audit_events") = 32
BY DEF Rank

\* The tables of 001, by their places.
LEMMA TableIs ==
    /\ DOMAIN Tables001 = 1 .. 22
    /\ Len(Tables001) = 22
    /\ Tables001[1] = subscription_plans
    /\ Tables001[2] = tenants
    /\ Tables001[3] = tenant_subscriptions
    /\ Tables001[4] = users
    /\ Tables001[5] = refresh_tokens
    /\ Tables001[6] = employee_profiles
    /\ Tables001[7] = clients
    /\ Tables001[8] = client_contacts
    /\ Tables001[9] = locations
    /\ Tables001[10] = crews
    /\ Tables001[11] = crew_members
    /\ Tables001[12] = work_orders
    /\ Tables001[13] = work_order_tasks
    /\ Tables001[14] = work_order_attachments
    /\ Tables001[15] = work_order_check_ins
    /\ Tables001[16] = equipment
    /\ Tables001[17] = inventory_items
    /\ Tables001[18] = inventory_transactions
    /\ Tables001[19] = invoices
    /\ Tables001[20] = invoice_line_items
    /\ Tables001[21] = payments
    /\ Tables001[22] = audit_logs
BY DEF Tables001

\* What the record of a table holds.
LEMMA TableFields ==
    ASSUME NEW name, NEW keys, NEW types
    PROVE  /\ Table(name, keys, types).table.name = name
           /\ Table(name, keys, types).table.refs = keys \cup types
           /\ Table(name, keys, types).table.owner = name
           /\ Table(name, keys, types).types = types
BY DEF Table, Object

\* Every table carries its own name.
LEMMA TableNamed ==
    /\ subscription_plans.table.name = "subscription_plans"
    /\ tenants.table.name = "tenants"
    /\ tenant_subscriptions.table.name = "tenant_subscriptions"
    /\ users.table.name = "users"
    /\ refresh_tokens.table.name = "refresh_tokens"
    /\ employee_profiles.table.name = "employee_profiles"
    /\ clients.table.name = "clients"
    /\ client_contacts.table.name = "client_contacts"
    /\ locations.table.name = "locations"
    /\ crews.table.name = "crews"
    /\ crew_members.table.name = "crew_members"
    /\ work_orders.table.name = "work_orders"
    /\ work_order_tasks.table.name = "work_order_tasks"
    /\ work_order_attachments.table.name = "work_order_attachments"
    /\ work_order_check_ins.table.name = "work_order_check_ins"
    /\ equipment.table.name = "equipment"
    /\ inventory_items.table.name = "inventory_items"
    /\ inventory_transactions.table.name = "inventory_transactions"
    /\ invoices.table.name = "invoices"
    /\ invoice_line_items.table.name = "invoice_line_items"
    /\ payments.table.name = "payments"
    /\ audit_logs.table.name = "audit_logs"
BY TableFields DEF subscription_plans, tenants, tenant_subscriptions, users, refresh_tokens,
   employee_profiles, clients, client_contacts, locations, crews, crew_members, work_orders,
   work_order_tasks, work_order_attachments, work_order_check_ins, equipment, inventory_items,
   inventory_transactions, invoices, invoice_line_items, payments, audit_logs

Fits(t, i) ==
    /\ Rank(t.table.name) = i
    /\ \A s \in t.types : Rank(s) = i /\ s # t.table.name
    /\ \A r \in t.table.refs : r \in t.types \/ \E j \in 1 .. i - 1 : r = Tables001[j].table.name
    /\ t.table.owner = t.table.name
    /\ t.types \subseteq t.table.refs

\* Every table of 001 has a rank of its own, and refers to the ones before it.
LEMMA TablesFit ==
    \A i \in 1 .. 22 : Fits(Tables001[i], i)
<1>1. Fits(subscription_plans, 1)
  BY TableFields, RankOf, TableIs, TableNamed DEF Fits, subscription_plans
<1>2. Fits(tenants, 2)
  BY TableFields, RankOf, TableIs, TableNamed DEF Fits, tenants
<1>3. Fits(tenant_subscriptions, 3)
  BY TableFields, RankOf, TableIs, TableNamed DEF Fits, tenant_subscriptions
<1>4. Fits(users, 4)
  BY TableFields, RankOf, TableIs, TableNamed DEF Fits, users
<1>5. Fits(refresh_tokens, 5)
  BY TableFields, RankOf, TableIs, TableNamed DEF Fits, refresh_tokens
<1>6. Fits(employee_profiles, 6)
  BY TableFields, RankOf, TableIs, TableNamed DEF Fits, employee_profiles
<1>7. Fits(clients, 7)
  BY TableFields, RankOf, TableIs, TableNamed DEF Fits, clients
<1>8. Fits(client_contacts, 8)
  BY TableFields, RankOf, TableIs, TableNamed DEF Fits, client_contacts
<1>9. Fits(locations, 9)
  BY TableFields, RankOf, TableIs, TableNamed DEF Fits, locations
<1>10. Fits(crews, 10)
  BY TableFields, RankOf, TableIs, TableNamed DEF Fits, crews
<1>11. Fits(crew_members, 11)
  BY TableFields, RankOf, TableIs, TableNamed DEF Fits, crew_members
<1>12. Fits(work_orders, 12)
  BY TableFields, RankOf, TableIs, TableNamed DEF Fits, work_orders
<1>13. Fits(work_order_tasks, 13)
  BY TableFields, RankOf, TableIs, TableNamed DEF Fits, work_order_tasks
<1>14. Fits(work_order_attachments, 14)
  BY TableFields, RankOf, TableIs, TableNamed DEF Fits, work_order_attachments
<1>15. Fits(work_order_check_ins, 15)
  BY TableFields, RankOf, TableIs, TableNamed DEF Fits, work_order_check_ins
<1>16. Fits(equipment, 16)
  BY TableFields, RankOf, TableIs, TableNamed DEF Fits, equipment
<1>17. Fits(inventory_items, 17)
  BY TableFields, RankOf, TableIs, TableNamed DEF Fits, inventory_items
<1>18. Fits(inventory_transactions, 18)
  BY TableFields, RankOf, TableIs, TableNamed DEF Fits, inventory_transactions
<1>19. Fits(invoices, 19)
  BY TableFields, RankOf, TableIs, TableNamed DEF Fits, invoices
<1>20. Fits(invoice_line_items, 20)
  BY TableFields, RankOf, TableIs, TableNamed DEF Fits, invoice_line_items
<1>21. Fits(payments, 21)
  BY TableFields, RankOf, TableIs, TableNamed DEF Fits, payments
<1>22. Fits(audit_logs, 22)
  BY TableFields, RankOf, TableIs, TableNamed DEF Fits, audit_logs
<1> QED
  BY <1>1, <1>2, <1>3, <1>4, <1>5, <1>6, <1>7, <1>8, <1>9, <1>10, <1>11, <1>12, <1>13, <1>14,
     <1>15, <1>16, <1>17, <1>18, <1>19, <1>20, <1>21, <1>22, TableIs
-----------------------------------------------------------------------------
(* The scripts. *)

Ups == Scripts["upgrade"][0]

\* The indexes of 001, by their places.
LEMMA IndexIs ==
    /\ DOMAIN Indexes001 = 1 .. 7
    /\ Len(Indexes001) = 7
    /\ Indexes001[1] = <<"idx_clients_tenant_active", "clients">>
    /\ Indexes001[2] = <<"idx_work_orders_tenant_status", "work_orders">>
    /\ Indexes001[3] = <<"idx_work_orders_crew_date", "work_orders">>
    /\ Indexes001[4] = <<"idx_work_orders_location", "work_orders">>
    /\ Indexes001[5] = <<"idx_check_ins_user_date", "work_order_check_ins">>
    /\ Indexes001[6] = <<"idx_invoices_client_status", "invoices">>
    /\ Indexes001[7] = <<"idx_audit_logs_tenant_date", "audit_logs">>
BY DEF Indexes001

\* s is a sequence of n statements.
IsScript(s, n) == s = [i \in 1 .. n |-> s[i]]

Joins(s, t, m, n) ==
    /\ IsScript(s \o t, m + n)
    /\ Len(s) = m /\ Len(t) = n /\ Len(s \o t) = m + n
    /\ \A i \in 1 .. m : (s \o t)[i] = s[i]
    /\ \A i \in 1 .. n : (s \o t)[m + i] = t[i]

\* Two sequences after each other: lengths and elements.
LEMMA Joined ==
    ASSUME NEW m \in Nat, NEW n \in Nat, NEW s, NEW t, IsScript(s, m), IsScript(t, n)
    PROVE  Joins(s, t, m, n)
<1> DEFINE S == {s[i] : i \in 1 .. m} \cup {t[i] : i \in 1 .. n}
<1>0. s \in [1 .. m -> S] /\ t \in [1 .. n -> S]
  BY DEF IsScript
<1> HIDE DEF S
<1>1. s \in Seq(S) /\ t \in Seq(S) /\ Len(s) = m /\ Len(t) = n
  BY <1>0
<1>2. /\ s \o t \in Seq(S)
      /\ Len(s \o t) = m + n
      /\ \A i \in 1 .. m + n : (s \o t)[i] = IF i <= m THEN s[i] ELSE t[i - m]
  BY <1>1, ConcatProperties, Zenon
<1>3. IsScript(s \o t, m + n)
  BY <1>2 DEF IsScript
<1>4. \A i \in 1 .. n : m + i \in 1 .. m + n /\ ~(m + i <= m) /\ (m + i) - m = i
  OBVIOUS
<1> QED
  BY <1>1, <1>2, <1>3, <1>4 DEF Joins

\* The script of every phase and of every version found.
LEMMA ScriptsAre ==
    /\ Scripts["upgrade"][0] = <<EnsureVersionTable>> \o Upgrade001 \o Upgrade002
    /\ Scripts["upgrade"][1] = Upgrade002 \o <<Stamp>>
    /\ Scripts["upgrade"][2] = <<>>
    /\ Scripts["downgrade"][0] = <<Impossible>>
    /\ Scripts["downgrade"][1] = Downgrade001 \o <<Stamp>>
    /\ Scripts["downgrade"][2] = Downgrade002 \o <<Stamp>>
    /\ \A from \in 0 .. Latest : Scripts["wipe"][from] = <<Wipe>> /\ Scripts["seed"][from] = Seed
BY DEF Scripts, Statements, Transactions, Latest

\* Sizes have names: provers would write ranges out.
NT == Len(Tables001)
NI == Len(Indexes001)

\* 001 makes 22 tables and 7 indexes.
LEMMA Sizes ==
    NT = 22 /\ NI = 7
BY TableIs, IndexIs DEF NT, NI

\* The same, without the numbers.
LEMMA SizesNat ==
    NT \in Nat /\ NI \in Nat
BY Sizes

\* 001 is the tables and then the indexes.
LEMMA Upgrade001Is ==
    /\ IsScript(Upgrade001, NT + NI)
    /\ \A i \in 1 .. NT : Upgrade001[i] = CreateTable(Tables001[i])
    /\ \A j \in 1 .. NI : Upgrade001[NT + j] = CreateIndex(Indexes001[j])
<1> DEFINE ts == [i \in 1 .. NT |-> CreateTable(Tables001[i])]
           is == [i \in 1 .. NI |-> CreateIndex(Indexes001[i])]
<1>1. IsScript(ts, NT) /\ IsScript(is, NI)
  BY DEF IsScript
<1>2. Upgrade001 = ts \o is
  BY DEF Upgrade001, NT, NI
<1>3. /\ \A i \in 1 .. NT : ts[i] = CreateTable(Tables001[i])
      /\ \A i \in 1 .. NI : is[i] = CreateIndex(Indexes001[i])
  OBVIOUS
<1> HIDE DEF ts, is
<1>4. Joins(ts, is, NT, NI)
  BY <1>1, SizesNat, Joined
<1> QED
  BY <1>2, <1>3, <1>4 DEF Joins

\* The way up from an empty database, statement by statement.
LEMMA UpsIs ==
    /\ IsScript(Ups, 1 + NT + NI + 3)
    /\ Len(Ups) = 1 + NT + NI + 3
    /\ Ups[1] = EnsureVersionTable
    /\ \A i \in 1 .. NT : Ups[1 + i] = CreateTable(Tables001[i])
    /\ \A j \in 1 .. NI : Ups[1 + NT + j] = CreateIndex(Indexes001[j])
    /\ Ups[1 + NT + NI + 1] = Create(AuditColumn, {})
    /\ Ups[1 + NT + NI + 2] = Create(AuditIndex, {})
    /\ Ups[1 + NT + NI + 3] = Create(AuditView, {})
<1> DEFINE begin == <<EnsureVersionTable>>
           first == begin \o Upgrade001
<1>1. Ups = first \o Upgrade002
  BY ScriptsAre DEF Ups
<1>2. IsScript(begin, 1) /\ begin[1] = EnsureVersionTable
  BY DEF IsScript
<1>3. IsScript(Upgrade002, 3)
  BY DEF IsScript, Upgrade002
<1>4. /\ Upgrade002[1] = Create(AuditColumn, {})
      /\ Upgrade002[2] = Create(AuditIndex, {})
      /\ Upgrade002[3] = Create(AuditView, {})
  BY DEF Upgrade002
<1> HIDE DEF begin
<1>5. Joins(begin, Upgrade001, 1, NT + NI)
  BY <1>2, SizesNat, Upgrade001Is, Joined
<1>6. /\ IsScript(first, 1 + (NT + NI))
      /\ first[1] = EnsureVersionTable
      /\ \A i \in 1 .. NT + NI : first[1 + i] = Upgrade001[i]
  BY <1>2, <1>5 DEF Joins
<1> HIDE DEF first
<1>7. Joins(first, Upgrade002, 1 + NT + NI, 3)
  BY <1>3, <1>6, SizesNat, Joined
<1> DEFINE m == 1 + NT + NI
<1>8. m \in Nat /\ 1 \in 1 .. m /\ \A i \in 1 .. NT + NI : 1 + i \in 1 .. m
  BY SizesNat
<1> HIDE DEF m
<1>9. /\ IsScript(Ups, m + 3)
      /\ Len(Ups) = m + 3
      /\ \A i \in 1 .. m : Ups[i] = first[i]
      /\ Ups[m + 1] = Upgrade002[1]
      /\ Ups[m + 2] = Upgrade002[2]
      /\ Ups[m + 3] = Upgrade002[3]
  BY <1>1, <1>7 DEF Joins, m
<1>10. /\ Ups[1] = EnsureVersionTable
       /\ \A i \in 1 .. NT + NI : Ups[1 + i] = Upgrade001[i]
  BY <1>6, <1>8, <1>9
<1>11. \A i \in 1 .. NT : Ups[1 + i] = Upgrade001[i]
  <2>1. \A i \in 1 .. NT : i \in 1 .. NT + NI
    BY SizesNat
  <2> QED
    BY <2>1, <1>10
<1>12. \A j \in 1 .. NI : Ups[1 + NT + j] = Upgrade001[NT + j]
  <2> TAKE j \in 1 .. NI
  <2>1. NT + j \in 1 .. NT + NI /\ 1 + (NT + j) = 1 + NT + j
    BY SizesNat
  <2> QED
    BY <2>1, <1>10
<1> QED
  BY <1>4, <1>9, <1>10, <1>11, <1>12, Upgrade001Is DEF m

\* The way up from 001 is the end of the way up, and the stamp.
LEMMA Up1Is ==
    /\ Len(Scripts["upgrade"][1]) = 4
    /\ Scripts["upgrade"][1][1] = Ups[1 + NT + NI + 1]
    /\ Scripts["upgrade"][1][2] = Ups[1 + NT + NI + 2]
    /\ Scripts["upgrade"][1][3] = Ups[1 + NT + NI + 3]
    /\ Scripts["upgrade"][1][4] = Stamp
BY ScriptsAre, UpsIs DEF Upgrade002

\* The way down from 002, statement by statement.
LEMMA Down2Is ==
    /\ Len(Scripts["downgrade"][2]) = 4
    /\ Scripts["downgrade"][2][1] = DropIfExists("v_audit_events")
    /\ Scripts["downgrade"][2][2] = Drop("ix_audit_logs_request_id")
    /\ Scripts["downgrade"][2][3] = Drop("audit_logs.request_id")
    /\ Scripts["downgrade"][2][4] = Stamp
BY ScriptsAre DEF Downgrade002

NX == Len(Indexes001Down)
ND == Len(Tables001Down)

\* How long the lists of the way down from 001 are.
LEMMA DownSizes ==
    NX = 7 /\ ND = 20 /\ Len(Types001Down) \in Nat
BY DEF NX, ND, Indexes001Down, Tables001Down, Types001Down

\* The same, without the numbers.
LEMMA DownSizesNat ==
    NX \in Nat /\ ND \in Nat
BY DownSizes

\* The way down from 001 drops the indexes and then the tables.
LEMMA Downgrade001Is ==
    /\ IsScript(Downgrade001, NX + ND + Len(Types001Down))
    /\ \A i \in 1 .. NX : Downgrade001[i] = Drop(Indexes001Down[i])
    /\ \A i \in 1 .. ND : Downgrade001[NX + i] = Drop(Tables001Down[i])
<1> DEFINE ne == Len(Types001Down)
           is == [i \in 1 .. NX |-> Drop(Indexes001Down[i])]
           ts == [i \in 1 .. ND |-> Drop(Tables001Down[i])]
           es == [i \in 1 .. ne |-> DropIfExists(Types001Down[i])]
<1>1. NX \in Nat /\ ND \in Nat /\ ne \in Nat
  BY DownSizesNat, DownSizes
<1> HIDE DEF ne
<1>2. IsScript(is, NX) /\ IsScript(ts, ND) /\ IsScript(es, ne)
  BY DEF IsScript
<1>3. Downgrade001 = (is \o ts) \o es
  BY DEF Downgrade001, NX, ND, ne
<1>4. /\ \A i \in 1 .. NX : is[i] = Drop(Indexes001Down[i])
      /\ \A i \in 1 .. ND : ts[i] = Drop(Tables001Down[i])
  OBVIOUS
<1> HIDE DEF is, ts, es
<1> DEFINE drops == is \o ts
<1>5. Joins(is, ts, NX, ND)
  BY <1>1, <1>2, Joined
<1>6. /\ IsScript(drops, NX + ND)
      /\ \A i \in 1 .. NX : drops[i] = Drop(Indexes001Down[i])
      /\ \A i \in 1 .. ND : drops[NX + i] = Drop(Tables001Down[i])
  BY <1>4, <1>5 DEF Joins
<1> HIDE DEF drops
<1>7. Joins(drops, es, NX + ND, ne)
  BY <1>1, <1>2, <1>6, Joined
<1>8. /\ IsScript(Downgrade001, NX + ND + ne)
      /\ \A i \in 1 .. NX + ND : Downgrade001[i] = drops[i]
  BY <1>3, <1>7 DEF Joins, drops
<1>9. /\ \A i \in 1 .. NX : i \in 1 .. NX + ND
      /\ \A i \in 1 .. ND : NX + i \in 1 .. NX + ND
  BY <1>1
<1> QED
  BY <1>6, <1>8, <1>9 DEF ne

\* Nothing before the table of clients is the table of their contacts: it is never dropped.
LEMMA Down1Is ==
    /\ Len(Scripts["downgrade"][1]) \in Nat
    /\ Len(Scripts["downgrade"][1]) > NX + 15
    /\ \A i \in 1 .. NX + 14 : \E n : /\ Scripts["downgrade"][1][i] = Drop(n)
                                       /\ n # "client_contacts"
    /\ Scripts["downgrade"][1][NX + 15] = Drop("clients")
<1> DEFINE end == <<Stamp>>
           S == Scripts["downgrade"][1]
           m == NX + ND + Len(Types001Down)
<1>0. IsScript(end, 1) /\ S = Downgrade001 \o end
  BY ScriptsAre DEF IsScript
<1>1. m \in Nat /\ NX + ND <= m /\ NX + 15 <= m
  BY DownSizes
<1> HIDE DEF end, S
<1>2. Joins(Downgrade001, end, m, 1)
  BY <1>0, <1>1, Downgrade001Is, Joined
<1> HIDE DEF m
<1>3. /\ \A i \in 1 .. m : S[i] = Downgrade001[i]
      /\ Len(S) = m + 1
  BY <1>0, <1>2 DEF Joins
<1>4. \A i \in 1 .. NX : Indexes001Down[i] # "client_contacts"
  BY DownSizes DEF Indexes001Down
<1>5. \A i \in 1 .. 20 : Tables001Down[i] # "client_contacts"
  BY DEF Tables001Down
<1>6. Tables001Down[15] = "clients"
  BY DEF Tables001Down
<1>7. \A i \in 1 .. NX : S[i] = Drop(Indexes001Down[i])
  <2>1. \A i \in 1 .. NX : i \in 1 .. m
    BY <1>1, DownSizesNat
  <2> QED
    BY <2>1, <1>3, Downgrade001Is
<1>8. \A i \in 1 .. ND : S[NX + i] = Drop(Tables001Down[i])
  <2>1. \A i \in 1 .. ND : NX + i \in 1 .. m
    BY <1>1, DownSizesNat
  <2> QED
    BY <2>1, <1>3, Downgrade001Is
<1>9. \A i \in 1 .. NX + 14 : \E n : S[i] = Drop(n) /\ n # "client_contacts"
  <2> TAKE i \in 1 .. NX + 14
  <2>1. CASE i \in 1 .. NX
    BY <2>1, <1>4, <1>7
  <2>2. CASE i \notin 1 .. NX
    <3>1. i - NX \in 1 .. ND /\ i - NX \in 1 .. 20 /\ i = NX + (i - NX)
      BY <2>2, DownSizes
    <3>2. S[i] = Drop(Tables001Down[i - NX])
      BY <3>1, <1>8
    <3> QED
      BY <3>1, <3>2, <1>5
  <2> QED
    BY <2>1, <2>2
<1>10. S[NX + 15] = Drop(Tables001Down[15])
  <2>1. 15 \in 1 .. ND
    BY DownSizes
  <2> QED
    BY <2>1, <1>8
<1>11. Len(S) \in Nat /\ Len(S) > NX + 15
  BY <1>1, <1>3, DownSizesNat
<1> QED
  BY <1>6, <1>9, <1>10, <1>11 DEF S

-----------------------------------------------------------------------------
(* What the way up creates. *)

NU == 1 + NT + NI + 3

\* The way up has 33 statements.
LEMMA NUNat ==
    NU \in Nat /\ NU = 33 /\ Len(Ups) = NU
BY Sizes, UpsIs DEF NU

\* A statement of the way up makes the version table, a table, an index or a part of 002.
LEMMA UpCases ==
    ASSUME NEW k \in 1 .. NU
    PROVE  \/ k = 1
           \/ \E i \in 1 .. NT : k = 1 + i
           \/ \E j \in 1 .. NI : k = 1 + NT + j
           \/ k \in {1 + NT + NI + 1, 1 + NT + NI + 2, 1 + NT + NI + 3}
<1>1. CASE k \in 2 .. 1 + NT
  <2>1. k - 1 \in 1 .. NT /\ k = 1 + (k - 1)
    BY <1>1, SizesNat
  <2> QED
    BY <2>1
<1>2. CASE k \in 2 + NT .. 1 + NT + NI
  <2>1. k - (1 + NT) \in 1 .. NI /\ k = 1 + NT + (k - (1 + NT))
    BY <1>2, SizesNat
  <2> QED
    BY <2>1
<1>3. CASE k = 1 \/ k > 1 + NT + NI
  BY <1>3, SizesNat DEF NU
<1> QED
  BY <1>1, <1>2, <1>3, SizesNat DEF NU

\* The places of these kinds are places of the way up.
LEMMA UpIndices ==
    /\ 1 \in 1 .. NU
    /\ \A i \in 1 .. NT : 1 + i \in 1 .. NU
    /\ \A j \in 1 .. NI : 1 + NT + j \in 1 .. NU
    /\ {1 + NT + NI + 1, 1 + NT + NI + 2, 1 + NT + NI + 3} \subseteq 1 .. NU
BY SizesNat DEF NU

\* What the record of an object holds.
LEMMA ObjectFields ==
    ASSUME NEW name, NEW refs, NEW owner
    PROVE  /\ Object(name, refs, owner).name = name
           /\ Object(name, refs, owner).refs = refs
           /\ Object(name, refs, owner).owner = owner
BY DEF Object

\* The version table is made unless it is there.
LEMMA VersionFields ==
    /\ EnsureVersionTable.op = "create"
    /\ EnsureVersionTable.name = "alembic_version"
    /\ EnsureVersionTable.object = VersionTable
    /\ EnsureVersionTable.types = {}
    /\ EnsureVersionTable.lenient = TRUE
    /\ Created(EnsureVersionTable) = {"alembic_version"}
    /\ Dropped(EnsureVersionTable) = {}
    /\ Planted(EnsureVersionTable) = {}
    /\ Touches(EnsureVersionTable) = {"alembic_version"}
<1>1. /\ EnsureVersionTable.op = "create"
      /\ EnsureVersionTable.name = "alembic_version"
      /\ EnsureVersionTable.object = VersionTable
      /\ EnsureVersionTable.types = {}
      /\ EnsureVersionTable.lenient = TRUE
      /\ VersionTable.refs = {}
  BY DEF EnsureVersionTable, Create, VersionTable, Object
<1> QED
  BY <1>1 DEF Created, Dropped, Planted, Touches

\* Statement k of the way up creates objects of its own, from what the ones before it
\* and itself create.
StepFits(st, k) ==
    /\ st.op = "create"
    /\ st.object.name = st.name
    /\ Created(st) = {st.name} \cup st.types
    /\ \A n \in Created(st) : Rank(n) = k - 1
    /\ st.name \notin st.types
    /\ \A r \in st.object.refs : r \in st.types \/ \E j \in 1 .. k - 1 : r \in Created(Ups[j])
    /\ st.object.owner = st.name \/ st.object.owner \in st.object.refs
    /\ st.lenient => k = 1
    /\ Dropped(st) = {}

\* st is the statement that creates object and, on the way, types.
Creates(st, object, types) ==
    /\ st.op = "create"
    /\ st.name = object.name
    /\ st.object = object
    /\ st.types = types
    /\ st.lenient = FALSE
    /\ Created(st) = {object.name} \cup types
    /\ Dropped(st) = {}
    /\ Planted(st) = {}
    /\ Touches(st) = {object.name} \cup types \cup object.refs

\* A statement that creates does no more than that.
LEMMA CreateIs ==
    ASSUME NEW object, NEW types
    PROVE  Creates(Create(object, types), object, types)
BY DEF Creates, Create, Created, Dropped, Planted, Touches

\* Statement 1 + i of the way up makes table i of 001.
LEMMA TableStepIs ==
    ASSUME NEW i \in 1 .. NT
    PROVE  /\ Creates(Ups[1 + i], Tables001[i].table, Tables001[i].types)
           /\ Created(Ups[1 + i]) = {Tables001[i].table.name} \cup Tables001[i].types
<1> DEFINE st == Ups[1 + i]
           object == Tables001[i].table
           types == Tables001[i].types
<1>1. st = Create(object, types)
  BY UpsIs DEF CreateTable
<1> HIDE DEF st, object, types
<1>2. Creates(st, object, types)
  BY <1>1, CreateIs
<1>3. Created(st) = {object.name} \cup types
  BY <1>2 DEF Creates
<1> QED
  BY <1>2, <1>3 DEF st, object, types

\* The statements for the tables fit.
LEMMA TableSteps ==
    ASSUME NEW i \in 1 .. NT
    PROVE  StepFits(Ups[1 + i], 1 + i)
<1>1. Fits(Tables001[i], i)
  BY TablesFit, Sizes
<1>2. i \in Nat /\ (1 + i) - 1 = i
  BY SizesNat
<1>3. ASSUME NEW r \in Tables001[i].table.refs, r \notin Tables001[i].types
      PROVE  \E j \in 1 .. i : r \in Created(Ups[j])
  <2>1. PICK j \in 1 .. i - 1 : r = Tables001[j].table.name
    BY <1>1, <1>3 DEF Fits
  <2>2. j \in 1 .. NT /\ 1 + j \in 1 .. i
    BY SizesNat
  <2> QED
    BY <2>1, <2>2, TableStepIs
<1> DEFINE t == Tables001[i]
           st == Ups[1 + i]
<1>4. Creates(st, t.table, t.types)
  BY TableStepIs
<1>5. \A r \in t.table.refs : r \in t.types \/ \E j \in 1 .. i : r \in Created(Ups[j])
  BY <1>3
<1> HIDE DEF t, st
<1>6. Fits(t, i)
  BY <1>1 DEF t
<1>7. StepFits(st, 1 + i)
  BY <1>2, <1>4, <1>5, <1>6 DEF Fits, StepFits, Creates
<1> QED
  BY <1>7 DEF st

\* Where the tables are made that indexes and 002 refer to.
LEMMA TableAt ==
    /\ "users" \in Created(Ups[1 + 4]) /\ "clients" \in Created(Ups[1 + 7])
    /\ "work_orders" \in Created(Ups[1 + 12]) /\ "audit_logs" \in Created(Ups[1 + 22])
    /\ "work_order_check_ins" \in Created(Ups[1 + 15]) /\ "invoices" \in Created(Ups[1 + 19])
<1>1. \A i \in 1 .. NT : Tables001[i].table.name \in Created(Ups[1 + i])
  BY TableStepIs
<1>2. {4, 7, 12, 15, 19, 22} \subseteq 1 .. NT
  BY Sizes
<1>3. /\ Tables001[4].table.name = "users" /\ Tables001[7].table.name = "clients"
      /\ Tables001[12].table.name = "work_orders" /\ Tables001[22].table.name = "audit_logs"
      /\ Tables001[15].table.name = "work_order_check_ins"
      /\ Tables001[19].table.name = "invoices"
  BY TableIs, TableNamed
<1> QED
  BY <1>1, <1>2, <1>3

\* Statement 1 + NT + j of the way up makes index j of 001.
LEMMA IndexStepIs ==
    ASSUME NEW j \in 1 .. NI
    PROVE  /\ Creates(Ups[1 + NT + j],
                      Object(Indexes001[j][1], {Indexes001[j][2]}, Indexes001[j][2]), {})
           /\ Created(Ups[1 + NT + j]) = {Indexes001[j][1]}
<1> DEFINE st == Ups[1 + NT + j]
           name == Indexes001[j][1]
           table == Indexes001[j][2]
<1>1. st = Create(Object(name, {table}, table), {})
  BY UpsIs DEF CreateIndex
<1> HIDE DEF st, name, table
<1>2. Creates(st, Object(name, {table}, table), {})
  BY <1>1, CreateIs
<1>3. Created(st) = {name}
  BY <1>2, ObjectFields DEF Creates
<1> QED
  BY <1>2, <1>3 DEF st, name, table

\* Index j is made on a table of 001.
LEMMA IndexesFit ==
    \A j \in 1 .. 7 : /\ Rank(Indexes001[j][1]) = 22 + j
                      /\ \E i \in 1 .. NT : Indexes001[j][2] \in Created(Ups[1 + i])
<1>1. \A i \in {4, 7, 12, 15, 19, 22} : i \in 1 .. NT
  BY Sizes
<1>2. \A t \in {"clients", "work_orders", "work_order_check_ins", "invoices", "audit_logs"} :
         \E i \in 1 .. NT : t \in Created(Ups[1 + i])
  BY <1>1, TableAt
<1>3. \A j \in 1 .. 7 : Rank(Indexes001[j][1]) = 22 + j
  BY IndexIs, RankOf
<1>4. \A j \in 1 .. 7 : Indexes001[j][2] \in
         {"clients", "work_orders", "work_order_check_ins", "invoices", "audit_logs"}
  BY IndexIs
<1> QED
  BY <1>2, <1>3, <1>4

\* The statements for the indexes fit.
LEMMA IndexSteps ==
    ASSUME NEW j \in 1 .. NI
    PROVE  StepFits(Ups[1 + NT + j], 1 + NT + j)
<1> DEFINE st == Ups[1 + NT + j]
           name == Indexes001[j][1]
           table == Indexes001[j][2]
           object == Object(name, {table}, table)
<1>1. Rank(name) = NT + j /\ \E i \in 1 .. NT : table \in Created(Ups[1 + i])
  BY IndexesFit, Sizes
<1>2. Creates(st, object, {})
  BY IndexStepIs
<1>3. j \in Nat /\ NT \in Nat /\ (1 + NT + j) - 1 = NT + j
  BY SizesNat
<1> HIDE DEF st, name, table
<1>4. PICK i \in 1 .. NT : table \in Created(Ups[1 + i])
  BY <1>1
<1>5. 1 + i \in 1 .. NT + j
  BY <1>3
<1>6. object.name = name /\ object.refs = {table} /\ object.owner = table
  BY ObjectFields
<1> HIDE DEF object
<1>7. \A r \in object.refs : \E k \in 1 .. NT + j : r \in Created(Ups[k])
  BY <1>4, <1>5, <1>6
<1>8. StepFits(st, 1 + NT + j)
  BY <1>1, <1>2, <1>3, <1>6, <1>7 DEF Creates, StepFits
<1> QED
  BY <1>8 DEF st

K1 == 1 + NT + NI + 1
K2 == 1 + NT + NI + 2
K3 == 1 + NT + NI + 3

\* The statements of 002 are the last three of the way up.
LEMMA AuditIndices ==
    K1 = 31 /\ K2 = 32 /\ K3 = 33 /\ K3 = NU
BY Sizes DEF K1, K2, K3, NU

\* They make the column, its index and the view.
LEMMA AuditStepIs ==
    /\ Creates(Ups[K1], AuditColumn, {})
    /\ Creates(Ups[K2], AuditIndex, {})
    /\ Creates(Ups[K3], AuditView, {})
BY UpsIs, CreateIs DEF K1, K2, K3

\* What the objects of 002 refer to.
LEMMA AuditObjects ==
    /\ AuditColumn.name = "audit_logs.request_id" /\ AuditColumn.refs = {"audit_logs"}
    /\ AuditColumn.owner = "audit_logs"
    /\ AuditIndex.name = "ix_audit_logs_request_id"
    /\ AuditIndex.refs = {"audit_logs.request_id"} /\ AuditIndex.owner = "audit_logs.request_id"
    /\ AuditView.name = "v_audit_events" /\ AuditView.owner = "v_audit_events"
    /\ AuditView.refs = {"audit_logs", "users", "audit_logs.request_id"}
BY DEF AuditColumn, AuditIndex, AuditView, Object

\* The statements of 002 fit.
LEMMA AuditSteps ==
    StepFits(Ups[K1], K1) /\ StepFits(Ups[K2], K2) /\ StepFits(Ups[K3], K3)
<1>1. /\ Created(Ups[K1]) = {"audit_logs.request_id"}
      /\ Created(Ups[K2]) = {"ix_audit_logs_request_id"}
      /\ Created(Ups[K3]) = {"v_audit_events"}
  BY AuditStepIs, AuditObjects DEF Creates
<1>2. /\ "audit_logs" \in Created(Ups[1 + 22]) /\ "users" \in Created(Ups[1 + 4])
  BY TableAt
<1>3. /\ K1 \in Nat /\ K2 = K1 + 1 /\ K3 = K1 + 2 /\ K1 > 23
      /\ K1 - 1 = 30 /\ K2 - 1 = 31 /\ K3 - 1 = 32
  BY AuditIndices
<1>4. /\ \E k \in 1 .. K1 - 1 : "audit_logs" \in Created(Ups[k])
      /\ \E k \in 1 .. K2 - 1 : "audit_logs.request_id" \in Created(Ups[k])
      /\ \E k \in 1 .. K3 - 1 : "audit_logs.request_id" \in Created(Ups[k])
      /\ \E k \in 1 .. K3 - 1 : "audit_logs" \in Created(Ups[k])
      /\ \E k \in 1 .. K3 - 1 : "users" \in Created(Ups[k])
  <2>1. 1 + 22 \in 1 .. K1 - 1 /\ 1 + 22 \in 1 .. K3 - 1 /\ 1 + 4 \in 1 .. K3 - 1
    BY <1>3
  <2>2. K1 \in 1 .. K2 - 1 /\ K1 \in 1 .. K3 - 1
    BY <1>3
  <2>3. "audit_logs.request_id" \in Created(Ups[K1])
    BY <1>1
  <2> QED
    BY <2>1, <2>2, <2>3, <1>2
<1>5. /\ Rank("audit_logs.request_id") = K1 - 1
      /\ Rank("ix_audit_logs_request_id") = K2 - 1
      /\ Rank("v_audit_events") = K3 - 1
  BY <1>3, RankOf
<1>6. StepFits(Ups[K1], K1)
  BY <1>1, <1>4, <1>5, AuditStepIs, AuditObjects DEF Creates, StepFits
<1>7. StepFits(Ups[K2], K2)
  BY <1>1, <1>4, <1>5, AuditStepIs, AuditObjects DEF Creates, StepFits
<1>8. StepFits(Ups[K3], K3)
  BY <1>1, <1>4, <1>5, AuditStepIs, AuditObjects DEF Creates, StepFits
<1> QED
  BY <1>6, <1>7, <1>8

\* Every statement of the way up fits.
LEMMA UpFits ==
    ASSUME NEW k \in 1 .. NU
    PROVE  StepFits(Ups[k], k)
<1>1. CASE k = 1
  <2>1. VersionTable.name = "alembic_version" /\ VersionTable.refs = {}
        /\ VersionTable.owner = "alembic_version"
    BY DEF VersionTable, Object
  <2>2. Ups[1] = EnsureVersionTable
    BY UpsIs
  <2>3. Rank("alembic_version") = 1 - 1
    BY RankOf
  <2>4. StepFits(EnsureVersionTable, 1)
    BY <2>1, <2>3, VersionFields DEF StepFits
  <2> QED
    BY <1>1, <2>2, <2>4
<1>2. CASE k \in {1 + NT + NI + 1, 1 + NT + NI + 2, 1 + NT + NI + 3}
  BY <1>2, AuditSteps DEF K1, K2, K3
<1> QED
  BY <1>1, <1>2, UpCases, TableSteps, IndexSteps

-----------------------------------------------------------------------------
(* Names and definitions of the objects. *)

\* The objects of the model are the ones the way up makes.
LEMMA ObjectsAre ==
    ASSUME NEW o
    PROVE  o \in Objects <=> \E k \in 1 .. NU :
               \/ o = Ups[k].object
               \/ \E s \in Ups[k].types : o = Object(s, {}, s)
<1>1. /\ \A i \in 1 .. NT : /\ Ups[1 + i].object = Tables001[i].table
                            /\ Ups[1 + i].types = Tables001[i].types
      /\ \A j \in 1 .. NI : /\ Ups[1 + NT + j].object = CreateIndex(Indexes001[j]).object
                            /\ Ups[1 + NT + j].types = {}
      /\ Ups[1].object = VersionTable /\ Ups[1].types = {}
      /\ Ups[K1].object = AuditColumn /\ Ups[K1].types = {}
      /\ Ups[K2].object = AuditIndex /\ Ups[K2].types = {}
      /\ Ups[K3].object = AuditView /\ Ups[K3].types = {}
  <2>1. \A i \in 1 .. NT : Creates(Ups[1 + i], Tables001[i].table, Tables001[i].types)
    BY TableStepIs
  <2>2. ASSUME NEW j \in 1 .. NI
        PROVE  /\ Ups[1 + NT + j].object = CreateIndex(Indexes001[j]).object
               /\ Ups[1 + NT + j].types = {}
    <3>1. Ups[1 + NT + j] = CreateIndex(Indexes001[j])
      BY UpsIs
    <3>2. Creates(Ups[1 + NT + j],
                  Object(Indexes001[j][1], {Indexes001[j][2]}, Indexes001[j][2]), {})
      BY IndexStepIs
    <3> QED
      BY <3>1, <3>2 DEF Creates
  <2> QED
    BY <2>1, <2>2, UpsIs, VersionFields, AuditStepIs DEF Creates
<1>2. DOMAIN Tables001 = 1 .. NT /\ DOMAIN Indexes001 = 1 .. NI
  BY TableIs, IndexIs DEF NT, NI
<1>3. /\ \A t : t \in Range(Tables001) <=> \E i \in 1 .. NT : t = Tables001[i]
      /\ \A t : t \in Range(Indexes001) <=> \E i \in 1 .. NI : t = Indexes001[i]
  BY <1>2 DEF Range
<1>4. o \in Objects <=>
         \/ \E i \in 1 .. NT : o = Tables001[i].table
         \/ \E j \in 1 .. NI : o = CreateIndex(Indexes001[j]).object
         \/ o \in {AuditColumn, AuditIndex, AuditView, VersionTable}
         \/ \E i \in 1 .. NT : \E s \in Tables001[i].types : o = Object(s, {}, s)
  BY <1>3 DEF Objects
<1>5. K1 \in 1 .. NU /\ K2 \in 1 .. NU /\ K3 \in 1 .. NU
  BY UpIndices DEF K1, K2, K3
<1>6. ASSUME o \in Objects
      PROVE  \E k \in 1 .. NU :
               \/ o = Ups[k].object
               \/ \E s \in Ups[k].types : o = Object(s, {}, s)
  BY <1>1, <1>4, <1>5, <1>6, UpIndices
<1>7. ASSUME NEW k \in 1 .. NU,
             \/ o = Ups[k].object
             \/ \E s \in Ups[k].types : o = Object(s, {}, s)
      PROVE  o \in Objects
  <2>1. CASE k = 1
    BY <2>1, <1>1, <1>4, <1>7
  <2>2. CASE \E i \in 1 .. NT : k = 1 + i
    <3>1. PICK i \in 1 .. NT : k = 1 + i
      BY <2>2
    <3> QED
      BY <3>1, <1>1, <1>4, <1>7
  <2>3. CASE \E j \in 1 .. NI : k = 1 + NT + j
    <3>1. PICK j \in 1 .. NI : k = 1 + NT + j
      BY <2>3
    <3> QED
      BY <3>1, <1>1, <1>4, <1>7
  <2>4. CASE k \in {K1, K2, K3}
    BY <2>4, <1>1, <1>4, <1>7
  <2> QED
    BY <2>1, <2>2, <2>3, <2>4, UpCases DEF K1, K2, K3
<1> QED
  BY <1>6, <1>7

\* Their names are the names the way up makes.
LEMMA NamesAre ==
    /\ Names = UNION {Created(Ups[k]) : k \in 1 .. NU}
    /\ \A k \in 1 .. NU : Created(Ups[k]) \subseteq Names
    /\ \A n \in Names : \E k \in 1 .. NU : n \in Created(Ups[k])
<1>1. \A k \in 1 .. NU : /\ Created(Ups[k]) = {Ups[k].object.name} \cup Ups[k].types
  BY UpFits DEF StepFits
<1>2. ASSUME NEW k \in 1 .. NU, NEW n \in Created(Ups[k])
      PROVE  n \in Names
  <2>1. CASE n = Ups[k].object.name
    BY <2>1, ObjectsAre DEF Names
  <2>2. CASE n \in Ups[k].types
    <3>1. Object(n, {}, n) \in Objects
      BY <2>2, ObjectsAre
    <3> QED
      BY <3>1, ObjectFields DEF Names
  <2> QED
    BY <2>1, <2>2, <1>1, <1>2
<1>3. ASSUME NEW n \in Names
      PROVE  \E k \in 1 .. NU : n \in Created(Ups[k])
  <2>1. PICK o \in Objects : n = o.name
    BY DEF Names
  <2>2. PICK k \in 1 .. NU : o = Ups[k].object \/ \E s \in Ups[k].types : o = Object(s, {}, s)
    BY ObjectsAre
  <2> QED
    BY <2>1, <2>2, <1>1, ObjectFields
<1> QED
  BY <1>2, <1>3

\* A name is created by one statement, and in one way.
LEMMA CreatedOnce ==
    ASSUME NEW k \in 1 .. NU, NEW l \in 1 .. NU, NEW n \in Created(Ups[k]), n \in Created(Ups[l])
    PROVE  k = l
<1>1. Rank(n) = k - 1 /\ Rank(n) = l - 1
  BY UpFits DEF StepFits
<1> QED
  BY <1>1, NUNat

\* The definition of a name is the object that the way up makes under it.
LEMMA DefIs ==
    ASSUME NEW k \in 1 .. NU
    PROVE  /\ Def[Ups[k].name] = Ups[k].object
           /\ \A s \in Ups[k].types : Def[s] = Object(s, {}, s)
<1>1. \A l \in 1 .. NU : /\ Created(Ups[l]) = {Ups[l].name} \cup Ups[l].types
                         /\ Ups[l].object.name = Ups[l].name
                         /\ Ups[l].name \notin Ups[l].types
  BY UpFits DEF StepFits
<1>2. ASSUME NEW n \in Created(Ups[k])
      PROVE  n \in Names /\ Def[n] \in Objects /\ Def[n].name = n
  <2>1. n \in Names
    BY NamesAre
  <2>2. \E o \in Objects : o.name = n
    BY <2>1 DEF Names
  <2>3. Def[n] = CHOOSE o \in Objects : o.name = n
    BY <2>1 DEF Def
  <2> QED
    BY <2>1, <2>2, <2>3
<1>3. ASSUME NEW n \in Created(Ups[k])
      PROVE  \/ n = Ups[k].name /\ Def[n] = Ups[k].object
             \/ n \in Ups[k].types /\ Def[n] = Object(n, {}, n)
  <2>1. PICK l \in 1 .. NU :
           Def[n] = Ups[l].object \/ \E s \in Ups[l].types : Def[n] = Object(s, {}, s)
    BY <1>2, ObjectsAre
  <2>2. CASE Def[n] = Ups[l].object
    <3>1. n = Ups[l].name
      BY <2>2, <1>1, <1>2
    <3>2. k = l
      BY <3>1, <1>1, CreatedOnce
    <3> QED
      BY <2>2, <3>1, <3>2
  <2>3. CASE \E s \in Ups[l].types : Def[n] = Object(s, {}, s)
    <3>1. PICK s \in Ups[l].types : Def[n] = Object(s, {}, s)
      BY <2>3
    <3>2. n = s
      BY <3>1, <1>2, ObjectFields
    <3>3. k = l
      BY <3>1, <3>2, <1>1, CreatedOnce
    <3> QED
      BY <3>1, <3>2, <3>3
  <2> QED
    BY <2>1, <2>2, <2>3
<1> QED
  BY <1>1, <1>3

-----------------------------------------------------------------------------
(* What the scripts have done after n statements. *)

Eff(phase, from, n) == Effects[phase][from][n]

\* What n statements have done, field by field.
LEMMA EffIs ==
    ASSUME NEW phase \in Transactions, NEW from \in 0 .. Latest,
           NEW n \in 0 .. Len(Scripts[phase][from])
    PROVE  /\ Eff(phase, from, n).created = UNION {Created(Scripts[phase][from][i]) : i \in 1 .. n}
           /\ Eff(phase, from, n).dropped = UNION {Dropped(Scripts[phase][from][i]) : i \in 1 .. n}
           /\ Eff(phase, from, n).planted = UNION {Planted(Scripts[phase][from][i]) : i \in 1 .. n}
           /\ Eff(phase, from, n).touched = UNION {Touches(Scripts[phase][from][i]) : i \in 1 .. n}
<1> DEFINE S == Scripts[phase][from]
           R == [created |-> UNION {Created(S[i]) : i \in 1 .. n},
                 dropped |-> UNION {Dropped(S[i]) : i \in 1 .. n},
                 planted |-> UNION {Planted(S[i]) : i \in 1 .. n},
                 touched |-> UNION {Touches(S[i]) : i \in 1 .. n}]
<1>1. Effects[phase][from][n] = R
  BY DEF Effects
<1>2. /\ R.created = UNION {Created(S[i]) : i \in 1 .. n}
      /\ R.dropped = UNION {Dropped(S[i]) : i \in 1 .. n}
      /\ R.planted = UNION {Planted(S[i]) : i \in 1 .. n}
      /\ R.touched = UNION {Touches(S[i]) : i \in 1 .. n}
  OBVIOUS
<1> HIDE DEF R
<1> QED
  BY <1>1, <1>2 DEF Eff

\* The stamp touches the version table and makes, drops and plants nothing.
LEMMA StampIs ==
    /\ Stamp.op = "stamp" /\ Created(Stamp) = {} /\ Dropped(Stamp) = {} /\ Planted(Stamp) = {}
    /\ Touches(Stamp) = {"alembic_version"}
BY DEF Stamp, Created, Dropped, Planted, Touches

\* The wipe drops everything.
LEMMA WipeIs ==
    /\ Wipe.op = "wipe" /\ Created(Wipe) = {} /\ Dropped(Wipe) = Names /\ Planted(Wipe) = {}
    /\ Touches(Wipe) = Names
BY DEF Wipe, Created, Dropped, Planted, Touches

\* A statement that drops an object drops what belongs to it too.
LEMMA DropIs ==
    ASSUME NEW name, NEW st \in {Drop(name), DropIfExists(name)}
    PROVE  /\ st.op = "drop" /\ st.name = name /\ Created(st) = {}
           /\ Dropped(st) = {n \in Names : n = name \/ Def[n].owner = name}
<1>1. st.op = "drop" /\ st.name = name
  BY DEF Drop, DropIfExists
<1> QED
  BY <1>1 DEF Created, Dropped

\* op.drop_table does not allow the table to be missing.
LEMMA NotLenient ==
    ASSUME NEW name
    PROVE  Drop(name).lenient = FALSE
BY DEF Drop

\* A statement that inserts does no more than that.
LEMMA InsertIs ==
    ASSUME NEW tables
    PROVE  /\ Insert(tables).op = "insert" /\ Insert(tables).tables = tables
           /\ Created(Insert(tables)) = {} /\ Dropped(Insert(tables)) = {}
           /\ Planted(Insert(tables)) = tables /\ Touches(Insert(tables)) = tables
BY DEF Insert, Created, Dropped, Planted, Touches

\* The check for an earlier seed reads.
LEMMA CheckIs ==
    /\ already_seeded.op = "check" /\ Created(already_seeded) = {}
    /\ Dropped(already_seeded) = {} /\ Planted(already_seeded) = {}
BY DEF already_seeded, Created, Dropped, Planted

\* What the first k statements of the way up create.
Upto(k) == UNION {Created(Ups[i]) : i \in 1 .. k}

\* The next statement of the way up makes what is new, from what is there.
LEMMA UptoNext ==
    ASSUME NEW k \in 0 .. NU - 1
    PROVE  /\ Created(Ups[k + 1]) \cap Upto(k) = {}
           /\ Ups[k + 1].object.refs \subseteq Upto(k) \cup Ups[k + 1].types
           /\ Upto(k + 1) = Upto(k) \cup Created(Ups[k + 1])
<1>1. k + 1 \in 1 .. NU /\ (k + 1) - 1 = k /\ \A i \in 1 .. k : i \in 1 .. NU /\ i # k + 1
  BY NUNat
<1>2. StepFits(Ups[k + 1], k + 1)
  BY <1>1, UpFits
<1>3. Created(Ups[k + 1]) \cap Upto(k) = {}
  BY <1>1, CreatedOnce DEF Upto
<1>4. Ups[k + 1].object.refs \subseteq Upto(k) \cup Ups[k + 1].types
  BY <1>1, <1>2 DEF Upto, StepFits
<1>5. \A i : i \in 1 .. k + 1 <=> i \in 1 .. k \/ i = k + 1
  BY NUNat
<1>6. Upto(k + 1) = Upto(k) \cup Created(Ups[k + 1])
  BY <1>5 DEF Upto
<1> QED
  BY <1>3, <1>4, <1>6

\* The way up begins with nothing and makes every name.
LEMMA UptoIs ==
    /\ Upto(0) = {}
    /\ Upto(NU) = Names
    /\ \A k \in 0 .. NU : Upto(k) \subseteq Names
    /\ \A k \in 0 .. NU : \A i \in 1 .. k : Created(Ups[i]) \subseteq Upto(k)
<1>1. Upto(0) = {}
  BY DEF Upto
<1>2. \A k \in 0 .. NU : \A i \in 1 .. k : i \in 1 .. NU
  BY NUNat
<1> QED
  BY <1>1, <1>2, NamesAre DEF Upto

\* The names that 002 makes.
LEMMA AuditNames ==
    /\ Created(Ups[K1]) = {"audit_logs.request_id"}
    /\ Created(Ups[K2]) = {"ix_audit_logs_request_id"}
    /\ Created(Ups[K3]) = {"v_audit_events"}
    /\ Ups[K1].name = "audit_logs.request_id"
    /\ Ups[K2].name = "ix_audit_logs_request_id"
    /\ Ups[K3].name = "v_audit_events"
BY AuditStepIs, AuditObjects DEF Creates

\* The schema of a version is what the way up has made when it comes to it.
LEMMA SchemaIs ==
    /\ SchemaOf(0) = {}
    /\ SchemaOf(1) = Upto(K1 - 1)
    /\ SchemaOf(2) = Names
    /\ SchemaOf(1) = Names \ {"audit_logs.request_id", "ix_audit_logs_request_id", "v_audit_events"}
<1>1. SchemaOf(0) = {} /\ SchemaOf(2) = Names
  BY DEF SchemaOf
<1>2. SchemaOf(1) = Names \ UNION {Created(st) : st \in Range(Upgrade002)}
  BY DEF SchemaOf
<1>3. Range(Upgrade002) = {Ups[K1], Ups[K2], Ups[K3]}
  <2>1. Range(Upgrade002) = {Create(AuditColumn, {}), Create(AuditIndex, {}), Create(AuditView, {})}
    BY DEF Range, Upgrade002
  <2> QED
    BY <2>1, UpsIs DEF K1, K2, K3
<1>4. SchemaOf(1) = Names \ (Created(Ups[K1]) \cup Created(Ups[K2]) \cup Created(Ups[K3]))
  BY <1>2, <1>3
<1>5. /\ K1 - 1 \in 0 .. NU - 1 /\ (K1 - 1) + 1 = K1
      /\ K1 \in 0 .. NU - 1 /\ K1 + 1 = K2
      /\ K2 \in 0 .. NU - 1 /\ K2 + 1 = K3
  BY AuditIndices
<1>6. Upto(K3) = Upto(K1 - 1) \cup Created(Ups[K1]) \cup Created(Ups[K2]) \cup Created(Ups[K3])
  BY <1>5, UptoNext
<1>7. /\ Created(Ups[K1]) \cap Upto(K1 - 1) = {} /\ Upto(K1 - 1) \subseteq Upto(K1)
      /\ Created(Ups[K2]) \cap Upto(K1) = {} /\ Upto(K1) \subseteq Upto(K2)
      /\ Created(Ups[K3]) \cap Upto(K2) = {}
  BY <1>5, UptoNext
<1>8. SchemaOf(1) = Upto(K1 - 1)
  BY <1>4, <1>6, <1>7, UptoIs, AuditIndices
<1> QED
  BY <1>1, <1>4, <1>8, AuditNames

\* The first two statements of the way up make the version table and the first table.
LEMMA FirstTable ==
    /\ "alembic_version" \in Created(Ups[1]) /\ "subscription_plans" \in Created(Ups[2])
    /\ "alembic_version" \in Touches(Ups[1]) /\ "subscription_plans" \in Touches(Ups[2])
<1>1. 1 \in 1 .. NT /\ Tables001[1].table.name = "subscription_plans"
  BY Sizes, TableIs, TableNamed
<1>2. Creates(Ups[1 + 1], Tables001[1].table, Tables001[1].types)
  BY <1>1, TableStepIs
<1>3. "subscription_plans" \in Created(Ups[1 + 1]) /\ "subscription_plans" \in Touches(Ups[1 + 1])
  BY <1>1, <1>2 DEF Creates
<1> QED
  BY <1>3, UpsIs, VersionFields

\* The way up from an empty database.
LEMMA Up0Effects ==
    ASSUME NEW n \in 0 .. NU
    PROVE  /\ Eff("upgrade", 0, n).created = Upto(n)
           /\ Eff("upgrade", 0, n).dropped = {}
           /\ n >= 1 => "alembic_version" \in Eff("upgrade", 0, n).touched
           /\ n >= 2 => "subscription_plans" \in Eff("upgrade", 0, n).touched
<1>1. "upgrade" \in Transactions /\ 0 \in 0 .. Latest /\ n \in 0 .. Len(Scripts["upgrade"][0])
  BY NUNat DEF Transactions, Latest, Ups
<1>2. \A i \in 1 .. n : Dropped(Ups[i]) = {}
  <2>1. \A i \in 1 .. NU : Dropped(Ups[i]) = {}
    BY UpFits DEF StepFits
  <2>2. \A i \in 1 .. n : i \in 1 .. NU
    BY NUNat
  <2> QED
    BY <2>1, <2>2
<1>3. n >= 1 => 1 \in 1 .. n
  BY NUNat
<1>4. n >= 2 => 2 \in 1 .. n
  BY NUNat
<1>5. /\ Eff("upgrade", 0, n).created = UNION {Created(Ups[i]) : i \in 1 .. n}
      /\ Eff("upgrade", 0, n).dropped = UNION {Dropped(Ups[i]) : i \in 1 .. n}
      /\ Eff("upgrade", 0, n).touched = UNION {Touches(Ups[i]) : i \in 1 .. n}
  BY <1>1, EffIs, SMTT(25) DEF Ups
<1>6. Eff("upgrade", 0, n).created = Upto(n)
  BY <1>5 DEF Upto
<1>7. Eff("upgrade", 0, n).dropped = {}
  BY <1>2, <1>5
<1>8. /\ n >= 1 => "alembic_version" \in Eff("upgrade", 0, n).touched
      /\ n >= 2 => "subscription_plans" \in Eff("upgrade", 0, n).touched
  BY <1>3, <1>4, <1>5, FirstTable
<1> QED
  BY <1>6, <1>7, <1>8

\* The way up from 001.
LEMMA Up1Effects ==
    ASSUME NEW n \in 0 .. 4
    PROVE  /\ n <= 3 => SchemaOf(1) \cup Eff("upgrade", 1, n).created = Upto(K1 - 1 + n)
           /\ n = 4 => SchemaOf(1) \cup Eff("upgrade", 1, n).created = Names
           /\ Eff("upgrade", 1, n).dropped = {}
           /\ "alembic_version" \notin Eff("upgrade", 1, n).created
           /\ n = 4 => "alembic_version" \in Eff("upgrade", 1, n).touched
<1> DEFINE S == Scripts["upgrade"][1]
<1>1. "upgrade" \in Transactions /\ 1 \in 0 .. Latest /\ n \in 0 .. Len(S)
  BY Up1Is DEF Transactions, Latest
<1>2. S[1] = Ups[K1] /\ S[2] = Ups[K2] /\ S[3] = Ups[K3] /\ S[4] = Stamp
  BY Up1Is DEF K1, K2, K3
<1>3. /\ Eff("upgrade", 1, n).created = UNION {Created(S[i]) : i \in 1 .. n}
      /\ Eff("upgrade", 1, n).dropped = UNION {Dropped(S[i]) : i \in 1 .. n}
      /\ Eff("upgrade", 1, n).touched = UNION {Touches(S[i]) : i \in 1 .. n}
  BY <1>1, EffIs, SMTT(25)
<1>4. /\ Created(S[1]) = {"audit_logs.request_id"} /\ Dropped(S[1]) = {}
      /\ Created(S[2]) = {"ix_audit_logs_request_id"} /\ Dropped(S[2]) = {}
      /\ Created(S[3]) = {"v_audit_events"} /\ Dropped(S[3]) = {}
      /\ Created(S[4]) = {} /\ Dropped(S[4]) = {} /\ "alembic_version" \in Touches(S[4])
  BY <1>2, AuditNames, AuditStepIs, StampIs DEF Creates
<1>5. /\ K1 - 1 \in 0 .. NU - 1 /\ (K1 - 1) + 1 = K1 /\ K1 - 1 + 0 = K1 - 1
      /\ K1 - 1 + 1 = K1 /\ K1 - 1 + 2 = K2 /\ K1 - 1 + 3 = K3
      /\ K1 \in 0 .. NU - 1 /\ K1 + 1 = K2
      /\ K2 \in 0 .. NU - 1 /\ K2 + 1 = K3
  BY AuditIndices
<1>6. /\ Upto(K1) = SchemaOf(1) \cup {"audit_logs.request_id"}
      /\ Upto(K2) = Upto(K1) \cup {"ix_audit_logs_request_id"}
      /\ Upto(K3) = Upto(K2) \cup {"v_audit_events"}
      /\ Upto(K3) = Names
  BY <1>5, UptoNext, SchemaIs, AuditNames, UptoIs, AuditIndices
<1> HIDE DEF S
<1>7. CASE n = 0
  <2>1. Eff("upgrade", 1, n).created = {} /\ Eff("upgrade", 1, n).dropped = {}
    BY <1>3, <1>7
  <2> QED
    BY <2>1, <1>7, <1>5, SchemaIs
<1>8. CASE n = 1
  <2>1. /\ Eff("upgrade", 1, n).created = {"audit_logs.request_id"}
        /\ Eff("upgrade", 1, n).dropped = {}
    BY <1>3, <1>4, <1>8
  <2> QED
    BY <2>1, <1>8, <1>5, <1>6
<1>9. CASE n = 2
  <2>1. /\ Eff("upgrade", 1, n).created = {"audit_logs.request_id", "ix_audit_logs_request_id"}
        /\ Eff("upgrade", 1, n).dropped = {}
    BY <1>3, <1>4, <1>9
  <2> QED
    BY <2>1, <1>9, <1>5, <1>6
<1>10. CASE n \in {3, 4}
  <2>1. /\ Eff("upgrade", 1, n).created =
              {"audit_logs.request_id", "ix_audit_logs_request_id", "v_audit_events"}
        /\ Eff("upgrade", 1, n).dropped = {}
    BY <1>3, <1>4, <1>10
  <2>2. n = 4 => "alembic_version" \in Eff("upgrade", 1, n).touched
    BY <1>3, <1>4
  <2> QED
    BY <2>1, <2>2, <1>10, <1>5, <1>6
<1> QED
  BY <1>7, <1>8, <1>9, <1>10

\* Nothing but what 002 itself creates needs what it creates.
LEMMA AuditLast ==
    ASSUME NEW n \in Names,
           NEW a \in {"audit_logs.request_id", "ix_audit_logs_request_id", "v_audit_events"}
    PROVE  /\ a \in Def[n].refs =>
                  /\ a = "audit_logs.request_id"
                  /\ n \in {"ix_audit_logs_request_id", "v_audit_events"}
           /\ Def[n].owner = a =>
                  \/ n = a
                  \/ a = "audit_logs.request_id" /\ n = "ix_audit_logs_request_id"
<1>1. PICK k \in 1 .. NU : n \in Created(Ups[k])
  BY NamesAre
<1>2. StepFits(Ups[k], k)
  BY UpFits
<1>3. CASE n \in Ups[k].types
  <2>1. Def[n].refs = {} /\ Def[n].owner = n
    BY <1>3, DefIs, ObjectFields
  <2> QED
    BY <2>1
<1>4. CASE n = Ups[k].name
  <2>1. Def[n] = Ups[k].object
    BY <1>4, DefIs
  <2>2. PICK l \in {K1, K2, K3} : a \in Created(Ups[l])
    BY AuditNames
  <2>3. l \in 1 .. NU
    BY AuditIndices
  <2>4. ASSUME a \in Def[n].refs
        PROVE  k \in {K2, K3}
    <3>1. CASE a \in Ups[k].types
      <4>1. a \in Created(Ups[k])
        BY <3>1, <1>2 DEF StepFits
      <4>2. k = l
        BY <4>1, <2>2, <2>3, CreatedOnce
      <4>3. Ups[k].types = {}
        BY <4>2, AuditStepIs DEF Creates
      <4> QED
        BY <3>1, <4>3
    <3>2. CASE \E j \in 1 .. k - 1 : a \in Created(Ups[j])
      <4>1. PICK j \in 1 .. k - 1 : a \in Created(Ups[j])
        BY <3>2
      <4>2. j \in 1 .. NU
        BY NUNat
      <4>3. j = l
        BY <4>1, <4>2, <2>2, <2>3, CreatedOnce
      <4> QED
        BY <4>3, AuditIndices
    <3> QED
      BY <3>1, <3>2, <2>1, <2>4, <1>2 DEF StepFits
  <2>5. /\ Ups[K2].object = AuditIndex /\ Ups[K3].object = AuditView
    BY AuditStepIs DEF Creates
  <2>6. a \in Def[n].refs =>
           /\ a = "audit_logs.request_id"
           /\ n \in {"ix_audit_logs_request_id", "v_audit_events"}
    BY <2>1, <2>4, <2>5, <1>4, AuditNames, AuditObjects
  <2>7. Def[n].owner = n \/ Def[n].owner \in Def[n].refs
    BY <2>1, <1>2, <1>4 DEF StepFits
  <2>8. n = "v_audit_events" => Def[n].owner = n
    <3>1. n = "v_audit_events" => k = K3
      BY <1>1, AuditNames, AuditIndices, CreatedOnce
    <3> QED
      BY <3>1, <2>1, <2>5, AuditObjects
  <2> QED
    BY <2>6, <2>7, <2>8
<1> QED
  BY <1>1, <1>2, <1>3, <1>4 DEF StepFits

\* What the statements of the way down from 002 drop.
LEMMA AuditDrops ==
    ASSUME NEW st
    PROVE  /\ st = DropIfExists("v_audit_events") => Dropped(st) = {"v_audit_events"}
           /\ st = Drop("ix_audit_logs_request_id") => Dropped(st) = {"ix_audit_logs_request_id"}
           /\ st = Drop("audit_logs.request_id") =>
                 Dropped(st) = {"audit_logs.request_id", "ix_audit_logs_request_id"}
<1>1. {"audit_logs.request_id", "ix_audit_logs_request_id", "v_audit_events"} \subseteq Names
  BY AuditNames, NamesAre, AuditIndices
<1>2. Def["ix_audit_logs_request_id"].owner = "audit_logs.request_id"
  <2>1. Def[Ups[K2].name] = AuditIndex
    BY DefIs, AuditIndices, AuditStepIs DEF Creates
  <2> QED
    BY <2>1, AuditNames, AuditObjects
<1>3. st = DropIfExists("v_audit_events") => Dropped(st) = {"v_audit_events"}
  BY <1>1, AuditLast, DropIs
<1>4. st = Drop("ix_audit_logs_request_id") => Dropped(st) = {"ix_audit_logs_request_id"}
  BY <1>1, AuditLast, DropIs
<1>5. st = Drop("audit_logs.request_id") =>
         Dropped(st) = {"audit_logs.request_id", "ix_audit_logs_request_id"}
  <2>1. \A n \in Names : Def[n].owner = "audit_logs.request_id" =>
           n \in {"audit_logs.request_id", "ix_audit_logs_request_id"}
    BY AuditLast
  <2> SUFFICES ASSUME st = Drop("audit_logs.request_id")
               PROVE  Dropped(st) = {"audit_logs.request_id", "ix_audit_logs_request_id"}
    OBVIOUS
  <2>2. Dropped(st) = {n \in Names : \/ n = "audit_logs.request_id"
                                    \/ Def[n].owner = "audit_logs.request_id"}
    BY DropIs
  <2> QED
    BY <2>1, <2>2, <1>1, <1>2
<1> QED
  BY <1>3, <1>4, <1>5

\* The way down from 002.
LEMMA Down2Effects ==
    ASSUME NEW n \in 0 .. 4
    PROVE  /\ Eff("downgrade", 2, n).created = {}
           /\ n = 0 => Eff("downgrade", 2, n).dropped = {}
           /\ n = 1 => Eff("downgrade", 2, n).dropped = {"v_audit_events"}
           /\ n = 2 => Eff("downgrade", 2, n).dropped =
                          {"v_audit_events", "ix_audit_logs_request_id"}
           /\ n >= 3 => Eff("downgrade", 2, n).dropped =
                          {"v_audit_events", "ix_audit_logs_request_id", "audit_logs.request_id"}
           /\ n = 4 => "alembic_version" \in Eff("downgrade", 2, n).touched
<1> DEFINE S == Scripts["downgrade"][2]
<1>1. "downgrade" \in Transactions /\ 2 \in 0 .. Latest /\ n \in 0 .. Len(S)
  BY Down2Is DEF Transactions, Latest
<1>3. /\ Eff("downgrade", 2, n).created = UNION {Created(S[i]) : i \in 1 .. n}
      /\ Eff("downgrade", 2, n).dropped = UNION {Dropped(S[i]) : i \in 1 .. n}
      /\ Eff("downgrade", 2, n).touched = UNION {Touches(S[i]) : i \in 1 .. n}
  <2> HIDE DEF S
  <2>1. 2 \in 0 .. Latest /\ n \in 0 .. Len(Scripts["downgrade"][2])
    BY <1>1 DEF S
  <2> QED
    BY <1>1, <2>1, EffIs DEF S
<1>4. /\ Created(S[1]) = {} /\ Dropped(S[1]) = {"v_audit_events"}
      /\ Created(S[2]) = {} /\ Dropped(S[2]) = {"ix_audit_logs_request_id"}
      /\ Created(S[3]) = {}
      /\ Dropped(S[3]) = {"audit_logs.request_id", "ix_audit_logs_request_id"}
      /\ Created(S[4]) = {} /\ Dropped(S[4]) = {} /\ "alembic_version" \in Touches(S[4])
  BY Down2Is, AuditDrops, StampIs, DropIs
<1> HIDE DEF S
<1>5. Eff("downgrade", 2, n).created = {}
  BY <1>3, <1>4
<1>6. CASE n = 0
  BY <1>3, <1>5, <1>6
<1>7. CASE n = 1
  BY <1>3, <1>4, <1>5, <1>7
<1>8. CASE n = 2
  BY <1>3, <1>4, <1>5, <1>8
<1>9. CASE n = 3
  BY <1>3, <1>4, <1>5, <1>9
<1>10. CASE n = 4
  BY <1>3, <1>4, <1>5, <1>10
<1> QED
  BY <1>6, <1>7, <1>8, <1>9, <1>10

\* The wipe, before and after its only statement.
LEMMA WipeEffects ==
    ASSUME NEW from \in 0 .. Latest, NEW n \in 0 .. 1
    PROVE  /\ Eff("wipe", from, n).created = {}
           /\ n = 1 => /\ Eff("wipe", from, n).dropped = Names
                       /\ Eff("wipe", from, n).touched = Names
<1>1. "wipe" \in Transactions /\ Scripts["wipe"][from] = <<Wipe>>
  BY ScriptsAre DEF Transactions
<1> DEFINE S == Scripts["wipe"][from]
<1>2. Len(S) = 1 /\ S[1] = Wipe
  BY <1>1
<1>3. /\ Eff("wipe", from, n).created = UNION {Created(S[i]) : i \in 1 .. n}
      /\ Eff("wipe", from, n).dropped = UNION {Dropped(S[i]) : i \in 1 .. n}
      /\ Eff("wipe", from, n).touched = UNION {Touches(S[i]) : i \in 1 .. n}
  BY <1>1, <1>2, EffIs, SMTT(25)
<1> HIDE DEF S
<1>4. CASE n = 0
  BY <1>3, <1>4
<1>5. CASE n = 1
  <2>1. /\ Eff("wipe", from, n).created = Created(S[1])
        /\ Eff("wipe", from, n).dropped = Dropped(S[1])
        /\ Eff("wipe", from, n).touched = Touches(S[1])
    <3>1. 1 .. n = {1}
      BY <1>5
    <3>2. /\ {Created(S[i]) : i \in 1 .. n} = {Created(S[1])}
          /\ {Dropped(S[i]) : i \in 1 .. n} = {Dropped(S[1])}
          /\ {Touches(S[i]) : i \in 1 .. n} = {Touches(S[1])}
      BY <3>1
    <3>3. \A T : UNION {T} = T
      OBVIOUS
    <3> QED
      BY <3>2, <3>3, <1>3
  <2> QED
    BY <2>1, <1>2, WipeIs
<1> QED
  BY <1>4, <1>5

ContactsStay == "client_contacts" \in SchemaOf(1) /\ "clients" \in Def["client_contacts"].refs

\* The contacts of clients are made by 001 and refer to their clients.
LEMMA ContactsRefer ==
    /\ "client_contacts" \in Names /\ ContactsStay
    /\ Def["client_contacts"].owner = "client_contacts"
<1>1. 8 \in 1 .. NT /\ Tables001[8] = client_contacts
  BY Sizes, TableIs
<1>2. /\ client_contacts.table.name = "client_contacts"
      /\ client_contacts.table.owner = "client_contacts"
      /\ "clients" \in client_contacts.table.refs
  BY TableFields DEF client_contacts
<1>3. Creates(Ups[1 + 8], client_contacts.table, client_contacts.types)
  BY <1>1, TableStepIs
<1>4. 1 + 8 \in 1 .. NU /\ 1 + 8 \in 1 .. K1 - 1 /\ K1 - 1 \in 0 .. NU
  BY AuditIndices
<1>5. Def["client_contacts"] = client_contacts.table
  BY <1>2, <1>3, <1>4, DefIs DEF Creates
<1>6. "client_contacts" \in Created(Ups[1 + 8])
  BY <1>2, <1>3 DEF Creates
<1>7. "client_contacts" \in Names /\ "client_contacts" \in Upto(K1 - 1)
  BY <1>4, <1>6, NamesAre, UptoIs
<1> QED
  BY <1>2, <1>5, <1>7, SchemaIs DEF ContactsStay

\* The way down from 001, until it comes to the table of clients.
LEMMA Down1Effects ==
    ASSUME NEW n \in 0 .. NX + 14
    PROVE  /\ Eff("downgrade", 1, n).created = {}
           /\ "client_contacts" \notin Eff("downgrade", 1, n).dropped
<1> DEFINE S == Scripts["downgrade"][1]
<1>1. "downgrade" \in Transactions /\ 1 \in 0 .. Latest /\ n \in 0 .. Len(S)
  <2>1. n <= Len(S) /\ n \in Nat
    BY Down1Is, DownSizesNat
  <2>2. Len(S) \in Nat
    BY Down1Is
  <2> QED
    BY <2>1, <2>2 DEF Transactions, Latest
<1>2. /\ Eff("downgrade", 1, n).created = UNION {Created(S[i]) : i \in 1 .. n}
      /\ Eff("downgrade", 1, n).dropped = UNION {Dropped(S[i]) : i \in 1 .. n}
  BY <1>1, EffIs, SMTT(25)
<1>3. ASSUME NEW i \in 1 .. n
      PROVE  Created(S[i]) = {} /\ "client_contacts" \notin Dropped(S[i])
  <2>1. i \in 1 .. NX + 14
    BY DownSizesNat
  <2>2. PICK name : S[i] = Drop(name) /\ name # "client_contacts"
    BY <2>1, Down1Is
  <2> QED
    BY <2>2, DropIs, ContactsRefer
<1> HIDE DEF S
<1> QED
  BY <1>2, <1>3

-----------------------------------------------------------------------------
(* The seed script. *)

\* A row of a table refers to rows of the tables its foreign keys name.
LEMMA KeysOf ==
    ASSUME NEW i \in 1 .. NT, NEW name, NEW keys, NEW types,
           Tables001[i] = Table(name, keys, types)
    PROVE  Keys(name) \subseteq keys
<1> DEFINE t == Tables001[i]
<1>1. t.table.name = name /\ t.table.refs = keys \cup types /\ t.types = types
  BY TableFields
<1>2. Creates(Ups[1 + i], t.table, t.types) /\ Fits(t, i)
  BY TableStepIs, TablesFit, Sizes
<1>3. Def[name] = t.table
  BY <1>1, <1>2, DefIs, UpIndices DEF Creates
<1>4. ASSUME NEW s \in types, s \in TableNames
      PROVE  FALSE
  <2>1. PICK j \in 1 .. NT : s = Tables001[j].table.name
    BY <1>4, TableIs DEF TableNames, Range, NT
  <2>2. Fits(Tables001[j], j)
    BY TablesFit, Sizes
  <2>3. Rank(s) = j /\ Rank(s) = i /\ s # name
    BY <1>1, <1>2, <2>1, <2>2 DEF Fits
  <2> QED
    BY <1>1, <2>1, <2>3
<1> QED
  BY <1>1, <1>3, <1>4 DEF Keys

\* The foreign keys of the tables that the seed script plants in.
LEMMA KeysAre ==
    /\ Keys("subscription_plans") \subseteq {}
    /\ Keys("tenants") \subseteq {"subscription_plans"}
    /\ Keys("tenant_subscriptions") \subseteq {"tenants", "subscription_plans"}
    /\ Keys("users") \subseteq {"tenants"}
    /\ Keys("clients") \subseteq {"tenants"}
    /\ Keys("client_contacts") \subseteq {"tenants", "clients"}
    /\ Keys("locations") \subseteq {"tenants", "clients"}
    /\ Keys("crews") \subseteq {"tenants"}
    /\ Keys("crew_members") \subseteq {"tenants", "crews", "users"}
    /\ Keys("work_orders") \subseteq {"tenants", "clients", "locations", "crews", "users"}
    /\ Keys("work_order_tasks") \subseteq {"tenants", "work_orders", "users"}
    /\ Keys("work_order_check_ins") \subseteq {"tenants", "work_orders", "users"}
    /\ Keys("invoices") \subseteq {"tenants", "clients"}
    /\ Keys("invoice_line_items") \subseteq {"tenants", "invoices", "work_orders"}
    /\ Keys("payments") \subseteq {"tenants", "invoices", "users"}
<1>1. /\ 1 \in 1 .. NT /\ 2 \in 1 .. NT /\ 3 \in 1 .. NT /\ 4 \in 1 .. NT /\ 7 \in 1 .. NT
      /\ 8 \in 1 .. NT /\ 9 \in 1 .. NT /\ 10 \in 1 .. NT /\ 11 \in 1 .. NT /\ 12 \in 1 .. NT
      /\ 13 \in 1 .. NT /\ 15 \in 1 .. NT /\ 19 \in 1 .. NT /\ 20 \in 1 .. NT /\ 21 \in 1 .. NT
  BY Sizes
<1>2. Keys("subscription_plans") \subseteq {}
  BY <1>1, TableIs, KeysOf DEF subscription_plans
<1>3. Keys("tenants") \subseteq {"subscription_plans"}
  BY <1>1, TableIs, KeysOf DEF tenants
<1>4. Keys("tenant_subscriptions") \subseteq {"tenants", "subscription_plans"}
  BY <1>1, TableIs, KeysOf DEF tenant_subscriptions
<1>5. Keys("users") \subseteq {"tenants"}
  BY <1>1, TableIs, KeysOf DEF users
<1>6. Keys("clients") \subseteq {"tenants"}
  BY <1>1, TableIs, KeysOf DEF clients
<1>7. Keys("client_contacts") \subseteq {"tenants", "clients"}
  BY <1>1, TableIs, KeysOf DEF client_contacts
<1>8. Keys("locations") \subseteq {"tenants", "clients"}
  BY <1>1, TableIs, KeysOf DEF locations
<1>9. Keys("crews") \subseteq {"tenants"}
  BY <1>1, TableIs, KeysOf DEF crews
<1>10. Keys("crew_members") \subseteq {"tenants", "crews", "users"}
  BY <1>1, TableIs, KeysOf DEF crew_members
<1>11. Keys("work_orders") \subseteq {"tenants", "clients", "locations", "crews", "users"}
  BY <1>1, TableIs, KeysOf DEF work_orders
<1>12. Keys("work_order_tasks") \subseteq {"tenants", "work_orders", "users"}
  BY <1>1, TableIs, KeysOf DEF work_order_tasks
<1>13. Keys("work_order_check_ins") \subseteq {"tenants", "work_orders", "users"}
  BY <1>1, TableIs, KeysOf DEF work_order_check_ins
<1>14. Keys("invoices") \subseteq {"tenants", "clients"}
  BY <1>1, TableIs, KeysOf DEF invoices
<1>15. Keys("invoice_line_items") \subseteq {"tenants", "invoices", "work_orders"}
  BY <1>1, TableIs, KeysOf DEF invoice_line_items
<1>16. Keys("payments") \subseteq {"tenants", "invoices", "users"}
  BY <1>1, TableIs, KeysOf DEF payments
<1> QED
  BY <1>2, <1>3, <1>4, <1>5, <1>6, <1>7, <1>8, <1>9, <1>10, <1>11, <1>12, <1>13, <1>14,
     <1>15, <1>16

\* The seed script, statement by statement.
LEMMA SeedIs ==
    /\ Len(Seed) = 11
    /\ Seed[1] = already_seeded
    /\ Seed[2] = Insert({"subscription_plans"})
    /\ Seed[3] = Insert({"tenants", "tenant_subscriptions"})
    /\ Seed[4] = Insert({"users"})
    /\ Seed[5] = Insert({"clients", "client_contacts"})
    /\ Seed[6] = Insert({"locations"})
    /\ Seed[7] = Insert({"crews", "crew_members"})
    /\ Seed[8] = Insert({"work_orders"})
    /\ Seed[9] = Insert({"work_order_tasks"})
    /\ Seed[10] = Insert({"work_order_check_ins"})
    /\ Seed[11] = Insert({"invoices", "invoice_line_items", "payments"})
BY DEF Seed, seed_subscription_plans, seed_tenant, seed_users, seed_clients, seed_locations,
       seed_crews, seed_work_orders, seed_tasks, seed_check_ins, seed_invoices

\* The tables that n statements of the seed script have rows for.
Sown(n) == UNION {Planted(Seed[i]) : i \in 1 .. n}

\* What a statement has planted stays planted.
LEMMA SownHas ==
    ASSUME NEW n \in Nat, NEW i \in 1 .. n, NEW tables, Seed[i] = Insert(tables)
    PROVE  tables \subseteq Sown(n)
BY InsertIs DEF Sown

\* A statement of the seed script inserts into tables of 001, after what it refers to.
SeedFits(n) ==
    \E tables : /\ Seed[n + 1] = Insert(tables)
                /\ tables \subseteq SchemaOf(1)
                /\ \A t \in tables : Keys(t) \subseteq Sown(n) \cup tables

\* The seed script plants in tables of 001.
LEMMA SeedTables ==
    {"subscription_plans", "tenants", "tenant_subscriptions", "users", "clients",
     "client_contacts", "locations", "crews", "crew_members", "work_orders", "work_order_tasks",
     "work_order_check_ins", "invoices", "invoice_line_items", "payments"} \subseteq SchemaOf(1)
<1>1. ASSUME NEW i \in 1 .. NT
      PROVE  Tables001[i].table.name \in SchemaOf(1)
  <2>1. Tables001[i].table.name \in Created(Ups[1 + i])
    BY TableStepIs
  <2>2. 1 + i \in 1 .. K1 - 1 /\ K1 - 1 \in 0 .. NU
    BY AuditIndices, Sizes
  <2> QED
    BY <2>1, <2>2, UptoIs, SchemaIs
<1>2. \A i \in 1 .. NT : Tables001[i].table.name \in SchemaOf(1)
  BY <1>1
<1>3. /\ 1 \in 1 .. NT /\ 2 \in 1 .. NT /\ 3 \in 1 .. NT /\ 4 \in 1 .. NT /\ 7 \in 1 .. NT
      /\ 8 \in 1 .. NT /\ 9 \in 1 .. NT /\ 10 \in 1 .. NT /\ 11 \in 1 .. NT /\ 12 \in 1 .. NT
      /\ 13 \in 1 .. NT /\ 15 \in 1 .. NT /\ 19 \in 1 .. NT /\ 20 \in 1 .. NT /\ 21 \in 1 .. NT
  BY Sizes
<1> QED
  BY <1>2, <1>3, TableIs, TableNamed

\* Every statement of the seed script after the check fits.
LEMMA SeedInserts ==
    ASSUME NEW n \in 1 .. 10
    PROVE  SeedFits(n)
<1>1. ASSUME n >= 3
      PROVE  {"subscription_plans", "tenants"} \subseteq Sown(n)
  <2>1. 2 \in 1 .. n /\ 3 \in 1 .. n
    BY <1>1
  <2> QED
    BY <2>1, SownHas, SeedIs
<1>2. ASSUME n >= 6
      PROVE  {"users", "clients"} \subseteq Sown(n)
  <2>1. 4 \in 1 .. n /\ 5 \in 1 .. n
    BY <1>2
  <2> QED
    BY <2>1, SownHas, SeedIs
<1>3. ASSUME n >= 7
      PROVE  {"locations", "crews"} \subseteq Sown(n)
  <2>1. 6 \in 1 .. n /\ 7 \in 1 .. n
    BY <1>3
  <2> QED
    BY <2>1, SownHas, SeedIs
<1>4. ASSUME n >= 8
      PROVE  "work_orders" \in Sown(n)
  <2>1. 8 \in 1 .. n
    BY <1>4
  <2> QED
    BY <2>1, SownHas, SeedIs
<1>5. CASE n = 1
  BY <1>5, SeedIs, SeedTables, KeysAre DEF SeedFits
<1>6. CASE n = 2
  <2>1. "subscription_plans" \in Sown(n)
    BY <1>6, 2 \in 1 .. 2, SownHas, SeedIs
  <2> QED
    BY <2>1, <1>6, SeedIs, SeedTables, KeysAre DEF SeedFits
<1>7. CASE n = 3
  BY <1>1, <1>7, SeedIs, SeedTables, KeysAre DEF SeedFits
<1>8. CASE n = 4
  BY <1>1, <1>8, SeedIs, SeedTables, KeysAre DEF SeedFits
<1>9. CASE n = 5
  <2>1. "clients" \in Sown(n)
    BY <1>9, 5 \in 1 .. 5, SownHas, SeedIs
  <2> QED
    BY <2>1, <1>1, <1>9, SeedIs, SeedTables, KeysAre DEF SeedFits
<1>10. CASE n = 6
  BY <1>1, <1>2, <1>10, SeedIs, SeedTables, KeysAre DEF SeedFits
<1>11. CASE n = 7
  BY <1>1, <1>2, <1>3, <1>11, SeedIs, SeedTables, KeysAre DEF SeedFits
<1>12. CASE n = 8
  BY <1>1, <1>2, <1>4, <1>12, SeedIs, SeedTables, KeysAre DEF SeedFits
<1>13. CASE n = 9
  BY <1>1, <1>2, <1>4, <1>13, SeedIs, SeedTables, KeysAre DEF SeedFits
<1>14. CASE n = 10
  BY <1>1, <1>2, <1>4, <1>14, SeedIs, SeedTables, KeysAre DEF SeedFits
<1> QED
  BY <1>5, <1>6, <1>7, <1>8, <1>9, <1>10, <1>11, <1>12, <1>13, <1>14

\* The seed script, after n of its statements.
LEMMA SeedEffects ==
    ASSUME NEW from \in 0 .. Latest, NEW n \in 0 .. 11
    PROVE  /\ Eff("seed", from, n).created = {}
           /\ Eff("seed", from, n).dropped = {}
           /\ Eff("seed", from, n).planted = Sown(n)
           /\ n >= 2 => "subscription_plans" \in Eff("seed", from, n).touched
<1>1. /\ "seed" \in Transactions /\ Scripts["seed"][from] = Seed
      /\ n \in 0 .. Len(Scripts["seed"][from])
  BY ScriptsAre, SeedIs DEF Transactions
<1>2. /\ Eff("seed", from, n).created = UNION {Created(Seed[i]) : i \in 1 .. n}
      /\ Eff("seed", from, n).dropped = UNION {Dropped(Seed[i]) : i \in 1 .. n}
      /\ Eff("seed", from, n).planted = UNION {Planted(Seed[i]) : i \in 1 .. n}
      /\ Eff("seed", from, n).touched = UNION {Touches(Seed[i]) : i \in 1 .. n}
  BY <1>1, EffIs, SMTT(25)
<1>3. ASSUME NEW i \in 1 .. n
      PROVE  Created(Seed[i]) = {} /\ Dropped(Seed[i]) = {}
  <2>1. i = 1 \/ \E tables : Seed[i] = Insert(tables)
    <3>1. i = 1 \/ (i - 1 \in 1 .. 10 /\ (i - 1) + 1 = i)
      OBVIOUS
    <3> QED
      BY <3>1, SeedInserts DEF SeedFits
  <2> QED
    BY <2>1, SeedIs, CheckIs, InsertIs
<1>4. n >= 2 => 2 \in 1 .. n /\ "subscription_plans" \in Touches(Seed[2])
  BY SeedIs, InsertIs
<1> QED
  BY <1>2, <1>3, <1>4 DEF Sown

-----------------------------------------------------------------------------
(* Where processes are. *)

\* Which phases each kind of process has: the kinds are disjoint.
LEMMA ProgramIs ==
    /\ \A p \in Containers : Program(p) = <<"upgrade", "serve">>
    /\ \A p \in Machines : Program(p) = <<"serve">>
    /\ \A p \in Deploys : Program(p) = <<"roll", "upgrade">>
    /\ \A p \in Resets : Program(p) = <<"wipe", "upgrade", "seed">>
    /\ \A p \in Seedings : Program(p) = <<"seed">>
    /\ \A p \in Downgrades : Program(p) = <<"downgrade">>
<1>1. \A p \in Containers : Program(p) = <<"upgrade", "serve">>
  BY RolesAssumption DEF Program, ContainerProgram
<1>2. \A p \in Machines : Program(p) = <<"serve">>
  BY RolesAssumption DEF Program, MachineProgram
<1>3. \A p \in Deploys : Program(p) = <<"roll", "upgrade">>
  BY RolesAssumption DEF Program, DeployProgram
<1>4. \A p \in Resets : Program(p) = <<"wipe", "upgrade", "seed">>
  BY RolesAssumption DEF Program, ResetProgram
<1>5. \A p \in Seedings : Program(p) = <<"seed">>
  BY RolesAssumption DEF Program, SeedProgram
<1>6. \A p \in Downgrades : Program(p) = <<"downgrade">>
  BY RolesAssumption DEF Program, DowngradeProgram
<1> QED
  BY <1>1, <1>2, <1>3, <1>4, <1>5, <1>6

\* How many phases each kind has.
LEMMA Lengths ==
    /\ \A p \in Containers \cup Deploys : Len(Program(p)) = 2
    /\ \A p \in Machines \cup Seedings \cup Downgrades : Len(Program(p)) = 1
    /\ \A p \in Resets : Len(Program(p)) = 3
    /\ \A p \in Processes : Len(Program(p)) \in 1 .. 3
BY ProgramIs DEF Processes

\* The phase a process is in, by its kind and its step.
LEMMA PhaseIs ==
    ASSUME NEW p \in Processes, proc[p].step \in Nat
    PROVE  /\ Phase(p) = "upgrade" <=> \/ p \in Containers /\ proc[p].step = 1
                                       \/ p \in Deploys /\ proc[p].step = 2
                                       \/ p \in Resets /\ proc[p].step = 2
           /\ Phase(p) = "serve" <=> \/ p \in Containers /\ proc[p].step = 2
                                     \/ p \in Machines /\ proc[p].step = 1
           /\ Phase(p) = "roll" <=> p \in Deploys /\ proc[p].step = 1
           /\ Phase(p) = "wipe" <=> p \in Resets /\ proc[p].step = 1
           /\ Phase(p) = "seed" <=> \/ p \in Resets /\ proc[p].step = 3
                                    \/ p \in Seedings /\ proc[p].step = 1
           /\ Phase(p) = "downgrade" <=> p \in Downgrades /\ proc[p].step = 1
           /\ Running(p) <=> proc[p].step \in 1 .. Len(Program(p))
           /\ ~Running(p) => Phase(p) = "none"
<1> DEFINE s == proc[p].step
<1>0. /\ Running(p) <=> s \in 1 .. Len(Program(p))
      /\ Phase(p) = IF Running(p) THEN Program(p)[s] ELSE "none"
  BY DEF Running, Phase
<1> HIDE DEF s
<1>1. CASE p \in Containers
  <2>1. Program(p) = <<"upgrade", "serve">> /\ Len(Program(p)) = 2
    BY <1>1, ProgramIs
  <2>2. p \notin Machines \cup Deploys \cup Resets \cup Seedings \cup Downgrades
    BY <1>1, RolesAssumption
  <2> QED
    BY <2>1, <2>2, <1>0, <1>1 DEF s
<1>2. CASE p \in Machines
  <2>1. Program(p) = <<"serve">> /\ Len(Program(p)) = 1
    BY <1>2, ProgramIs
  <2>2. p \notin Containers \cup Deploys \cup Resets \cup Seedings \cup Downgrades
    BY <1>2, RolesAssumption
  <2> QED
    BY <2>1, <2>2, <1>0, <1>2 DEF s
<1>3. CASE p \in Deploys
  <2>1. Program(p) = <<"roll", "upgrade">> /\ Len(Program(p)) = 2
    BY <1>3, ProgramIs
  <2>2. p \notin Containers \cup Machines \cup Resets \cup Seedings \cup Downgrades
    BY <1>3, RolesAssumption
  <2> QED
    BY <2>1, <2>2, <1>0, <1>3 DEF s
<1>4. CASE p \in Resets
  <2>1. Program(p) = <<"wipe", "upgrade", "seed">> /\ Len(Program(p)) = 3
    BY <1>4, ProgramIs
  <2>2. p \notin Containers \cup Machines \cup Deploys \cup Seedings \cup Downgrades
    BY <1>4, RolesAssumption
  <2> QED
    BY <2>1, <2>2, <1>0, <1>4 DEF s
<1>5. CASE p \in Seedings
  <2>1. Program(p) = <<"seed">> /\ Len(Program(p)) = 1
    BY <1>5, ProgramIs
  <2>2. p \notin Containers \cup Machines \cup Deploys \cup Resets \cup Downgrades
    BY <1>5, RolesAssumption
  <2> QED
    BY <2>1, <2>2, <1>0, <1>5 DEF s
<1>6. CASE p \in Downgrades
  <2>1. Program(p) = <<"downgrade">> /\ Len(Program(p)) = 1
    BY <1>6, ProgramIs
  <2>2. p \notin Containers \cup Machines \cup Deploys \cup Resets \cup Seedings
    BY <1>6, RolesAssumption
  <2> QED
    BY <2>1, <2>2, <1>0, <1>6 DEF s
<1> QED
  BY <1>1, <1>2, <1>3, <1>4, <1>5, <1>6 DEF Processes

\* How long each script is.
LEMMA ScriptLengths ==
    /\ Len(Scripts["upgrade"][0]) = NU
    /\ Len(Scripts["upgrade"][1]) = 4
    /\ Len(Scripts["upgrade"][2]) = 0
    /\ Len(Scripts["downgrade"][0]) = 1
    /\ Len(Scripts["downgrade"][1]) \in Nat
    /\ Len(Scripts["downgrade"][1]) > NX + 15
    /\ Len(Scripts["downgrade"][2]) = 4
    /\ \A from \in 0 .. Latest : /\ Len(Scripts["wipe"][from]) = 1
                                 /\ Len(Scripts["seed"][from]) = 11
<1>1. \A from \in 0 .. Latest : /\ Len(Scripts["wipe"][from]) = 1
                                /\ Len(Scripts["seed"][from]) = 11
  <2>1. Len(<<Wipe>>) = 1 /\ Len(Seed) = 11
    BY SeedIs
  <2>2. \A from \in 0 .. Latest : Scripts["wipe"][from] = <<Wipe>> /\ Scripts["seed"][from] = Seed
    BY ScriptsAre
  <2> QED
    BY <2>1, <2>2, Zenon
<1>2. Len(Scripts["upgrade"][2]) = 0 /\ Len(Scripts["downgrade"][0]) = 1
  BY ScriptsAre
<1> QED
  BY <1>1, <1>2, Up1Is, Down1Is, Down2Is, NUNat DEF Ups

-----------------------------------------------------------------------------
(* The inductive invariant. *)

Row == [step : 0 .. 4, from : (0 .. Latest) \cup {None}, at : Nat, failed : BOOLEAN]

In(p, phase) == InTransaction(p) /\ Phase(p) = phase

\* Three kinds of transaction keep every other from changing the version: one that has
\* stamped it, one that creates the tables, one that has dropped them.
Stamped(p) ==
    /\ proc[p].at = 4
    /\ \/ In(p, "upgrade") /\ proc[p].from = 1
       \/ In(p, "downgrade") /\ proc[p].from = 2
Building(p) == In(p, "upgrade") /\ proc[p].from = 0 /\ proc[p].at >= 2
Wiped(p) == In(p, "wipe") /\ proc[p].at = 1
Holder(p) == Stamped(p) \/ Building(p) \/ Wiped(p)

\* It has rows in its transaction.
Sowing(p) == In(p, "seed") /\ proc[p].at >= 2

Located(p) ==
    InTransaction(p) => Phase(p) \in Transactions /\ proc[p].at <= Len(Script(p))

\* What a process has done fits the version: nobody has changed it behind a holder, and
\* the way down below 001 has not come further than the tables that are left out of it.
Grounded(p) ==
    /\ Stamped(p) => version = proc[p].from
    /\ Building(p) => version = 0
    /\ Sowing(p) => version >= 1
    /\ In(p, "downgrade") => /\ proc[p].from = 0 => proc[p].at = 0
                             /\ proc[p].from = 1 => proc[p].at <= NX + 14

\* Before others commit, a process works on what it found.
Current(p) ==
    p \notin overtaken /\ InTransaction(p) =>
        /\ version = proc[p].from
        /\ Phase(p) = "seed" /\ proc[p].at >= 1 => ~demo

\* As long as the version has not gone down, it is not below what was found or left.
Raised(p) ==
    \/ lowered
    \/ /\ InTransaction(p) => proc[p].from <= version
       /\ p \in Containers /\ proc[p].step = 2 => version = Latest
       /\ p \in Deploys /\ Finished(p) => version = Latest

Facts(p) == Located(p) /\ Grounded(p) /\ Current(p) /\ Raised(p)

Alone ==
    \A p, q \in Processes : /\ Holder(p) /\ Holder(q) => p = q
                            /\ ~(Wiped(p) /\ Sowing(q))

Rolling == \E d \in Deploys : proc[d].step > 0 /\ ~Finished(d)

CodeFits == \A m \in Machines : code[m] <= version \/ lowered \/ Rolling

IInv ==
    /\ TypeOK
    /\ \A p \in Processes : Facts(p)
    /\ Alone
    /\ CodeFits
    /\ DemoComesBack

\* What is said of a process depends on its row alone.
LEMMA SameRow ==
    ASSUME NEW p, proc'[p] = proc[p]
    PROVE  /\ Phase(p)' = Phase(p) /\ (InTransaction(p)' <=> InTransaction(p))
           /\ Script(p)' = Script(p) /\ (Finished(p)' <=> Finished(p))
           /\ (Stamped(p)' <=> Stamped(p)) /\ (Building(p)' <=> Building(p))
           /\ (Wiped(p)' <=> Wiped(p)) /\ (Holder(p)' <=> Holder(p))
           /\ (Sowing(p)' <=> Sowing(p)) /\ (Located(p)' <=> Located(p))
           /\ \A phase : In(p, phase)' <=> In(p, phase)
<1>1. Phase(p)' = Phase(p) /\ (InTransaction(p)' <=> InTransaction(p))
  BY DEF Phase, Running, InTransaction
<1>2. Script(p)' = Script(p) /\ (Finished(p)' <=> Finished(p))
  BY <1>1 DEF Script, Finished
<1>3. \A phase : In(p, phase)' <=> In(p, phase)
  BY <1>1 DEF In
<1>4. (Stamped(p)' <=> Stamped(p)) /\ (Building(p)' <=> Building(p)) /\ (Wiped(p)' <=> Wiped(p))
  BY <1>3 DEF Stamped, Building, Wiped
<1>5. (Sowing(p)' <=> Sowing(p)) /\ (Located(p)' <=> Located(p))
  BY <1>1, <1>2, <1>3 DEF Sowing, Located
<1> QED
  BY <1>1, <1>2, <1>3, <1>4, <1>5 DEF Holder

\* The rows that a step leaves alone, when the version does not change.
LEMMA Others ==
    ASSUME IInv, NEW p \in Processes, NEW row, proc' = [proc EXCEPT ![p] = row],
           UNCHANGED <<production, version, schema, demo, lowered>>, overtaken' \cup {p} = overtaken \cup {p}
    PROVE  \A q \in Processes \ {p} : Facts(q)'
<1> SUFFICES ASSUME NEW q \in Processes, q # p PROVE Facts(q)'
  OBVIOUS
<1>1. proc'[q] = proc[q] /\ Facts(q)
  BY DEF IInv, TypeOK
<1>2. Located(q)'
  BY <1>1, SameRow DEF Facts
<1>3. Grounded(q)'
  BY <1>1, SameRow DEF Facts, Grounded
<1>4. Current(q)'
  BY <1>1, SameRow DEF Facts, Current
<1>5. Raised(q)'
  BY <1>1, SameRow DEF Facts, Raised
<1> QED
  BY <1>2, <1>3, <1>4, <1>5 DEF Facts

\* Scripts end.
LEMMA ScriptsEnd ==
    \A f \in 0 .. Latest : /\ Len(Scripts["upgrade"][f]) \in Nat
                            /\ Len(Scripts["downgrade"][f]) \in Nat
                            /\ Len(Scripts["wipe"][f]) \in Nat
                            /\ Len(Scripts["seed"][f]) \in Nat
<1>1. \A f \in 0 .. Latest : f = 0 \/ f = 1 \/ f = 2
  BY DEF Latest
<1>2. \A f \in 0 .. Latest : Len(Scripts["wipe"][f]) \in Nat /\ Len(Scripts["seed"][f]) \in Nat
  <2>1. 1 \in Nat /\ 11 \in Nat
    OBVIOUS
  <2> QED
    BY <2>1, ScriptLengths, Zenon
<1>3. Len(Scripts["upgrade"][0]) \in Nat
  BY ScriptLengths, NUNat
<1>4. Len(Scripts["upgrade"][1]) \in Nat /\ Len(Scripts["upgrade"][2]) \in Nat
  BY ScriptLengths
<1>5. /\ Len(Scripts["downgrade"][0]) \in Nat /\ Len(Scripts["downgrade"][1]) \in Nat
      /\ Len(Scripts["downgrade"][2]) \in Nat
  BY ScriptLengths
<1>6. \A f \in 0 .. Latest : /\ Len(Scripts["upgrade"][f]) \in Nat
                              /\ Len(Scripts["downgrade"][f]) \in Nat
  BY <1>1, <1>3, <1>4, <1>5, Zenon
<1> QED
  BY <1>2, <1>6, Zenon

\* The next statement of a process that is not at its end, phase by phase.
LEMMA NextIs ==
    ASSUME IInv, NEW p \in Processes, InTransaction(p), ~AtEnd(p)
    PROVE  /\ proc[p].from \in 0 .. Latest /\ proc[p].at \in Nat
           /\ Phase(p) \in Transactions /\ proc[p].at < Len(Script(p))
           /\ Phase(p) = "upgrade" /\ proc[p].from = 0 =>
                 /\ proc[p].at \in 0 .. NU - 1
                 /\ NextStatement(p) = Ups[proc[p].at + 1]
           /\ Phase(p) = "upgrade" /\ proc[p].from = 1 =>
                 \/ proc[p].at \in 0 .. 2 /\ NextStatement(p) = Ups[(K1 - 1 + proc[p].at) + 1]
                 \/ proc[p].at = 3 /\ NextStatement(p) = Stamp
           /\ Phase(p) = "upgrade" => proc[p].from # 2
           /\ Phase(p) = "downgrade" /\ proc[p].from = 0 =>
                 proc[p].at = 0 /\ NextStatement(p) = Impossible
           /\ Phase(p) = "downgrade" /\ proc[p].from = 1 =>
                 \/ proc[p].at \in 0 .. NX + 13 /\ \E name : NextStatement(p) = Drop(name)
                 \/ proc[p].at = NX + 14 /\ NextStatement(p) = Drop("clients")
           /\ Phase(p) = "downgrade" /\ proc[p].from = 2 =>
                 \/ proc[p].at = 0 /\ NextStatement(p) = DropIfExists("v_audit_events")
                 \/ proc[p].at = 1 /\ NextStatement(p) = Drop("ix_audit_logs_request_id")
                 \/ proc[p].at = 2 /\ NextStatement(p) = Drop("audit_logs.request_id")
                 \/ proc[p].at = 3 /\ NextStatement(p) = Stamp
           /\ Phase(p) = "wipe" => proc[p].at = 0 /\ NextStatement(p) = Wipe
           /\ Phase(p) = "seed" =>
                 \/ proc[p].at = 0 /\ NextStatement(p) = already_seeded
                 \/ proc[p].at \in 1 .. 10 /\ SeedFits(proc[p].at)
                    /\ NextStatement(p) = Seed[proc[p].at + 1]
<1> DEFINE n == proc[p].at
           from == proc[p].from
<1>1. /\ from \in 0 .. Latest /\ n \in Nat /\ Phase(p) \in Transactions /\ n <= Len(Script(p))
      /\ Script(p) = Scripts[Phase(p)][from] /\ NextStatement(p) = Script(p)[n + 1]
      /\ n # Len(Script(p))
      /\ Grounded(p)
  BY DEF IInv, TypeOK, Facts, Located, InTransaction, AtEnd, NextStatement, Script
<1>2. Len(Script(p)) \in Nat /\ n < Len(Script(p))
  <2>2. Len(Script(p)) \in Nat
    BY ScriptsEnd, <1>1 DEF Transactions
  <2> QED
    BY <2>2, <1>1
<1>3. InTransaction(p)
  OBVIOUS
<1> HIDE DEF n, from
<1>4. Phase(p) = "upgrade" /\ from = 0 => n \in 0 .. NU - 1 /\ NextStatement(p) = Ups[n + 1]
  <2> SUFFICES ASSUME Phase(p) = "upgrade", from = 0
               PROVE  n \in 0 .. NU - 1 /\ NextStatement(p) = Ups[n + 1]
    OBVIOUS
  <2>1. Script(p) = Ups /\ Len(Script(p)) = NU
    BY <1>1, UpsIs DEF Ups, NU
  <2>2. NU \in Nat
    BY NUNat
  <2> QED
    BY <2>1, <2>2, <1>1, <1>2
<1>5. ASSUME Phase(p) = "upgrade", from = 1
      PROVE  \/ n \in 0 .. 2 /\ NextStatement(p) = Ups[(K1 - 1 + n) + 1]
             \/ n = 3 /\ NextStatement(p) = Stamp
  <2>1. n \in 0 .. 3 /\ NextStatement(p) = Scripts["upgrade"][1][n + 1]
    BY <1>1, <1>2, <1>5, ScriptLengths
  <2>2. (K1 - 1 + 0) + 1 = K1 /\ (K1 - 1 + 1) + 1 = K2 /\ (K1 - 1 + 2) + 1 = K3
    BY AuditIndices
  <2>3. /\ Scripts["upgrade"][1][0 + 1] = Ups[K1] /\ Scripts["upgrade"][1][1 + 1] = Ups[K2]
        /\ Scripts["upgrade"][1][2 + 1] = Ups[K3] /\ Scripts["upgrade"][1][3 + 1] = Stamp
    BY Up1Is DEF K1, K2, K3
  <2> QED
    BY <2>1, <2>2, <2>3
<1>6. Phase(p) = "upgrade" => from # 2
  BY <1>1, <1>2, ScriptLengths
<1>7. Phase(p) = "downgrade" /\ from = 0 => n = 0 /\ NextStatement(p) = Impossible
  <2>1. <<Impossible>>[1] = Impossible
    OBVIOUS
  <2> QED
    BY <2>1, <1>1, <1>2, ScriptLengths, ScriptsAre
<1>8. ASSUME Phase(p) = "downgrade", from = 1
      PROVE  \/ n \in 0 .. NX + 13 /\ \E name : NextStatement(p) = Drop(name)
             \/ n = NX + 14 /\ NextStatement(p) = Drop("clients")
  <2>1. n <= NX + 14 /\ NextStatement(p) = Scripts["downgrade"][1][n + 1]
    BY <1>1, <1>3, <1>8 DEF Grounded, In, n, from
  <2>2. CASE n = NX + 14
    <3>1. n + 1 = NX + 15
      BY <2>2, DownSizesNat
    <3> QED
      BY <3>1, <2>1, <2>2, Down1Is
  <2>3. CASE n # NX + 14
    <3>1. n \in 0 .. NX + 13 /\ n + 1 \in 1 .. NX + 14
      BY <2>1, <2>3, <1>1, DownSizesNat
    <3> QED
      BY <3>1, <2>1, Down1Is
  <2> QED
    BY <2>2, <2>3
<1>9. ASSUME Phase(p) = "downgrade", from = 2
      PROVE  \/ n = 0 /\ NextStatement(p) = DropIfExists("v_audit_events")
             \/ n = 1 /\ NextStatement(p) = Drop("ix_audit_logs_request_id")
             \/ n = 2 /\ NextStatement(p) = Drop("audit_logs.request_id")
             \/ n = 3 /\ NextStatement(p) = Stamp
  <2>1. n \in 0 .. 3 /\ NextStatement(p) = Scripts["downgrade"][2][n + 1]
    BY <1>1, <1>2, <1>9, ScriptLengths
  <2> QED
    BY <2>1, Down2Is
<1>10. Phase(p) = "wipe" => n = 0 /\ NextStatement(p) = Wipe
  <2>0. \A f \in 0 .. Latest : Scripts["wipe"][f] = <<Wipe>>
    BY ScriptsAre
  <2>1. /\ Scripts["wipe"][from] = <<Wipe>>
        /\ Len(Scripts["wipe"][from]) = 1
    BY <2>0, <1>1, ScriptLengths, Zenon
  <2>2. Scripts["wipe"][from][1] = Wipe
    BY <2>1
  <2>3. Phase(p) = "wipe" => n = 0
    BY <2>1, <1>1, <1>2
  <2> QED
    BY <2>2, <2>3, <1>1
<1>11. ASSUME Phase(p) = "seed"
       PROVE  \/ n = 0 /\ NextStatement(p) = already_seeded
              \/ n \in 1 .. 10 /\ SeedFits(n) /\ NextStatement(p) = Seed[n + 1]
  <2>1. Len(Script(p)) = 11 /\ Script(p) = Seed
    BY <1>1, <1>11, ScriptLengths, ScriptsAre
  <2>2. n \in 0 .. 10 /\ NextStatement(p) = Seed[n + 1]
    BY <2>1, <1>1, <1>2
  <2> QED
    BY <2>2, SeedIs, SeedInserts
<1> QED
  BY <1>1, <1>2, <1>4, <1>5, <1>6, <1>7, <1>8, <1>9, <1>10, <1>11 DEF n, from

\* What kinds of statement each phase has.
LEMMA OpsAre ==
    ASSUME IInv, NEW p \in Processes, InTransaction(p), ~AtEnd(p)
    PROVE  /\ Phase(p) = "upgrade" => NextStatement(p).op \in {"create", "stamp"}
           /\ Phase(p) = "downgrade" => NextStatement(p).op \in {"impossible", "drop", "stamp"}
           /\ Phase(p) = "wipe" => NextStatement(p).op = "wipe"
           /\ Phase(p) = "seed" => \/ NextStatement(p).op = "check" /\ proc[p].at = 0
                                   \/ NextStatement(p).op = "insert"
<1>1. ASSUME Phase(p) = "upgrade"
      PROVE  NextStatement(p).op \in {"create", "stamp"}
  <2>1. \A k \in 1 .. NU : Ups[k].op = "create"
    BY UpFits DEF StepFits
  <2>2. CASE proc[p].from = 0
    <3>1. proc[p].at + 1 \in 1 .. NU /\ NextStatement(p) = Ups[proc[p].at + 1]
      <4>1. NU \in Nat
        BY NUNat
      <4> QED
        BY <4>1, <1>1, <2>2, NextIs
    <3> QED
      BY <3>1, <2>1
  <2>3. CASE proc[p].from = 1
    <3>1. CASE proc[p].at \in 0 .. 2 /\ NextStatement(p) = Ups[(K1 - 1 + proc[p].at) + 1]
      <4>1. (K1 - 1 + proc[p].at) + 1 \in 1 .. NU
        BY <3>1, AuditIndices
      <4> QED
        BY <4>1, <3>1, <2>1
    <3> QED
      BY <3>1, <1>1, <2>3, NextIs, StampIs
  <2> QED
    BY <2>2, <2>3, <1>1, NextIs DEF Latest
<1>2. ASSUME Phase(p) = "downgrade"
      PROVE  NextStatement(p).op \in {"impossible", "drop", "stamp"}
  <2>1. Impossible.op = "impossible"
    BY DEF Impossible
  <2>2. \A name : Drop(name).op = "drop" /\ DropIfExists(name).op = "drop"
    BY DropIs
  <2>3. \/ NextStatement(p) = Impossible
        \/ NextStatement(p) = Stamp
        \/ \E name : NextStatement(p) = Drop(name) \/ NextStatement(p) = DropIfExists(name)
    BY <1>2, NextIs DEF Latest
  <2> QED
    BY <2>1, <2>2, <2>3, StampIs
<1>3. Phase(p) = "wipe" => NextStatement(p).op = "wipe"
  BY NextIs, WipeIs
<1>4. ASSUME Phase(p) = "seed"
      PROVE  \/ NextStatement(p).op = "check" /\ proc[p].at = 0
             \/ NextStatement(p).op = "insert"
  BY <1>4, NextIs, CheckIs, InsertIs DEF SeedFits
<1> QED
  BY <1>1, <1>2, <1>3, <1>4

\* What is a row, field by field.
LEMMA RowIs ==
    /\ \A s \in 0 .. 4, f \in (0 .. Latest) \cup {None}, n \in Nat, b \in BOOLEAN :
          [step |-> s, from |-> f, at |-> n, failed |-> b] \in Row
    /\ \A row \in Row : row = [step |-> row.step, from |-> row.from, at |-> row.at,
                               failed |-> row.failed]
    /\ None \in (0 .. Latest) \cup {None}
BY DEF Row

\* A row that goes on to its next phase is a row.
LEMMA Stepped ==
    ASSUME NEW row \in Row, row.step + 1 \in 0 .. 4
    PROVE  /\ [row EXCEPT !.step = @ + 1, !.from = None] \in Row
           /\ [row EXCEPT !.step = @ + 1, !.from = None, !.at = 0] \in Row
BY DEF Row

\* A process leaves its transaction without effect, or was in none.
Leaves(p, row) ==
    /\ row \in Row /\ row.from = None
    /\ proc' = [proc EXCEPT ![p] = row]
    /\ UNCHANGED <<production, version, schema, demo, code, overtaken, lowered>>
    /\ crashes' \in 0 .. MaxCrashes
    /\ p \in Containers => row.step <= 1
    /\ p \in Deploys \cup Resets =>
           /\ row.step > 0
           /\ row.step <= Len(Program(p)) \/ row.failed \/ (p \in Resets /\ demo)

\* Leaving without effect keeps the invariant.
LEMMA Leave ==
    ASSUME IInv, NEW p \in Processes, NEW row, Leaves(p, row)
    PROVE  IInv'
<1>0. /\ row \in Row /\ row.from = None
      /\ proc' = [proc EXCEPT ![p] = row]
      /\ UNCHANGED <<production, version, schema, demo, code, overtaken, lowered>>
      /\ crashes' \in 0 .. MaxCrashes
      /\ p \in Containers => row.step <= 1
      /\ p \in Deploys \cup Resets =>
             /\ row.step > 0
             /\ row.step <= Len(Program(p)) \/ row.failed \/ (p \in Resets /\ demo)
  BY DEF Leaves
<1> USE <1>0
<1>1. TypeOK'
  BY DEF IInv, TypeOK, Row
<1>2. proc'[p] = row /\ \A q \in Processes \ {p} : proc'[q] = proc[q]
  BY DEF IInv, TypeOK
<1>3. \A q \in Processes \ {p} : Facts(q)'
  BY Others
<1>4. ~InTransaction(p)'
  BY <1>2 DEF InTransaction
<1>5. row.step \in Nat /\ Len(Program(p)) \in 1 .. 3
  BY Lengths DEF Row
<1>6. p \in Deploys => ~Finished(p)'
  BY <1>2, <1>5, RolesAssumption DEF Finished
<1>7. ~Stamped(p)' /\ ~Building(p)' /\ ~Wiped(p)' /\ ~Sowing(p)'
  BY <1>4 DEF Stamped, Building, Wiped, Sowing, In
<1>8. Facts(p)'
  <2>1. Located(p)'
    BY <1>4 DEF Located
  <2>2. Grounded(p)'
    BY <1>4, <1>7 DEF Grounded, In
  <2>3. Current(p)'
    BY <1>4 DEF Current
  <2>4. Raised(p)'
    <3>1. p \in Containers => proc'[p].step # 2
      BY <1>2, <1>5
    <3> QED
      BY <3>1, <1>4, <1>6 DEF Raised
  <2> QED
    BY <2>1, <2>2, <2>3, <2>4 DEF Facts
<1>9. Alone'
  <2> SUFFICES ASSUME NEW q \in Processes, NEW r \in Processes
               PROVE  /\ Holder(q)' /\ Holder(r)' => q = r
                      /\ ~(Wiped(q)' /\ Sowing(r)')
    BY DEF Alone
  <2>1. \A s \in Processes : Holder(s)' => s # p /\ Holder(s)
    BY <1>2, <1>7, SameRow DEF Holder
  <2>2. \A s \in Processes : /\ Wiped(s)' => Wiped(s)
                             /\ Sowing(s)' => Sowing(s)
    BY <1>2, <1>7, SameRow
  <2> QED
    BY <2>1, <2>2 DEF IInv, Alone
<1>10. CodeFits'
  <2>1. Rolling => Rolling'
    <3> SUFFICES ASSUME NEW d \in Deploys, proc[d].step > 0, ~Finished(d)
                 PROVE  proc'[d].step > 0 /\ ~Finished(d)'
      BY DEF Rolling
    <3>1. CASE d = p
      BY <3>1, <1>2, <1>6
    <3>2. CASE d # p
      BY <3>2, <1>2, SameRow DEF Processes
    <3> QED
      BY <3>1, <3>2
  <2> QED
    BY <2>1 DEF IInv, CodeFits
<1>11. DemoComesBack'
  <2>1. CASE demo
    BY <2>1 DEF DemoComesBack
  <2>2. CASE ~demo
    <3>1. p \in Resets => ~Finished(p)' /\ proc'[p].step > 0
      BY <2>2, <1>2, <1>5 DEF Finished
    <3>2. \A q \in Resets \ {p} : proc'[q].step = proc[q].step /\ (Finished(q)' <=> Finished(q))
      BY <1>2, SameRow DEF Processes
    <3> QED
      BY <2>2, <3>1, <3>2 DEF IInv, DemoComesBack
  <2> QED
    BY <2>1, <2>2
<1> QED
  BY <1>1, <1>3, <1>8, <1>9, <1>10, <1>11 DEF IInv

\* The end of a process, with its open transaction rolled back, keeps the invariant.
LEMMA ExitedRow ==
    ASSUME IInv, NEW p \in Processes, Exited(p),
           UNCHANGED <<production, version, schema, demo, code, overtaken, lowered>>,
           crashes' \in 0 .. MaxCrashes
    PROVE  IInv'
<1> DEFINE row == IF p \in Containers \cup Machines
                  THEN NotRunning
                  ELSE [step |-> Len(Program(p)) + 1, from |-> None, at |-> 0, failed |-> TRUE]
<1>1. proc' = [proc EXCEPT ![p] = row]
  BY DEF Exited
<1>2. Len(Program(p)) \in 1 .. 3
  BY Lengths
<1>3. NotRunning \in Row /\ NotRunning.from = None /\ NotRunning.step = 0
  BY DEF NotRunning, Row, Latest
<1>4. row \in Row /\ row.from = None
  <2>0. Len(Program(p)) + 1 \in 0 .. 4
    <3>1. \A n \in 1 .. 3 : n + 1 \in 0 .. 4
      OBVIOUS
    <3> QED
      BY <3>1, <1>2
  <2>1. [step |-> Len(Program(p)) + 1, from |-> None, at |-> 0, failed |-> TRUE] \in Row
    BY <2>0, RowIs
  <2> QED
    BY <2>1, <1>3
<1>5. p \in Containers => row.step <= 1
  BY <1>3
<1>6. p \in Deploys \cup Resets =>
         /\ row.step > 0
         /\ row.step <= Len(Program(p)) \/ row.failed \/ (p \in Resets /\ demo)
  BY <1>2, RolesAssumption
<1> HIDE DEF row
<1>7. Leaves(p, row)
  BY <1>1, <1>4, <1>5, <1>6 DEF Leaves
<1> QED
  BY <1>7, Leave

\* Starting a process keeps the invariant.
LEMMA StartStep ==
    ASSUME IInv, NEW p \in Processes, Start(p)
    PROVE  IInv'
<1> DEFINE row == [proc[p] EXCEPT !.step = 1]
<1>1. proc' = [proc EXCEPT ![p] = row]
  BY DEF IInv, TypeOK, Start
<1>2. /\ proc[p].step = 0 /\ proc[p].from = None /\ proc[p].at = 0 /\ proc[p].failed = FALSE
      /\ proc[p] \in Row
  BY DEF Start, NotRunning, IInv, TypeOK, Row
<1>3. row \in Row /\ row.from = None /\ row.step = 1
  BY <1>2 DEF Row
<1>4. /\ UNCHANGED <<production, version, schema, demo, code, overtaken, lowered>>
      /\ crashes' \in 0 .. MaxCrashes
  BY DEF Start, IInv, TypeOK
<1>5. 1 <= Len(Program(p))
  BY Lengths
<1>6. p \in Containers => row.step <= 1
  BY <1>3
<1>7. p \in Deploys \cup Resets =>
         /\ row.step > 0
         /\ row.step <= Len(Program(p)) \/ row.failed \/ (p \in Resets /\ demo)
  BY <1>3, <1>5
<1> HIDE DEF row
<1>8. Leaves(p, row)
  BY <1>1, <1>3, <1>4, <1>6, <1>7 DEF Leaves
<1> QED
  BY <1>8, Leave

\* The check for earlier seeds is the first statement of the seed script, and of no other.
LEMMA CheckAt ==
    ASSUME IInv, NEW p \in Processes, InTransaction(p), ~AtEnd(p),
           NextStatement(p) = already_seeded
    PROVE  Phase(p) = "seed" /\ proc[p].at = 0
BY NextIs, OpsAre, CheckIs DEF Transactions

\* A seed script that finds the demo keeps the invariant.
LEMMA SkipStep ==
    ASSUME IInv, NEW p \in Processes, Skip(p)
    PROVE  IInv'
<1> DEFINE row == [proc[p] EXCEPT !.step = @ + 1, !.from = None]
<1>1. proc' = [proc EXCEPT ![p] = row]
  BY DEF IInv, TypeOK, Skip
<1>2. proc[p] \in Row
  BY DEF IInv, TypeOK, Row
<1>3. Phase(p) = "seed"
  BY CheckAt DEF Skip
<1>4. demo /\ proc[p].step \in 1 .. 3 /\ p \in Resets \cup Seedings
  BY <1>2, <1>3, PhaseIs DEF Row, Skip
<1>5. row \in Row /\ row.from = None /\ row.step > 0
  <2>1. proc[p].step + 1 \in 0 .. 4 /\ proc[p].step + 1 > 0
    BY <1>4
  <2>2. row \in Row
    BY <2>1, <1>2, Stepped
  <2>3. row.from = None /\ row.step = proc[p].step + 1
    BY <1>2 DEF Row
  <2> QED
    BY <2>1, <2>2, <2>3
<1>6. /\ UNCHANGED <<production, version, schema, demo, code, overtaken, lowered>>
      /\ crashes' \in 0 .. MaxCrashes
  BY DEF Skip, IInv, TypeOK
<1>7. p \notin Containers \cup Deploys
  BY <1>4, RolesAssumption
<1>8. p \in Containers => row.step <= 1
  BY <1>7
<1>9. p \in Deploys \cup Resets =>
         /\ row.step > 0
         /\ row.step <= Len(Program(p)) \/ row.failed \/ (p \in Resets /\ demo)
  BY <1>4, <1>5, <1>7
<1> HIDE DEF row
<1>10. Leaves(p, row)
  BY <1>1, <1>5, <1>6, <1>8, <1>9 DEF Leaves
<1> QED
  BY <1>10, Leave

\* The end of a roll keeps the invariant.
LEMMA RolledStep ==
    ASSUME IInv, NEW p \in Processes, Rolled(p)
    PROVE  IInv'
<1> DEFINE row == [proc[p] EXCEPT !.step = @ + 1]
<1>1. proc' = [proc EXCEPT ![p] = row]
  BY DEF IInv, TypeOK, Rolled
<1>2. proc[p] \in Row /\ proc[p].step \in Nat
  BY DEF IInv, TypeOK, Row
<1>3. p \in Deploys /\ proc[p].step = 1
  BY <1>2, PhaseIs DEF Rolled
<1>4. proc[p].from = None
  <2>1. Located(p)
    BY DEF IInv, Facts
  <2> QED
    BY <2>1 DEF Located, InTransaction, Rolled, Transactions
<1>5. row \in Row /\ row.from = None /\ row.step = 2
  BY <1>2, <1>3, <1>4 DEF Row
<1>6. /\ UNCHANGED <<production, version, schema, demo, code, overtaken, lowered>>
      /\ crashes' \in 0 .. MaxCrashes
  BY DEF Rolled, IInv, TypeOK
<1>7. p \notin Containers \cup Resets /\ Len(Program(p)) = 2
  BY <1>3, RolesAssumption, Lengths
<1>8. p \in Containers => row.step <= 1
  BY <1>7
<1>9. p \in Deploys \cup Resets =>
         /\ row.step > 0
         /\ row.step <= Len(Program(p)) \/ row.failed \/ (p \in Resets /\ demo)
  BY <1>5, <1>7
<1> HIDE DEF row
<1>10. Leaves(p, row)
  BY <1>1, <1>5, <1>6, <1>8, <1>9 DEF Leaves
<1> QED
  BY <1>10, Leave

\* A failure, a deadlock, a server that is not there and a crash keep the invariant.
LEMMA EndSteps ==
    ASSUME IInv, NEW p \in Processes,
           Fail(p) \/ Deadlocked(p) \/ ServerNotFound(p) \/ Crash(p)
    PROVE  IInv'
<1>1. CASE Fail(p) \/ Deadlocked(p) \/ ServerNotFound(p)
  <2>1. /\ Exited(p) /\ UNCHANGED <<production, version, schema, demo, code, overtaken, lowered>>
        /\ crashes' \in 0 .. MaxCrashes
    BY <1>1 DEF Fail, Deadlocked, ServerNotFound, IInv, TypeOK
  <2> QED
    BY <2>1, ExitedRow
<1>2. CASE Crash(p)
  <2>1. crashes \in Nat /\ crashes + 1 \in 0 .. MaxCrashes
    BY <1>2, CrashAssumption DEF Crash, IInv, TypeOK
  <2>2. /\ Exited(p) /\ UNCHANGED <<production, version, schema, demo, code, overtaken, lowered>>
        /\ crashes' \in 0 .. MaxCrashes
    BY <2>1, <1>2 DEF Crash
  <2> QED
    BY <2>2, ExitedRow
<1> QED
  BY <1>1, <1>2

\* A deploy that replaces a machine's code is under way.
LEMMA RollStep ==
    ASSUME IInv, NEW p \in Deploys, NEW m \in Machines, Roll(p, m)
    PROVE  IInv'
<1>1. /\ UNCHANGED <<production, version, schema, demo, proc, crashes, overtaken, lowered>>
      /\ code' = [code EXCEPT ![m] = Latest] /\ Phase(p) = "roll" /\ p \in Processes
  BY DEF Roll, Processes
<1>2. TypeOK'
  BY <1>1 DEF IInv, TypeOK, Latest
<1>3. \A q \in Processes : Facts(q)'
  <2> SUFFICES ASSUME NEW q \in Processes PROVE Facts(q)'
    OBVIOUS
  <2>1. proc'[q] = proc[q] /\ Facts(q)
    BY <1>1 DEF IInv
  <2>2. Located(q)'
    BY <2>1, SameRow DEF Facts
  <2>3. Grounded(q)'
    BY <1>1, <2>1, SameRow DEF Facts, Grounded
  <2>4. Current(q)'
    BY <1>1, <2>1, SameRow DEF Facts, Current
  <2>5. Raised(q)'
    BY <1>1, <2>1, SameRow DEF Facts, Raised
  <2> QED
    BY <2>2, <2>3, <2>4, <2>5 DEF Facts
<1>4. Alone'
  <2>1. \A q \in Processes : /\ Holder(q)' <=> Holder(q)
                             /\ Wiped(q)' <=> Wiped(q)
                             /\ Sowing(q)' <=> Sowing(q)
    BY <1>1, SameRow
  <2> QED
    BY <2>1 DEF IInv, Alone
<1>5. CodeFits'
  <2>1. proc[p].step = 1
    BY <1>1, PhaseIs DEF IInv, TypeOK
  <2>2. Len(Program(p)) = 2 /\ proc'[p].step = 1
    BY <2>1, <1>1, Lengths
  <2>3. proc'[p].step > 0 /\ ~Finished(p)'
    BY <2>2 DEF Finished
  <2> QED
    BY <2>3 DEF CodeFits, Rolling
<1>6. DemoComesBack'
  <2>1. \A q \in Resets : Finished(q)' <=> Finished(q)
    BY <1>1, SameRow DEF Processes
  <2> QED
    BY <2>1, <1>1 DEF IInv, DemoComesBack
<1> QED
  BY <1>2, <1>3, <1>4, <1>5, <1>6 DEF IInv

\* The invariant holds at first.
LEMMA InitStep ==
    ASSUME Init
    PROVE  IInv
<1>1. \A p \in Processes : /\ proc[p] = NotRunning /\ proc[p].step = 0 /\ proc[p].from = None
                           /\ ~InTransaction(p) /\ NotRunning \in Row
  BY DEF Init, NotRunning, InTransaction, Row
<1>2. TypeOK
  <2>1. version \in {0, 1} /\ code = [m \in Machines |-> version]
    BY DEF Init
  <2>2. version \in 0 .. Latest /\ code \in [Machines -> 0 .. Latest]
    BY <2>1 DEF Latest
  <2>3. demo \in BOOLEAN /\ (demo => version = 1)
    BY Zenon DEF Init
  <2>4. proc \in [Processes -> Row]
    BY <1>1 DEF Init
  <2>5. crashes \in 0 .. MaxCrashes
    BY CrashAssumption DEF Init
  <2>6. /\ schema = SchemaOf(version) /\ overtaken \in SUBSET Processes
        /\ lowered \in BOOLEAN /\ production \in BOOLEAN
    BY DEF Init
  <2>7. demo \in BOOLEAN /\ (demo => version > 0)
    BY <2>3
  <2> QED
    BY <2>2, <2>4, <2>5, <2>6, <2>7 DEF TypeOK, Row
<1>3. \A p \in Processes : ~Stamped(p) /\ ~Building(p) /\ ~Wiped(p) /\ ~Sowing(p) /\ ~Finished(p)
  <2> SUFFICES ASSUME NEW p \in Processes
               PROVE  ~Stamped(p) /\ ~Building(p) /\ ~Wiped(p) /\ ~Sowing(p) /\ ~Finished(p)
    OBVIOUS
  <2>1. Len(Program(p)) \in 1 .. 3
    BY Lengths
  <2>2. ~Finished(p)
    BY <2>1, <1>1 DEF Finished
  <2> QED
    BY <2>2, <1>1 DEF Stamped, Building, Wiped, Sowing, In
<1>4. \A p \in Processes : Facts(p)
  <2> SUFFICES ASSUME NEW p \in Processes PROVE Facts(p)
    OBVIOUS
  <2>1. Located(p) /\ Current(p)
    BY <1>1 DEF Located, Current
  <2>2. Grounded(p)
    BY <1>1, <1>3 DEF Grounded, In
  <2>3. Raised(p)
    BY <1>1, <1>3 DEF Raised
  <2> QED
    BY <2>1, <2>2, <2>3 DEF Facts
<1>5. Alone
  BY <1>3 DEF Alone, Holder
<1>6. CodeFits
  <2>1. version \in Nat /\ \A m \in Machines : code[m] = version
    BY DEF Init
  <2> QED
    BY <2>1 DEF CodeFits
<1>7. DemoComesBack
  BY <1>3 DEF DemoComesBack, Processes
<1> QED
  BY <1>2, <1>4, <1>5, <1>6, <1>7 DEF IInv

\* A process goes on in its phase, or enters the transaction of it: nobody can see it yet.
Goes(p, row) ==
    /\ row \in Row /\ row.step = proc[p].step /\ row.failed = proc[p].failed
    /\ proc' = [proc EXCEPT ![p] = row]
    /\ UNCHANGED <<production, version, schema, demo, code, crashes, lowered>>
    /\ overtaken' \cup {p} = overtaken \cup {p}

\* What such a step leaves alone.
LEMMA Stays ==
    ASSUME IInv, NEW p \in Processes, NEW row, Goes(p, row)
    PROVE  /\ TypeOK' /\ CodeFits' /\ DemoComesBack'
           /\ \A q \in Processes : Phase(q)' = Phase(q) /\ (Finished(q)' <=> Finished(q))
           /\ \A q \in Processes \ {p} : Facts(q)'
           /\ proc'[p] = row /\ \A q \in Processes \ {p} : proc'[q] = proc[q]
<1>0. /\ row \in Row /\ row.step = proc[p].step /\ row.failed = proc[p].failed
      /\ proc' = [proc EXCEPT ![p] = row]
      /\ UNCHANGED <<production, version, schema, demo, code, crashes, lowered>>
      /\ overtaken' \cup {p} = overtaken \cup {p}
  BY DEF Goes
<1> USE <1>0
<1>1. TypeOK'
  BY DEF IInv, TypeOK, Row
<1>2. proc'[p] = row /\ \A q \in Processes \ {p} : proc'[q] = proc[q]
  BY DEF IInv, TypeOK
<1>3. \A q \in Processes \ {p} : Facts(q)'
  BY Others
<1>4. \A q \in Processes : /\ proc'[q].step = proc[q].step
                           /\ proc'[q].failed = proc[q].failed
  BY <1>2
<1>5. \A q \in Processes : Phase(q)' = Phase(q) /\ (Finished(q)' <=> Finished(q))
  BY <1>4 DEF Phase, Running, Finished
<1>6. CodeFits'
  BY <1>4, <1>5 DEF IInv, CodeFits, Rolling, Processes
<1>7. DemoComesBack'
  BY <1>4, <1>5 DEF IInv, DemoComesBack, Processes
<1> QED
  BY <1>1, <1>2, <1>3, <1>5, <1>6, <1>7

\* Connecting keeps the invariant.
LEMMA ConnectStep ==
    ASSUME IInv, NEW p \in Processes, Connect(p)
    PROVE  IInv'
<1> DEFINE row == [proc[p] EXCEPT !.from = version, !.at = 0]
<1>1. /\ Phase(p) \in Transactions /\ ~InTransaction(p)
      /\ proc' = [proc EXCEPT ![p] = row]
      /\ overtaken' = overtaken \ {p}
      /\ UNCHANGED <<production, version, schema, demo, code, crashes, lowered>>
  BY DEF Connect, IInv, TypeOK
<1>2. version \in 0 .. Latest /\ proc[p] \in Row
  BY DEF IInv, TypeOK, Row
<1>3. /\ row \in Row /\ row.step = proc[p].step /\ row.failed = proc[p].failed
      /\ row.from = version /\ row.at = 0
  BY <1>2 DEF Row
<1> HIDE DEF row
<1>4. Goes(p, row)
  BY <1>1, <1>3 DEF Goes
<1>5. /\ TypeOK' /\ CodeFits' /\ DemoComesBack'
      /\ \A q \in Processes : Phase(q)' = Phase(q) /\ (Finished(q)' <=> Finished(q))
      /\ \A q \in Processes \ {p} : Facts(q)'
      /\ proc'[p] = row /\ \A q \in Processes \ {p} : proc'[q] = proc[q]
  BY <1>4, Stays
<1>6. version' = version /\ proc'[p].from = version /\ proc'[p].at = 0
  BY <1>1, <1>3, <1>5
<1>7. ~Stamped(p)' /\ ~Building(p)' /\ ~Wiped(p)' /\ ~Sowing(p)'
  BY <1>6 DEF Stamped, Building, Wiped, Sowing
<1>8. Facts(p)'
  <2>1. Located(p)'
    <3>1. InTransaction(p)' => Len(Script(p)') \in Nat
      <4>1. Phase(p)' \in Transactions /\ proc'[p].from \in 0 .. Latest
        BY <1>1, <1>2, <1>5, <1>6
      <4> QED
        BY <4>1, ScriptsEnd DEF Transactions, Script
    <3> QED
      BY <3>1, <1>1, <1>5, <1>6 DEF Located
  <2>2. Grounded(p)'
    BY <1>6, <1>7, DownSizesNat DEF Grounded
  <2>3. Current(p)'
    BY <1>6 DEF Current
  <2>4. Raised(p)'
    <3>1. Raised(p) /\ proc'[p].step = proc[p].step /\ version <= version
      BY <1>2, <1>3, <1>5 DEF IInv, Facts
    <3> QED
      BY <3>1, <1>1, <1>5, <1>6 DEF Raised
  <2> QED
    BY <2>1, <2>2, <2>3, <2>4 DEF Facts
<1>9. Alone'
  <2> SUFFICES ASSUME NEW q \in Processes, NEW r \in Processes
               PROVE  /\ Holder(q)' /\ Holder(r)' => q = r
                      /\ ~(Wiped(q)' /\ Sowing(r)')
    BY DEF Alone
  <2>1. \A s \in Processes : Holder(s)' => s # p /\ Holder(s)
    BY <1>5, <1>7, SameRow DEF Holder
  <2>2. \A s \in Processes : /\ Wiped(s)' => Wiped(s)
                             /\ Sowing(s)' => Sowing(s)
    BY <1>5, <1>7, SameRow
  <2> QED
    BY <2>1, <2>2 DEF IInv, Alone
<1> QED
  BY <1>5, <1>8, <1>9 DEF IInv

\* What is committed, as the version tells it.
LEMMA Committed ==
    ASSUME IInv
    PROVE  /\ version \in {0, 1, 2}
           /\ version = 0 => schema = {}
           /\ version = 1 => schema = SchemaOf(1)
           /\ version = 2 => schema = Names
           /\ version # 0 => SchemaOf(1) \subseteq schema
           /\ schema \subseteq Names
<1>1. version \in {0, 1, 2} /\ schema = SchemaOf(version)
  BY DEF IInv, TypeOK, Latest
<1> QED
  BY <1>1, SchemaIs

\* A process in its transaction: where it is in its script, and what it has done.
LEMMA Midway ==
    ASSUME IInv, NEW p \in Processes, InTransaction(p)
    PROVE  /\ proc[p].from \in {0, 1, 2} /\ proc[p].from \in 0 .. Latest
           /\ Phase(p) \in Transactions
           /\ proc[p].at \in Nat /\ Len(Script(p)) \in Nat /\ proc[p].at <= Len(Script(p))
           /\ proc[p].at \in 0 .. Len(Script(p))
           /\ Script(p) = Scripts[Phase(p)][proc[p].from]
           /\ Done(p) = Eff(Phase(p), proc[p].from, proc[p].at)
           /\ NextStatement(p) = Script(p)[proc[p].at + 1]
           /\ Facts(p)
<1>1. /\ proc[p].from \in 0 .. Latest /\ Phase(p) \in Transactions
      /\ proc[p].at \in Nat /\ proc[p].at <= Len(Script(p)) /\ Facts(p)
  BY DEF IInv, TypeOK, Facts, Located, InTransaction
<1>2. /\ Script(p) = Scripts[Phase(p)][proc[p].from]
      /\ Done(p) = Eff(Phase(p), proc[p].from, proc[p].at)
      /\ NextStatement(p) = Script(p)[proc[p].at + 1]
  BY DEF Script, Done, Eff, NextStatement
<1>3. Len(Script(p)) \in Nat
  BY <1>1, <1>2, ScriptsEnd DEF Transactions
<1>4. proc[p].from \in {0, 1, 2}
  BY <1>1 DEF Latest
<1> QED
  BY <1>1, <1>2, <1>3, <1>4

\* What keeps holders from each other, and from those that have sown.
LEMMA HolderTouches ==
    ASSUME IInv, NEW q \in Processes
    PROVE  /\ Holder(q) => InTransaction(q) /\ "alembic_version" \in Touched(q)
           /\ Building(q) \/ Wiped(q) \/ Sowing(q) =>
                 InTransaction(q) /\ "subscription_plans" \in Touched(q)
<1>1. Holder(q) \/ Sowing(q) => InTransaction(q)
  BY DEF Holder, Stamped, Building, Wiped, Sowing, In
<1>2. "alembic_version" \in Names /\ "subscription_plans" \in Names
  <2>1. 1 \in 1 .. NU /\ 2 \in 1 .. NU
    BY NUNat
  <2> QED
    BY <2>1, FirstTable, NamesAre
<1>3. CASE Stamped(q)
  <2>1. /\ Done(q) = Eff(Phase(q), proc[q].from, 4) /\ 4 \in 0 .. 4
        /\ \/ Phase(q) = "upgrade" /\ proc[q].from = 1
           \/ Phase(q) = "downgrade" /\ proc[q].from = 2
    BY <1>1, <1>3, Midway DEF Holder, Stamped, In
  <2>2. "alembic_version" \in Done(q).touched /\ "alembic_version" \notin Done(q).created
    BY <2>1, Up1Effects, Down2Effects
  <2>3. ~Building(q) /\ ~Wiped(q) /\ ~Sowing(q)
    BY <2>1 DEF Building, Wiped, Sowing, In
  <2> QED
    BY <2>2, <2>3, <1>1 DEF Touched, Holder
<1>4. CASE Building(q)
  <2>1. version = 0 /\ schema = {}
    BY <1>4, Committed DEF IInv, Facts, Grounded
  <2>2. /\ Phase(q) = "upgrade" /\ proc[q].from = 0 /\ proc[q].at >= 2 /\ InTransaction(q)
    BY <1>4 DEF Building, In
  <2>3. proc[q].at \in 0 .. NU /\ Done(q) = Eff("upgrade", 0, proc[q].at)
    BY <2>2, Midway, ScriptLengths
  <2>4. proc[q].at >= 1
    BY <2>2, <2>3, NUNat
  <2>5. "alembic_version" \in Done(q).touched /\ "subscription_plans" \in Done(q).touched
    BY <2>2, <2>3, <2>4, Up0Effects
  <2> QED
    BY <2>1, <2>5, <1>1, <1>4 DEF Touched, Holder
<1>5. CASE Wiped(q)
  <2>1. Done(q) = Eff("wipe", proc[q].from, 1) /\ proc[q].from \in 0 .. Latest /\ 1 \in 0 .. 1
    BY <1>1, <1>5, Midway DEF Holder, Wiped, In
  <2>2. Done(q).touched = Names /\ Done(q).created = {}
    BY <2>1, WipeEffects
  <2> QED
    BY <2>2, <1>1, <1>2, <1>5 DEF Touched, Holder
<1>6. CASE Sowing(q)
  <2>1. /\ Phase(q) = "seed" /\ proc[q].at >= 2 /\ InTransaction(q)
    BY <1>6 DEF Sowing, In
  <2>2. /\ Done(q) = Eff("seed", proc[q].from, proc[q].at) /\ proc[q].from \in 0 .. Latest
        /\ proc[q].at \in 0 .. 11
    BY <2>1, Midway, ScriptLengths, Zenon
  <2>3. "subscription_plans" \in Done(q).touched /\ Done(q).created = {}
    BY <2>1, <2>2, SeedEffects
  <2>4. ~Stamped(q) /\ ~Building(q) /\ ~Wiped(q)
    BY <2>1 DEF Stamped, Building, Wiped, In
  <2> QED
    BY <2>3, <2>4, <1>1 DEF Touched, Holder
<1> QED
  BY <1>3, <1>4, <1>5, <1>6 DEF Holder

\* When a process goes on, nobody else has touched what it touches.
LEMMA Free ==
    ASSUME NEW p \in Processes, NEW q \in Processes, p # q, InTransaction(p), InTransaction(q),
           ~AtEnd(p), ~Waits(p), NEW n \in Touches(NextStatement(p))
    PROVE  n \notin Touched(q)
BY DEF Waits, WaitsFor

\* What a process that goes on meets, statement by statement.
LEMMA StampMeets ==
    ASSUME IInv, NEW p \in Processes, InTransaction(p), ~AtEnd(p), Applies(p),
           NextStatement(p) = Stamp
    PROVE  version = proc[p].from
BY StampIs DEF Applies

\* The first table of 001 is only created where no migration has committed.
LEMMA FirstMeets ==
    ASSUME IInv, NEW p \in Processes, InTransaction(p), ~AtEnd(p), Applies(p),
           Phase(p) = "upgrade", proc[p].from = 0, proc[p].at = 1
    PROVE  /\ version = 0
           /\ "subscription_plans" \in Touches(NextStatement(p))
<1>1. NextStatement(p) = Ups[2] /\ 2 \in 1 .. NU /\ 1 \in 0 .. NU /\ 1 + 1 = 2
  BY NextIs, NUNat
<1>2. /\ Ups[2].op = "create" /\ ~Ups[2].lenient
      /\ "subscription_plans" \in Created(Ups[2])
  <2>1. StepFits(Ups[2], 2)
    BY <1>1, UpFits
  <2>2. Ups[2].lenient = FALSE
    <3>1. 1 \in 1 .. NT /\ 1 + 1 = 2
      BY Sizes
    <3> QED
      BY <3>1, TableStepIs DEF Creates
  <2> QED
    BY <2>1, <2>2, FirstTable DEF StepFits
<1>3. Created(Ups[2]) \cap View(p) = {}
  BY <1>1, <1>2 DEF Applies
<1>4. Done(p) = Eff("upgrade", 0, 1) /\ Done(p).dropped = {}
  BY <1>1, Midway, Up0Effects
<1>5. "subscription_plans" \notin schema
  BY <1>2, <1>3, <1>4 DEF View
<1>6. "subscription_plans" \in SchemaOf(1)
  BY SeedTables
<1> QED
  BY <1>1, <1>5, <1>6, Committed, FirstTable

\* The seed script only plants where a migration has committed.
LEMMA SeedMeets ==
    ASSUME IInv, NEW p \in Processes, InTransaction(p), ~AtEnd(p), Applies(p),
           Phase(p) = "seed", proc[p].at = 1
    PROVE  /\ version >= 1
           /\ "subscription_plans" \in Touches(NextStatement(p))
<1>1. NextStatement(p) = Insert({"subscription_plans"})
  <2>1. NextStatement(p) = Seed[1 + 1] /\ 1 + 1 = 2
    BY NextIs
  <2> QED
    BY <2>1, SeedIs
<1>2. "subscription_plans" \in View(p) /\ "subscription_plans" \in Touches(NextStatement(p))
  <2>1. /\ NextStatement(p).op = "insert" /\ NextStatement(p).tables = {"subscription_plans"}
        /\ Touches(NextStatement(p)) = {"subscription_plans"}
    BY <1>1, InsertIs
  <2> QED
    BY <2>1 DEF Applies
<1>3. Done(p) = Eff("seed", proc[p].from, 1) /\ proc[p].from \in 0 .. Latest /\ 1 \in 0 .. 11
  BY Midway
<1>4. Done(p).created = {} /\ Done(p).dropped = {}
  BY <1>3, SeedEffects
<1>5. schema # {}
  BY <1>2, <1>4 DEF View
<1> QED
  BY <1>2, <1>5, Committed

\* The way down from 001 cannot drop the clients: their contacts refer to them.
LEMMA ClientsMeet ==
    ASSUME IInv, NEW p \in Processes, InTransaction(p), ~AtEnd(p), Applies(p),
           Phase(p) = "downgrade", proc[p].from = 1, proc[p].at = NX + 14
    PROVE  FALSE
<1>1. NextStatement(p) = Drop("clients")
  <2>1. NX + 14 \notin 0 .. NX + 13
    BY DownSizesNat
  <2> QED
    BY <2>1, NextIs
<1>2. /\ NextStatement(p).op = "drop" /\ NextStatement(p).name = "clients"
      /\ NextStatement(p).lenient = FALSE
      /\ Dropped(NextStatement(p)) = {n \in Names : n = "clients" \/ Def[n].owner = "clients"}
  <2>1. Drop("clients") \in {Drop("clients"), DropIfExists("clients")}
    OBVIOUS
  <2>2. /\ Drop("clients").op = "drop" /\ Drop("clients").name = "clients"
        /\ Dropped(Drop("clients")) = {n \in Names : n = "clients" \/ Def[n].owner = "clients"}
    BY <2>1, DropIs
  <2> QED
    BY <2>2, <1>1, NotLenient
<1>3. /\ "clients" \in View(p)
      /\ \A n \in View(p) \ Dropped(NextStatement(p)) : "clients" \notin Def[n].refs
  BY <1>2 DEF Applies
<1>4. Done(p).created = {} /\ "client_contacts" \notin Done(p).dropped
  <2>1. Done(p) = Eff("downgrade", 1, NX + 14) /\ NX + 14 \in 0 .. NX + 14
    BY Midway, DownSizesNat
  <2> QED
    BY <2>1, Down1Effects
<1>5. "client_contacts" \in schema
  BY <1>3, <1>4, Committed, ContactsRefer DEF View, ContactsStay
<1>6. "client_contacts" \in View(p) \ Dropped(NextStatement(p))
  BY <1>2, <1>4, <1>5, ContactsRefer DEF View
<1> QED
  BY <1>3, <1>6, ContactsRefer DEF ContactsStay

\* A statement keeps the invariant: no second holder while there is one, none who sows
\* while a wipe is open.
LEMMA ExecuteStep ==
    ASSUME IInv, NEW p \in Processes, Execute(p)
    PROVE  IInv'
<1> DEFINE row == [proc[p] EXCEPT !.at = @ + 1]
<1>1. /\ InTransaction(p) /\ ~AtEnd(p) /\ ~Waits(p) /\ Applies(p)
      /\ NextStatement(p) = already_seeded => ~demo
      /\ proc' = [proc EXCEPT ![p] = row]
      /\ UNCHANGED <<production, version, schema, demo, code, crashes, overtaken, lowered>>
  BY DEF Execute, IInv, TypeOK
<1>2. proc[p] \in Row
  BY DEF IInv, TypeOK, Row
<1>3. /\ row \in Row /\ row.step = proc[p].step /\ row.failed = proc[p].failed
      /\ row.from = proc[p].from /\ row.at = proc[p].at + 1
  BY <1>2 DEF Row
<1> HIDE DEF row
<1>4. Goes(p, row)
  BY <1>1, <1>3 DEF Goes
<1>5. /\ TypeOK' /\ CodeFits' /\ DemoComesBack'
      /\ \A q \in Processes : Phase(q)' = Phase(q) /\ (Finished(q)' <=> Finished(q))
      /\ \A q \in Processes \ {p} : Facts(q)'
      /\ proc'[p] = row /\ \A q \in Processes \ {p} : proc'[q] = proc[q]
  BY <1>4, Stays
<1>6. /\ version' = version /\ demo' = demo /\ lowered' = lowered /\ overtaken' = overtaken
      /\ proc'[p].step = proc[p].step /\ proc'[p].from = proc[p].from
      /\ proc'[p].at = proc[p].at + 1 /\ Phase(p)' = Phase(p) /\ InTransaction(p)'
  BY <1>1, <1>3, <1>5 DEF InTransaction
<1>7. /\ proc[p].from \in {0, 1, 2} /\ proc[p].at \in Nat /\ Len(Script(p)) \in Nat
      /\ proc[p].at < Len(Script(p)) /\ Facts(p) /\ Phase(p) \in Transactions
  BY <1>1, Midway, NextIs
<1>8. Stamped(p)' => version = proc[p].from /\ Touches(NextStatement(p)) = {"alembic_version"}
  <2> SUFFICES ASSUME Stamped(p)'
               PROVE  version = proc[p].from /\ NextStatement(p) = Stamp
    BY StampIs
  <2>1. /\ proc[p].at = 3
        /\ \/ Phase(p) = "upgrade" /\ proc[p].from = 1
           \/ Phase(p) = "downgrade" /\ proc[p].from = 2
    BY <1>6, <1>7 DEF Stamped, In
  <2>2. NextStatement(p) = Stamp
    BY <2>1, <1>1, NextIs
  <2> QED
    BY <2>2, <1>1, StampMeets
<1>9. Building(p)' => Building(p) \/ (proc[p].at = 1 /\ Phase(p) = "upgrade" /\ proc[p].from = 0)
  BY <1>1, <1>6, <1>7 DEF Building, In
<1>10. Building(p)' => /\ version = 0
                       /\ Building(p) \/ "subscription_plans" \in Touches(NextStatement(p))
  BY <1>1, <1>7, <1>9, FirstMeets DEF Facts, Grounded
<1>11. Sowing(p)' => Sowing(p) \/ (proc[p].at = 1 /\ Phase(p) = "seed")
  BY <1>1, <1>6, <1>7 DEF Sowing, In
<1>12. Sowing(p)' => /\ version >= 1
                     /\ Sowing(p) \/ "subscription_plans" \in Touches(NextStatement(p))
  BY <1>1, <1>7, <1>11, SeedMeets DEF Facts, Grounded
<1>13. Wiped(p)' => Touches(NextStatement(p)) = Names
  BY <1>1, <1>6, NextIs, WipeIs DEF Wiped, In
<1>14. Facts(p)'
  <2>1. Located(p)'
    <3>1. Script(p)' = Script(p)
      BY <1>6 DEF Script
    <3> QED
      BY <3>1, <1>6, <1>7 DEF Located
  <2>2. In(p, "downgrade")' => /\ proc'[p].from = 0 => proc'[p].at = 0
                               /\ proc'[p].from = 1 => proc'[p].at <= NX + 14
    <3> SUFFICES ASSUME Phase(p) = "downgrade"
                 PROVE  /\ proc[p].from # 0
                        /\ proc[p].from = 1 => proc[p].at + 1 <= NX + 14
      BY <1>6 DEF In
    <3>1. proc[p].from # 0
      <4>1. Impossible.op = "impossible"
        BY DEF Impossible
      <4>2. proc[p].from = 0 => NextStatement(p) = Impossible
        BY <1>1, NextIs
      <4> QED
        BY <4>1, <4>2, <1>1 DEF Applies
    <3>2. ASSUME proc[p].from = 1 PROVE proc[p].at + 1 <= NX + 14
      <4>1. proc[p].at \in 0 .. NX + 13 \/ proc[p].at = NX + 14
        BY <3>2, <1>1, NextIs
      <4>2. proc[p].at # NX + 14
        BY <3>2, <1>1, ClientsMeet
      <4> QED
        BY <4>1, <4>2, DownSizesNat
    <3> QED
      BY <3>1, <3>2
  <2>3. Grounded(p)'
    BY <2>2, <1>6, <1>8, <1>10, <1>12 DEF Grounded
  <2>4. Current(p)'
    <3> SUFFICES ASSUME p \notin overtaken
                 PROVE  /\ version = proc[p].from
                        /\ Phase(p) = "seed" => ~demo
      BY <1>6 DEF Current
    <3>1. /\ version = proc[p].from
          /\ Phase(p) = "seed" /\ proc[p].at >= 1 => ~demo
      BY <1>1, <1>7 DEF Facts, Current
    <3>2. Phase(p) = "seed" /\ proc[p].at = 0 => ~demo
      <4>1. 0 \notin 1 .. 10
        OBVIOUS
      <4> QED
        BY <4>1, <1>1, NextIs
    <3> QED
      BY <3>1, <3>2, <1>7
  <2>5. Raised(p)'
    BY <1>1, <1>5, <1>6, <1>7 DEF Facts, Raised
  <2> QED
    BY <2>1, <2>3, <2>4, <2>5 DEF Facts
<1>15. \A q \in Processes \ {p} : /\ Holder(q)' <=> Holder(q)
                                  /\ Stamped(q)' <=> Stamped(q)
                                  /\ Wiped(q)' <=> Wiped(q)
                                  /\ Sowing(q)' <=> Sowing(q)
  BY <1>5, SameRow
<1>16. Holder(p)' => \A q \in Processes \ {p} : ~Holder(q)
  <2> SUFFICES ASSUME Holder(p)', NEW q \in Processes, q # p, Holder(q) PROVE FALSE
    OBVIOUS
  <2>1. InTransaction(q) /\ "alembic_version" \in Touched(q)
    BY HolderTouches
  <2>2. "alembic_version" \in Names
    <3>1. 1 \in 1 .. NU
      BY NUNat
    <3> QED
      BY <3>1, FirstTable, NamesAre
  <2>3. "alembic_version" \notin Touches(NextStatement(p))
    BY <2>1, <1>1, Free
  <2>4. Building(p)'
    BY <2>2, <2>3, <1>8, <1>13 DEF Holder
  <2>5. ~Building(p)
    BY DEF Holder, IInv, Alone
  <2>6. version = 0 /\ "subscription_plans" \in Touches(NextStatement(p))
    BY <2>4, <2>5, <1>10
  <2>7. ~Stamped(q)
    BY <2>6, Midway, HolderTouches DEF Stamped, Facts, Grounded
  <2>8. "subscription_plans" \in Touched(q)
    BY <2>7, HolderTouches DEF Holder
  <2> QED
    BY <2>1, <2>6, <2>8, <1>1, Free
<1>17. "subscription_plans" \in Names
  BY SeedTables, SchemaIs
<1>18. Wiped(p)' => \A q \in Processes : ~Sowing(q)
  <2> SUFFICES ASSUME Wiped(p)', NEW q \in Processes, Sowing(q) PROVE FALSE
    OBVIOUS
  <2>1. InTransaction(q) /\ "subscription_plans" \in Touched(q)
    BY HolderTouches
  <2>2. p # q
    BY <1>6 DEF Wiped, Sowing, In
  <2> QED
    BY <2>1, <2>2, <1>1, <1>13, <1>17, Free
<1>19. Sowing(p)' => \A q \in Processes : ~Wiped(q)
  <2> SUFFICES ASSUME Sowing(p)', NEW q \in Processes, Wiped(q) PROVE FALSE
    OBVIOUS
  <2>1. InTransaction(q) /\ "subscription_plans" \in Touched(q)
    BY HolderTouches DEF Holder
  <2>2. p # q
    BY <1>6 DEF Wiped, Sowing, In
  <2>3. ~Sowing(p)
    BY DEF IInv, Alone
  <2> QED
    BY <2>1, <2>2, <2>3, <1>1, <1>12, Free
<1>20. ~(Wiped(p)' /\ Sowing(p)')
  BY DEF Wiped, Sowing, In
<1>21. Alone'
  <2> SUFFICES ASSUME NEW q \in Processes, NEW r \in Processes
               PROVE  /\ Holder(q)' /\ Holder(r)' => q = r
                      /\ ~(Wiped(q)' /\ Sowing(r)')
    BY DEF Alone
  <2>1. Holder(q)' /\ Holder(r)' => q = r
    BY <1>15, <1>16 DEF IInv, Alone
  <2>2. ~(Wiped(q)' /\ Sowing(r)')
    BY <1>15, <1>18, <1>19, <1>20 DEF IInv, Alone
  <2> QED
    BY <2>1, <2>2
<1> QED
  BY <1>5, <1>14, <1>21 DEF IInv

\* What a process at the end of its script commits.
Outcome(p) ==
    \/ /\ In(p, "upgrade") /\ Holder(p)
       /\ version < Latest /\ version' = Latest /\ (demo' <=> demo)
    \/ /\ In(p, "upgrade") /\ proc[p].from = Latest
       /\ version' = version /\ (demo' <=> demo)
    \/ /\ In(p, "downgrade") /\ Holder(p)
       /\ version = 2 /\ version' = 1 /\ (demo' <=> demo)
    \/ /\ In(p, "wipe") /\ Wiped(p)
       /\ version' = 0 /\ demo' = FALSE
    \/ /\ In(p, "seed") /\ version > 0
       /\ version' = version /\ demo' = TRUE

\* A commit leaves the schema of the version it leaves; only a holder's changes the version.
LEMMA Commits ==
    ASSUME IInv, NEW p \in Processes, Commit(p)
    PROVE  schema' = SchemaOf(version') /\ Outcome(p)
<1>1. /\ InTransaction(p) /\ AtEnd(p)
      /\ schema' = (schema \ Done(p).dropped) \cup Done(p).created
      /\ version' = Target(p)
  BY DEF Commit, View
<1>2. /\ proc[p].from \in {0, 1, 2} /\ proc[p].from \in 0 .. Latest /\ Facts(p)
      /\ proc[p].at = Len(Script(p)) /\ Phase(p) \in Transactions
      /\ Script(p) = Scripts[Phase(p)][proc[p].from]
      /\ Done(p) = Eff(Phase(p), proc[p].from, proc[p].at)
  BY <1>1, Midway DEF AtEnd
<1>3. /\ version \in {0, 1, 2} /\ (version = 0 => schema = {})
      /\ (version = 1 => schema = SchemaOf(1)) /\ schema \subseteq Names
      /\ schema = SchemaOf(version)
  BY Committed DEF IInv, TypeOK
<1>4. Phase(p) \in {"upgrade", "downgrade"} => (demo' <=> demo)
  BY DEF Commit
<1>5. CASE Phase(p) = "upgrade" /\ proc[p].from = 0
  <2>1. proc[p].at = NU /\ Script(p) = Ups /\ NU \in 0 .. NU /\ NU >= 2
    BY <1>2, <1>5, ScriptLengths, NUNat DEF Ups
  <2>2. Building(p)
    BY <2>1, <1>1, <1>5 DEF Building, In
  <2>3. version = 0
    BY <2>2, <1>2 DEF Facts, Grounded
  <2>4. Done(p).created = Names /\ Done(p).dropped = {}
    <3>1. Done(p) = Eff("upgrade", 0, NU)
      BY <2>1, <1>2, <1>5
    <3>2. Eff("upgrade", 0, NU).created = Upto(NU) /\ Eff("upgrade", 0, NU).dropped = {}
      BY <2>1, Up0Effects
    <3> QED
      BY <3>1, <3>2, UptoIs
  <2>5. Script(p) # <<>>
    <3>1. Len(<<>>) = 0 /\ Len(Script(p)) >= 2
      BY <2>1, <1>2
    <3> QED
      BY <3>1
  <2>6. version' = Latest
    BY <2>5, <1>1, <1>5 DEF Target
  <2> QED
    BY <2>2, <2>3, <2>4, <2>6, <1>1, <1>3, <1>4, <1>5, SchemaIs DEF Outcome, Holder, In, Latest
<1>6. CASE Phase(p) = "upgrade" /\ proc[p].from = 1
  <2>1. proc[p].at = 4 /\ 4 \in 0 .. 4
    BY <1>2, <1>6, ScriptLengths
  <2>2. Stamped(p)
    BY <2>1, <1>1, <1>6 DEF Stamped, In
  <2>3. version = 1
    BY <2>2, <1>2, <1>6 DEF Facts, Grounded
  <2>4. SchemaOf(1) \cup Done(p).created = Names /\ Done(p).dropped = {}
    BY <2>1, <1>2, <1>6, Up1Effects
  <2>5. Script(p) # <<>>
    <3>1. Len(<<>>) = 0 /\ Len(Script(p)) = 4
      BY <2>1, <1>2
    <3> QED
      BY <3>1
  <2>6. version' = Latest
    BY <2>5, <1>1, <1>6 DEF Target
  <2>7. schema' = Names
    BY <2>3, <2>4, <1>1, <1>3
  <2> QED
    BY <2>2, <2>3, <2>6, <2>7, <1>1, <1>4, <1>6, SchemaIs DEF Outcome, Holder, In, Latest
<1>7. CASE Phase(p) = "upgrade" /\ proc[p].from = 2
  <2>1. Script(p) = <<>> /\ proc[p].at = 0
    BY <1>2, <1>7, ScriptsAre, ScriptLengths
  <2>2. version' = version
    BY <2>1, <1>1, <1>7 DEF Target
  <2>3. Done(p).created = {} /\ Done(p).dropped = {}
    <3>1. "upgrade" \in Transactions /\ 2 \in 0 .. Latest /\ 0 \in 0 .. Len(Scripts["upgrade"][2])
      BY ScriptLengths DEF Transactions, Latest
    <3>2. /\ Done(p).created = UNION {Created(Scripts["upgrade"][2][i]) : i \in 1 .. 0}
          /\ Done(p).dropped = UNION {Dropped(Scripts["upgrade"][2][i]) : i \in 1 .. 0}
      BY <3>1, <2>1, <1>2, <1>7, EffIs
    <3>3. 1 .. 0 = {}
      OBVIOUS
    <3> QED
      BY <3>2, <3>3
  <2> QED
    BY <2>2, <2>3, <1>1, <1>3, <1>4, <1>7 DEF Outcome, In, Latest
<1>8. CASE Phase(p) = "downgrade"
  <2>1. In(p, "downgrade")
    BY <1>1, <1>8 DEF In
  <2>2. proc[p].from # 0
    <3> SUFFICES ASSUME proc[p].from = 0 PROVE FALSE
      OBVIOUS
    <3>1. proc[p].at = 0
      BY <2>1, <1>2 DEF Facts, Grounded
    <3>2. proc[p].at = Len(Scripts["downgrade"][0])
      BY <1>2, <1>8
    <3> QED
      BY <3>1, <3>2, ScriptLengths
  <2>3. proc[p].from # 1
    BY <2>1, <1>2, <1>8, ScriptLengths, DownSizesNat DEF Facts, Grounded
  <2>4. proc[p].from = 2 /\ proc[p].at = 4 /\ 4 \in 0 .. 4
    BY <2>2, <2>3, <1>2, <1>8, ScriptLengths
  <2>5. Stamped(p)
    BY <2>1, <2>4 DEF Stamped
  <2>6. version = 2 /\ schema = Names
    BY <2>4, <2>5, <1>2, Committed DEF Facts, Grounded
  <2>7. /\ Done(p).created = {}
        /\ Done(p).dropped = {"v_audit_events", "ix_audit_logs_request_id", "audit_logs.request_id"}
    BY <2>4, <1>2, <1>8, Down2Effects
  <2>8. version' = 1
    BY <2>4, <1>1, <1>8 DEF Target
  <2>9. schema' = SchemaOf(1)
    BY <2>6, <2>7, <1>1, SchemaIs
  <2> QED
    BY <2>1, <2>5, <2>6, <2>8, <2>9, <1>4, <1>8 DEF Outcome, Holder
<1>9. CASE Phase(p) = "wipe"
  <2>1. proc[p].at = 1 /\ 1 \in 0 .. 1
    BY <1>2, <1>9, ScriptLengths
  <2>2. Done(p).created = {} /\ Done(p).dropped = Names
    BY <2>1, <1>2, <1>9, WipeEffects
  <2>3. version' = 0 /\ demo' = FALSE
    BY <1>1, <1>9 DEF Target, Commit
  <2> QED
    BY <2>1, <2>2, <2>3, <1>1, <1>3, <1>9, SchemaIs DEF Outcome, Wiped, In
<1>10. CASE Phase(p) = "seed"
  <2>1. proc[p].at = 11 /\ 11 \in 0 .. 11
    BY <1>2, <1>10, ScriptLengths
  <2>2. Done(p).created = {} /\ Done(p).dropped = {}
    BY <2>1, <1>2, <1>10, SeedEffects
  <2>3. version' = version /\ demo' = TRUE
    BY <1>1, <1>10 DEF Target, Commit
  <2>4. version > 0
    BY <2>1, <1>1, <1>2, <1>3, <1>10 DEF Facts, Grounded, Sowing, In
  <2> QED
    BY <2>2, <2>3, <2>4, <1>1, <1>3, <1>10 DEF Outcome, In
<1> QED
  BY <1>2, <1>5, <1>6, <1>7, <1>8, <1>9, <1>10 DEF Transactions

\* A commit keeps the invariant.
LEMMA CommitStep ==
    ASSUME IInv, NEW p \in Processes, Commit(p)
    PROVE  IInv'
<1> DEFINE row == [proc[p] EXCEPT !.step = @ + 1, !.from = None, !.at = 0]
<1>1. /\ InTransaction(p)
      /\ proc' = [proc EXCEPT ![p] = row]
      /\ lowered' = (lowered \/ version' < version)
      /\ overtaken' = (overtaken \cup {q \in Processes : InTransaction(q)}) \ {p}
      /\ code' = code /\ crashes' = crashes /\ production' = production
  BY DEF Commit, IInv, TypeOK
<1>2. proc[p] \in Row /\ Phase(p) \in Transactions /\ Facts(p) /\ proc[p].step \in Nat
  BY <1>1, Midway DEF IInv, TypeOK, Row
<1>3. /\ proc[p].step \in 1 .. 3 /\ proc[p].step + 1 \in 0 .. 4
      /\ p \in Containers => Phase(p) = "upgrade" /\ proc[p].step = 1
      /\ p \in Deploys => Phase(p) = "upgrade" /\ proc[p].step = 2
      /\ p \notin Machines
      /\ p \in Resets => \/ Phase(p) = "wipe" /\ proc[p].step = 1
                         \/ Phase(p) = "upgrade" /\ proc[p].step = 2
                         \/ Phase(p) = "seed" /\ proc[p].step = 3
      /\ Phase(p) = "wipe" => p \in Resets
  <2>1. proc[p].step \in 1 .. 3
    BY <1>2, PhaseIs DEF Transactions
  <2>2. proc[p].step + 1 \in 0 .. 4
    BY <2>1
  <2>3. p \in Containers => Phase(p) = "upgrade" /\ proc[p].step = 1
    BY <1>2, PhaseIs, RolesAssumption DEF Transactions
  <2>4. p \in Deploys => Phase(p) = "upgrade" /\ proc[p].step = 2
    BY <1>2, PhaseIs, RolesAssumption DEF Transactions
  <2>5. p \notin Machines
    BY <1>2, PhaseIs, RolesAssumption DEF Transactions
  <2>6. p \in Resets => \/ Phase(p) = "wipe" /\ proc[p].step = 1
                        \/ Phase(p) = "upgrade" /\ proc[p].step = 2
                        \/ Phase(p) = "seed" /\ proc[p].step = 3
    BY <1>2, PhaseIs, RolesAssumption DEF Transactions
  <2> QED
    BY <2>1, <2>2, <2>3, <2>4, <2>5, <2>6, <1>2, PhaseIs
<1>4. row \in Row /\ row.from = None /\ row.step = proc[p].step + 1
  <2>1. row \in Row
    BY <1>2, <1>3, Stepped
  <2> QED
    BY <2>1, <1>2, SMTT(25) DEF Row
<1> HIDE DEF row
<1>5. proc'[p] = row /\ \A q \in Processes \ {p} : proc'[q] = proc[q]
  BY <1>1 DEF IInv, TypeOK
<1>6. schema' = SchemaOf(version') /\ Outcome(p)
  BY Commits
<1>7. /\ version \in {0, 1, 2} /\ version' \in {0, 1, 2}
      /\ version' # version => Holder(p)
      /\ version' = 0 => version = 0 \/ Wiped(p)
      /\ demo' \in BOOLEAN /\ (demo' => version' > 0)
  <2>1. version \in {0, 1, 2} /\ demo \in BOOLEAN /\ (demo => version > 0)
    BY Committed DEF IInv, TypeOK
  <2>2. version' \in {0, 1, 2} /\ (version' # version => Holder(p))
        /\ (version' = 0 => version = 0 \/ Wiped(p))
    BY <2>1, <1>6 DEF Outcome, Holder, Latest
  <2>3. demo' => version' > 0
    BY <2>1, <1>6 DEF Outcome, Latest
  <2>4. demo' \in BOOLEAN
    <3>1. demo' = demo \/ demo' = TRUE \/ demo' = FALSE
      BY DEF Commit
    <3> QED
      BY <3>1, <2>1
  <2> QED
    BY <2>1, <2>2, <2>3, <2>4
<1>8. TypeOK'
  <2>1. version' \in 0 .. Latest
    BY <1>7 DEF Latest
  <2>2. proc' \in [Processes -> Row]
    BY <1>1, <1>4 DEF IInv, TypeOK, Row
  <2>3. /\ overtaken' \in SUBSET Processes /\ lowered' \in BOOLEAN
        /\ code' \in [Machines -> 0 .. Latest] /\ crashes' \in 0 .. MaxCrashes
        /\ production' \in BOOLEAN
    <3>1. /\ overtaken \in SUBSET Processes /\ lowered \in BOOLEAN /\ production \in BOOLEAN
          /\ code \in [Machines -> 0 .. Latest] /\ crashes \in 0 .. MaxCrashes
      BY DEF IInv, TypeOK
    <3> QED
      BY <3>1, <1>1
  <2> QED
    BY <2>1, <2>2, <2>3, <1>6, <1>7 DEF TypeOK, Row
<1>9. lowered => lowered'
  BY <1>1
<1>10. version' < version => lowered'
  BY <1>1
<1>11. ~InTransaction(p)' /\ ~Stamped(p)' /\ ~Building(p)' /\ ~Wiped(p)' /\ ~Sowing(p)'
  <2>1. ~InTransaction(p)'
    BY <1>4, <1>5 DEF InTransaction
  <2> QED
    BY <2>1 DEF Stamped, Building, Wiped, Sowing, In
<1>12. In(p, "upgrade") => lowered' \/ version' = Latest
  <2> SUFFICES ASSUME In(p, "upgrade"), ~lowered' PROVE version' = Latest
    OBVIOUS
  <2>1. version' = Latest \/ (proc[p].from = Latest /\ version' = version)
    BY <1>6 DEF Outcome, In
  <2>2. proc[p].from <= version
    BY <1>1, <1>2, <1>9 DEF Facts, Raised
  <2> QED
    BY <2>1, <2>2, <1>7 DEF Latest
<1>13. p \in Containers \cup Deploys => lowered' \/ version' = Latest
  BY <1>1, <1>3, <1>12 DEF In
<1>14. Facts(p)'
  <2>1. Located(p)' /\ Current(p)'
    BY <1>11 DEF Located, Current
  <2>2. Grounded(p)'
    BY <1>11 DEF Grounded, In
  <2>3. Raised(p)'
    BY <1>11, <1>13 DEF Raised
  <2> QED
    BY <2>1, <2>2, <2>3 DEF Facts
<1>15. \A q \in Processes \ {p} : Facts(q)'
  <2> SUFFICES ASSUME NEW q \in Processes, q # p PROVE Facts(q)'
    OBVIOUS
  <2>1. proc'[q] = proc[q] /\ Facts(q)
    BY <1>5 DEF IInv
  <2>2. Located(q)'
    BY <2>1, SameRow DEF Facts
  <2>3. Grounded(q)'
    <3>1. Holder(q) => version' = version
      BY <1>7 DEF IInv, Alone
    <3>2. Sowing(q) => version' # 0
      <4>1. Sowing(q) => version >= 1 /\ ~Wiped(p)
        BY <2>1 DEF IInv, Alone, Facts, Grounded
      <4> QED
        BY <4>1, <1>7
    <3>3. Sowing(q) => version' >= 1
      BY <3>2, <1>7
    <3> QED
      BY <2>1, <3>1, <3>3, SameRow DEF Facts, Grounded, Holder
  <2>4. Current(q)'
    BY <2>1, <1>1, SameRow DEF Current
  <2>5. Raised(q)'
    <3>1. CASE lowered'
      BY <3>1 DEF Raised
    <3>2. CASE ~lowered'
      <4>1. version <= version' /\ ~lowered
        BY <3>2, <1>7, <1>9, <1>10
      <4>2. version = Latest => version' = Latest
        BY <4>1, <1>7 DEF Latest
      <4>3. InTransaction(q) => proc[q].from <= version'
        <5>1. InTransaction(q) => proc[q].from \in {0, 1, 2} /\ proc[q].from <= version
          BY <4>1, <2>1, Midway DEF Facts, Raised
        <5> QED
          BY <5>1, <4>1, <1>7
      <4> QED
        BY <4>1, <4>2, <4>3, <2>1, SameRow DEF Facts, Raised
    <3> QED
      BY <3>1, <3>2
  <2> QED
    BY <2>2, <2>3, <2>4, <2>5 DEF Facts
<1>16. Alone'
  <2> SUFFICES ASSUME NEW q \in Processes, NEW r \in Processes
               PROVE  /\ Holder(q)' /\ Holder(r)' => q = r
                      /\ ~(Wiped(q)' /\ Sowing(r)')
    BY DEF Alone
  <2>1. \A s \in Processes : Holder(s)' => s # p /\ Holder(s)
    BY <1>5, <1>11, SameRow DEF Holder
  <2>2. \A s \in Processes : /\ Wiped(s)' => Wiped(s)
                             /\ Sowing(s)' => Sowing(s)
    BY <1>5, <1>11, SameRow
  <2> QED
    BY <2>1, <2>2 DEF IInv, Alone
<1>17. \A q \in Processes \ {p} : proc'[q].step = proc[q].step /\ (Finished(q)' <=> Finished(q))
  BY <1>5, SameRow
<1>18. CodeFits'
  <2>1. CASE lowered'
    BY <2>1 DEF CodeFits
  <2>2. CASE p \in Deploys /\ ~lowered'
    <3>1. version' = Latest /\ \A m \in Machines : code'[m] \in 0 .. Latest
      BY <2>2, <1>13, <1>8 DEF TypeOK
    <3>2. \A m \in Machines : code'[m] <= version'
      BY <3>1 DEF Latest
    <3> QED
      BY <3>2 DEF CodeFits
  <2>3. CASE p \notin Deploys /\ ~lowered'
    <3>1. version <= version' /\ ~lowered
      BY <2>3, <1>7, <1>9, <1>10
    <3>2. Rolling => Rolling'
      BY <2>3, <1>17 DEF Rolling, Processes
    <3>3. \A m \in Machines : code[m] <= version => code'[m] <= version'
      <4>1. \A m \in Machines : code[m] \in {0, 1, 2} /\ code'[m] = code[m]
        BY <1>1 DEF IInv, TypeOK, Latest
      <4> QED
        BY <4>1, <3>1, <1>7
    <3> QED
      BY <3>1, <3>2, <3>3 DEF IInv, CodeFits
  <2> QED
    BY <2>1, <2>2, <2>3
<1>19. DemoComesBack'
  <2>1. CASE Phase(p) = "seed"
    <3>1. demo'
      BY <2>1, <1>6 DEF Outcome, In
    <3> QED
      BY <3>1 DEF DemoComesBack
  <2>2. CASE p \in Resets /\ Phase(p) # "seed"
    <3>1. proc'[p].step > 0 /\ proc'[p].step <= 3 /\ Len(Program(p)) = 3
      BY <2>2, <1>3, <1>4, <1>5, Lengths
    <3>2. ~Finished(p)'
      BY <3>1, <1>3, <1>4, <1>5 DEF Finished
    <3> QED
      BY <3>1, <3>2, <2>2 DEF DemoComesBack
  <2>3. CASE p \notin Resets /\ Phase(p) # "seed"
    <3>1. demo' <=> demo
      BY <2>3, <1>3, <1>6 DEF Outcome, In
    <3>2. \A q \in Resets : proc'[q].step = proc[q].step /\ (Finished(q)' <=> Finished(q))
      BY <2>3, <1>17 DEF Processes
    <3> QED
      BY <3>1, <3>2 DEF IInv, DemoComesBack
  <2> QED
    BY <2>1, <2>2, <2>3
<1> QED
  BY <1>8, <1>14, <1>15, <1>16, <1>18, <1>19 DEF IInv

-----------------------------------------------------------------------------
(* The theorems. *)

\* A step that changes nothing keeps the invariant.
LEMMA Stutter ==
    ASSUME IInv, UNCHANGED vars
    PROVE  IInv'
<1>1. /\ version' = version /\ schema' = schema /\ demo' = demo /\ code' = code
      /\ proc' = proc /\ crashes' = crashes /\ overtaken' = overtaken /\ lowered' = lowered
      /\ production' = production
  BY DEF vars
<1>2. TypeOK'
  BY <1>1 DEF IInv, TypeOK
<1>3. \A q \in Processes : Facts(q)'
  <2> SUFFICES ASSUME NEW q \in Processes PROVE Facts(q)'
    OBVIOUS
  <2>1. proc'[q] = proc[q] /\ Facts(q)
    BY <1>1 DEF IInv
  <2>2. Located(q)'
    BY <2>1, SameRow DEF Facts
  <2>3. Grounded(q)'
    BY <1>1, <2>1, SameRow DEF Facts, Grounded
  <2>4. Current(q)'
    BY <1>1, <2>1, SameRow DEF Facts, Current
  <2>5. Raised(q)'
    BY <1>1, <2>1, SameRow DEF Facts, Raised
  <2> QED
    BY <2>2, <2>3, <2>4, <2>5 DEF Facts
<1>4. \A q \in Processes : /\ Holder(q)' <=> Holder(q)
                           /\ Wiped(q)' <=> Wiped(q)
                           /\ Sowing(q)' <=> Sowing(q)
                           /\ Finished(q)' <=> Finished(q)
  BY <1>1, SameRow
<1>5. Alone'
  BY <1>4 DEF IInv, Alone
<1>6. CodeFits'
  BY <1>1, <1>4 DEF IInv, CodeFits, Rolling, Processes
<1>7. DemoComesBack'
  BY <1>1, <1>4 DEF IInv, DemoComesBack, Processes
<1> QED
  BY <1>2, <1>3, <1>5, <1>6, <1>7 DEF IInv

\* Every step keeps the invariant.
THEOREM Step ==
    IInv /\ [Next]_vars => IInv'
<1> SUFFICES ASSUME IInv, [Next]_vars PROVE IInv'
  OBVIOUS
<1>1. ASSUME NEW p \in Processes, Start(p) PROVE IInv'
  BY <1>1, StartStep
<1>2. ASSUME NEW p \in Processes, Connect(p) PROVE IInv'
  BY <1>2, ConnectStep
<1>3. ASSUME NEW p \in Processes, Execute(p) PROVE IInv'
  BY <1>3, ExecuteStep
<1>4. ASSUME NEW p \in Processes, Skip(p) PROVE IInv'
  BY <1>4, SkipStep
<1>5. ASSUME NEW p \in Processes, Commit(p) PROVE IInv'
  BY <1>5, CommitStep
<1>6. ASSUME NEW p \in Processes,
             Fail(p) \/ Deadlocked(p) \/ ServerNotFound(p) \/ Crash(p)
      PROVE  IInv'
  BY <1>6, EndSteps
<1>7. ASSUME NEW p \in Processes, Rolled(p) PROVE IInv'
  BY <1>7, RolledStep
<1>8. ASSUME NEW p \in Deploys, NEW m \in Machines, Roll(p, m) PROVE IInv'
  BY <1>8, RollStep
<1>9. ASSUME UNCHANGED vars PROVE IInv'
  BY <1>9, Stutter
<1> QED
  BY <1>1, <1>2, <1>3, <1>4, <1>5, <1>6, <1>7, <1>8, <1>9 DEF Next, Work

\* The invariant holds for ever (backend/migrations, scripts/reset_demo.py, deploy.yml).
THEOREM Invariance == Spec => []IInv
<1>1. Init => IInv
  BY InitStep
<1> QED
  BY <1>1, Step, PTL DEF Spec

\* Whoever is started, killed or rolled back: the committed schema is the one that
\* alembic_version says (migrations/env.py runs every upgrade as one transaction).
THEOREM TypeCorrect == Spec => []TypeOK
<1>1. IInv => TypeOK
  BY DEF IInv
<1> QED
  BY <1>1, Invariance, PTL

\* After a reset has ended well the demo is there, until another one begins
\* (scripts/reset_demo.py: wipe, upgrade, seed).
THEOREM DemoReturns == Spec => []DemoComesBack
<1>1. IInv => DemoComesBack
  BY DEF IInv
<1> QED
  BY <1>1, Invariance, PTL

\* Of all open transactions one at most can change the version when it commits, and none
\* has planted while a wipe is open (the lock on alembic_version, env.py; and on the tables).
THEOREM OneHolder == Spec => []Alone
<1>1. IInv => Alone
  BY DEF IInv
<1> QED
  BY <1>1, Invariance, PTL

\* The invariant holds a server's code to the schema.
LEMMA Served ==
    ASSUME IInv
    PROVE  ServedBySchema
<1> SUFFICES ASSUME NEW p \in Containers \cup Machines, Serving(p), version < Needs(p)
             PROVE  \/ lowered
                    \/ p \in Machines /\ \E d \in Deploys : proc[d].step > 0 /\ ~Finished(d)
  BY DEF ServedBySchema
<1>1. p \in Processes /\ proc[p].step \in Nat /\ Phase(p) = "serve"
  BY DEF Processes, IInv, TypeOK, Serving
<1>2. version \in {0, 1, 2}
  BY Committed
<1>3. CASE p \in Containers
  <2>1. proc[p].step = 2 /\ p \notin Machines
    BY <1>1, <1>3, PhaseIs, RolesAssumption
  <2>2. version < Latest
    BY <2>1 DEF Needs
  <2>3. lowered \/ version = Latest
    BY <2>1, <1>1, <1>3 DEF IInv, Facts, Raised
  <2> QED
    BY <2>2, <2>3, <1>2 DEF Latest
<1>4. CASE p \in Machines
  <2>1. code[p] \in {0, 1, 2} /\ version < code[p]
    BY <1>4 DEF Needs, IInv, TypeOK, Latest
  <2>2. code[p] <= version \/ lowered \/ Rolling
    BY <1>4 DEF IInv, CodeFits
  <2> QED
    BY <2>1, <2>2, <1>2, <1>4 DEF Rolling
<1> QED
  BY <1>3, <1>4

\* A server that is up finds its schema, but for a downgrade or a deploy that rolls the
\* machines before it migrates (docker-compose.yml, .github/workflows/deploy.yml).
THEOREM ServersServed == Spec => []ServedBySchema
<1>1. IInv => ServedBySchema
  BY Served
<1> QED
  BY <1>1, Invariance, PTL

\* A step to an empty database is the commit of a wipe.
LEMMA OnlyWipes ==
    IInv /\ [Next]_vars => [version > 0 /\ version' = 0 => \E p \in Resets : Phase(p) = "wipe"]_vars
<1> SUFFICES ASSUME IInv, Next, version > 0, version' = 0
             PROVE  \E p \in Resets : Phase(p) = "wipe"
  OBVIOUS
<1>1. PICK p \in Processes : Commit(p)
  <2>1. version' # version
    OBVIOUS
  <2>2. \A p \in Processes : ~Start(p) /\ ~Connect(p) /\ ~Execute(p) /\ ~Skip(p)
    BY <2>1 DEF Start, Connect, Execute, Skip
  <2>3. \A p \in Processes :
            ~Fail(p) /\ ~Deadlocked(p) /\ ~ServerNotFound(p) /\ ~Crash(p) /\ ~Rolled(p)
    BY <2>1 DEF Fail, Deadlocked, ServerNotFound, Crash, Rolled
  <2>4. \A p \in Deploys, m \in Machines : ~Roll(p, m)
    BY <2>1 DEF Roll
  <2> QED
    BY <2>2, <2>3, <2>4 DEF Next, Work
<1>2. Phase(p) = "wipe"
  <2>1. Outcome(p) /\ version > 0 /\ version' = 0
    BY <1>1, Commits
  <2> QED
    BY <2>1 DEF Outcome, In, Latest
<1>3. proc[p].step \in Nat
  BY DEF IInv, TypeOK
<1> QED
  BY <1>1, <1>2, <1>3, PhaseIs

\* What the failing downgrade (RollsBackOne) amounts to in every behaviour: only reset_demo.py
\* empties a database, 001's downgrade (001_initial_schema.py) never gets past the clients.
THEOREM OnlyResetsEmpty ==
    Spec => [][version > 0 /\ version' = 0 => \E p \in Resets : Phase(p) = "wipe"]_vars
<1>1. IInv /\ [Next]_vars =>
        [version > 0 /\ version' = 0 => \E p \in Resets : Phase(p) = "wipe"]_vars
  BY OnlyWipes
<1> QED
  BY <1>1, Invariance, PTL DEF Spec

\* Statement k of the way up applies to what the statements before it have made.
LEMMA UpApplies ==
    ASSUME NEW p, NEW k \in 0 .. NU - 1, NextStatement(p) = Ups[k + 1], View(p) = Upto(k)
    PROVE  Applies(p)
<1>1. k + 1 \in 1 .. NU
  <2>1. NU \in Nat
    BY NUNat
  <2> QED
    BY <2>1
<1>2. Ups[k + 1].op = "create"
  BY <1>1, UpFits DEF StepFits
<1>3. Created(Ups[k + 1]) \cap Upto(k) = {}
  BY UptoNext
<1>4. Ups[k + 1].object.refs \subseteq Upto(k) \cup Ups[k + 1].types
  BY UptoNext
<1> QED
  BY <1>2, <1>3, <1>4 DEF Applies

\* A statement that takes down a part of 002 applies when what needs it has gone.
LEMMA DownApplies ==
    ASSUME NEW p, NEW name, NextStatement(p) \in {Drop(name), DropIfExists(name)},
           name \in View(p),
           \A n \in View(p) \ Dropped(NextStatement(p)) : name \notin Def[n].refs
    PROVE  Applies(p)
<1>1. NextStatement(p).op = "drop" /\ NextStatement(p).name = name
  BY DropIs
<1> QED
  BY <1>1 DEF Applies

\* Every statement of the way down from 002 applies to what 002 left.
LEMMA Down2Applies ==
    ASSUME IInv, NEW p \in Processes, InTransaction(p), ~AtEnd(p), version = 2,
           Phase(p) = "downgrade", proc[p].from = 2
    PROVE  Applies(p)
<1> DEFINE view == "v_audit_events"
           index == "ix_audit_logs_request_id"
           column == "audit_logs.request_id"
<1>1. schema = Names /\ {view, index, column} \subseteq Names
  <2>1. {K1, K2, K3} \subseteq 1 .. NU
    BY AuditIndices, NUNat
  <2> QED
    BY <2>1, Committed, AuditNames, NamesAre
<1>2. /\ Done(p) = Eff("downgrade", 2, proc[p].at) /\ proc[p].at \in Nat
  BY Midway
<1>3. CASE proc[p].at = 0 /\ NextStatement(p) = DropIfExists(view)
  <2>1. Done(p).created = {} /\ Done(p).dropped = {}
    BY <1>2, <1>3, Down2Effects
  <2>2. View(p) = Names
    BY <2>1, <1>1 DEF View
  <2>3. \A n \in Names : view \notin Def[n].refs
    BY AuditLast
  <2> QED
    BY <2>2, <2>3, <1>1, <1>3, DownApplies
<1>4. CASE proc[p].at = 1 /\ NextStatement(p) = Drop(index)
  <2>1. Done(p).created = {} /\ Done(p).dropped = {view}
    BY <1>2, <1>4, Down2Effects
  <2>2. View(p) = Names \ {view}
    BY <2>1, <1>1 DEF View
  <2>3. \A n \in Names : index \notin Def[n].refs
    BY AuditLast
  <2>4. index \in View(p)
    BY <2>2, <1>1
  <2> QED
    BY <2>2, <2>3, <2>4, <1>4, DownApplies
<1>5. CASE proc[p].at = 2 /\ NextStatement(p) = Drop(column)
  <2>1. Done(p).created = {} /\ Done(p).dropped = {view, index}
    BY <1>2, <1>5, Down2Effects
  <2>2. View(p) = Names \ {view, index}
    BY <2>1, <1>1 DEF View
  <2>3. \A n \in Names : column \in Def[n].refs => n \in {index, view}
    BY AuditLast
  <2>4. column \in View(p)
    BY <2>2, <1>1
  <2> QED
    BY <2>2, <2>3, <2>4, <1>5, DownApplies
<1>6. CASE NextStatement(p) = Stamp
  BY <1>6, StampIs DEF Applies
<1> QED
  BY <1>3, <1>4, <1>5, <1>6, NextIs

\* Every statement of the seed script applies to a migrated database without the demo.
LEMMA SeedApplies ==
    ASSUME IInv, NEW p \in Processes, InTransaction(p), ~AtEnd(p), version >= 1,
           Phase(p) = "seed", proc[p].at >= 1 => ~demo
    PROVE  Applies(p)
<1>1. SchemaOf(1) \subseteq schema
  BY Committed
<1>2. /\ Done(p) = Eff("seed", proc[p].from, proc[p].at) /\ proc[p].from \in 0 .. Latest
      /\ proc[p].at \in 0 .. 11 /\ proc[p].at \in Nat
  BY Midway, ScriptLengths, Zenon
<1>3. Done(p).created = {} /\ Done(p).dropped = {} /\ Done(p).planted = Sown(proc[p].at)
  BY <1>2, SeedEffects
<1>4. SchemaOf(1) \subseteq View(p)
  BY <1>1, <1>3 DEF View
<1>5. CASE proc[p].at = 0 /\ NextStatement(p) = already_seeded
  BY <1>4, <1>5, SeedTables, CheckIs DEF Applies
<1>6. CASE proc[p].at \in 1 .. 10 /\ SeedFits(proc[p].at)
           /\ NextStatement(p) = Seed[proc[p].at + 1]
  <2>1. PICK tables : /\ NextStatement(p) = Insert(tables)
                      /\ tables \subseteq SchemaOf(1)
                      /\ \A t \in tables : Keys(t) \subseteq Sown(proc[p].at) \cup tables
    BY <1>6 DEF SeedFits
  <2>2. NextStatement(p).op = "insert" /\ NextStatement(p).tables = tables
    BY <2>1, InsertIs
  <2>3. ~demo
    BY <1>6
  <2> QED
    BY <2>1, <2>2, <2>3, <1>3, <1>4 DEF Applies
<1> QED
  BY <1>5, <1>6, NextIs

\* The invariant makes the scripts fit what they meet.
LEMMA ScriptsFit ==
    ASSUME IInv
    PROVE  FailsOnlyOvertaken
<1> SUFFICES ASSUME NEW p \in Processes \ overtaken, InTransaction(p), ~AtEnd(p),
                    ~(Phase(p) = "downgrade" /\ proc[p].from < 2),
                    ~(Phase(p) = "seed" /\ proc[p].from = 0)
             PROVE  Applies(p)
  BY DEF FailsOnlyOvertaken
<1>1. /\ p \in Processes /\ proc[p].from \in {0, 1, 2} /\ Phase(p) \in Transactions
      /\ proc[p].at \in Nat
      /\ version = proc[p].from
      /\ Phase(p) = "seed" /\ proc[p].at >= 1 => ~demo
      /\ Done(p) = Eff(Phase(p), proc[p].from, proc[p].at)
  BY Midway DEF Facts, Current
<1>2. CASE Phase(p) = "upgrade" /\ proc[p].from = 0
  <2>1. proc[p].at \in 0 .. NU - 1 /\ NextStatement(p) = Ups[proc[p].at + 1]
    BY <1>1, <1>2, NextIs
  <2>2. proc[p].at \in 0 .. NU
    <3>1. NU \in Nat
      BY NUNat
    <3> QED
      BY <3>1, <2>1
  <2>3. Done(p).created = Upto(proc[p].at) /\ Done(p).dropped = {}
    BY <2>2, <1>1, <1>2, Up0Effects
  <2>4. View(p) = Upto(proc[p].at)
    BY <2>3, <1>1, <1>2, Committed DEF View
  <2> QED
    BY <2>1, <2>4, UpApplies
<1>3. CASE Phase(p) = "upgrade" /\ proc[p].from = 1
  <2>1. CASE NextStatement(p) = Stamp
    BY <2>1, <1>1, StampIs DEF Applies
  <2>2. CASE proc[p].at \in 0 .. 2 /\ NextStatement(p) = Ups[(K1 - 1 + proc[p].at) + 1]
    <3>1. K1 - 1 + proc[p].at \in 0 .. NU - 1 /\ proc[p].at \in 0 .. 4 /\ proc[p].at <= 3
      BY <2>2, AuditIndices
    <3>2. /\ SchemaOf(1) \cup Done(p).created = Upto(K1 - 1 + proc[p].at)
          /\ Done(p).dropped = {}
      BY <3>1, <1>1, <1>3, Up1Effects
    <3>3. View(p) = Upto(K1 - 1 + proc[p].at)
      BY <3>2, <1>1, <1>3, Committed DEF View
    <3> QED
      BY <3>1, <3>3, <2>2, UpApplies
  <2> QED
    BY <2>1, <2>2, <1>1, <1>3, NextIs
<1>4. CASE Phase(p) = "downgrade"
  <2>1. proc[p].from = 2
    BY <1>1, <1>4
  <2> QED
    BY <2>1, <1>1, <1>4, Down2Applies
<1>5. CASE Phase(p) = "wipe"
  <2>1. NextStatement(p) = Wipe
    BY <1>1, <1>5, NextIs
  <2> QED
    BY <2>1, WipeIs DEF Applies
<1>6. CASE Phase(p) = "seed"
  <2>1. version >= 1
    BY <1>1, <1>6
  <2> QED
    BY <2>1, <1>1, <1>6, SeedApplies
<1> QED
  BY <1>1, <1>2, <1>3, <1>4, <1>5, <1>6, NextIs DEF Transactions

\* A migration up, the one down from 002 and the seeding of a migrated database only
\* fail where another process has committed since they connected (versions/001, versions/002,
\* scripts/seed_data.py).
THEOREM OnlyOvertakenFail == Spec => []FailsOnlyOvertaken
<1>1. IInv => FailsOnlyOvertaken
  BY ScriptsFit
<1> QED
  BY <1>1, Invariance, PTL
=============================================================================
