-------------------------------- MODULE Schema --------------------------------
(***************************************************************************)
(* The database schema as the migrations build and take it down:           *)
(*   backend/migrations/versions/001_initial_schema.py                     *)
(*   backend/migrations/versions/002_audit_request_id_and_view.py          *)
(* A schema is a set of names of tables, enum types, indexes, columns and  *)
(* views.  What matters of an object is what must be there before it: the  *)
(* tables its foreign keys name, the enum types of its columns.  Columns,  *)
(* defaults and the indexes made along with a table are left out.          *)
(***************************************************************************)
EXTENDS Naturals, Sequences

\* An object with the objects it refers to (none of them can be dropped while it is
\* there) and the one it belongs to (and disappears with; itself, if none).
Object(name, refs, owner) == [name |-> name, refs |-> refs, owner |-> owner]

\* op.create_table: the table, the tables its foreign keys name other than itself,
\* and the enum types that are created on the way.
Table(name, keys, types) ==
    [table |-> Object(name, keys \cup types, name), types |-> types]

-----------------------------------------------------------------------------
(* The tables, in the order of 001.                                         *)

subscription_plans == Table("subscription_plans", {}, {})
tenants == Table("tenants", {"subscription_plans"}, {})
tenant_subscriptions ==
    Table("tenant_subscriptions", {"tenants", "subscription_plans"}, {"subscription_status"})
users == Table("users", {"tenants"}, {"user_role"})
refresh_tokens == Table("refresh_tokens", {"users", "tenants"}, {})
employee_profiles == Table("employee_profiles", {"tenants", "users"}, {})
clients == Table("clients", {"tenants"}, {"industry_type"})
client_contacts == Table("client_contacts", {"tenants", "clients"}, {})
locations == Table("locations", {"tenants", "clients"}, {})
crews == Table("crews", {"tenants"}, {})
crew_members == Table("crew_members", {"tenants", "crews", "users"}, {"crew_member_role"})
work_orders ==
    Table("work_orders", {"tenants", "clients", "locations", "crews", "users"},
          {"work_order_status", "priority", "work_type"})
work_order_tasks ==
    Table("work_order_tasks", {"tenants", "work_orders", "users"}, {"task_status"})
work_order_attachments ==
    Table("work_order_attachments", {"tenants", "work_orders", "work_order_tasks", "users"},
          {"attachment_type"})
work_order_check_ins ==
    Table("work_order_check_ins", {"tenants", "work_orders", "users"}, {"check_in_method"})
equipment == Table("equipment", {"tenants", "crews", "locations"}, {"equipment_status"})
inventory_items == Table("inventory_items", {"tenants"}, {})
inventory_transactions ==
    Table("inventory_transactions", {"tenants", "inventory_items", "work_orders", "users"},
          {"transaction_type"})
invoices == Table("invoices", {"tenants", "clients"}, {"invoice_status"})
invoice_line_items == Table("invoice_line_items", {"tenants", "invoices", "work_orders"}, {})
payments == Table("payments", {"tenants", "invoices", "users"}, {"payment_method"})
audit_logs == Table("audit_logs", {"users"}, {})

Tables001 ==
    <<subscription_plans, tenants, tenant_subscriptions, users, refresh_tokens,
      employee_profiles, clients, client_contacts, locations, crews, crew_members,
      work_orders, work_order_tasks, work_order_attachments, work_order_check_ins,
      equipment, inventory_items, inventory_transactions, invoices, invoice_line_items,
      payments, audit_logs>>

\* The indexes made after the tables: name and table.
Indexes001 ==
    <<<<"idx_clients_tenant_active", "clients">>,
      <<"idx_work_orders_tenant_status", "work_orders">>,
      <<"idx_work_orders_crew_date", "work_orders">>,
      <<"idx_work_orders_location", "work_orders">>,
      <<"idx_check_ins_user_date", "work_order_check_ins">>,
      <<"idx_invoices_client_status", "invoices">>,
      <<"idx_audit_logs_tenant_date", "audit_logs">>>>

AuditColumn == Object("audit_logs.request_id", {"audit_logs"}, "audit_logs")
AuditIndex ==
    Object("ix_audit_logs_request_id", {"audit_logs.request_id"}, "audit_logs.request_id")
AuditView ==
    Object("v_audit_events", {"audit_logs", "users", "audit_logs.request_id"}, "v_audit_events")
VersionTable == Object("alembic_version", {}, "alembic_version")

-----------------------------------------------------------------------------
(* Statements.  lenient: IF (NOT) EXISTS.                                   *)

Create(object, types) ==
    [op |-> "create", name |-> object.name, object |-> object, types |-> types, lenient |-> FALSE]
Drop(name) == [op |-> "drop", name |-> name, lenient |-> FALSE]
DropIfExists(name) == [Drop(name) EXCEPT !.lenient = TRUE]

CreateTable(t) == Create(t.table, t.types)
CreateIndex(i) == Create(Object(i[1], {i[2]}, i[2]), {})
EnsureVersionTable == [Create(VersionTable, {}) EXCEPT !.lenient = TRUE]

Upgrade001 == [i \in 1 .. Len(Tables001) |-> CreateTable(Tables001[i])]
              \o [i \in 1 .. Len(Indexes001) |-> CreateIndex(Indexes001[i])]

Upgrade002 == <<Create(AuditColumn, {}), Create(AuditIndex, {}), Create(AuditView, {})>>

Indexes001Down ==
    <<"idx_audit_logs_tenant_date", "idx_invoices_client_status", "idx_check_ins_user_date",
      "idx_work_orders_location", "idx_work_orders_crew_date", "idx_work_orders_tenant_status",
      "idx_clients_tenant_active">>

Tables001Down ==
    <<"audit_logs", "payments", "invoice_line_items", "invoices", "inventory_transactions",
      "inventory_items", "equipment", "work_order_check_ins", "work_order_attachments",
      "work_order_tasks", "work_orders", "crew_members", "crews", "locations", "clients",
      "employee_profiles", "refresh_tokens", "users", "tenants", "subscription_plans">>

Types001Down ==
    <<"payment_method", "invoice_status", "transaction_type", "equipment_status",
      "check_in_method", "attachment_type", "task_status", "work_type", "priority",
      "work_order_status", "crew_member_role", "industry_type", "user_role",
      "subscription_status">>

Downgrade001 == [i \in 1 .. Len(Indexes001Down) |-> Drop(Indexes001Down[i])]
                \o [i \in 1 .. Len(Tables001Down) |-> Drop(Tables001Down[i])]
                \o [i \in 1 .. Len(Types001Down) |-> DropIfExists(Types001Down[i])]

Downgrade002ColumnKept == <<DropIfExists("v_audit_events"), Drop("ix_audit_logs_request_id")>>

Downgrade002 ==
    <<DropIfExists("v_audit_events"), Drop("ix_audit_logs_request_id"),
      Drop("audit_logs.request_id")>>
=============================================================================
