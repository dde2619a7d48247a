------------------------------ MODULE Deployment ------------------------------
(***************************************************************************)
(* Everything that changes the schema or plants the demo data, started     *)
(* beside each other by containers, people and schedules:                  *)
(*   docker-compose.yml, docker-compose.prod.yml, .github/workflows        *)
(*   backend/migrations/env.py and versions/                               *)
(*   backend/scripts/seed_data.py, backend/scripts/reset_demo.py           *)
(*                                                                         *)
(* A process runs its phases in order.  A phase that works on the database *)
(* is one transaction of DDL and inserts, which others see when it commits *)
(* and not at all when it ends otherwise.  A statement waits for every     *)
(* open transaction that has touched one of its tables; on what it then    *)
(* finds, it applies or fails.                                             *)
(***************************************************************************)
EXTENDS Schema, Functions

CONSTANTS
    Containers,  \* compose: alembic upgrade head && server, restarted for ever
    Machines,    \* Fly: the server alone
    Deploys,     \* runs of the deploy workflow
    Resets,      \* runs of reset_demo.py
    Seedings,    \* runs of seed_data.py
    Downgrades,  \* runs of alembic downgrade -1
    MaxCrashes,  \* bound: processes killed or disconnected
    None         \* no transaction is open

ASSUME CrashAssumption == MaxCrashes \in Nat
ASSUME NoneAssumption == None \notin Nat
ASSUME RolesAssumption ==
    /\ Containers \cap (Machines \cup Deploys \cup Resets \cup Seedings \cup Downgrades) = {}
    /\ Machines \cap (Deploys \cup Resets \cup Seedings \cup Downgrades) = {}
    /\ Deploys \cap (Resets \cup Seedings \cup Downgrades) = {}
    /\ Resets \cap (Seedings \cup Downgrades) = {}
    /\ Seedings \cap Downgrades = {}

VARIABLES
    production, \* the containers run docker-compose.prod.yml, whose server is gunicorn
    version,   \* alembic_version: 0 no row, 1 after 001, 2 after 002
    schema,    \* names of the objects that are committed
    demo,      \* the demo tenant and all that seed_data makes with it are there
    code,      \* the version of the schema that each machine's code is written for
    proc,      \* where each process is
    crashes,
    overtaken, \* history: others committed since these connected
    lowered    \* history: the version has gone down

vars == <<production, version, schema, demo, code, proc, crashes, overtaken, lowered>>

Latest == 2

-----------------------------------------------------------------------------
(* seed_data.py: one function per group of tables.                          *)

Insert(tables) == [op |-> "insert", tables |-> tables]

already_seeded == [op |-> "check"]
seed_subscription_plans == Insert({"subscription_plans"})
seed_tenant == Insert({"tenants", "tenant_subscriptions"})
seed_users == Insert({"users"})
seed_clients == Insert({"clients", "client_contacts"})
seed_locations == Insert({"locations"})
seed_crews == Insert({"crews", "crew_members"})
seed_work_orders == Insert({"work_orders"})
seed_tasks == Insert({"work_order_tasks"})
seed_check_ins == Insert({"work_order_check_ins"})
seed_invoices == Insert({"invoices", "invoice_line_items", "payments"})

SeedCrewsFirst ==
    <<already_seeded, seed_subscription_plans, seed_tenant, seed_crews, seed_users,
      seed_clients, seed_locations, seed_work_orders, seed_tasks, seed_check_ins,
      seed_invoices>>

Seed ==
    <<already_seeded, seed_subscription_plans, seed_tenant, seed_users, seed_clients,
      seed_locations, seed_crews, seed_work_orders, seed_tasks, seed_check_ins,
      seed_invoices>>

-----------------------------------------------------------------------------
(* Processes. *)

Processes == Containers \cup Machines \cup Deploys \cup Resets \cup Seedings \cup Downgrades

\* sh -c "alembic upgrade head && uvicorn ..."; in production the second is gunicorn.
ContainerProgram == <<"upgrade", "serve">>
MachineProgram == <<"serve">>
DeployProgram == <<"roll", "upgrade">>
ResetProgramUnseeded == <<"wipe", "upgrade">>
ResetProgram == <<"wipe", "upgrade", "seed">>
SeedProgram == <<"seed">>
DowngradeProgram == <<"downgrade">>

Program(p) ==
    CASE p \in Containers -> ContainerProgram
      [] p \in Machines   -> MachineProgram
      [] p \in Deploys    -> DeployProgram
      [] p \in Resets     -> ResetProgram
      [] p \in Seedings   -> SeedProgram
      [] p \in Downgrades -> DowngradeProgram

Transactions == {"upgrade", "downgrade", "wipe", "seed"}

\* step 0: not started, or (containers) down.  from: the version the transaction
\* found.  at: how many of its statements have run.
NotRunning == [step |-> 0, from |-> None, at |-> 0, failed |-> FALSE]
Running(p) == proc[p].step \in 1 .. Len(Program(p))
Phase(p) == IF Running(p) THEN Program(p)[proc[p].step] ELSE "none"
Serving(p) == Phase(p) = "serve" /\ (p \in Containers => ~production)
\* The version of the schema that the server's code is written for.
Needs(p) == IF p \in Machines THEN code[p] ELSE Latest
InTransaction(p) == proc[p].from # None
Finished(p) == proc[p].step > Len(Program(p)) /\ ~proc[p].failed

\* UPDATE alembic_version ... WHERE version_num = from
Stamp == [op |-> "stamp"]
Wipe == [op |-> "wipe"]
Impossible == [op |-> "impossible"]

Statements(phase, from) ==
    CASE phase = "upgrade" /\ from = 0   -> <<EnsureVersionTable>> \o Upgrade001 \o Upgrade002
      [] phase = "upgrade" /\ from = 1   -> Upgrade002 \o <<Stamp>>
      [] phase = "upgrade" /\ from = 2   -> <<>>
      [] phase = "downgrade" /\ from = 0 -> <<Impossible>>
      [] phase = "downgrade" /\ from = 1 -> Downgrade001 \o <<Stamp>>
      [] phase = "downgrade" /\ from = 2 -> Downgrade002 \o <<Stamp>>
      [] phase = "wipe"                  -> <<Wipe>>
      [] phase = "seed"                  -> Seed

Scripts == [phase \in Transactions |-> [from \in 0 .. Latest |-> Statements(phase, from)]]
Script(p) == Scripts[Phase(p)][proc[p].from]
AtEnd(p) == proc[p].at = Len(Script(p))
NextStatement(p) == Script(p)[proc[p].at + 1]

-----------------------------------------------------------------------------
(* What a transaction sees and holds. *)

TableNames == {t.table.name : t \in Range(Tables001)}
Objects == {t.table : t \in Range(Tables001)}
           \cup {CreateIndex(i).object : i \in Range(Indexes001)}
           \cup {AuditColumn, AuditIndex, AuditView, VersionTable}
           \cup {Object(type, {}, type) : type \in UNION {t.types : t \in Range(Tables001)}}
Names == {o.name : o \in Objects}
Def == [n \in Names |-> CHOOSE o \in Objects : o.name = n]
Keys(table) == Def[table].refs \cap TableNames

Created(st) == IF st.op = "create" THEN {st.name} \cup st.types ELSE {}

\* A dropped object takes with it what belongs to it.
Dropped(st) ==
    CASE st.op = "drop" -> {n \in Names : n = st.name \/ Def[n].owner = st.name}
      [] st.op = "wipe" -> Names
      [] OTHER -> {}

Planted(st) == IF st.op = "insert" THEN st.tables ELSE {}

Touches(st) ==
    CASE st.op = "create" -> Created(st) \cup st.object.refs
      [] st.op = "drop"   -> {st.name} \cup Def[st.name].refs
      [] st.op = "wipe"   -> Names
      [] st.op = "stamp"  -> {"alembic_version"}
      [] st.op = "insert" -> st.tables
      [] OTHER            -> {}

\* What the first n statements of a script have done.
Effects ==
    [phase \in Transactions |-> [from \in 0 .. Latest |->
        LET script == Scripts[phase][from]
        IN  [n \in 0 .. Len(script) |->
                [created |-> UNION {Created(script[i]) : i \in 1 .. n},
                 dropped |-> UNION {Dropped(script[i]) : i \in 1 .. n},
                 planted |-> UNION {Planted(script[i]) : i \in 1 .. n},
                 touched |-> UNION {Touches(script[i]) : i \in 1 .. n}]]]]

Done(p) == Effects[Phase(p)][proc[p].from][proc[p].at]
View(p) == (schema \ Done(p).dropped) \cup Done(p).created

\* What p may create and somebody else has created, p found and left alone.
Touched(p) == Done(p).touched \ (Done(p).created \cap schema)

\* Reading a table keeps it from being dropped: alembic reads its version first, the
\* seed script the tenants.
ReadBy(p) ==
    CASE Phase(p) \in {"upgrade", "downgrade"} /\ proc[p].from > 0 -> {"alembic_version"}
      [] Phase(p) = "seed" /\ proc[p].at > 0 -> {"tenants"}
      [] OTHER -> {}

WaitsFor(p, q) ==
    /\ p # q /\ InTransaction(p) /\ InTransaction(q) /\ ~AtEnd(p)
    /\ \/ Touches(NextStatement(p)) \cap Touched(q) # {}
       \/ Dropped(NextStatement(p)) \cap ReadBy(q) # {}
Waits(p) == \E q \in Processes : WaitsFor(p, q)
Circle(S) == \A p \in S : (\E q \in S : WaitsFor(p, q)) /\ (\E q \in S : WaitsFor(q, p))

\* Whether the next statement of p applies to what p sees.
Applies(p) ==
    LET st == NextStatement(p)
        view == View(p)
    IN
    CASE st.op = "create" -> \/ st.lenient
                             \/ /\ Created(st) \cap view = {}
                                /\ st.object.refs \subseteq view \cup st.types
      [] st.op = "drop"   -> IF st.name \in view
                             THEN \A n \in view \ Dropped(st) : st.name \notin Def[n].refs
                             ELSE st.lenient
      [] st.op = "insert" -> /\ st.tables \subseteq view
                             /\ \A t \in st.tables :
                                   Keys(t) \subseteq Done(p).planted \cup st.tables
                             /\ ~demo
      [] st.op = "check"  -> "tenants" \in view
      [] st.op = "stamp"  -> version = proc[p].from
      [] st.op = "wipe"   -> TRUE
      [] st.op = "impossible" -> FALSE

-----------------------------------------------------------------------------
(* Steps of a process. *)

\* Servers are restarted for ever, a machine once it has an image; the other
\* processes run once.
Start(p) ==
    /\ proc[p] = NotRunning
    /\ p \in Machines => code[p] > 0
    /\ proc' = [proc EXCEPT ![p].step = 1]
    /\ UNCHANGED <<production, version, schema, demo, code, crashes, overtaken, lowered>>

Connect(p) ==
    /\ Phase(p) \in Transactions
    /\ ~InTransaction(p)
    /\ proc' = [proc EXCEPT ![p].from = version, ![p].at = 0]
    /\ overtaken' = overtaken \ {p}
    /\ UNCHANGED <<production, version, schema, demo, code, crashes, lowered>>

Execute(p) ==
    /\ InTransaction(p) /\ ~AtEnd(p)
    /\ ~Waits(p)
    /\ Applies(p)
    /\ NextStatement(p) = already_seeded => ~demo
    /\ proc' = [proc EXCEPT ![p].at = @ + 1]
    /\ UNCHANGED <<production, version, schema, demo, code, crashes, overtaken, lowered>>

\* "Seed data already present": nothing is planted, and nothing is wrong.
Skip(p) ==
    /\ InTransaction(p) /\ ~AtEnd(p)
    /\ NextStatement(p) = already_seeded
    /\ demo
    /\ proc' = [proc EXCEPT ![p].step = @ + 1, ![p].from = None]
    /\ UNCHANGED <<production, version, schema, demo, code, crashes, overtaken, lowered>>

Target(p) ==
    CASE Phase(p) = "upgrade"   -> IF Script(p) = <<>> THEN version ELSE Latest
      [] Phase(p) = "downgrade" -> proc[p].from - 1
      [] Phase(p) = "wipe"      -> 0
      [] Phase(p) = "seed"      -> version

Commit(p) ==
    /\ InTransaction(p) /\ AtEnd(p)
    /\ schema' = View(p)
    /\ version' = Target(p)
    /\ demo' = CASE Phase(p) = "seed" -> TRUE
                 [] Phase(p) = "wipe" -> FALSE
                 [] OTHER -> demo
    /\ lowered' = (lowered \/ version' < version)
    /\ overtaken' = (overtaken \cup {q \in Processes : InTransaction(q)}) \ {p}
    /\ proc' = [proc EXCEPT ![p].step = @ + 1, ![p].from = None, ![p].at = 0]
    /\ UNCHANGED <<production, code, crashes>>

ExitedForGood(p) ==
    proc' = [proc EXCEPT ![p] =
               [step |-> Len(Program(p)) + 1, from |-> None, at |-> 0, failed |-> TRUE]]

ExitedServing(p) ==
    proc' = [proc EXCEPT ![p] =
               IF p \in Containers \cup Machines
               THEN [NotRunning EXCEPT !.step = Len(Program(p))]
               ELSE [step |-> Len(Program(p)) + 1, from |-> None, at |-> 0, failed |-> TRUE]]

\* The process ends, its open transaction is rolled back.
Exited(p) ==
    proc' = [proc EXCEPT ![p] =
               IF p \in Containers \cup Machines
               THEN NotRunning
               ELSE [step |-> Len(Program(p)) + 1, from |-> None, at |-> 0, failed |-> TRUE]]

FailHalfway(p) ==
    /\ InTransaction(p) /\ ~AtEnd(p)
    /\ ~Waits(p)
    /\ ~Applies(p)
    /\ Exited(p)
    /\ schema' = View(p)
    /\ UNCHANGED <<production, version, demo, code, crashes, overtaken, lowered>>

Fail(p) ==
    /\ InTransaction(p) /\ ~AtEnd(p)
    /\ ~Waits(p)
    /\ ~Applies(p)
    /\ Exited(p)
    /\ UNCHANGED <<production, version, schema, demo, code, crashes, overtaken, lowered>>

\* PostgreSQL ends one of the transactions that wait for each other.
Deadlocked(p) ==
    /\ Waits(p)
    /\ \E S \in SUBSET {q \in Processes : Waits(q)} : p \in S /\ Circle(S)
    /\ Exited(p)
    /\ UNCHANGED <<production, version, schema, demo, code, crashes, overtaken, lowered>>

Crash(p) ==
    /\ Running(p)
    /\ crashes < MaxCrashes
    /\ crashes' = crashes + 1
    /\ Exited(p)
    /\ UNCHANGED <<production, version, schema, demo, code, overtaken, lowered>>

\* gunicorn is not among the requirements the image installs: the shell finds no such
\* command, and the container ends.
ServerNotFound(p) ==
    /\ production /\ p \in Containers
    /\ Phase(p) = "serve"
    /\ Exited(p)
    /\ UNCHANGED <<production, version, schema, demo, code, crashes, overtaken, lowered>>

\* deploy.yml replaces the machines one by one and then, whatever has become of
\* that (continue-on-error), runs the migrations.
Roll(p, m) ==
    /\ Phase(p) = "roll"
    /\ code[m] # Latest
    /\ code' = [code EXCEPT ![m] = Latest]
    /\ UNCHANGED <<production, version, schema, demo, proc, crashes, overtaken, lowered>>

Rolled(p) ==
    /\ Phase(p) = "roll"
    /\ proc' = [proc EXCEPT ![p].step = @ + 1]
    /\ UNCHANGED <<production, version, schema, demo, code, crashes, overtaken, lowered>>

-----------------------------------------------------------------------------

\* Names of the objects a version stands for.
SchemaOf(v) ==
    CASE v = 0 -> {}
      [] v = 1 -> Names \ UNION {Created(st) : st \in Range(Upgrade002)}
      [] v = 2 -> Names

\* An empty database, or one that was migrated before 002 was written.
Init ==
    /\ production \in BOOLEAN
    /\ version \in {0, 1}
    /\ schema = SchemaOf(version)
    /\ demo \in {d \in BOOLEAN : d => version = 1}
    /\ code = [m \in Machines |-> version]
    /\ proc = [p \in Processes |-> NotRunning]
    /\ crashes = 0
    /\ overtaken = {}
    /\ lowered = FALSE

Work(p) ==
    \/ Connect(p) \/ Execute(p) \/ Skip(p) \/ Commit(p) \/ Fail(p) \/ Deadlocked(p)
    \/ Rolled(p) \/ ServerNotFound(p)

Next ==
    \/ \E p \in Processes : Start(p) \/ Work(p) \/ Crash(p)
    \/ \E p \in Deploys, m \in Machines : Roll(p, m)

\* As long as a process that has been started can go on one of them does, and containers
\* that are down are started.
Fairness ==
    /\ WF_vars(\E p \in Processes : Work(p))
    /\ WF_vars(\E c \in Containers : Start(c))

Spec == Init /\ [][Next]_vars /\ Fairness

-----------------------------------------------------------------------------

\* Processes and history are well typed, and what is committed is the schema its
\* version stands for: no crash, failure or race leaves half a migration behind.
TypeOK ==
    /\ production \in BOOLEAN
    /\ version \in 0 .. Latest
    /\ schema = SchemaOf(version)
    /\ demo \in BOOLEAN /\ (demo => version > 0)
    /\ code \in [Machines -> 0 .. Latest]
    /\ proc \in [Processes -> [step : 0 .. 4, from : (0 .. Latest) \cup {None}, at : Nat,
                               failed : BOOLEAN]]
    /\ crashes \in 0 .. MaxCrashes
    /\ overtaken \in SUBSET Processes
    /\ lowered \in BOOLEAN

\* The scripts fit the schemas they meet.  A migration up from any version, the one
\* down from 002, and the seeding of a migrated database never meet a statement that
\* does not apply, unless another process committed since they connected.
FailsOnlyOvertaken ==
    \A p \in Processes \ overtaken :
        /\ InTransaction(p) /\ ~AtEnd(p) /\ ~Waits(p)
        /\ ~Applies(p)
        => \/ Phase(p) = "downgrade" /\ proc[p].from < 2
           \/ Phase(p) = "seed" /\ proc[p].from = 0

\* A server that is up finds the schema its code was written for, except where the
\* schema was taken down behind it, or on a machine replaced before a deploy has come
\* to the end of its migrations.
ServedBySchema ==
    \A p \in Containers \cup Machines :
        Serving(p) /\ version < Needs(p) =>
            \/ lowered
            \/ p \in Machines /\ \E d \in Deploys : proc[d].step > 0 /\ ~Finished(d)

\* After a reset has ended well the demo is there, until another one begins: what was
\* wiped comes back or the reset tells of its failure.
DemoComesBack ==
    demo \/ \A p \in Resets : Finished(p) => \E q \in Resets : proc[q].step > 0 /\ ~Finished(q)

\* Whatever is started, killed or reset: in the end every container serves, if the image
\* has the server it asks for.
ContainersServe == \A c \in Containers : <>[](production \/ Serving(c))

\* Whatever is started, killed or reset, also beside a container that restarts for ever: in
\* the end the schema is complete, unless a reset broke off or a downgrade was asked for.
SchemaComplete ==
    <>[](\/ version = Latest
         \/ \E p \in Resets : proc[p].failed
         \/ \E q \in Downgrades : Finished(q))

-----------------------------------------------------------------------------
(* What the documents say. *)

\* README.md, "Roll back one migration": alembic downgrade -1 takes a migrated database down
\* by one, unless another process committed since it connected.
RollsBackOne ==
    \A p \in Downgrades \ overtaken :
        InTransaction(p) /\ ~AtEnd(p) /\ ~Waits(p) /\ proc[p].from > 0 => Applies(p)

\* docker-compose.prod.yml, "Gunicorn + uvicorn workers for production": it serves.
ProductionServes == \A c \in Containers : <>(production => Serving(c))
=============================================================================
