# A TLA+ model of FieldPro

FieldPro is a multi-tenant field-service application: offices plan work orders
for clients' locations, crews carry them out on site, completed orders are
invoiced and paid. The backend is a FastAPI application over PostgreSQL
(SQLAlchemy, asyncio) with an arq worker on Redis; the frontend is a Next.js
single-page application.

This directory models the state-changing logic of the system in TLA+, checks it
with TLC on small instances and proves the invariants that matter for every
instance with TLAPS. Paths below are relative to the repository.

1. [How a request runs](#1-how-a-request-runs)
2. [Inventory](#2-inventory)
3. [Modules](#3-modules)
4. [Runs](#4-runs)
5. [Findings](#5-findings)
6. [Proofs](#6-proofs)
7. [What is left out](#7-what-is-left-out)
8. [Plan](#8-plan)

## 1. How a request runs

`backend/app/core/database.py:get_db` gives every request one session. It
commits after the handler returns and rolls back when the handler raises, an
`HTTPException` included. Four facts decide what can go wrong:

* PostgreSQL runs at its default READ COMMITTED; there is no `SELECT ... FOR
  UPDATE`, no version column, no advisory lock anywhere. What a handler checks
  concerns rows that other transactions may change before it commits.
* Every server process interleaves requests at every `await`, and there may be several
  of them (`docker-compose.prod.yml` asks for 4).
* The ORM's unit of work writes, by primary key, only the columns that differ
  from what was loaded. A stale session overwrites some columns of a row and
  leaves the others as it finds them.
* A query of a loaded row returns the object the session already holds, with the
  columns it was loaded with.

The models therefore have one shape. A handler that decides on what it read is
two actions, or more where it queries again: `...Read` is the handler up to its
first write, with its early returns, and keeps what it saw in `session[k]`;
`...Commit` applies its writes to the tables as they are at that moment. `Written`
(Invoices), `Patched` and `UpdatedTask` (WorkOrders) spell out which columns a
commit writes. `Rollback(k)` is every exception after the read. `Workers` is the
number of requests that can be in flight, two in every passing run. In `WorkOrders` and
`Invoices` no property assumes that requests keep out of each other's way. Where two in
flight break what one alone would keep, the property says of every behaviour by which
overlap alone it breaks: only a request that has read a row before another committed to
it takes the table where the check of its handler would not have let it.

## 2. Inventory

| component | state | operations | what is hard about it | what makes it correct |
|---|---|---|---|---|
| **Work orders** `api/v1/work_orders.py`, `services/work_order_service.py`, `models/work_order.py` | `work_orders`, `work_order_tasks`, `work_order_check_ins` | create, patch, delete, check in, check out, complete, generate instances, add and update tasks | three handlers move the status, each on what it loaded; completion decides on tasks and check-ins other people change; a completion creates an order | terminal is terminal; work ends with its required tasks done and nobody on site; one next occurrence per completion, later than it and within its rule |
| **Invoices** `api/v1/invoices.py`, `services/invoice_service.py`, `models/invoice.py` | `invoices`, `invoice_line_items`, `payments` | bill work orders, make by hand, edit, send, record a payment, void | check-then-insert for billing and numbering; a payment sums rows others are adding to; totals recalculated from stale columns | numbers unique and gapless; a job billed once; status and payments agree; totals add up |
| **Logins and tokens** `api/v1/auth.py`, `core/security.py`, `api/v1/users.py`, `models/user.py` | `refresh_tokens`, the login columns of `users` | register, login, refresh, logout, change and reset password, create, enable, disable, delete a user | rotation against concurrent rotation, revocation and deactivation; tokens without a random part; a revocation rolled back by its own error | a token is exchanged once and revoked by it; a password change ends the other sessions; no token for a disabled user |
| **API client** `frontend/src/lib/api.ts`, `frontend/src/stores/auth-store.ts` | access token, `isRefreshing`, `refreshQueue`, a retry mark per call | request and response interceptors, refresh, login, logout | calls refused while a refresh is under way; answers in any order | one refresh at a time; nobody left in the queue; every call settles |
| **Clients, locations** `api/v1/clients.py`, `api/v1/locations.py` | `clients`, `locations` | create, patch, soft delete | deletion guards against the creation of work orders; unique constraints count deleted rows, the check of client codes does not; the empty QR token is not checked | names are unique; the checks foresee a clash; no open order at a deleted place |
| **Users, crews, permissions** `api/v1/users.py`, `api/v1/crews.py`, `core/dependencies.py` | `users`, `crews`, `crew_members` | register, create, patch and deactivate users; create, patch, delete crews; add and remove members | ranks are judged on what was loaded; PATCH lets an administrator demote himself; unique constraints count rows the checks do not; login looks an email up in all tenants | the checks foresee a clash; a tenant keeps its administrator; who can log in stays able to |
| **Background jobs** `workers/`, `auth.py:forgot_password`, `invoices.py:send_invoice` | Redis queue, the worker's one database session | enqueue, claim, query, mail, finish; crash, stop, restart | jobs share one session that is never rolled back; at-least-once delivery; the invoice job goes to another Redis database | a reset mail goes out, repeated or lost only as the worker's stops explain |
| **Migrations, seed data, deployment** `migrations/`, `scripts/`, `docker-compose*.yml`, `.github/workflows/deploy.yml` | the schema, `alembic_version`, the demo tenant, the code on each machine | upgrade, downgrade, wipe, seed, roll out, crash, restart | several processes migrate at once; machines are replaced before the migration runs; a reset is three transactions | no half migration; scripts fit what they find; servers meet the schema they need; the schema is complete in the end; a container serves if its server is installed |
| **Audit trail** `core/audit/` | `audit_logs` | ORM listeners, explicit records, autonomous records | - | write-only: nothing reads it to decide |
| **Analytics, audit-log reading, repositories, middleware, configuration, inventory tables, attachments, pages** | none of their own | queries, wiring, rendering | - | - |

Interactions: a completed work order is what `create_from_work_orders` bills; a
work order names a client, a location, a crew and users; the access token the API
client holds is bought with the refresh token of the `refresh_tokens` table; user
administration decides whom a login lets in and who may form crews; a password
reset and an invoice enqueue jobs; every handler stands on the schema the
migrations leave.

The behaviours that are hard to test are listed line by line under `hazards` in
`PROJECT.json`, each with the properties that would catch it.

## 3. Modules

| module | what it is |
|---|---|
| `WorkOrders` | tables and handlers of work orders, tasks, check-ins |
| `WorkOrderLifecycle` | what the work order API promises: one stage per order |
| `Invoices` | tables and handlers of invoices and payments |
| `InvoiceLedger` | what the invoice API promises: due, got, stage |
| `Sessions` | refresh tokens, logins, passwords, activation |
| `ApiClient` | the frontend's interceptors in one browser tab |
| `Catalog` | clients, locations, and the orders that name them |
| `Staff` | users of several tenants, their roles, their crews |
| `Jobs` | the queue, the worker, and the requests that enqueue |
| `Schema` | every statement of the two migrations, up and down |
| `Deployment` | the processes that run them, seed and reset the demo, and serve |
| `*_proof` | the theorems about each, and their proofs |
| `MC*` | symmetry sets and state constraints for TLC |

A definition named after an omission (`InsertInvoiceUnchecked`,
`DeleteReadAny`, `NotRefreshedQueueKept`...) is not used by the specification. It
stands above the definition it imitates and is that definition with a plausible
bug; put in its place it makes TLC refute a property, which is how each property
was shown to say something about the code.

### WorkOrders

`orders[w]` is the row of `work_orders`: status, whether the actual start and end
times are set, `deleted_at`, `recurrence_rule`, `scheduled_date`,
`parent_work_order_id`. `tasks[t]` and `checkIns[c]` are the rows of the two child
tables; check-ins are numbered in the order of `check_in_time`, on which check-out
decides. A row not yet inserted has status
`"absent"`, owner `None`.

| code | actions |
|---|---|
| `create_work_order` | `CreateWorkOrder` (nothing it decides on can change) |
| `update_work_order`, `update_work_order_status` | `PatchRead`, `PatchCommit` |
| `process_checkin`, `checkout` | `CheckInRead`, `CheckInCommit`; `CheckOut` |
| `complete_work_order`, `spawn_next_occurrence` | `CompleteRead`, `CompleteCommit` |
| `generate_recurring_instances` | `GenerateInstances` |
| `delete_work_order` | `DeleteRead`, `DeleteCommit` |
| `add_task`, `update_task` | `AddTaskRead`, `AddTaskCommit`; `UpdateTaskRead`, `UpdateTaskCommit` |

Recurrence. A rule recurs every day from the date it is parsed with (`dtstart`), at most
`count` times and not past `until`. The code parses it anew with the date of the order
at hand, or the current time where the order has none (`Start`), so a COUNT is counted
again from every completed order and never ends a series, while an UNTIL does.
`After(rule, start)` are the dates after `dtstart`: `rule.after` is the first of them
(`NextDates`), `rule.between` those before the horizon. A text that does not parse
(`Invalid`) or is not there spawns nothing. PATCH writes status, rule and date, each only
where it differs from what was loaded. An instance of an instance hangs on the root of
the series, which is its template and whose rule it gets.

`WorkOrderLifecycle` forgets sessions, times, dates, tasks and check-ins. An order has a
stage; the abstract moves are those of the state machine plus the crew's arrival;
finishing an order may put one new order on the schedule, planning any number. Its
second variable, `outdated`, is mapped to the orders that an open session has loaded in
another stage than they are in. Of these the lifecycle promises less (`Overwrite`): they
may be moved anywhere but back to absent or draft, and never out of deleted.

### Invoices

`invoices[i]` has the number, status, billed work orders, subtotal, rate, tax,
discount, total, and whether `sent_at` and `paid_at` are set; `received[i]` is the
sum of its payments. Lines are never edited, so an invoice keeps the orders they
bill and their sum. Money is in whole cents and a rate in halves, so that a product of
the two may have half a cent, which the `Numeric(12, 2)` columns round (`Cents`).
`recalculate_totals` assigns the product before it is rounded: the ORM compares that with
the loaded column, finds it different whenever there was something to round, and writes
tax or total also where the payload changed neither rate nor discount (`WrittenCents`). The
month in the invoice number is one month. An amount of 0 stands for a positive
amount the column rounds to 0.00, which passes the `> 0` check. A bill is three
steps, because the number is a query of its own: `BillJobsCheck` or `BillByHand`,
`TakeNumber`, `InsertInvoice`. A payment is three as well: `PaymentRead`,
`PaymentSum` (the payments are read again after the insert), `PaymentCommit`.

`InvoiceLedger`: an amount due that is fixed once the invoice leaves the draft
stage, an amount got that decides between partial and settled, a void nothing
follows. A sent invoice may be sent again, which is a stutter there (the docstring,
`invoices.py:480`, speaks of drafts only). `outdated` is mapped to the invoices of which
an open session has loaded another stage, or is about to settle against another total or
another sum of payments than there are now. Of these the ledger promises less: the amount
got never falls, and there is no way back to a draft.

### Sessions

A refresh token carries the user id and the second it expires and nothing else, so
the model names a token `<<user, second>>`; `token_hash` is unique. `tokens[t]`
adds two history fields: the token it was exchanged for, and the `era` of its
login, the number of times all tokens of the user had been revoked by then. `raced`
is history too: the users who have had two requests in flight at a time. Properties
that hold only without a race are stated for the users outside `raced`, while
other users interleave freely; so one run says both what always holds and what a
user whose requests do not overlap can rely on. `Tick` advances the clock at any
moment, also between the steps of a request.

### ApiClient

A turn of the event loop, microtasks included, is one action: a call is made, an
answer arrives and everything that follows from it happens. A call is unmade, sent,
queued, leading (it awaits the refresh it asked for), answered, unauthorized or
failed. Access tokens are numbered as they are issued. The backend refuses any
token at any time: it may have expired. `Refreshed` and `NotRefreshed` are the two
outcomes of `POST /auth/refresh`, `ClearAuth` the end of a logout, `Login` a login
that may come between.

### Catalog

`clients[c]` has the code and `deleted_at`, `locations[l]` the client, the QR token
and `deleted_at`, `orders[w]` the places of a work order, whether its status is one
of the four open ones, and its parent. A row not yet inserted has `None` in its
first column. `Blank` is the empty string, which `if qr_token:` takes for no token
and the unique index for one. What `WorkOrders` says about statuses is here the
choice of open or not open.

| code | actions |
|---|---|
| `create_client`, `update_client`, `delete_client` | `CreateClientRead`, `CreateClientCommit`; `UpdateClient...`; `DeleteClient...` |
| `create_location`, `update_location`, `delete_location` | `CreateLocation...`, `UpdateLocation...`, `DeleteLocation...` |
| `create_work_order` | `CreateOrderRead`, `CreateOrderCommit` |
| patch, check in, complete | `ChangeStatusRead`, then `ChangeStatusCommit` or `CompleteCommit` |
| `generate_recurring_instances`, `delete_work_order` | `GenerateInstances`, `DeleteOrder` |

A request is *about* the names it gives away and the places it decides on; `raced`
is history, the things two requests in flight were about at a time. The properties
state what holds for the rest: each exception they make is needed (TLC refutes the
property without it) and is a way in which the program goes wrong. `create_client`
explains its `IntegrityError` by a race alone (`clients.py:211`); `ClashExplained`
has the second reason, a deleted client that keeps its code, and neither
`update_client` nor the location handlers catch the error. `create_work_order`
says it "Validates that client + location belong to this tenant"
(`work_order_service.py:106`) and looks up the location only, so an order is made
for a deleted client (`late`).

### Staff

`users[u]` has the tenant, email, role, `is_active` and `deleted_at`, `crews[c]` the
tenant, code and `deleted_at`, `members[<<c, u>>]` the one row `crew_members` may
have of a crew and a user: none, current, ended. Every request but a registration is
made by a user `by`, whose role the guards `RequireRole` and `RequirePermission`
judge as `core/dependencies.py` does; `Grants` is its `_PERMISSION_MAP`. Here the
tenants matter: emails are unique within one, and login looks in all.

| code | actions |
|---|---|
| `register` | `Register` |
| `create_user`, `update_user`, `deactivate_user` | `CreateUser...`, `UpdateUser...`, `DeactivateUser...` (`Read`, `Commit`) |
| `create_crew`, `update_crew`, `add_crew_member` | `CreateCrew...`, `UpdateCrew...`, `AddMember...` (`Read`, `Commit`) |
| `delete_crew`, `remove_crew_member` | `DeleteCrew`, `RemoveMember` |

`get_current_user` loads the caller into the session the handler uses, so the
target's row is the caller's object when they are one user: `Written` says which
column a commit writes. `LoginFinds` is the query of `login`, which raises when it
finds two rows.

### Jobs

`jobs[j]` is the job of one request: where it is in the life arq gives a job, in
which Redis database it was put, whether its arguments are keywords, how often it was
started and how often its mail went out. `conn` is the connection of the one session
`startup()` opens: none, being got, open, or broken for good. `smtplib` blocks the
event loop, so the mail goes out in the step the query is answered in. arq itself is
external and modelled as version 0.26 behaves: a job stays in the queue until it is
finished, and the claim of a dead worker expires.

| code | actions |
|---|---|
| `forgot_password`, `enqueue_task` | `ForgotPassword`, `EnqueueTask` |
| `send_invoice` | `SendFlush`, `SendEnqueue`, `SendEnd` |
| `send_password_reset_email`, `_send_email` | `Query`, `Answer` |
| arq | `Start`, `Finish`, `Expire`, `Stop` |
| `startup`, the process and its connection | `Restart`, `Crash`, `Outage` |

### Schema and Deployment

`Schema` has the statements of `001_initial_schema.py` and
`002_audit_request_id_and_view.py` in their order: tables with the tables their
foreign keys name, enum types, indexes, the added column and the view. A statement is
a record with what it needs and whether it says IF EXISTS. Columns, defaults and the
indexes made along with a table are left out.

`Deployment` runs them. A process goes through the phases of its `Program`: a
container upgrades and serves, unless it was started from `docker-compose.prod.yml`
(`production`), whose server, gunicorn, the image does not install: then it ends and is
restarted (`ServerNotFound`); a machine serves, the deploy workflow rolls out and
upgrades, `reset_demo.py` wipes, upgrades and seeds. A phase on the database is one
transaction, begun by `Connect`, which reads the version, one statement an `Execute`,
ended by `Commit`, by a statement that does not apply (`Fail`), by PostgreSQL
(`Deadlocked`), or by a `Crash`. `View(p)` is what a transaction sees, `WaitsFor` the
locks of DDL. `overtaken` and `lowered` are history: the processes behind whose back
another committed, and whether the schema was ever taken down. A database starts
empty or as it was before 002 was written.

## 4. Runs

All runs are with `CHECK_DEADLOCK FALSE`: pools of ids, the clock and the numbers
of payments, revocations, stops and crashes are finite, so a behaviour of the model
ends where the program's does not.

| run | instance | shows |
|---|---|---|
| `work_orders` | 1 order, 1 task, 1 user, 2 check-ins; or 3 orders of a series, dates set and not set, today 1, COUNT 3, UNTIL 3; 2 workers | `TypeOK`, `InProgressStarted`, `TerminalLeftByStale`, `NobodyOnEndedOrder`, `DeletedNotInProgress`, `RequiredDoneAtCompletion`, `SpawnsExactlyOne`, and `ImplementsLifecycle` |
| `invoices` | 1 invoice, rates 0 and a half, discounts 0 and 2, payments 0 and 1; or 2 invoices over 2 jobs; 2 workers | `NumbersGapless`, `AmountsAgree`, `StatusTellsMoney`, `NoneAlreadyInvoiced`, and `ImplementsLedger` |
| `sessions` | 1 user, 4 seconds, 2 workers | `ExchangedIsRevoked`; without a race `LiveSinceLastRevocation`, `DeletedIsDisabled`, `SpentBuysNothing`, `TokensForActiveUsers` |
| `api_client` | 3 calls, 1 login | `TypeOK`, `SingleFlight`, `RefusedWithNewer`, `EveryCallSettles` |
| `catalog` | 2 clients, 2 codes, 2 locations, 2 tokens, 2 orders, 2 workers | `TypeOK` (with the foreign keys), `ClashExplained`, `DeletedPlacesIdle` |
| `staff` | 3 users, 2 tenants, 2 emails, 2 crews, 2 codes, 2 workers | `TypeOK` (members are of the crew's tenant), `ClashExplained`, `AdminGoesForGood`, `LoginKept` |
| `jobs` | 2 resets, 1 invoice, 2 stops, 1 outage, 2 tries, 2 jobs at a time | `MailsExplained`, `LossExplained`, `ResetSettled` |
| `deployment` | 1 container of either compose file, 1 machine, 1 each of deploy, reset, seeding, downgrade, crash, at most two of these in a behaviour (one beside the production container) | `TypeOK` (the schema is that of its version), `FailsOnlyOvertaken`, `ServedBySchema`, `DemoComesBack`, `SchemaComplete`, `ContainersServe` |
| `sessions_reuse`, `production_serves`, `roll_back_one`, `jobs_invoice_mail` | the smallest that shows it | the violations of section 5 |

**Bounds and constraints.**

* `work_orders`: constraint `OneOrderOrSeries`, two cases in one state space.
  `OneOrder`: the properties relate the columns of one order with its task or with its
  check-ins, and every race is between a read and the commits of one other request. Two
  check-ins are what it takes to check in twice. The order has a task or check-ins, since
  no property relates the two; it has no rule and no date, since nothing here depends on
  them; of two requests one is about the order itself.
  `OneSeries`: three orders give a root, its instance and the instance's own successor,
  whose parent is the root again. The root has no date, so it recurs from today, 1; its
  instances have dates 2 and 3, or lose theirs to an edit. `Horizons = {3}` makes
  generate-instances create what a completion also spawns; `Untils = {3}` has the rule
  end, `Counts = {3}` would let it go on. One series, without check-ins, tasks, on_hold
  or cancelled orders; a PATCH writes one field; once there are instances only dates are
  edited and nothing is deleted, and three orders are completed and no more; of two
  requests in flight one is a completion, the only handler that reads and writes more
  than one order.
* `invoices`: constraint `OneInvoiceOrAmount`, two cases likewise. `OneInvoice`: half a
  cent makes the tax one that is rounded, and payments of 0 and 1 against totals from -1
  to 2 give under-, exact and over-payment; `MaxReceived = 2` ends the payments.
  `OneAmount`: two jobs are billed together, apart, again after a void; numbering and
  billing relate two invoices and look at no amounts, so there is one rate, no discount,
  one payment and no edit. The theorems lift the bounds and constraints of both runs.
* `sessions`: `MaxTime = 3` with `Lifetime = 2` has tokens expire and a chain of
  three exchanges; `MaxRevocations = 1` gives every token a before and an after. One
  user suffices: no handler of one user's tokens reads another's.
* `api_client`: three calls are one that leads, one that queues, one that arrives
  late; one login comes between any two steps.

* `catalog`: constraint `OnePair`: two clients, two locations or two orders, but not
  two of several kinds at once, QR tokens before there are orders, at most two raced
  things, one where there are tokens or two of a kind. A clash takes two clients or
  two locations and no order; an order at a deleted place takes one of each; an
  instance takes two orders. The theorems lift the bound.
* `staff`: constraint `Small`: two requests at a time while there are two users in
  one tenant; either users are administered, or two users form two crews, or one crew
  with members; one thing is raced at most. A clash takes two rows of a kind, losing
  the administrator two users, a broken login two tenants. No client's user, whom the
  map grants nothing here. The theorems lift all of these bounds.
* `jobs`: two resets are what it takes to meet in the one session; `MaxTries = 2`
  with two stops reaches the last try; one outage breaks the connection or keeps it
  from being got. The theorems lift the bounds of the safety properties.
* `deployment`: constraint `TwoEvents` allows two of deploy, reset, seeding,
  downgrade and crash in one behaviour beside the servers, and one beside a production
  container, whose restarts never end. Every property is about
  two processes that meet, or one that meets a crash. `production` is chosen at the start, so
  the one container is checked with either server. The constraint cuts off only
  steps nobody is obliged to take, so the liveness check keeps its meaning. Schema
  and scripts are complete: there is no bound on statements. The theorems lift the
  bounds of the safety properties.

**Fairness.** Three models have liveness. `ApiClient` assumes weak fairness per call
of the answers to a sent call, and of the outcome of a refresh: the browser settles
every `fetch` in the end, if only with a network error. Nothing is assumed of users,
logins or the backend's verdict. `Jobs` assumes that the event loop goes on with each
job, that PostgreSQL answers or fails in the end (arq's job timeout sees to it),
that the mail server does (an assumption: `smtplib` is called without a timeout, on
the event loop), and that docker-compose restarts a worker
(`restart: unless-stopped`). `Deployment` assumes that as long as a process that was
started can go on one of them does, and that containers that are down are started
again, for the same reason. The models of the request handlers are safety only:
nothing in the code obliges a user to finish an order.

**What overlapping requests break.** Nothing locks what a handler of `WorkOrders` or
`Invoices` has checked; the price of READ COMMITTED without locks, for every check:

| check | it breaks only by |
|---|---|
| completed and cancelled are terminal (`TerminalLeftByStale`) | a request that loaded the order before |
| nobody stays on an order whose work has ended (`NobodyOnEndedOrder`) | a check-in the completion did not load, or one that loaded the order before |
| no deleted order in progress (`DeletedNotInProgress`) | a deletion or a start that read the order before the other committed |
| required tasks are done (`RequiredDoneAtCompletion`) | a task changed after `/complete` read it |
| one next occurrence (`SpawnsExactlyOne`) | a completion that read the order before it was finished |
| tax and total belong to the rate and the discount (`AmountsAgree`) | an edit that loaded other amounts than it writes to |
| status and payments agree (`StatusTellsMoney`) | a request that has not loaded or summed what is there |
| a work order is billed once (`NoneAlreadyInvoiced`) | a bill that looked before the other invoice counted, a send or payment that loaded an invoice before it was voided |

They have the same form as the four properties of `Sessions` stated outside `raced`, which
fail for the users in it. There two
tokens of a user in one second are the same string: an exchange within the second of
the login is refused by the unique constraint (`Unused` in the model).

## 5. Findings

| run | what the code says | what it does |
|---|---|---|
| `production_serves` | "Gunicorn + uvicorn workers for production" (`docker-compose.prod.yml:51`) | gunicorn is not in `backend/requirements.txt`: the container migrates, ends, and is restarted for ever |
| `roll_back_one` | "Roll back one migration": `alembic downgrade -1` (`README.md:169`), "Drop tables in reverse dependency order" (`001_initial_schema.py:1538`) | the downgrade of 001 leaves out `client_contacts` and `tenant_subscriptions`, so the drop of `clients` fails, and all of it is rolled back |
| `sessions_reuse` | "Refresh token has already been used — all sessions revoked" (`auth.py:284`) | the exception that says so rolls the revocation back |
| `jobs_invoice_mail` | "Mark an invoice as sent and enqueue an email delivery task." (`invoices.py:479`) | the job goes to `REDIS_URL` while the worker polls `ARQ_REDIS_URL`; `main.py:87` says of this "jobs sit forever unprocessed." Its arguments would not fit the task either |

## 6. Proofs

Assumptions are the `ASSUME`s of the modules: `None` is no id, bounds, dates and
amounts are natural numbers, `Jobs` and `Calls` are finite, the kinds of process of
a deployment are disjoint. Nothing bounds the number of workers, rows, users or
seconds, and nothing is assumed of when requests overlap. Each proof module has one
theorem `Invariance`, `Spec => []Inv`, with one step per action, from which the
named theorems follow.

* **WorkOrders_proof**: `TypeCorrect`, `StartedTheorem` (`InProgressStarted`),
  `DraftTheorem`. None of them is inductive: a commit writes what another request made
  true or false since the read. The strengthening (`SessionsHold`) says what stays true
  of a row although it is written over: an order a session has seen is never absent
  again; one seen outside draft is not in draft; one seen started is started (nothing
  unsets the start). Dates, rules and every other column may change.

  The action properties follow from it, each through the rows that the commits write
  (`PatchRows`, `CheckInRows`, `CompleteRows`, `DeleteRows`): `StaleTheorem`
  (`TerminalLeftByStale`), `NobodyTheorem` (`NobodyOnEndedOrder`), `DeletedTheorem`
  (`DeletedNotInProgress`), `RequiredTheorem` (`RequiredDoneAtCompletion`),
  `SpawnTheorem` (`SpawnsExactlyOne`). What they need beyond the row is what the read
  tested and the session remembers (`Known`): a valid transition leaves no terminal
  status, a deletion has not seen an order in progress, a completion has seen the
  required tasks done. `LifecycleTheorem` (`ImplementsLifecycle`) goes through the
  commits once more: where a session has seen the stage the order is in, its commit is
  a move of the lifecycle, and where it has not, the order is outdated by definition and
  the strengthening rules out absent, draft and the way out of deleted.
* **Invoices_proof**: `TypeCorrect`, `NumbersTheorem`, `MoneyTheorem`. The strengthening
  says that all numbers below the one a request took are in use
  (nobody frees a number), so that an insert the constraint lets in fills exactly
  the next place; that the columns nobody changes are those the session saw (`Kept`); that
  what it saw passed the check of its handler (`Admitted`); that the payments summed are
  still there; and that the invoices a bill looked at do not bill its work orders.

  `AmountsTheorem` (`AmountsAgree`): an edit whose loaded amounts are the row's assigns all
  four of them, rounding included. `StatusTheorem` (`StatusTellsMoney`): what a commit
  that is not out of date writes follows from its check. `BilledTheorem`
  (`NoneAlreadyInvoiced`): an invoice comes to count by its insert, or by a send or a payment
  that writes over a void. `LedgerTheorem` (`ImplementsLedger`): every write of a row is
  an entry of the ledger (`Entry`), one that only an outdated invoice admits only where the
  session's stage, total or sum is not the table's.
* **Sessions_proof**: `TypeCorrect`, `RotationTheorem`, `ChainTheorem`,
  `RevocationTheorem`, `DeactivationTheorem`, `SingleUse`, `ActiveTheorem`. The
  first three facts hold for any interleaving: a token seen live exists, and two
  tokens of a chain differ in their second because the second one was unused. The
  other four are about users outside `raced`: such a user has at most one open
  request, and what that request read is still so (the token live, the user
  active, the live tokens the same).
* **ApiClient_proof**: `TypeCorrect`, `SingleFlightTheorem`, `NewerTheorem`. The
  strengthening counts: tokens issued are at most the logins and the calls that have
  used up their refresh. That a token is always within `Tokens` is then a theorem
  and not a bound on the model, and says that a call asks for one refresh at most.

* **Catalog_proof**: `TypeCorrect`, `NamesTheorem`, `ClashTheorem`, `IdleTheorem`.
  The strengthening is that two requests about one thing put it in `raced`, and that
  what a request checked (no live client has the code, no location the token, the
  place has no open order, is not deleted) still holds unless the thing is raced. A
  commit changes things only within what its request is about (`Frame`), so it
  spares the facts of every other request.
* **Staff_proof**: `TypeCorrect`, `ClashTheorem`, `AdminTheorem`
  (`AdminGoesForGood`), `LoginTheorem` (`LoginKept`). The clash is argued as in
  `Catalog_proof`. For the administrator, the strengthening is that
  a tenant has at most one (the role comes with a registration only, since one may grant
  roles below one's own) and that whoever has an open request about a user is that
  one, if there is one still (`Chief`): so nobody else can take the role or the
  account, and nobody is left to give it back.
* **Jobs_proof**: `MailsTheorem`, `LossTheorem`, `NeverStarted`. The strengthening
  counts: a stop gives a job at most one more try, a try at most one mail, and the
  mail is the last thing a try does, so that a job lost or given up for its tries has
  seen that many stops; every lost job has its cause in `raced`, `outages` or `stops`.
  `NeverStarted` is the safety half of the finding: no worker ever starts what
  `send_invoice` enqueues.
* **Deployment_proof**: `TypeCorrect`, `OnlyOvertakenFail` (`FailsOnlyOvertaken`),
  `ServersServed` (`ServedBySchema`), `DemoReturns` (`DemoComesBack`),
  `OneHolder`, for any number of processes of each kind, and `OnlyResetsEmpty`: the
  finding about the downgrade of 001 in its strong form, that in no behaviour it ever
  succeeds. Half of it is about the text of the scripts. `Rank` gives every name the
  place of the statement that creates it; `UpFits` and `UptoNext` then say that a
  statement of the way up creates what no other does, from what those before it have
  created; `SchemaIs`, that a version's schema is what the way up has created when
  it comes to that version; the `...Effects` lemmas, what each script has created,
  dropped, planted and touched after n statements.

  The other half is the invariant. That the committed schema is a version's is not
  inductive: a commit applies what a transaction did, statements ago, to a schema that
  others may have changed since. The strengthening is a mutual exclusion (`Alone`). A
  transaction is a holder once it has stamped the version, begun to create the tables
  of 001 (its second statement), or dropped everything; from then on it has
  `alembic_version` or `subscription_plans` among what it has touched
  (`HolderTouches`), which the statement that would make another a holder touches too
  (`Free`). So there is one holder at most, the version is still the one it found
  (`Grounded`), every commit that changes the version is a holder's, and leaves the
  schema of the version it writes (`Commits`). No rows are planted in a transaction
  while a wipe is open, for the same reason. A downgrade from 001 never gets past
  `clients`: `client_contacts`, which it does not drop, refers to it (`ClientsMeet`).
  `Current` and `Raised` carry the history: who has not been overtaken works on what
  is committed, and while the version has not gone down nobody is above it.

  The scripts and the constants are as in the code; the assumption `RolesAssumption`
  says that the six kinds of process are disjoint, which they are by what starts them.

**Only model-checked**: `EveryCallSettles`, `ResetSettled`, `ContainersServe`,
`SchemaComplete`. They are liveness under fairness, which rests on ENABLED and is
outside the prover's reach. Every invariant and every action property of a passing
run, and both refinements, are also theorems.

## 7. What is left out

* Tenants: every query of the modelled handlers filters by the caller's tenant; a
  model is one tenant, `Staff` excepted. The permission checks in front of the handlers
  are in `Staff` and left out elsewhere: they read nothing that those handlers write.
* Work orders: start and end of the service window, free text, crew and assignee,
  geofence distance (a position outside is recorded all the same), `actual_hours`,
  `sla_met`, attachments. PATCH with status `completed` only writes the status: no
  next occurrence is spawned and check-ins stay open. The model does the same, and
  `SpawnsExactlyOne` speaks of `/complete`.
* Invoices: the rounding of single lines, and of payments (but for amounts that round to
  nothing), due dates, the
  e-mail job (in `Jobs`), PDF. `viewed` and `overdue` are declared and never set.
* Sessions: access tokens, password contents, MFA enrolment, which no login asks
  for, expiry of reset tokens. A PATCH of a user's password by an administrator
  revokes no token.
* Catalog: names, addresses, coordinates, contacts, service windows, `is_active`.
  `qr_code_token` is unique over all tenants, and so is the model's, with one tenant.
* API client: the redirect to `/login` after a refresh has failed, toasts, the
  endpoint functions, which keep no state. A refresh answered after a logout puts an
  access token back; the model has this behaviour and no property forbids it.
* Staff: names, profile fields, passwords in a PATCH, `is_active` of crews, the role of
  a member: no handler decides on them. Clients of `client_user`s.
* Jobs: the text of mails, the four tasks that nothing enqueues, eviction of Redis
  keys, retries of a mail server. The reset token in the mail and its expiry.
* Deployment: columns, defaults, contents of rows, offline migrations, images (but for the
  server they lack).
* Audit trail: rows are added beside the requests and read by no handler; they commit
  or roll back with the request, the failed logins in a session of their own.
* Attachments: a row and a presigned URL; no later request reads or completes it.
* Analytics, audit-log reading: read-only queries. Repositories: used by no router.
  Configuration, middleware, exception handlers: wiring. Inventory: tables without
  operations. Frontend pages: view state and rendering. `dateutil`'s expansion of a
  recurrence rule is a library; what the code does with its results is in `WorkOrders`.

## 8. Plan

Done, most important behaviour first: `WorkOrders`, `WorkOrderLifecycle`,
`Invoices`, `InvoiceLedger`, `Sessions`, `ApiClient`, `Catalog`, `Staff`, `Jobs`, `Schema`
with `Deployment`, each with its proofs.

What remains worth doing: `Billing`, the composition of `WorkOrders` and `Invoices`
over the completed orders (what is billed was done); and `Tabs`, several `ApiClient`s that
share one refresh token of `Sessions`.
