------------------------------ MODULE WorkOrders ------------------------------
(***************************************************************************)
(* Work orders with their tasks and check-ins:                             *)
(*   backend/app/api/v1/work_orders.py                                     *)
(*   backend/app/services/work_order_service.py                            *)
(*                                                                         *)
(* A request is one database session (core/database.py, get_db): it reads  *)
(* the rows it decides on, and later writes and commits.  PostgreSQL runs  *)
(* it at READ COMMITTED without row locks on the reads, so requests served *)
(* by different Workers interleave between the read and the write.  Every  *)
(* handler that decides on what it read is therefore two actions, ...Read  *)
(* (the handler up to its first write, with its early returns) and         *)
(* ...Commit (its writes up to the end of the transaction); what was read  *)
(* travels in session[k].  A write goes by primary key and writes only the *)
(* columns that differ from what was loaded, whatever the row holds now.   *)
(***************************************************************************)
EXTENDS Naturals, Functions, FiniteSets

CONSTANTS
    WorkOrders,      \* ids a work_orders row may get
    Tasks,           \* ids a work_order_tasks row may get
    CheckIns,        \* ids of work_order_check_ins rows, in check_in_time order
    Users,           \* who checks in
    Workers,         \* requests that can be in flight at the same time
    Dates,           \* scheduled_date of a payload
    Today,           \* what the clock may show
    Counts,          \* COUNT of a recurrence rule; one past all Horizons: it has none
    Untils,          \* UNTIL of a recurrence rule; one past all dates: it has none
    Horizons,        \* until_date arguments of generate-instances
    Invalid,         \* a recurrence_rule that dateutil does not parse
    None             \* SQL NULL

ASSUME NoneAssumption == None \notin WorkOrders \cup Users
ASSUME CheckInsAssumption == CheckIns \subseteq Nat
ASSUME DatesAssumption ==
    /\ Dates \subseteq Nat /\ Today \subseteq Nat /\ Horizons \subseteq Nat
    /\ Counts \subseteq Nat \ {0} /\ Untils \subseteq Nat
    /\ {Invalid, None} \cap [count : Counts, until : Untils] = {}

VARIABLES
    orders,    \* work_orders
    tasks,     \* work_order_tasks
    checkIns,  \* work_order_check_ins
    session    \* what the request each worker is serving has read

vars == <<orders, tasks, checkIns, session>>

-----------------------------------------------------------------------------
(* Rows. *)

Status == {"draft", "scheduled", "in_progress", "completed", "on_hold", "cancelled"}
TaskStatus == {"pending", "completed", "skipped", "blocked"}
Terminal == {"completed", "cancelled"}

\* A rule recurs every day (any step forward would do) from the date it is parsed with.
Rule == [count : Counts, until : Untils]
RuleText == Rule \cup {Invalid, None}

\* started, ended: actual_start_time, actual_end_time are set.  date: scheduled_date.
OrderRow == [status : Status \cup {"absent"}, started : BOOLEAN, ended : BOOLEAN,
             deleted : BOOLEAN, rule : RuleText, date : Nat \cup {None},
             parent : WorkOrders \cup {None}]

\* stamped: completed_at and completed_by are set.
TaskRow == [wo : WorkOrders \cup {None}, required : BOOLEAN,
            status : TaskStatus, stamped : BOOLEAN]

CheckInRow == [wo : WorkOrders \cup {None}, user : Users \cup {None}, open : BOOLEAN]

NewOrder(status, rule, date, parent) ==
    [status |-> status, started |-> FALSE, ended |-> FALSE, deleted |-> FALSE,
     rule |-> rule, date |-> date, parent |-> parent]
NewTask(w, required) ==
    [wo |-> w, required |-> required, status |-> "pending", stamped |-> FALSE]

NoOrder == NewOrder("absent", None, None, None)
NoTask == NewTask(None, FALSE)
NoCheckIn == [wo |-> None, user |-> None, open |-> FALSE]
Idle == [op |-> "idle"]

\* WHERE id = w AND deleted_at IS NULL
Found(w) == orders[w].status # "absent" /\ ~orders[w].deleted

FreshOrders == {w \in WorkOrders : orders[w].status = "absent"}
FreshTasks == {t \in Tasks : tasks[t].wo = None}
TasksOf(w) == [t \in Tasks |-> IF tasks[t].wo = w THEN tasks[t] ELSE NoTask]
OpenCheckIns(w) == {c \in CheckIns : checkIns[c].wo = w /\ checkIns[c].open}

-----------------------------------------------------------------------------
(* Sessions. *)

Begin(k, request) ==
    /\ session[k] = Idle
    /\ session' = [session EXCEPT ![k] = request]
    /\ UNCHANGED <<orders, tasks, checkIns>>

Serving(k, op) == session[k].op = op
Done(k) == session' = [session EXCEPT ![k] = Idle]

\* An exception after the read (the second lookup of a PATCH finding the order
\* deleted, a lost connection) rolls everything back.
Rollback(k) ==
    /\ session[k] # Idle
    /\ Done(k)
    /\ UNCHANGED <<orders, tasks, checkIns>>

-----------------------------------------------------------------------------
(* POST /work-orders: one draft with its tasks. *)

CreateWorkOrder(w, newTasks, required, rule, date) ==
    /\ w \in FreshOrders
    /\ orders' = [orders EXCEPT ![w] = NewOrder("draft", rule, date, None)]
    /\ tasks' = [t \in Tasks |-> IF t \in newTasks THEN NewTask(w, t \in required)
                                                   ELSE tasks[t]]
    /\ UNCHANGED <<checkIns, session>>

-----------------------------------------------------------------------------
(* PATCH /work-orders/{id}.  A payload value equal to the loaded one stands *)
(* for a field the payload leaves out: neither is written.                  *)

AnyTransition(from) == Status

ValidTransitions(from) ==
    CASE from = "draft"       -> {"scheduled", "cancelled"}
      [] from = "scheduled"   -> {"in_progress", "on_hold", "cancelled"}
      [] from = "in_progress" -> {"completed", "on_hold", "cancelled"}
      [] from = "on_hold"     -> {"in_progress", "scheduled", "cancelled"}
      [] OTHER                -> {}

PatchRead(k, w, status, rule, date) ==
    /\ Found(w)
    /\ status = orders[w].status \/ status \in ValidTransitions(orders[w].status)
    /\ Begin(k, [op |-> "patch", wo |-> w, seen |-> orders[w],
                 status |-> status, rule |-> rule, date |-> date])

\* The value a column has after an assignment to the loaded object: unchanged
\* columns are not written.
Written(now, loaded, assigned) == IF assigned = loaded THEN now ELSE assigned

PatchedNotStarted(row, s) ==
    [row EXCEPT !.status = Written(@, s.seen.status, s.status)]

PatchedUnset(row, s) ==
    [row EXCEPT !.status = IF s.status # s.seen.status THEN s.status ELSE None]

Patched(row, s) ==
    [row EXCEPT !.status = Written(@, s.seen.status, s.status),
                !.started = @ \/ /\ s.status # s.seen.status
                                 /\ s.status = "in_progress"
                                 /\ ~s.seen.started,
                !.rule = Written(@, s.seen.rule, s.rule),
                !.date = Written(@, s.seen.date, s.date)]

PatchCommit(k) ==
    LET s == session[k] IN
    /\ Serving(k, "patch")
    /\ orders' = [orders EXCEPT ![s.wo] = Patched(@, s)]
    /\ Done(k)
    /\ UNCHANGED <<tasks, checkIns>>

-----------------------------------------------------------------------------
(* POST /work-orders/{id}/checkin and /checkout. *)

\* A wrong QR token is one more refusal; a position outside the geofence is
\* recorded all the same.
CheckInRead(k, w, user) ==
    /\ Found(w)
    /\ orders[w].status \notin Terminal
    /\ Begin(k, [op |-> "checkin", wo |-> w, seen |-> orders[w], user |-> user])

ToInProgress(row, seen) ==
    IF seen.status \in {"draft", "scheduled"}
    THEN [row EXCEPT !.status = "in_progress", !.started = TRUE]
    ELSE row

CheckInCommit(k, c) ==
    LET s == session[k] IN
    /\ Serving(k, "checkin")
    /\ checkIns[c] = NoCheckIn
    /\ \A d \in CheckIns : (d < c) <=> (checkIns[d] # NoCheckIn)
    /\ checkIns' = [checkIns EXCEPT ![c] = [wo |-> s.wo, user |-> s.user, open |-> TRUE]]
    /\ orders' = [orders EXCEPT ![s.wo] = ToInProgress(@, s.seen)]
    /\ Done(k)
    /\ UNCHANGED tasks

\* One step: closing the same check-in twice leaves it closed, and nothing else
\* is decided on what the handler read.
CheckOut(w, user) ==
    LET mine == {c \in OpenCheckIns(w) : checkIns[c].user = user} IN
    \E c \in mine :
        /\ \A d \in mine : d <= c
        /\ checkIns' = [checkIns EXCEPT ![c].open = FALSE]
        /\ UNCHANGED <<orders, tasks, session>>

-----------------------------------------------------------------------------
(* Recurring instances.  kids maps the occurrences to create to fresh ids;  *)
(* copies maps (child, template task) to fresh task ids.                    *)

Templates(template) == {t \in Tasks : template[t].wo # None}

WithInstancesLikeParent(table, kids, rule, parent) ==
    [w \in WorkOrders |->
        IF w \in Range(kids)
        THEN NewOrder(table[parent].status, rule, CHOOSE d \in DOMAIN kids : kids[d] = w, parent)
        ELSE table[w]]

WithInstances(table, kids, rule, parent) ==
    [w \in WorkOrders |->
        IF w \in Range(kids)
        THEN NewOrder("scheduled", rule, CHOOSE d \in DOMAIN kids : kids[d] = w, parent)
        ELSE table[w]]

WithCopies(copies, template) ==
    [u \in Tasks |->
        IF u \in Range(copies)
        THEN LET p == CHOOSE p \in DOMAIN copies : copies[p] = u
             IN  NewTask(p[1], template[p[2]].required)
        ELSE tasks[u]]

\* dtstart: the order's own date, else now.
Start(row) == IF row.date = None THEN Today ELSE {row.date}

\* rule.after and rule.between leave out dtstart, which is the rule's first date: each
\* order counts anew from its own date, while an UNTIL is the same for all.
After(rule, start) ==
    IF rule \in Rule THEN {d \in start + 1 .. start + rule.count - 1 : d <= rule.until} ELSE {}

\* POST /work-orders/{id}/generate-instances: the dates strictly between the order's
\* own and until.  The order may be deleted: the query does not ask.
GenerateInstances(w, until) ==
    /\ orders[w].status # "absent"
    /\ orders[w].rule \in Rule
    /\ \E start \in Start(orders[w]) :
       \E kids \in Injection({d \in After(orders[w].rule, start) : d < until}, FreshOrders) :
       \E copies \in Injection(Range(kids) \X Templates(TasksOf(w)), FreshTasks) :
          /\ orders' = WithInstances(orders, kids, orders[w].rule, w)
          /\ tasks' = WithCopies(copies, TasksOf(w))
    /\ UNCHANGED <<checkIns, session>>

-----------------------------------------------------------------------------
(* POST /work-orders/{id}/complete. *)

TaskNotPending(task) == task.status # "pending"

TaskDone(task) == task.status \in {"completed", "skipped"}
RequiredDone(table) == \A t \in Tasks : table[t].required => TaskDone(table[t])

CompleteRead(k, w) ==
    /\ Found(w)
    /\ orders[w].status \notin Terminal
    /\ RequiredDone(TasksOf(w))
    /\ Begin(k, [op |-> "complete", wo |-> w, seen |-> orders[w],
                 tasks |-> TasksOf(w), open |-> OpenCheckIns(w)])

Completed(row) == [row EXCEPT !.status = "completed", !.ended = TRUE]
ClosedNewest(open) == [c \in CheckIns |->
    IF c \in open /\ \A d \in open : d <= c THEN [checkIns[c] EXCEPT !.open = FALSE]
                                           ELSE checkIns[c]]

Closed(open) == [c \in CheckIns |-> IF c \in open THEN [checkIns[c] EXCEPT !.open = FALSE]
                                                  ELSE checkIns[c]]

NextDatesInclusive(rule, start) == IF rule \in Rule THEN {start} ELSE {}

\* None where the text is no rule or the rule is past its end.
NextDates(rule, start) == {d \in After(rule, start) : d = start + 1}

\* The root of the series is the template, and its rule is inherited.  When it is the
\* completed order itself the session already holds it and its tasks, else they are
\* read now.
SpawnNextOccurrence(s, table) ==
    LET own == s.seen.parent = None
        root == IF own THEN s.wo ELSE s.seen.parent
        template == IF own THEN s.tasks ELSE TasksOf(root)
        rule == IF own THEN s.seen.rule ELSE orders[root].rule
    IN  \E start \in Start(s.seen) :
        \E kids \in Injection(NextDates(s.seen.rule, start), FreshOrders) :
        \E copies \in Injection(Range(kids) \X Templates(template), FreshTasks) :
           /\ orders' = WithInstances(table, kids, rule, root)
           /\ tasks' = WithCopies(copies, template)

CompleteCommit(k) ==
    LET s == session[k] IN
    /\ Serving(k, "complete")
    /\ checkIns' = Closed(s.open)
    /\ SpawnNextOccurrence(s, [orders EXCEPT ![s.wo] = Completed(@)])
    /\ Done(k)

-----------------------------------------------------------------------------
(* DELETE /work-orders/{id}: a soft delete. *)

DeleteReadAny(k, w) ==
    /\ Found(w)
    /\ Begin(k, [op |-> "delete", wo |-> w, seen |-> orders[w]])

DeleteRead(k, w) ==
    /\ Found(w)
    /\ orders[w].status # "in_progress"
    /\ Begin(k, [op |-> "delete", wo |-> w, seen |-> orders[w]])

DeleteCommit(k) ==
    /\ Serving(k, "delete")
    /\ orders' = [orders EXCEPT ![session[k].wo].deleted = TRUE]
    /\ Done(k)
    /\ UNCHANGED <<tasks, checkIns>>

-----------------------------------------------------------------------------
(* Tasks. *)

\* POST /work-orders/{id}/tasks: the order's status is not looked at.
AddTaskRead(k, w, required) ==
    /\ Found(w)
    /\ Begin(k, [op |-> "add_task", wo |-> w, required |-> required])

AddTaskCommit(k, t) ==
    /\ Serving(k, "add_task")
    /\ t \in FreshTasks
    /\ tasks' = [tasks EXCEPT ![t] = NewTask(session[k].wo, session[k].required)]
    /\ Done(k)
    /\ UNCHANGED <<orders, checkIns>>

\* PATCH /work-orders/{id}/tasks/{task_id}: the order is not looked at.
UpdateTaskRead(k, t, status, required) ==
    /\ t \notin FreshTasks
    /\ Begin(k, [op |-> "update_task", task |-> t, seen |-> tasks[t],
                 status |-> status, required |-> required])

\* status = None: the payload has no status.  A completion always writes
\* completed_at (the time differs); clearing it is written only over a loaded
\* value.
UpdatedTask(row, seen, status, required) ==
    [row EXCEPT !.status = IF status \in {None, seen.status} THEN @ ELSE status,
                !.stamped = IF status = None THEN @
                            ELSE status = "completed" \/ (@ /\ ~seen.stamped),
                !.required = IF required # seen.required THEN required ELSE @]

UpdateTaskCommit(k) ==
    LET s == session[k] IN
    /\ Serving(k, "update_task")
    /\ tasks' = [tasks EXCEPT ![s.task] = UpdatedTask(@, s.seen, s.status, s.required)]
    /\ Done(k)
    /\ UNCHANGED <<orders, checkIns>>

-----------------------------------------------------------------------------

Init ==
    /\ orders = [w \in WorkOrders |-> NoOrder]
    /\ tasks = [t \in Tasks |-> NoTask]
    /\ checkIns = [c \in CheckIns |-> NoCheckIn]
    /\ session = [k \in Workers |-> Idle]

Read(k) ==
    \/ \E w \in WorkOrders, status \in Status, rule \in RuleText :
       \E date \in Dates \cup {None, orders[w].date} : PatchRead(k, w, status, rule, date)
    \/ \E w \in WorkOrders, user \in Users : CheckInRead(k, w, user)
    \/ \E w \in WorkOrders : CompleteRead(k, w)
    \/ \E w \in WorkOrders : DeleteRead(k, w)
    \/ \E w \in WorkOrders, required \in BOOLEAN : AddTaskRead(k, w, required)
    \/ \E t \in Tasks, status \in TaskStatus \cup {None}, required \in BOOLEAN :
          UpdateTaskRead(k, t, status, required)

Commit(k) ==
    \/ PatchCommit(k)
    \/ \E c \in CheckIns : CheckInCommit(k, c)
    \/ CompleteCommit(k)
    \/ DeleteCommit(k)
    \/ \E t \in Tasks : AddTaskCommit(k, t)
    \/ UpdateTaskCommit(k)
    \/ Rollback(k)

Next ==
    \/ \E w \in WorkOrders, newTasks \in SUBSET FreshTasks, rule \in RuleText,
          date \in Dates \cup {None} :
         \E required \in SUBSET newTasks : CreateWorkOrder(w, newTasks, required, rule, date)
    \/ \E w \in WorkOrders, user \in Users : CheckOut(w, user)
    \/ \E w \in WorkOrders, until \in Horizons : GenerateInstances(w, until)
    \/ \E k \in Workers : Read(k) \/ Commit(k)

Spec == Init /\ [][Next]_vars

-----------------------------------------------------------------------------
(* What holds however requests interleave. *)

PatchRequest == [op : {"patch"}, wo : WorkOrders, seen : OrderRow,
                 status : Status, rule : RuleText, date : Nat \cup {None}]
CheckInRequest == [op : {"checkin"}, wo : WorkOrders, seen : OrderRow, user : Users]
CompleteRequest == [op : {"complete"}, wo : WorkOrders, seen : OrderRow,
                    tasks : [Tasks -> TaskRow], open : SUBSET CheckIns]
DeleteRequest == [op : {"delete"}, wo : WorkOrders, seen : OrderRow]
AddTaskRequest == [op : {"add_task"}, wo : WorkOrders, required : BOOLEAN]
UpdateTaskRequest == [op : {"update_task"}, task : Tasks, seen : TaskRow,
                      status : TaskStatus \cup {None}, required : BOOLEAN]
Request == PatchRequest \cup CheckInRequest \cup CompleteRequest
           \cup DeleteRequest \cup AddTaskRequest \cup UpdateTaskRequest

\* Every table row and every open session has the columns the models declare.
TypeOK ==
    /\ orders \in [WorkOrders -> OrderRow]
    /\ tasks \in [Tasks -> TaskRow]
    /\ checkIns \in [CheckIns -> CheckInRow]
    /\ session \in [Workers -> Request \cup {Idle}]

\* An order in progress has its actual_start_time, though three handlers can put
\* it in progress and each looks only at what it loaded.
InProgressStarted ==
    \A w \in WorkOrders : orders[w].status = "in_progress" => orders[w].started

\* A draft has no history: no check-in, no start, no end.  A draft an order once
\* left cannot come back through a request that loaded it as a draft.
DraftUntouched ==
    \A w \in WorkOrders :
        orders[w].status \in {"absent", "draft"} =>
            /\ ~orders[w].started /\ ~orders[w].ended
            /\ \A c \in CheckIns : checkIns[c].wo # w

\* completed and cancelled are terminal: a request moves an order out of them only
\* if it loaded the order before it got there and wrote afterwards, over what it
\* would have refused to touch.
TerminalLeftByStale ==
    [][\A w \in WorkOrders :
         orders[w].status \in Terminal /\ orders'[w].status # orders[w].status =>
            \E k \in Workers : /\ session[k].op \in {"patch", "checkin", "complete"}
                               /\ session[k].wo = w
                               /\ session[k].seen.status \notin Terminal
                               /\ session'[k] = Idle]_vars

-----------------------------------------------------------------------------
(* What the handlers check, and which overlap gets past the check.          *)

Commits(k, op, w) == session[k].op = op /\ session[k].wo = w /\ session'[k] = Idle

\* Another request has committed to the order since this one read it.
OutOfDate(k) ==
    /\ session[k].op \in {"patch", "checkin", "complete", "delete"}
    /\ session[k].seen # orders[session[k].wo]

OnEndedOrder(w) == orders[w].ended /\ OpenCheckIns(w) # {}

\* /complete closes the open check-ins and nobody checks in to a completed order: it
\* takes a check-in the completion did not load, or a check-in that loaded the order
\* while it was not completed, to have somebody on an order whose work has ended.
NobodyOnEndedOrder ==
    [][\A w \in WorkOrders :
         ~OnEndedOrder(w) /\ OnEndedOrder(w)' =>
            \E k \in Workers :
               \/ Commits(k, "complete", w) /\ ~(OpenCheckIns(w) \subseteq session[k].open)
               \/ Commits(k, "checkin", w) /\ session[k].seen.status # "completed"]_vars

\* An order in progress cannot be deleted, and a deleted one cannot be started, but by
\* a request that read the order before the other one committed.
DeletedNotInProgress ==
    [][\A w \in WorkOrders :
         orders'[w].deleted /\ orders'[w].status = "in_progress" =>
            \/ orders[w].deleted /\ orders[w].status = "in_progress"
            \/ \E k \in Workers :
                 \/ Commits(k, "delete", w) /\ session[k].seen.status # orders[w].status
                 \/ /\ Commits(k, "patch", w) \/ Commits(k, "checkin", w)
                    /\ session[k].seen.deleted # orders[w].deleted]_vars

Finishes(w) == ~orders[w].ended /\ orders'[w].ended

\* When the end of the work is recorded, by /complete alone, every required task of the
\* order is completed or skipped in the table, but for those that were added, reopened
\* or made required after /complete had read them.
RequiredDoneAtCompletion ==
    [][\A w \in WorkOrders :
         Finishes(w) =>
            \E k \in Workers :
               /\ Commits(k, "complete", w)
               /\ \A t \in Tasks :
                    tasks[t].wo = w /\ tasks[t].required
                    /\ tasks[t].status \in {"pending", "blocked"} => session[k].tasks[t] # tasks[t]]_vars

Appears(w) == orders[w].status = "absent" /\ orders'[w].status # "absent"

\* Of the requests with a session only /complete makes an order appear, and one at
\* most: on a later date than the order it completes, within the UNTIL of its rule,
\* and never for an order already completed or cancelled, unless the request had read
\* it before.  It does make one if the rule has a date left.
SpawnsExactlyOne ==
    [][\A k \in Workers :
         LET s == session[k] IN
         session'[k] # s =>
            /\ \A c \in WorkOrders : Appears(c) =>
                  /\ s.op = "complete"
                  /\ s.seen.date # None => s.seen.date < orders'[c].date
                  /\ orders'[c].date <= s.seen.rule.until
                  /\ orders[s.wo].status \in Terminal => OutOfDate(k)
                  /\ \A d \in WorkOrders : Appears(d) => c = d
            /\ /\ s.op = "complete" /\ Finishes(s.wo)
               /\ s.seen.date # None /\ After(s.seen.rule, s.seen.date) # {}
               => \E c \in WorkOrders : Appears(c)]_vars

\* The requests implement the lifecycle.
StageOf(row) == IF row.deleted THEN "deleted" ELSE row.status
Lifecycle == INSTANCE WorkOrderLifecycle WITH
    stage <- [w \in WorkOrders |-> StageOf(orders[w])],
    outdated <- {w \in WorkOrders : \E k \in Workers :
                    /\ session[k].op \in {"patch", "checkin", "complete", "delete"}
                    /\ session[k].wo = w
                    /\ StageOf(session[k].seen) # StageOf(orders[w])}
ImplementsLifecycle == Lifecycle!Spec
=============================================================================
