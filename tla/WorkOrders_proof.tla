--------------------------- MODULE WorkOrders_proof ---------------------------
(* Proofs about WorkOrders, for any number of orders, workers and requests. *)
EXTENDS WorkOrders, TLAPS

\* The rows a model starts from are rows.
LEMMA EmptyRows == /\ NoOrder \in OrderRow
                   /\ NoTask \in TaskRow
                   /\ NoCheckIn \in CheckInRow
  BY DEF NoOrder, NoTask, NoCheckIn, NewOrder, NewTask, OrderRow, TaskRow, CheckInRow,
         Status, TaskStatus, RuleText

\* A rule's dates are dates.
LEMMA DatesTyped ==
    ASSUME NEW row \in OrderRow, NEW start \in Start(row), NEW rule
    PROVE  start \in Nat /\ After(rule, start) \in SUBSET Nat
<1>1. start \in Nat
  BY DatesAssumption DEF Start, OrderRow
<1>2. ASSUME rule \in Rule PROVE rule.count \in Nat
  BY <1>2, DatesAssumption DEF Rule
<1> QED BY <1>1, <1>2 DEF After

\* What a session holds is told by its op.
LEMMA RequestKinds ==
    ASSUME NEW s \in Request \cup {Idle}
    PROVE  /\ s.op = "patch" => s \in PatchRequest
           /\ s.op = "checkin" => s \in CheckInRequest
           /\ s.op = "complete" => s \in CompleteRequest
           /\ s.op = "delete" => s \in DeleteRequest
           /\ s.op = "add_task" => s \in AddTaskRequest
           /\ s.op = "update_task" => s \in UpdateTaskRequest
  BY DEF Request, Idle, PatchRequest, CheckInRequest, CompleteRequest, DeleteRequest,
         AddTaskRequest, UpdateTaskRequest

\* The table with new instances in it is a table of orders.
LEMMA InstancesTyped ==
    ASSUME NEW table \in [WorkOrders -> OrderRow], NEW dates \in SUBSET Nat,
           NEW kids \in Injection(dates, FreshOrders), NEW rule \in RuleText,
           NEW parent \in WorkOrders
    PROVE  WithInstances(table, kids, rule, parent) \in [WorkOrders -> OrderRow]
<1>1. kids \in [dates -> FreshOrders]
  BY DEF Injection
<1>2. ASSUME NEW w \in WorkOrders, w \in Range(kids)
      PROVE  NewOrder("scheduled", rule, CHOOSE d \in DOMAIN kids : kids[d] = w, parent)
                \in OrderRow
  <2>1. (CHOOSE d \in DOMAIN kids : kids[d] = w) \in dates
    BY <1>1, <1>2 DEF Range
  <2> QED BY <2>1 DEF NewOrder, OrderRow, Status
<1> QED BY <1>2 DEF WithInstances

\* Copied tasks are tasks.
LEMMA CopiesTyped ==
    ASSUME tasks \in [Tasks -> TaskRow], NEW template \in [Tasks -> TaskRow],
           NEW kids \in SUBSET WorkOrders,
           NEW copies \in Injection(kids \X Templates(template), FreshTasks)
    PROVE  WithCopies(copies, template) \in [Tasks -> TaskRow]
<1>1. copies \in [kids \X Templates(template) -> FreshTasks]
  BY DEF Injection
<1>2. ASSUME NEW u \in Tasks, u \in Range(copies)
      PROVE  LET p == CHOOSE p \in DOMAIN copies : copies[p] = u
             IN  NewTask(p[1], template[p[2]].required) \in TaskRow
  <2> DEFINE p == CHOOSE p \in DOMAIN copies : copies[p] = u
  <2>1. p \in kids \X Templates(template)
    BY <1>1, <1>2 DEF Range
  <2>2. p[1] \in WorkOrders /\ p[2] \in Tasks
    BY <2>1 DEF Templates
  <2>3. template[p[2]].required \in BOOLEAN
    BY <2>2 DEF TaskRow
  <2> QED BY <2>2, <2>3 DEF NewTask, TaskRow, TaskStatus
<1> QED BY <1>2 DEF WithCopies

LEMMA TasksOfTyped ==
    ASSUME tasks \in [Tasks -> TaskRow], NEW w
    PROVE  TasksOf(w) \in [Tasks -> TaskRow]
  BY EmptyRows DEF TasksOf

\* A transition of the state machine leads to a status that is not draft.
LEMMA TransitionsTyped ==
    ASSUME NEW from
    PROVE  ValidTransitions(from) \subseteq Status \ {"draft"}
  BY DEF ValidTransitions, Status

\* A request is answered on rows that are there, and its session holds what the
\* request type says.
LEMMA ReadTyped ==
    ASSUME TypeOK, NEW k \in Workers, Read(k)
    PROVE  TypeOK'
<1>1. ASSUME NEW request \in Request, Begin(k, request)
      PROVE  TypeOK'
  BY <1>1 DEF Begin, TypeOK
<1>2. ASSUME NEW w \in WorkOrders, NEW status \in Status, NEW rule \in RuleText,
             NEW date \in Dates \cup {None, orders[w].date}, PatchRead(k, w, status, rule, date)
      PROVE  TypeOK'
  <2>1. [op |-> "patch", wo |-> w, seen |-> orders[w], status |-> status,
         rule |-> rule, date |-> date] \in Request
    <3>1. orders[w] \in OrderRow
      BY <1>2 DEF TypeOK
    <3>2. date \in Nat \cup {None}
      BY <1>2, <3>1, DatesAssumption DEF OrderRow
    <3> QED BY <1>2, <3>1, <3>2 DEF Request, PatchRequest
  <2> QED BY <1>1, <1>2, <2>1 DEF PatchRead
<1>3. ASSUME NEW w \in WorkOrders, NEW user \in Users, CheckInRead(k, w, user)
      PROVE  TypeOK'
  <2>1. [op |-> "checkin", wo |-> w, seen |-> orders[w], user |-> user] \in Request
    BY DEF TypeOK, Request, CheckInRequest
  <2> QED BY <1>1, <1>3, <2>1 DEF CheckInRead
<1>4. ASSUME NEW w \in WorkOrders, CompleteRead(k, w)
      PROVE  TypeOK'
  <2>1. [op |-> "complete", wo |-> w, seen |-> orders[w], tasks |-> TasksOf(w),
         open |-> OpenCheckIns(w)] \in Request
    <3>1. TasksOf(w) \in [Tasks -> TaskRow]
      BY TasksOfTyped DEF TypeOK
    <3>2. OpenCheckIns(w) \in SUBSET CheckIns
      BY DEF OpenCheckIns
    <3>3. orders[w] \in OrderRow
      BY DEF TypeOK
    <3> QED BY <3>1, <3>2, <3>3 DEF Request, CompleteRequest
  <2> QED BY <1>1, <1>4, <2>1 DEF CompleteRead
<1>5. ASSUME NEW w \in WorkOrders, DeleteRead(k, w)
      PROVE  TypeOK'
  <2>1. [op |-> "delete", wo |-> w, seen |-> orders[w]] \in Request
    BY DEF TypeOK, Request, DeleteRequest
  <2> QED BY <1>1, <1>5, <2>1 DEF DeleteRead
<1>6. ASSUME NEW w \in WorkOrders, NEW required \in BOOLEAN, AddTaskRead(k, w, required)
      PROVE  TypeOK'
  <2>1. [op |-> "add_task", wo |-> w, required |-> required] \in Request
    BY DEF Request, AddTaskRequest
  <2> QED BY <1>1, <1>6, <2>1 DEF AddTaskRead
<1>7. ASSUME NEW t \in Tasks, NEW status \in TaskStatus \cup {None},
             NEW required \in BOOLEAN, UpdateTaskRead(k, t, status, required)
      PROVE  TypeOK'
  <2>1. [op |-> "update_task", task |-> t, seen |-> tasks[t], status |-> status,
         required |-> required] \in Request
    BY DEF TypeOK, Request, UpdateTaskRequest
  <2> QED BY <1>1, <1>7, <2>1 DEF UpdateTaskRead
<1> QED BY <1>2, <1>3, <1>4, <1>5, <1>6, <1>7 DEF Read

\* The instances a completion spawns fall on occurrences, under a root that is
\* an order.
LEMMA SpawnTyped ==
    ASSUME TypeOK, NEW s \in CompleteRequest, NEW table \in [WorkOrders -> OrderRow],
           SpawnNextOccurrence(s, table)
    PROVE  orders' \in [WorkOrders -> OrderRow] /\ tasks' \in [Tasks -> TaskRow]
<1> DEFINE own == s.seen.parent = None
           root == IF own THEN s.wo ELSE s.seen.parent
           template == IF own THEN s.tasks ELSE TasksOf(root)
           rule == IF own THEN s.seen.rule ELSE orders[root].rule
<1>0. PICK start \in Start(s.seen) :
      \E kids \in Injection(NextDates(s.seen.rule, start), FreshOrders) :
      \E copies \in Injection(Range(kids) \X Templates(template), FreshTasks) :
           /\ orders' = WithInstances(table, kids, rule, root)
           /\ tasks' = WithCopies(copies, template)
  BY DEF SpawnNextOccurrence
<1>1. PICK kids \in Injection(NextDates(s.seen.rule, start), FreshOrders) :
      \E copies \in Injection(Range(kids) \X Templates(template), FreshTasks) :
           /\ orders' = WithInstances(table, kids, rule, root)
           /\ tasks' = WithCopies(copies, template)
  BY <1>0
<1>2. PICK copies \in Injection(Range(kids) \X Templates(template), FreshTasks) :
           /\ orders' = WithInstances(table, kids, rule, root)
           /\ tasks' = WithCopies(copies, template)
  BY <1>1
<1>3. root \in WorkOrders
  BY DEF CompleteRequest, OrderRow
<1>4. rule \in RuleText
  BY <1>3 DEF CompleteRequest, OrderRow, TypeOK
<1>5. template \in [Tasks -> TaskRow]
  BY TasksOfTyped DEF CompleteRequest, TypeOK
<1>6. NextDates(s.seen.rule, start) \in SUBSET Nat
  <2>1. s.seen \in OrderRow
    BY DEF CompleteRequest
  <2> QED BY <2>1, DatesTyped DEF NextDates
<1>7. Range(kids) \in SUBSET WorkOrders
  BY DEF Range, Injection, FreshOrders
<1> HIDE DEF root, template, rule
<1>8. orders' \in [WorkOrders -> OrderRow]
  BY <1>2, <1>3, <1>4, <1>6, InstancesTyped
<1>9. tasks' \in [Tasks -> TaskRow]
  BY <1>2, <1>5, <1>7, CopiesTyped DEF TypeOK
<1> QED BY <1>8, <1>9

LEMMA CommitTyped ==
    ASSUME TypeOK, NEW k \in Workers, Commit(k)
    PROVE  TypeOK'
<1> DEFINE s == session[k]
<1>0. s \in Request \cup {Idle}
  BY DEF TypeOK
<1>1. ASSUME Done(k)
      PROVE  session' \in [Workers -> Request \cup {Idle}]
  BY <1>1 DEF Done, TypeOK
<1>2. CASE PatchCommit(k)
  <2>1. s \in PatchRequest
    BY <1>0, <1>2, RequestKinds DEF PatchCommit, Serving
  <2>2. Patched(orders[s.wo], s) \in OrderRow
    <3> DEFINE row == orders[s.wo]
               started == row.started \/ /\ s.status # s.seen.status
                                         /\ s.status = "in_progress"
                                         /\ ~s.seen.started
               status == Written(row.status, s.seen.status, s.status)
               rule == Written(row.rule, s.seen.rule, s.rule)
               date == Written(row.date, s.seen.date, s.date)
    <3>1. row \in OrderRow
      BY <2>1 DEF TypeOK, PatchRequest
    <3>2. /\ status \in Status \cup {"absent"} /\ rule \in RuleText
          /\ date \in Nat \cup {None}
      BY <2>1, <3>1 DEF PatchRequest, OrderRow, Written
    <3>3. started \in BOOLEAN
      OBVIOUS
    <3>4. Patched(row, s) = [row EXCEPT !.status = status, !.started = started,
                                        !.rule = rule, !.date = date]
      BY Zenon DEF Patched
    <3> HIDE DEF row, started, status, rule, date
    <3>5. Patched(row, s) \in OrderRow
      BY <3>1, <3>2, <3>3, <3>4 DEF OrderRow
    <3> QED BY <3>5 DEF row
  <2> QED BY <1>1, <1>2, <2>1, <2>2 DEF PatchCommit, TypeOK, PatchRequest
<1>3. ASSUME NEW c \in CheckIns, CheckInCommit(k, c)
      PROVE  TypeOK'
  <2>1. s \in CheckInRequest
    BY <1>0, <1>3, RequestKinds DEF CheckInCommit, Serving
  <2>2. ToInProgress(orders[s.wo], s.seen) \in OrderRow
    BY <2>1 DEF TypeOK, CheckInRequest, OrderRow, ToInProgress, Status
  <2>3. [wo |-> s.wo, user |-> s.user, open |-> TRUE] \in CheckInRow
    BY <2>1 DEF CheckInRequest, CheckInRow
  <2> QED BY <1>1, <1>3, <2>1, <2>2, <2>3 DEF CheckInCommit, TypeOK, CheckInRequest
<1>4. CASE CompleteCommit(k)
  <2>1. s \in CompleteRequest
    BY <1>0, <1>4, RequestKinds DEF CompleteCommit, Serving
  <2>2. Completed(orders[s.wo]) \in OrderRow
    BY <2>1 DEF TypeOK, CompleteRequest, OrderRow, Completed, Status
  <2>3. [orders EXCEPT ![s.wo] = Completed(@)] \in [WorkOrders -> OrderRow]
    BY <2>2 DEF TypeOK
  <2>4. orders' \in [WorkOrders -> OrderRow] /\ tasks' \in [Tasks -> TaskRow]
    BY <1>4, <2>1, <2>3, SpawnTyped DEF CompleteCommit
  <2>5. checkIns' \in [CheckIns -> CheckInRow]
    BY <1>4 DEF CompleteCommit, Closed, TypeOK, CheckInRow
  <2> QED BY <1>1, <1>4, <2>4, <2>5 DEF CompleteCommit, TypeOK
<1>5. CASE DeleteCommit(k)
  <2>1. /\ orders' = [orders EXCEPT ![s.wo].deleted = TRUE]
        /\ Done(k) /\ UNCHANGED <<tasks, checkIns>>
    BY <1>5 DEF DeleteCommit
  <2>2. ASSUME NEW w \in WorkOrders
        PROVE  [orders[w] EXCEPT !.deleted = TRUE] \in OrderRow
    BY DEF TypeOK, OrderRow
  <2>3. orders' = [w \in WorkOrders |->
                     IF w = s.wo THEN [orders[w] EXCEPT !.deleted = TRUE] ELSE orders[w]]
    BY <2>1 DEF TypeOK
  <2>4. orders' \in [WorkOrders -> OrderRow]
    BY <2>2, <2>3 DEF TypeOK
  <2> QED BY <1>1, <2>1, <2>4 DEF TypeOK
<1>6. ASSUME NEW t \in Tasks, AddTaskCommit(k, t)
      PROVE  TypeOK'
  <2>1. s \in AddTaskRequest
    BY <1>0, <1>6, RequestKinds DEF AddTaskCommit, Serving
  <2>2. NewTask(s.wo, s.required) \in TaskRow
    BY <2>1 DEF AddTaskRequest, TaskRow, NewTask, TaskStatus
  <2> QED BY <1>1, <1>6, <2>2 DEF AddTaskCommit, TypeOK
<1>7. CASE UpdateTaskCommit(k)
  <2>1. s \in UpdateTaskRequest
    BY <1>0, <1>7, RequestKinds DEF UpdateTaskCommit, Serving
  <2>2. UpdatedTask(tasks[s.task], s.seen, s.status, s.required) \in TaskRow
    BY <2>1 DEF UpdateTaskRequest, TaskRow, UpdatedTask, TypeOK
  <2> QED BY <1>1, <1>7, <2>1, <2>2 DEF UpdateTaskCommit, UpdateTaskRequest, TypeOK
<1>8. CASE Rollback(k)
  BY <1>1, <1>8 DEF Rollback, TypeOK
<1> QED BY <1>2, <1>3, <1>4, <1>5, <1>6, <1>7, <1>8 DEF Commit

LEMMA GenerateTyped ==
    ASSUME TypeOK, NEW w \in WorkOrders, NEW until, GenerateInstances(w, until)
    PROVE  TypeOK'
<1>0. PICK start \in Start(orders[w]) :
      \E kids \in Injection({d \in After(orders[w].rule, start) : d < until}, FreshOrders) :
      \E copies \in Injection(Range(kids) \X Templates(TasksOf(w)), FreshTasks) :
           /\ orders' = WithInstances(orders, kids, orders[w].rule, w)
           /\ tasks' = WithCopies(copies, TasksOf(w))
  BY DEF GenerateInstances
<1> DEFINE dates == {d \in After(orders[w].rule, start) : d < until}
<1>1. PICK kids \in Injection(dates, FreshOrders) :
      \E copies \in Injection(Range(kids) \X Templates(TasksOf(w)), FreshTasks) :
           /\ orders' = WithInstances(orders, kids, orders[w].rule, w)
           /\ tasks' = WithCopies(copies, TasksOf(w))
  BY <1>0
<1>2. PICK copies \in Injection(Range(kids) \X Templates(TasksOf(w)), FreshTasks) :
           /\ orders' = WithInstances(orders, kids, orders[w].rule, w)
           /\ tasks' = WithCopies(copies, TasksOf(w))
  BY <1>1
<1>3. orders \in [WorkOrders -> OrderRow] /\ orders[w] \in OrderRow /\ orders[w].rule \in RuleText
  BY DEF TypeOK, OrderRow
<1>4. dates \in SUBSET Nat
  BY <1>3, DatesTyped
<1>5. Range(kids) \in SUBSET WorkOrders
  BY DEF Range, Injection, FreshOrders
<1> HIDE DEF dates
<1>6. orders' \in [WorkOrders -> OrderRow]
  BY <1>2, <1>3, <1>4, InstancesTyped
<1>7. tasks' \in [Tasks -> TaskRow]
  BY <1>2, <1>5, CopiesTyped, TasksOfTyped DEF TypeOK
<1> QED BY <1>6, <1>7 DEF GenerateInstances, TypeOK

\* Type correctness: whatever requests the workers serve and however they
\* interleave, the tables hold rows and the sessions hold requests.
THEOREM TypeCorrect == Spec => []TypeOK
<1>1. Init => TypeOK
  BY EmptyRows DEF Init, TypeOK
<1>2. ASSUME TypeOK, [Next]_vars PROVE TypeOK'
  <2>1. ASSUME NEW w \in WorkOrders, NEW newTasks \in SUBSET FreshTasks,
               NEW rule \in RuleText, NEW date \in Dates \cup {None},
               NEW required \in SUBSET newTasks,
               CreateWorkOrder(w, newTasks, required, rule, date)
        PROVE  TypeOK'
    <3>1. NewOrder("draft", rule, date, None) \in OrderRow
      BY <2>1, DatesAssumption DEF NewOrder, OrderRow, Status
    <3>2. \A t \in Tasks : NewTask(w, t \in required) \in TaskRow
      BY DEF NewTask, TaskRow, TaskStatus
    <3> QED BY <1>2, <2>1, <3>1, <3>2 DEF CreateWorkOrder, TypeOK
  <2>2. ASSUME NEW w \in WorkOrders, NEW user \in Users, CheckOut(w, user)
        PROVE  TypeOK'
    <3>1. PICK c \in CheckIns :
             /\ checkIns' = [checkIns EXCEPT ![c].open = FALSE]
             /\ UNCHANGED <<orders, tasks, session>>
      BY <2>2 DEF CheckOut, OpenCheckIns
    <3> QED BY <1>2, <3>1 DEF TypeOK, CheckInRow
  <2>3. ASSUME NEW w \in WorkOrders, NEW until \in Horizons, GenerateInstances(w, until)
        PROVE  TypeOK'
    BY <1>2, <2>3, GenerateTyped
  <2>4. CASE UNCHANGED vars
    BY <1>2, <2>4 DEF vars, TypeOK
  <2> QED BY <1>2, <2>1, <2>2, <2>3, <2>4, ReadTyped, CommitTyped DEF Next
<1> QED BY <1>1, <1>2, PTL DEF Spec

-----------------------------------------------------------------------------
(* The safety invariants hold although a commit may overwrite what other     *)
(* requests wrote since it read.  They do because what a session has seen of *)
(* an order stays true of the row in the respects the handlers rely on:      *)
(* an order never turns absent or draft again, and a start time is never      *)
(* cleared.                                                                   *)

\* What remains true of a row a session has seen.
Upholds(row, seen) ==
    /\ row.status # "absent"
    /\ seen.status # "draft" => row.status # "draft"
    /\ seen.started => row.started

SessionsHold ==
    \A k \in Workers :
        /\ session[k].op \in {"delete", "add_task"} =>
              orders[session[k].wo].status # "absent"
        /\ session[k].op \in {"patch", "checkin", "complete"} =>
              Upholds(orders[session[k].wo], session[k].seen)
        /\ session[k].op = "patch" =>
              \/ session[k].status = session[k].seen.status
              \/ session[k].status # "draft"

\* An id that no order has yet is not in the trash.
NotYetDeleted == \A w \in WorkOrders : orders[w].status = "absent" => ~orders[w].deleted

IInv ==
    /\ TypeOK
    /\ InProgressStarted
    /\ DraftUntouched
    /\ NotYetDeleted
    /\ SessionsHold

\* What any step may do to the row of an existing order ...
Evolves(old, new) ==
    /\ Upholds(new, old)
    /\ new.status = "draft" => (new.started => old.started) /\ (new.ended => old.ended)
    /\ new.status = "in_progress" => new.started

\* ... and how a new one appears.
RowAdded(w) ==
    \E status \in {"draft", "scheduled"}, rule \in RuleText, d \in Nat \cup {None},
       p \in WorkOrders \cup {None} : orders'[w] = NewOrder(status, rule, d, p)

OrdersStep ==
    \A w \in WorkOrders :
        IF orders[w].status = "absent" THEN orders'[w] = orders[w] \/ RowAdded(w)
                                       ELSE Evolves(orders[w], orders'[w])

\* A check-in is only ever recorded on an order that is no draft any more.
CheckInsStep ==
    \A c \in CheckIns :
        \/ checkIns'[c].wo = checkIns[c].wo
        \/ orders'[checkIns'[c].wo].status \notin {"absent", "draft"}

SessionsStep ==
    \A k \in Workers : session'[k] = session[k] \/ session'[k] = Idle

LEMMA NewOrderFields ==
    ASSUME NEW status, NEW rule, NEW d, NEW p
    PROVE  LET new == NewOrder(status, rule, d, p) IN
           /\ new.status = status /\ new.date = d
           /\ ~new.started /\ ~new.ended /\ ~new.deleted
  BY DEF NewOrder

LEMMA AppearsFields ==
    ASSUME NEW w \in WorkOrders, RowAdded(w)
    PROVE  /\ orders'[w].status \in {"draft", "scheduled"}
           /\ ~orders'[w].started /\ ~orders'[w].ended /\ ~orders'[w].deleted
  BY NewOrderFields DEF RowAdded

\* Rows that stay as they are evolve.
LEMMA RowsStay ==
    ASSUME IInv
    PROVE  \A w \in WorkOrders :
              orders[w].status # "absent" => Evolves(orders[w], orders[w])
  BY DEF IInv, InProgressStarted, Evolves, Upholds

\* Instances appear on fresh ids, on the occurrences asked for.
LEMMA InstanceRows ==
    ASSUME NEW table, NEW dates, NEW rule, NEW parent,
           NEW kids \in Injection(dates, FreshOrders), NEW w \in WorkOrders
    PROVE  LET new == WithInstances(table, kids, rule, parent) IN
           IF w \in Range(kids)
           THEN /\ orders[w].status = "absent"
                /\ \E d \in dates : new[w] = NewOrder("scheduled", rule, d, parent)
           ELSE new[w] = table[w]
<1>1. kids \in [dates -> FreshOrders]
  BY DEF Injection
<1>2. CASE w \in Range(kids)
  <2>1. (CHOOSE d \in DOMAIN kids : kids[d] = w) \in dates
    BY <1>1, <1>2 DEF Range
  <2>2. w \in FreshOrders
    BY <1>1, <1>2 DEF Range
  <2> QED BY <1>2, <2>1, <2>2 DEF WithInstances, FreshOrders
<1>3. CASE w \notin Range(kids)
  BY <1>3 DEF WithInstances
<1> QED BY <1>2, <1>3

\* The three steps keep the invariant.
LEMMA StepsPreserve ==
    ASSUME IInv, TypeOK', OrdersStep, CheckInsStep, SessionsStep
    PROVE  IInv'
<1>1. InProgressStarted'
  BY AppearsFields DEF IInv, InProgressStarted, OrdersStep, Evolves
<1>2. DraftUntouched'
  <2> SUFFICES ASSUME NEW w \in WorkOrders, orders'[w].status \in {"absent", "draft"}
               PROVE  /\ ~orders'[w].started /\ ~orders'[w].ended
                      /\ \A c \in CheckIns : checkIns'[c].wo # w
    BY DEF DraftUntouched
  <2>1. orders[w].status \in {"absent", "draft"}
    BY DEF OrdersStep, Evolves, Upholds
  <2>2. ~orders[w].started /\ ~orders[w].ended /\ \A c \in CheckIns : checkIns[c].wo # w
    BY <2>1 DEF IInv, DraftUntouched
  <2>3. ~orders'[w].started /\ ~orders'[w].ended
    <3>1. CASE orders[w].status = "absent"
      BY <3>1, <2>2, AppearsFields DEF OrdersStep
    <3>2. CASE orders[w].status = "draft"
      BY <3>2, <2>2 DEF OrdersStep, Evolves, Upholds
    <3> QED BY <2>1, <3>1, <3>2
  <2>4. \A c \in CheckIns : checkIns'[c].wo # w
    BY <2>2 DEF CheckInsStep
  <2> QED BY <2>3, <2>4
<1>3. SessionsHold'
  <2> SUFFICES ASSUME NEW k \in Workers, session'[k] = session[k], session[k].op # "idle"
               PROVE  /\ session[k].op \in {"delete", "add_task"} =>
                            orders'[session[k].wo].status # "absent"
                      /\ session[k].op \in {"patch", "checkin", "complete"} =>
                            Upholds(orders'[session[k].wo], session[k].seen)
                      /\ session[k].op = "patch" =>
                            \/ session[k].status = session[k].seen.status
                            \/ session[k].status # "draft"
    BY DEF SessionsStep, SessionsHold, Idle
  <2>1. session[k] \in Request \cup {Idle}
    BY DEF IInv, TypeOK
  <2>2. CASE session[k].op \in {"delete", "add_task"}
    <3>1. session[k].wo \in WorkOrders
      BY <2>1, <2>2, RequestKinds DEF DeleteRequest, AddTaskRequest
    <3> QED BY <2>2, <3>1 DEF IInv, SessionsHold, OrdersStep, Evolves, Upholds
  <2>3. CASE session[k].op \in {"patch", "checkin", "complete"}
    <3>1. session[k].wo \in WorkOrders
      BY <2>1, <2>3, RequestKinds DEF PatchRequest, CheckInRequest, CompleteRequest
    <3> QED BY <2>3, <3>1 DEF IInv, SessionsHold, OrdersStep, Evolves, Upholds
  <2> QED BY <2>2, <2>3
<1>4. NotYetDeleted'
  BY AppearsFields DEF IInv, NotYetDeleted, OrdersStep, Evolves, Upholds
<1> QED BY <1>1, <1>2, <1>3, <1>4 DEF IInv

\* Reading changes no table, and what was read is true of the row it was read from.
LEMMA ReadsPreserve ==
    ASSUME IInv, NEW k \in Workers, Read(k)
    PROVE  IInv'
<1>0. TypeOK'
  BY ReadTyped DEF IInv
<1>1. UNCHANGED <<orders, tasks, checkIns>>
  BY DEF Read, PatchRead, CheckInRead, CompleteRead, DeleteRead, AddTaskRead,
         UpdateTaskRead, Begin
<1>2. InProgressStarted' /\ DraftUntouched' /\ NotYetDeleted'
  BY <1>1 DEF IInv, InProgressStarted, DraftUntouched, NotYetDeleted
<1>3. SessionsHold'
  <2> DEFINE Held(s) ==
        /\ s.op \in {"delete", "add_task"} => orders[s.wo].status # "absent"
        /\ s.op \in {"patch", "checkin", "complete"} => Upholds(orders[s.wo], s.seen)
        /\ s.op = "patch" => s.status = s.seen.status \/ s.status # "draft"
  <2>1. \A j \in Workers : Held(session[j])
    BY DEF IInv, SessionsHold
  <2>2. ASSUME NEW request, Begin(k, request), Held(request)
        PROVE  \A j \in Workers : Held(session'[j])
    <3>1. \A j \in Workers : session'[j] = IF j = k THEN request ELSE session[j]
      BY <2>2 DEF Begin, IInv, TypeOK
    <3> HIDE DEF Held
    <3> QED BY <2>1, <2>2, <3>1
  <2>3. \A j \in Workers : Held(session'[j])
    <3> HIDE DEF Held
    <3>1. ASSUME NEW w \in WorkOrders, NEW status \in Status, NEW rule, NEW date,
                 PatchRead(k, w, status, rule, date)
          PROVE  \A j \in Workers : Held(session'[j])
      <4>1. Held([op |-> "patch", wo |-> w, seen |-> orders[w], status |-> status,
                  rule |-> rule, date |-> date])
        BY <3>1, TransitionsTyped DEF Held, PatchRead, Found, Upholds
      <4> QED BY <2>2, <3>1, <4>1 DEF PatchRead
    <3>2. ASSUME NEW w \in WorkOrders, NEW user \in Users, CheckInRead(k, w, user)
          PROVE  \A j \in Workers : Held(session'[j])
      <4>1. Held([op |-> "checkin", wo |-> w, seen |-> orders[w], user |-> user])
        BY <3>2 DEF Held, CheckInRead, Found, Upholds
      <4> QED BY <2>2, <3>2, <4>1 DEF CheckInRead
    <3>3. ASSUME NEW w \in WorkOrders, CompleteRead(k, w)
          PROVE  \A j \in Workers : Held(session'[j])
      <4>1. Held([op |-> "complete", wo |-> w, seen |-> orders[w], tasks |-> TasksOf(w),
                  open |-> OpenCheckIns(w)])
        BY <3>3 DEF Held, CompleteRead, Found, Upholds
      <4> QED BY <2>2, <3>3, <4>1 DEF CompleteRead
    <3>4. ASSUME NEW w \in WorkOrders, DeleteRead(k, w)
          PROVE  \A j \in Workers : Held(session'[j])
      <4>1. Held([op |-> "delete", wo |-> w, seen |-> orders[w]])
        BY <3>4 DEF Held, DeleteRead, Found
      <4> QED BY <2>2, <3>4, <4>1 DEF DeleteRead
    <3>5. ASSUME NEW w \in WorkOrders, NEW required \in BOOLEAN, AddTaskRead(k, w, required)
          PROVE  \A j \in Workers : Held(session'[j])
      <4>1. Held([op |-> "add_task", wo |-> w, required |-> required])
        BY <3>5 DEF Held, AddTaskRead, Found
      <4> QED BY <2>2, <3>5, <4>1 DEF AddTaskRead
    <3>6. ASSUME NEW t \in Tasks, NEW status \in TaskStatus \cup {None},
                 NEW required \in BOOLEAN, UpdateTaskRead(k, t, status, required)
          PROVE  \A j \in Workers : Held(session'[j])
      <4>1. Held([op |-> "update_task", task |-> t, seen |-> tasks[t], status |-> status,
                  required |-> required])
        BY DEF Held
      <4> QED BY <2>2, <3>6, <4>1 DEF UpdateTaskRead
    <3> QED BY <3>1, <3>2, <3>3, <3>4, <3>5, <3>6 DEF Read
  <2> QED BY <1>1, <2>3 DEF SessionsHold
<1> QED BY <1>0, <1>2, <1>3 DEF IInv

LEMMA CommitsPreserve ==
    ASSUME IInv, NEW k \in Workers, Commit(k)
    PROVE  IInv'
<1> DEFINE s == session[k]
<1>a. TypeOK /\ TypeOK' /\ s \in Request \cup {Idle}
  BY CommitTyped DEF IInv, TypeOK
<1>b. SessionsStep
  BY <1>a DEF Commit, PatchCommit, CheckInCommit, CompleteCommit, DeleteCommit,
              AddTaskCommit, UpdateTaskCommit, Rollback, Done, SessionsStep, TypeOK
<1>1. CASE PatchCommit(k)
  <2>1. s \in PatchRequest
    BY <1>a, <1>1, RequestKinds DEF PatchCommit, Serving
  <2>2. Upholds(orders[s.wo], s.seen) /\ (s.status = s.seen.status \/ s.status # "draft")
    BY <1>1 DEF PatchCommit, Serving, IInv, SessionsHold
  <2>3. Evolves(orders[s.wo], Patched(orders[s.wo], s))
    <3> DEFINE row == orders[s.wo]
               new == Patched(row, s)
    <3>1. row \in OrderRow /\ s.status \in Status /\ s.wo \in WorkOrders
      BY <1>a, <2>1 DEF PatchRequest, TypeOK
    <3>2. /\ new.status = IF s.status # s.seen.status THEN s.status ELSE row.status
          /\ new.started = IF /\ s.status # s.seen.status
                              /\ s.status = "in_progress"
                              /\ ~s.seen.started THEN TRUE ELSE row.started
          /\ new.ended = row.ended
      BY <3>1 DEF Patched, Written, OrderRow
    <3>3. row.status = "in_progress" => row.started
      BY <3>1 DEF IInv, InProgressStarted
    <3> QED BY <2>2, <3>1, <3>2, <3>3 DEF Evolves, Upholds, Status
  <2>4. OrdersStep
    BY <1>a, <1>1, <2>1, <2>3, RowsStay, <2>2
    DEF OrdersStep, PatchCommit, PatchRequest, TypeOK, Upholds
  <2> QED BY <1>1, <1>a, <1>b, <2>4, StepsPreserve DEF CheckInsStep, PatchCommit
<1>2. ASSUME NEW c \in CheckIns, CheckInCommit(k, c)
      PROVE  IInv'
  <2>1. s \in CheckInRequest /\ s.wo \in WorkOrders
    BY <1>a, <1>2, RequestKinds DEF CheckInCommit, Serving, CheckInRequest
  <2>2. Upholds(orders[s.wo], s.seen)
    BY <1>2 DEF CheckInCommit, Serving, IInv, SessionsHold
  <2>3. /\ Evolves(orders[s.wo], ToInProgress(orders[s.wo], s.seen))
        /\ ToInProgress(orders[s.wo], s.seen).status \notin {"absent", "draft"}
    <3>1. orders[s.wo] \in OrderRow /\ Evolves(orders[s.wo], orders[s.wo])
      BY <1>a, <2>1, <2>2, RowsStay DEF TypeOK, Upholds
    <3> QED BY <2>2, <3>1 DEF ToInProgress, Evolves, Upholds, OrderRow
  <2>4. OrdersStep /\ orders'[s.wo] = ToInProgress(orders[s.wo], s.seen)
    BY <1>a, <1>2, <2>1, <2>2, <2>3, RowsStay DEF OrdersStep, CheckInCommit, TypeOK, Upholds
  <2>5. CheckInsStep
    BY <1>a, <1>2, <2>3, <2>4 DEF CheckInsStep, CheckInCommit, TypeOK
  <2> QED BY <1>a, <1>b, <2>4, <2>5, StepsPreserve
<1>3. CASE CompleteCommit(k)
  <2>1. s \in CompleteRequest /\ s.wo \in WorkOrders /\ s.seen \in OrderRow
    BY <1>a, <1>3, RequestKinds DEF CompleteCommit, Serving, CompleteRequest
  <2>2. Upholds(orders[s.wo], s.seen)
    BY <1>3 DEF CompleteCommit, Serving, IInv, SessionsHold
  <2> DEFINE table == [orders EXCEPT ![s.wo] = Completed(@)]
             own == s.seen.parent = None
             root == IF own THEN s.wo ELSE s.seen.parent
             rule == IF own THEN s.seen.rule ELSE orders[root].rule
  <2>3. PICK start \in Start(s.seen) :
        \E kids \in Injection(NextDates(s.seen.rule, start), FreshOrders) :
           orders' = WithInstances(table, kids, rule, root)
    BY <1>3 DEF CompleteCommit, SpawnNextOccurrence
  <2>4. PICK kids \in Injection(NextDates(s.seen.rule, start), FreshOrders) :
           orders' = WithInstances(table, kids, rule, root)
    BY <2>3
  <2>5. /\ root \in WorkOrders /\ rule \in RuleText
        /\ NextDates(s.seen.rule, start) \in SUBSET Nat
    <3>1. root \in WorkOrders
      BY <2>1 DEF OrderRow
    <3>2. rule \in RuleText
      BY <1>a, <2>1, <3>1 DEF TypeOK, OrderRow
    <3>3. NextDates(s.seen.rule, start) \in SUBSET Nat
      BY <2>1, DatesTyped DEF NextDates
    <3> QED BY <3>1, <3>2, <3>3
  <2>6. \A w \in WorkOrders : orders[w].status # "absent" => Evolves(orders[w], table[w])
    <3>1. Evolves(orders[s.wo], Completed(orders[s.wo]))
      <4>1. orders[s.wo] \in OrderRow
        BY <1>a, <2>1 DEF TypeOK
      <4> QED BY <2>2, <4>1 DEF Completed, Evolves, Upholds, OrderRow
    <3> QED BY <1>a, <2>1, <3>1, RowsStay DEF TypeOK
  <2>7. \A w \in WorkOrders : orders[w].status = "absent" => table[w] = orders[w]
    BY <1>a, <2>2 DEF TypeOK, Upholds
  <2> HIDE DEF root, rule, table
  <2>8. OrdersStep
    <3> SUFFICES ASSUME NEW w \in WorkOrders
                 PROVE  IF orders[w].status = "absent" THEN orders'[w] = orders[w] \/ RowAdded(w)
                                                       ELSE Evolves(orders[w], orders'[w])
      BY DEF OrdersStep
    <3>1. CASE w \in Range(kids)
      <4>1. PICK d \in NextDates(s.seen.rule, start) :
               orders'[w] = NewOrder("scheduled", rule, d, root)
        BY <2>4, <3>1, InstanceRows
      <4>2. orders[w].status = "absent"
        BY <2>4, <3>1, InstanceRows
      <4> QED BY <2>5, <4>1, <4>2 DEF RowAdded
    <3>2. CASE w \notin Range(kids)
      <4>1. orders'[w] = table[w]
        BY <2>4, <3>2, InstanceRows
      <4> QED BY <2>6, <2>7, <4>1
    <3> QED BY <3>1, <3>2
  <2>9. CheckInsStep
    BY <1>a, <1>3 DEF CheckInsStep, CompleteCommit, Closed, TypeOK, CheckInRow
  <2> QED BY <1>a, <1>b, <2>8, <2>9, StepsPreserve
<1>4. CASE DeleteCommit(k)
  <2>1. s.wo \in WorkOrders /\ orders[s.wo].status # "absent"
    BY <1>a, <1>4, RequestKinds DEF DeleteCommit, Serving, DeleteRequest, IInv, SessionsHold
  <2>2. Evolves(orders[s.wo], [orders[s.wo] EXCEPT !.deleted = TRUE])
    <3>1. orders[s.wo] \in OrderRow /\ Evolves(orders[s.wo], orders[s.wo])
      BY <1>a, <2>1, RowsStay DEF TypeOK
    <3> QED BY <3>1 DEF Evolves, Upholds, OrderRow
  <2>3. OrdersStep
    BY <1>a, <1>4, <2>1, <2>2, RowsStay DEF OrdersStep, DeleteCommit, TypeOK
  <2> QED BY <1>4, <1>a, <1>b, <2>3, StepsPreserve DEF CheckInsStep, DeleteCommit
<1>5. CASE UNCHANGED <<orders, checkIns>>
  <2>1. OrdersStep /\ CheckInsStep
    BY <1>5, RowsStay DEF OrdersStep, CheckInsStep
  <2> QED BY <1>a, <1>b, <2>1, StepsPreserve
<1> QED BY <1>1, <1>2, <1>3, <1>4, <1>5
        DEF Commit, AddTaskCommit, UpdateTaskCommit, Rollback

\* The inductive invariant holds in every reachable state.
THEOREM Invariance == Spec => []IInv
<1>1. Init => IInv
  <2> SUFFICES ASSUME Init PROVE IInv
    OBVIOUS
  <2>1. \A w \in WorkOrders : /\ orders[w].status = "absent" /\ ~orders[w].deleted
                             /\ ~orders[w].started /\ ~orders[w].ended
    <3>1. /\ NoOrder.status = "absent" /\ ~NoOrder.deleted
          /\ ~NoOrder.started /\ ~NoOrder.ended
      BY DEF NoOrder, NewOrder
    <3>2. \A w \in WorkOrders : orders[w] = NoOrder
      BY DEF Init
    <3> QED BY <3>1, <3>2
  <2>2. \A c \in CheckIns, w \in WorkOrders : checkIns[c].wo # w
    BY NoneAssumption DEF Init, NoCheckIn
  <2>3. \A k \in Workers : session[k].op = "idle"
    BY DEF Init, Idle
  <2>4. TypeOK
    BY EmptyRows DEF Init, TypeOK
  <2> QED BY <2>1, <2>2, <2>3, <2>4
          DEF IInv, InProgressStarted, DraftUntouched, NotYetDeleted, SessionsHold
<1>2. ASSUME IInv, TypeOK', [Next]_vars PROVE IInv'
  <2>1. ASSUME NEW w \in WorkOrders, NEW newTasks \in SUBSET FreshTasks,
               NEW rule \in RuleText, NEW date \in Dates \cup {None},
               NEW required \in SUBSET newTasks,
               CreateWorkOrder(w, newTasks, required, rule, date)
        PROVE  IInv'
    <3>1. RowAdded(w)
      <4>1. orders'[w] = NewOrder("draft", rule, date, None)
        BY <1>2, <2>1 DEF CreateWorkOrder, IInv, TypeOK
      <4>2. date \in Nat \cup {None}
        BY <2>1, DatesAssumption
      <4> QED BY <2>1, <4>1, <4>2 DEF RowAdded
    <3>2. OrdersStep
      BY <1>2, <2>1, <3>1, RowsStay DEF OrdersStep, CreateWorkOrder, FreshOrders, IInv, TypeOK
    <3> QED BY <1>2, <2>1, <3>2, StepsPreserve DEF CreateWorkOrder, CheckInsStep, SessionsStep
  <2>2. ASSUME NEW w \in WorkOrders, NEW user \in Users, CheckOut(w, user)
        PROVE  IInv'
    <3>1. PICK c \in CheckIns :
             /\ checkIns' = [checkIns EXCEPT ![c].open = FALSE]
             /\ UNCHANGED <<orders, tasks, session>>
      BY <2>2 DEF CheckOut, OpenCheckIns
    <3>2. CheckInsStep
      BY <1>2, <3>1 DEF CheckInsStep, IInv, TypeOK, CheckInRow
    <3> QED BY <1>2, <3>1, <3>2, RowsStay, StepsPreserve DEF OrdersStep, SessionsStep
  <2>3. ASSUME NEW w \in WorkOrders, NEW until \in Horizons, GenerateInstances(w, until)
        PROVE  IInv'
    <3>0. PICK start \in Start(orders[w]) :
          \E kids \in Injection({d \in After(orders[w].rule, start) : d < until}, FreshOrders) :
             orders' = WithInstances(orders, kids, orders[w].rule, w)
      BY <2>3 DEF GenerateInstances
    <3> DEFINE dates == {d \in After(orders[w].rule, start) : d < until}
    <3>1. PICK kids \in Injection(dates, FreshOrders) :
             orders' = WithInstances(orders, kids, orders[w].rule, w)
      BY <3>0
    <3>2. orders[w].rule \in RuleText /\ dates \in SUBSET Nat
      <4>1. orders[w] \in OrderRow
        BY <1>2, <2>3 DEF IInv, TypeOK
      <4> QED BY <4>1, DatesTyped DEF OrderRow
    <3>3. OrdersStep
      <4> SUFFICES ASSUME NEW v \in WorkOrders
                   PROVE  IF orders[v].status = "absent" THEN orders'[v] = orders[v] \/ RowAdded(v)
                                                         ELSE Evolves(orders[v], orders'[v])
        BY DEF OrdersStep
      <4>1. CASE v \in Range(kids)
        <5>1. PICK d \in dates : orders'[v] = NewOrder("scheduled", orders[w].rule, d, w)
          BY <3>1, <4>1, InstanceRows
        <5>2. orders[v].status = "absent"
          BY <3>1, <4>1, InstanceRows
        <5> QED BY <2>3, <3>2, <5>1, <5>2 DEF RowAdded
      <4>2. CASE v \notin Range(kids)
        <5>1. orders'[v] = orders[v]
          BY <3>1, <4>2, InstanceRows
        <5> QED BY <1>2, <5>1, RowsStay
      <4> QED BY <4>1, <4>2
    <3> QED BY <1>2, <2>3, <3>3, StepsPreserve DEF GenerateInstances, CheckInsStep, SessionsStep
  <2>4. CASE UNCHANGED vars
    BY <1>2, <2>4, RowsStay, StepsPreserve DEF vars, OrdersStep, CheckInsStep, SessionsStep
  <2> QED BY <1>2, <2>1, <2>2, <2>3, <2>4, ReadsPreserve, CommitsPreserve DEF Next
<1> QED BY <1>1, <1>2, TypeCorrect, PTL DEF Spec

\* An order in progress has a start time, however check-ins, edits and completions
\* of several workers interleave.
THEOREM StartedTheorem == Spec => []InProgressStarted
  BY Invariance, PTL DEF IInv

\* A draft has no history, however requests interleave.
THEOREM DraftTheorem == Spec => []DraftUntouched
  BY Invariance, PTL DEF IInv

-----------------------------------------------------------------------------
(* A request in flight was let in by the checks of its handler, for the rows  *)
(* as it loaded them.  That much of what the checks are for survives           *)
(* interleaving.                                                               *)

Admitted(s) ==
    /\ s.op \in {"patch", "checkin", "complete", "delete"} =>
          s.seen.status # "absent" /\ ~s.seen.deleted
    /\ s.op = "patch" => \/ s.status = s.seen.status
                         \/ s.status \in ValidTransitions(s.seen.status)
    /\ s.op \in {"checkin", "complete"} => s.seen.status \notin Terminal
    /\ s.op = "complete" => RequiredDone(s.tasks)
    /\ s.op = "delete" => s.seen.status # "in_progress"

AllAdmitted == \A k \in Workers : Admitted(session[k])

\* Commits and the requests of one step open no session.
LEMMA SessionsEnd ==
    ASSUME TypeOK, NEW k \in Workers, Commit(k)
    PROVE  session' = [session EXCEPT ![k] = Idle]
  BY DEF Commit, PatchCommit, CheckInCommit, CompleteCommit, DeleteCommit, AddTaskCommit,
         UpdateTaskCommit, Rollback, Done

\* The transitions out of a terminal status are none.
LEMMA NoWayOut ==
    ASSUME NEW from \in Terminal
    PROVE  ValidTransitions(from) = {}
  BY DEF ValidTransitions, Terminal

LEMMA ReadAdmitted ==
    ASSUME TypeOK, AllAdmitted, NEW k \in Workers, Read(k)
    PROVE  AllAdmitted'
<1>1. ASSUME NEW request, Begin(k, request), Admitted(request)
      PROVE  AllAdmitted'
  BY <1>1 DEF Begin, TypeOK, AllAdmitted
<1>2. ASSUME NEW w \in WorkOrders, NEW status \in Status, NEW rule, NEW date,
             PatchRead(k, w, status, rule, date)
      PROVE  AllAdmitted'
  <2>1. Admitted([op |-> "patch", wo |-> w, seen |-> orders[w], status |-> status,
                  rule |-> rule, date |-> date])
    BY <1>2 DEF PatchRead, Admitted, Found
  <2> QED BY <1>1, <1>2, <2>1 DEF PatchRead
<1>3. ASSUME NEW w \in WorkOrders, NEW user \in Users, CheckInRead(k, w, user)
      PROVE  AllAdmitted'
  <2>1. Admitted([op |-> "checkin", wo |-> w, seen |-> orders[w], user |-> user])
    BY <1>3 DEF CheckInRead, Admitted, Found
  <2> QED BY <1>1, <1>3, <2>1 DEF CheckInRead
<1>4. ASSUME NEW w \in WorkOrders, CompleteRead(k, w)
      PROVE  AllAdmitted'
  <2>1. Admitted([op |-> "complete", wo |-> w, seen |-> orders[w], tasks |-> TasksOf(w),
                  open |-> OpenCheckIns(w)])
    BY <1>4 DEF CompleteRead, Admitted, Found
  <2> QED BY <1>1, <1>4, <2>1 DEF CompleteRead
<1>5. ASSUME NEW w \in WorkOrders, DeleteRead(k, w)
      PROVE  AllAdmitted'
  <2>1. Admitted([op |-> "delete", wo |-> w, seen |-> orders[w]])
    BY <1>5 DEF DeleteRead, Admitted, Found
  <2> QED BY <1>1, <1>5, <2>1 DEF DeleteRead
<1>6. CASE session'[k].op \in {"add_task", "update_task"} /\
           \A j \in Workers : j # k => session'[j] = session[j]
  BY <1>6 DEF AllAdmitted, Admitted
<1>7. ASSUME NEW w \in WorkOrders, NEW required \in BOOLEAN, AddTaskRead(k, w, required)
      PROVE  AllAdmitted'
  BY <1>6, <1>7 DEF AddTaskRead, Begin, TypeOK
<1>8. ASSUME NEW t \in Tasks, NEW status \in TaskStatus \cup {None},
             NEW required \in BOOLEAN, UpdateTaskRead(k, t, status, required)
      PROVE  AllAdmitted'
  BY <1>6, <1>8 DEF UpdateTaskRead, Begin, TypeOK
<1> QED BY <1>2, <1>3, <1>4, <1>5, <1>7, <1>8 DEF Read

LEMMA AdmittedInvariant == Spec => []AllAdmitted
<1>1. Init => AllAdmitted
  BY DEF Init, AllAdmitted, Admitted, Idle
<1>2. ASSUME TypeOK, AllAdmitted, [Next]_vars PROVE AllAdmitted'
  <2>1. CASE UNCHANGED session
    BY <1>2, <2>1 DEF AllAdmitted
  <2>2. ASSUME NEW k \in Workers, Commit(k) PROVE AllAdmitted'
    <3>1. Admitted(Idle)
      BY DEF Admitted, Idle
    <3> QED BY <1>2, <2>2, <3>1, SessionsEnd DEF AllAdmitted, TypeOK
  <2> QED BY <1>2, <2>1, <2>2, ReadAdmitted
          DEF Next, CreateWorkOrder, CheckOut, GenerateInstances, vars
<1> QED BY <1>1, <1>2, TypeCorrect, PTL DEF Spec

-----------------------------------------------------------------------------
(* What each step writes, whatever it has seen and whatever the rows hold now. *)

Known == IInv /\ AllAdmitted

LEMMA KnownInvariance == Spec => []Known
  BY Invariance, AdmittedInvariant, PTL DEF Known

\* What is known of a request that is about to commit.
LEMMA AtCommit ==
    ASSUME Known, NEW k \in Workers,
           session[k].op \in {"patch", "checkin", "complete", "delete"}
    PROVE  LET s == session[k] IN
           /\ s.op = "patch" => s \in PatchRequest
           /\ s.op = "checkin" => s \in CheckInRequest
           /\ s.op = "complete" => s \in CompleteRequest
           /\ s.op = "delete" => s \in DeleteRequest
           /\ s.wo \in WorkOrders /\ s.seen \in OrderRow
           /\ orders[s.wo] \in OrderRow /\ orders[s.wo].status # "absent"
           /\ Admitted(s)
<1> DEFINE s == session[k]
<1>1. s \in Request \cup {Idle} /\ orders \in [WorkOrders -> OrderRow] /\ Admitted(s)
  BY DEF Known, AllAdmitted, IInv, TypeOK
<1>2. /\ s.op = "patch" => s \in PatchRequest
      /\ s.op = "checkin" => s \in CheckInRequest
      /\ s.op = "complete" => s \in CompleteRequest
      /\ s.op = "delete" => s \in DeleteRequest
  BY <1>1, RequestKinds
<1>3. s.wo \in WorkOrders /\ s.seen \in OrderRow
  BY <1>2 DEF PatchRequest, CheckInRequest, CompleteRequest, DeleteRequest
<1>4. orders[s.wo].status # "absent"
  BY DEF Known, IInv, SessionsHold, Upholds
<1> QED BY <1>1, <1>2, <1>3, <1>4

\* The row a PATCH writes.
LEMMA PatchRows ==
    ASSUME Known, NEW k \in Workers, PatchCommit(k)
    PROVE  LET s == session[k]
               old == orders[s.wo]
               new == orders'[s.wo] IN
           /\ s.op = "patch" /\ s.wo \in WorkOrders
           /\ \A v \in WorkOrders \ {s.wo} : orders'[v] = orders[v]
           /\ old \in OrderRow /\ old.status # "absent"
           /\ s.status \in Status \ {"draft"} \/ s.status = s.seen.status
           /\ new.status = IF s.status = s.seen.status THEN old.status ELSE s.status
           /\ new.deleted = old.deleted /\ new.ended = old.ended
           /\ UNCHANGED checkIns
<1> DEFINE s == session[k]
           old == orders[s.wo]
<1>1. s.op = "patch"
  BY DEF PatchCommit, Serving
<1>2. /\ s \in PatchRequest /\ s.wo \in WorkOrders /\ old \in OrderRow
      /\ old.status # "absent"
  BY <1>1, AtCommit
<1>3. s.status \in Status \ {"draft"} \/ s.status = s.seen.status
  BY <1>1, <1>2 DEF Known, IInv, SessionsHold, PatchRequest
<1>4. /\ orders'[s.wo] = Patched(old, s)
      /\ \A v \in WorkOrders \ {s.wo} : orders'[v] = orders[v]
      /\ UNCHANGED checkIns
  BY <1>2 DEF PatchCommit, Known, IInv, TypeOK
<1>5. /\ orders'[s.wo].status = Written(old.status, s.seen.status, s.status)
      /\ orders'[s.wo].deleted = old.deleted /\ orders'[s.wo].ended = old.ended
  BY <1>2, <1>4 DEF Patched, OrderRow
<1> QED BY <1>1, <1>2, <1>3, <1>4, <1>5 DEF Written

\* The row a check-in writes: the crew is on site, if the order was still to start.
LEMMA CheckInRows ==
    ASSUME Known, NEW k \in Workers, NEW c \in CheckIns, CheckInCommit(k, c)
    PROVE  LET s == session[k]
               old == orders[s.wo]
               new == orders'[s.wo] IN
           /\ s.op = "checkin" /\ s.wo \in WorkOrders
           /\ \A v \in WorkOrders \ {s.wo} : orders'[v] = orders[v]
           /\ old \in OrderRow /\ old.status # "absent"
           /\ \/ new = old
              \/ s.seen.status \in {"draft", "scheduled"} /\ new.status = "in_progress"
           /\ new.deleted = old.deleted /\ new.ended = old.ended
           /\ \A v \in WorkOrders \ {s.wo} : OpenCheckIns(v)' \subseteq OpenCheckIns(v)
<1> DEFINE s == session[k]
           old == orders[s.wo]
<1>1. s.op = "checkin"
  BY DEF CheckInCommit, Serving
<1>2. /\ s \in CheckInRequest /\ s.wo \in WorkOrders /\ old \in OrderRow
      /\ old.status # "absent"
  BY <1>1, AtCommit
<1>3. /\ orders'[s.wo] = ToInProgress(old, s.seen)
      /\ \A v \in WorkOrders \ {s.wo} : orders'[v] = orders[v]
  BY <1>2 DEF CheckInCommit, Known, IInv, TypeOK
<1>4. /\ \/ orders'[s.wo] = old
         \/ s.seen.status \in {"draft", "scheduled"} /\ orders'[s.wo].status = "in_progress"
      /\ orders'[s.wo].deleted = old.deleted /\ orders'[s.wo].ended = old.ended
  BY <1>2, <1>3 DEF ToInProgress, OrderRow
<1>5. \A d \in CheckIns : checkIns'[d] = checkIns[d] \/ checkIns'[d].wo = s.wo
  BY DEF CheckInCommit, Known, IInv, TypeOK
<1>6. \A v \in WorkOrders \ {s.wo} : OpenCheckIns(v)' \subseteq OpenCheckIns(v)
  BY <1>5 DEF OpenCheckIns
<1> QED BY <1>1, <1>2, <1>3, <1>4, <1>6

\* The rows a completion writes: the order itself, and an instance on each of its next
\* dates, of which there is at most one.
LEMMA CompleteRows ==
    ASSUME Known, NEW k \in Workers, CompleteCommit(k)
    PROVE  LET s == session[k]
               old == orders[s.wo] IN
           /\ s.op = "complete" /\ s.wo \in WorkOrders /\ old \in OrderRow
           /\ old.status # "absent"
           /\ \A v \in WorkOrders : OpenCheckIns(v)' = OpenCheckIns(v) \ s.open
           /\ Completed(old).status = "completed" /\ Completed(old).ended
           /\ Completed(old).deleted = old.deleted
           /\ \E start \in Start(s.seen) :
              \E kids \in Injection(NextDates(s.seen.rule, start), FreshOrders) :
              \A v \in WorkOrders :
                 IF v \in Range(kids)
                 THEN /\ orders[v].status = "absent" /\ orders'[v].status = "scheduled"
                      /\ ~orders'[v].deleted /\ ~orders'[v].ended
                      /\ orders'[v].date \in NextDates(s.seen.rule, start)
                 ELSE orders'[v] = IF v = s.wo THEN Completed(old) ELSE orders[v]
<1> DEFINE s == session[k]
           old == orders[s.wo]
<1>1. s.op = "complete"
  BY DEF CompleteCommit, Serving
<1>2. /\ s \in CompleteRequest /\ s.wo \in WorkOrders /\ old \in OrderRow
      /\ old.status # "absent"
  BY <1>1, AtCommit
<1>3. /\ Completed(old).status = "completed" /\ Completed(old).ended
      /\ Completed(old).deleted = old.deleted
  BY <1>2 DEF Completed, OrderRow
<1>4. \A v \in WorkOrders : OpenCheckIns(v)' = OpenCheckIns(v) \ s.open
  <2>1. checkIns \in [CheckIns -> CheckInRow]
    BY DEF Known, IInv, TypeOK
  <2>2. \A c \in CheckIns : /\ checkIns'[c].wo = checkIns[c].wo
                            /\ checkIns'[c].open <=> checkIns[c].open /\ c \notin s.open
    BY <2>1 DEF CompleteCommit, Closed, CheckInRow
  <2> QED BY <2>2 DEF OpenCheckIns
<1> DEFINE table == [orders EXCEPT ![s.wo] = Completed(@)]
           root == IF s.seen.parent = None THEN s.wo ELSE s.seen.parent
           rule == IF s.seen.parent = None THEN s.seen.rule ELSE orders[root].rule
<1>5. PICK start \in Start(s.seen) :
      \E kids \in Injection(NextDates(s.seen.rule, start), FreshOrders) :
         orders' = WithInstances(table, kids, rule, root)
  BY DEF CompleteCommit, SpawnNextOccurrence
<1>6. PICK kids \in Injection(NextDates(s.seen.rule, start), FreshOrders) :
         orders' = WithInstances(table, kids, rule, root)
  BY <1>5
<1>7. \A v \in WorkOrders : table[v] = IF v = s.wo THEN Completed(old) ELSE orders[v]
  BY DEF Known, IInv, TypeOK
<1> HIDE DEF table, root, rule
<1>8. ASSUME NEW v \in WorkOrders
      PROVE  IF v \in Range(kids)
             THEN /\ orders[v].status = "absent" /\ orders'[v].status = "scheduled"
                  /\ ~orders'[v].deleted /\ ~orders'[v].ended
                  /\ orders'[v].date \in NextDates(s.seen.rule, start)
             ELSE orders'[v] = IF v = s.wo THEN Completed(old) ELSE orders[v]
  <2>1. CASE v \in Range(kids)
    <3>1. orders[v].status = "absent"
      BY <1>6, <2>1, InstanceRows
    <3>2. PICK d \in NextDates(s.seen.rule, start) :
             orders'[v] = NewOrder("scheduled", rule, d, root)
      BY <1>6, <2>1, InstanceRows
    <3> QED BY <2>1, <3>1, <3>2, NewOrderFields
  <2>2. CASE v \notin Range(kids)
    BY <1>6, <1>7, <2>2, InstanceRows
  <2> QED BY <2>1, <2>2
<1> QED BY <1>1, <1>2, <1>3, <1>4, <1>8

\* The row a deletion writes.
LEMMA DeleteRows ==
    ASSUME Known, NEW k \in Workers, DeleteCommit(k)
    PROVE  LET s == session[k]
               old == orders[s.wo]
               new == orders'[s.wo] IN
           /\ s.op = "delete" /\ s.wo \in WorkOrders
           /\ \A v \in WorkOrders \ {s.wo} : orders'[v] = orders[v]
           /\ old \in OrderRow /\ old.status # "absent"
           /\ new.deleted /\ new.status = old.status /\ new.ended = old.ended
           /\ UNCHANGED checkIns
<1> DEFINE s == session[k]
           old == orders[s.wo]
<1>1. s.op = "delete"
  BY DEF DeleteCommit, Serving
<1>2. s.wo \in WorkOrders /\ old \in OrderRow /\ old.status # "absent"
  BY <1>1, AtCommit
<1>3. /\ orders'[s.wo] = [old EXCEPT !.deleted = TRUE]
      /\ \A v \in WorkOrders \ {s.wo} : orders'[v] = orders[v]
      /\ UNCHANGED checkIns
  BY <1>2 DEF DeleteCommit, Known, IInv, TypeOK
<1>4. /\ orders'[s.wo].deleted /\ orders'[s.wo].status = old.status
      /\ orders'[s.wo].ended = old.ended
  BY <1>2, <1>3 DEF OrderRow
<1> QED BY <1>1, <1>2, <1>3, <1>4

\* The commits of task requests, rollbacks and reads leave orders and check-ins alone.
LEMMA OtherCommits ==
    ASSUME NEW k \in Workers, Commit(k), ~PatchCommit(k), ~CompleteCommit(k),
           ~DeleteCommit(k), \A c \in CheckIns : ~CheckInCommit(k, c)
    PROVE  UNCHANGED <<orders, checkIns>>
  BY DEF Commit, AddTaskCommit, UpdateTaskCommit, Rollback

LEMMA ReadsChangeNothing ==
    ASSUME NEW k \in Workers, Read(k)
    PROVE  UNCHANGED <<orders, tasks, checkIns>>
  BY DEF Read, PatchRead, CheckInRead, CompleteRead, DeleteRead, AddTaskRead,
         UpdateTaskRead, Begin

LEMMA GenerateAdds ==
    ASSUME NEW w \in WorkOrders, NEW until, GenerateInstances(w, until)
    PROVE  \E instances \in SUBSET FreshOrders :
             \A v \in WorkOrders :
                IF v \in instances
                THEN orders'[v].status = "scheduled" /\ ~orders'[v].deleted /\ ~orders'[v].ended
                ELSE orders'[v] = orders[v]
<1>1. PICK start \in Start(orders[w]) :
      \E kids \in Injection({d \in After(orders[w].rule, start) : d < until}, FreshOrders) :
         orders' = WithInstances(orders, kids, orders[w].rule, w)
  BY DEF GenerateInstances
<1> DEFINE dates == {d \in After(orders[w].rule, start) : d < until}
           rule == orders[w].rule
<1>2. PICK kids \in Injection(dates, FreshOrders) :
         orders' = WithInstances(orders, kids, rule, w)
  BY <1>1
<1> HIDE DEF dates, rule
<1>3. Range(kids) \in SUBSET FreshOrders
  BY DEF Range, Injection
<1>4. ASSUME NEW v \in WorkOrders
      PROVE  IF v \in Range(kids)
             THEN orders'[v].status = "scheduled" /\ ~orders'[v].deleted /\ ~orders'[v].ended
             ELSE orders'[v] = orders[v]
  <2>1. CASE v \in Range(kids)
    <3>1. PICK d \in dates : orders'[v] = NewOrder("scheduled", rule, d, w)
      BY <1>2, <2>1, InstanceRows
    <3> QED BY <2>1, <3>1, NewOrderFields
  <2>2. CASE v \notin Range(kids)
    BY <1>2, <2>2, InstanceRows
  <2> QED BY <2>1, <2>2
<1> QED BY <1>3, <1>4

LEMMA CreateAdds ==
    ASSUME TypeOK, NEW w \in WorkOrders, NEW newTasks, NEW required, NEW rule, NEW date,
           CreateWorkOrder(w, newTasks, required, rule, date)
    PROVE  /\ orders[w].status = "absent" /\ orders'[w].status = "draft"
           /\ ~orders'[w].deleted /\ ~orders'[w].ended
           /\ \A v \in WorkOrders \ {w} : orders'[v] = orders[v]
<1>1. /\ orders'[w] = NewOrder("draft", rule, date, None)
      /\ orders[w].status = "absent"
      /\ \A v \in WorkOrders \ {w} : orders'[v] = orders[v]
  BY DEF CreateWorkOrder, FreshOrders, TypeOK
<1> QED BY <1>1, NewOrderFields

\* Only a commit changes the row of an order that exists, or opens a check-in.
LEMMA OnlyCommitsWrite ==
    ASSUME Known, [Next]_vars, \A k \in Workers : ~Commit(k)
    PROVE  \A v \in WorkOrders :
              /\ \/ orders'[v] = orders[v]
                 \/ /\ orders[v].status = "absent"
                    /\ orders'[v].status \in {"draft", "scheduled"}
                    /\ ~orders'[v].deleted /\ ~orders'[v].ended
                    /\ UNCHANGED session
              /\ OpenCheckIns(v)' \subseteq OpenCheckIns(v)
<1> DEFINE Fine == \A v \in WorkOrders :
              /\ \/ orders'[v] = orders[v]
                 \/ /\ orders[v].status = "absent"
                    /\ orders'[v].status \in {"draft", "scheduled"}
                    /\ ~orders'[v].deleted /\ ~orders'[v].ended
                    /\ UNCHANGED session
              /\ OpenCheckIns(v)' \subseteq OpenCheckIns(v)
<1>1. CASE UNCHANGED <<orders, checkIns>>
  BY <1>1 DEF OpenCheckIns
<1>2. ASSUME NEW w \in WorkOrders, NEW newTasks, NEW required, NEW rule, NEW date,
             CreateWorkOrder(w, newTasks, required, rule, date)
      PROVE  Fine
  <2>1. UNCHANGED <<checkIns, session>>
    BY <1>2 DEF CreateWorkOrder
  <2>2. TypeOK
    BY DEF Known, IInv
  <2> QED BY <1>2, <2>1, <2>2, CreateAdds DEF OpenCheckIns
<1>3. ASSUME NEW w \in WorkOrders, NEW until, GenerateInstances(w, until)
      PROVE  Fine
  <2>1. UNCHANGED <<checkIns, session>>
    BY <1>3 DEF GenerateInstances
  <2> QED BY <1>3, <2>1, GenerateAdds DEF OpenCheckIns, FreshOrders
<1>4. ASSUME NEW w \in WorkOrders, NEW user \in Users, CheckOut(w, user) PROVE Fine
  <2>1. PICK c \in CheckIns :
           checkIns' = [checkIns EXCEPT ![c].open = FALSE] /\ UNCHANGED orders
    BY <1>4 DEF CheckOut, OpenCheckIns
  <2>2. \A d \in CheckIns : /\ checkIns'[d].wo = checkIns[d].wo
                            /\ checkIns'[d].open => checkIns[d].open
    BY <2>1 DEF Known, IInv, TypeOK, CheckInRow
  <2> QED BY <2>1, <2>2 DEF OpenCheckIns
<1>5. ASSUME NEW k \in Workers, Read(k) PROVE Fine
  BY <1>1, <1>5, ReadsChangeNothing
<1> HIDE DEF Fine
<1>6. Fine
  BY <1>1, <1>2, <1>3, <1>4, <1>5 DEF Next, vars, Fine
<1> QED BY <1>6 DEF Fine

-----------------------------------------------------------------------------
(* The action properties. *)

\* A completed or cancelled order is moved only by a request that loaded it before
\* it was either, for any number of orders and requests in flight.
THEOREM StaleTheorem == Spec => TerminalLeftByStale
<1> DEFINE Stale(w) == \E k \in Workers : /\ session[k].op \in {"patch", "checkin", "complete"}
                                          /\ session[k].wo = w
                                          /\ session[k].seen.status \notin Terminal
                                          /\ session'[k] = Idle
           Left == \A w \in WorkOrders :
             orders[w].status \in Terminal /\ orders'[w].status # orders[w].status => Stale(w)
<1>1. ASSUME Known, [Next]_vars PROVE Left
  <2> SUFFICES ASSUME NEW w \in WorkOrders, orders[w].status \in Terminal,
                      orders'[w].status # orders[w].status
               PROVE  Stale(w)
    OBVIOUS
  <2>1. PICK k \in Workers : Commit(k)
    BY <1>1, OnlyCommitsWrite DEF Terminal
  <2>2. session'[k] = Idle
    BY <1>1, <2>1, SessionsEnd DEF Known, IInv, TypeOK
  <2>3. CASE PatchCommit(k)
    <3>1. session[k].op = "patch" /\ session[k].wo = w /\ session[k].status # session[k].seen.status
      BY <1>1, <2>3, PatchRows
    <3>2. Admitted(session[k])
      BY <1>1 DEF Known, AllAdmitted
    <3>3. session[k].seen.status \notin Terminal
      BY <3>1, <3>2, NoWayOut DEF Admitted
    <3> QED BY <2>2, <3>1, <3>3
  <2>4. ASSUME NEW c \in CheckIns, CheckInCommit(k, c) PROVE Stale(w)
    <3>1. session[k].op = "checkin" /\ session[k].wo = w
      BY <1>1, <2>4, CheckInRows
    <3>2. session[k].seen.status \notin Terminal
      BY <1>1, <3>1 DEF Known, AllAdmitted, Admitted
    <3> QED BY <2>2, <3>1, <3>2
  <2>5. CASE CompleteCommit(k)
    <3>1. session[k].op = "complete" /\ session[k].wo = w
      BY <1>1, <2>5, CompleteRows DEF Terminal
    <3>2. session[k].seen.status \notin Terminal
      BY <1>1, <3>1 DEF Known, AllAdmitted, Admitted
    <3> QED BY <2>2, <3>1, <3>2
  <2>6. CASE DeleteCommit(k)
    BY <1>1, <2>6, DeleteRows
  <2> HIDE DEF Stale
  <2> QED BY <2>1, <2>3, <2>4, <2>5, <2>6, OtherCommits
<1> QED BY <1>1, KnownInvariance, PTL DEF Spec, TerminalLeftByStale

\* It takes a check-in that the completion did not load, or one that loaded the order
\* before it was completed, to have somebody on an order whose work has ended.
THEOREM NobodyTheorem == Spec => NobodyOnEndedOrder
<1> DEFINE Overlap(w) == \E k \in Workers :
               \/ Commits(k, "complete", w) /\ ~(OpenCheckIns(w) \subseteq session[k].open)
               \/ Commits(k, "checkin", w) /\ session[k].seen.status # "completed"
           Nobody == \A w \in WorkOrders : ~OnEndedOrder(w) /\ OnEndedOrder(w)' => Overlap(w)
<1>1. ASSUME Known, [Next]_vars PROVE Nobody
  <2> SUFFICES ASSUME NEW w \in WorkOrders, ~OnEndedOrder(w), orders'[w].ended,
                      OpenCheckIns(w)' # {}
               PROVE  Overlap(w)
    BY DEF OnEndedOrder
  <2>0. ~(orders'[w].ended = orders[w].ended /\ OpenCheckIns(w)' \subseteq OpenCheckIns(w))
    BY DEF OnEndedOrder
  <2>1. PICK k \in Workers : Commit(k)
    BY <1>1, <2>0, OnlyCommitsWrite
  <2>2. session'[k] = Idle
    BY <1>1, <2>1, SessionsEnd DEF Known, IInv, TypeOK
  <2>a. ~(orders'[w].ended = orders[w].ended /\ UNCHANGED checkIns)
    BY <2>0 DEF OpenCheckIns
  <2>3. CASE PatchCommit(k)
    BY <1>1, <2>3, <2>a, PatchRows
  <2>4. ASSUME NEW c \in CheckIns, CheckInCommit(k, c) PROVE Overlap(w)
    <3>1. session[k].op = "checkin" /\ session[k].wo = w
      BY <1>1, <2>0, <2>4, CheckInRows
    <3>2. session[k].seen.status # "completed"
      BY <1>1, <3>1 DEF Known, AllAdmitted, Admitted, Terminal
    <3> QED BY <2>2, <3>1, <3>2 DEF Commits
  <2>5. CASE CompleteCommit(k)
    <3>1. /\ session[k].op = "complete"
          /\ OpenCheckIns(w)' = OpenCheckIns(w) \ session[k].open
          /\ orders'[w] = orders[w] \/ session[k].wo = w \/ ~orders'[w].ended
      BY <1>1, <2>5, CompleteRows
    <3>2. session[k].wo = w /\ ~(OpenCheckIns(w) \subseteq session[k].open)
      BY <2>0, <3>1
    <3> QED BY <2>2, <3>1, <3>2 DEF Commits
  <2>6. CASE DeleteCommit(k)
    BY <1>1, <2>6, <2>a, DeleteRows
  <2> HIDE DEF Overlap
  <2> QED BY <2>1, <2>a, <2>3, <2>4, <2>5, <2>6, OtherCommits
<1> QED BY <1>1, KnownInvariance, PTL DEF Spec, NobodyOnEndedOrder

\* An order gets to be in the trash and in progress only by a request that read it
\* before the other one committed.
THEOREM DeletedTheorem == Spec => DeletedNotInProgress
<1> DEFINE Overlap(w) == \E k \in Workers :
              \/ Commits(k, "delete", w) /\ session[k].seen.status # orders[w].status
              \/ /\ Commits(k, "patch", w) \/ Commits(k, "checkin", w)
                 /\ session[k].seen.deleted # orders[w].deleted
           Lost == \A w \in WorkOrders :
              orders'[w].deleted /\ orders'[w].status = "in_progress" =>
                 \/ orders[w].deleted /\ orders[w].status = "in_progress"
                 \/ Overlap(w)
<1>1. ASSUME Known, [Next]_vars PROVE Lost
  <2> SUFFICES ASSUME NEW w \in WorkOrders, orders'[w].deleted,
                      orders'[w].status = "in_progress",
                      ~(orders[w].deleted /\ orders[w].status = "in_progress")
               PROVE  Overlap(w)
    OBVIOUS
  <2>0. orders'[w] # orders[w]
    OBVIOUS
  <2>1. PICK k \in Workers : Commit(k)
    BY <1>1, <2>0, OnlyCommitsWrite
  <2>2. session'[k] = Idle /\ Admitted(session[k])
    BY <1>1, <2>1, SessionsEnd DEF Known, AllAdmitted, IInv, TypeOK
  <2>3. CASE PatchCommit(k)
    <3>1. session[k].op = "patch" /\ session[k].wo = w /\ orders[w].deleted
      BY <1>1, <2>0, <2>3, PatchRows
    <3>2. ~session[k].seen.deleted
      BY <2>2, <3>1 DEF Admitted
    <3> QED BY <2>2, <3>1, <3>2 DEF Commits
  <2>4. ASSUME NEW c \in CheckIns, CheckInCommit(k, c) PROVE Overlap(w)
    <3>1. session[k].op = "checkin" /\ session[k].wo = w /\ orders[w].deleted
      BY <1>1, <2>0, <2>4, CheckInRows
    <3>2. ~session[k].seen.deleted
      BY <2>2, <3>1 DEF Admitted
    <3> QED BY <2>2, <3>1, <3>2 DEF Commits
  <2>5. CASE CompleteCommit(k)
    BY <1>1, <2>0, <2>5, CompleteRows
  <2>6. CASE DeleteCommit(k)
    <3>1. session[k].op = "delete" /\ session[k].wo = w /\ orders[w].status = "in_progress"
      BY <1>1, <2>0, <2>6, DeleteRows
    <3>2. session[k].seen.status # "in_progress"
      BY <2>2, <3>1 DEF Admitted
    <3> QED BY <2>2, <3>1, <3>2 DEF Commits
  <2> HIDE DEF Overlap
  <2> QED BY <2>0, <2>1, <2>3, <2>4, <2>5, <2>6, OtherCommits
<1> QED BY <1>1, KnownInvariance, PTL DEF Spec, DeletedNotInProgress

\* Only /complete ends the work on an order.
LEMMA OnlyCompleteFinishes ==
    ASSUME Known, [Next]_vars, NEW w \in WorkOrders, Finishes(w)
    PROVE  \E k \in Workers : CompleteCommit(k) /\ Commits(k, "complete", w)
<1>0. orders'[w].ended # orders[w].ended
  BY DEF Finishes
<1>1. PICK k \in Workers : Commit(k)
  BY <1>0, OnlyCommitsWrite DEF Finishes
<1>2. session'[k] = Idle
  BY <1>1, SessionsEnd DEF Known, IInv, TypeOK
<1>3. ~PatchCommit(k)
  BY <1>0, PatchRows
<1>4. \A c \in CheckIns : ~CheckInCommit(k, c)
  BY <1>0, CheckInRows
<1>5. ~DeleteCommit(k)
  BY <1>0, DeleteRows
<1>6. CompleteCommit(k)
  BY <1>0, <1>1, <1>3, <1>4, <1>5, OtherCommits
<1>7. session[k].op = "complete" /\ session[k].wo = w
  BY <1>6, CompleteRows DEF Finishes
<1> QED BY <1>2, <1>6, <1>7 DEF Commits

\* A required task still open when the end of the work is recorded is one that /complete
\* had not seen so.
THEOREM RequiredTheorem == Spec => RequiredDoneAtCompletion
<1> DEFINE Checked == \A w \in WorkOrders :
              Finishes(w) =>
                 \E k \in Workers :
                    /\ Commits(k, "complete", w)
                    /\ \A t \in Tasks :
                         tasks[t].wo = w /\ tasks[t].required
                         /\ tasks[t].status \in {"pending", "blocked"} =>
                            session[k].tasks[t] # tasks[t]
<1>1. ASSUME Known, [Next]_vars PROVE Checked
  <2> SUFFICES ASSUME NEW w \in WorkOrders, Finishes(w)
               PROVE  \E k \in Workers :
                         /\ Commits(k, "complete", w)
                         /\ \A t \in Tasks :
                              tasks[t].wo = w /\ tasks[t].required
                              /\ tasks[t].status \in {"pending", "blocked"} =>
                                 session[k].tasks[t] # tasks[t]
    OBVIOUS
  <2>1. PICK k \in Workers : Commits(k, "complete", w)
    BY <1>1, OnlyCompleteFinishes
  <2>2. RequiredDone(session[k].tasks)
    BY <1>1, <2>1 DEF Known, AllAdmitted, Admitted, Commits
  <2> QED BY <2>1, <2>2 DEF RequiredDone, TaskDone
<1> QED BY <1>1, KnownInvariance, PTL DEF Spec, RequiredDoneAtCompletion

\* The next date is the first of those after the start.
LEMMA NextDateIsFirst ==
    ASSUME NEW start \in Nat, NEW rule, After(rule, start) # {}
    PROVE  start + 1 \in NextDates(rule, start)
<1>1. rule \in Rule
  BY DEF After
<1>2. rule.count \in Nat /\ rule.until \in Nat
  BY <1>1, DatesAssumption DEF Rule
<1> QED BY <1>1, <1>2 DEF After, NextDates

\* A completion spawns at most one order, later than its own and within its rule, of an
\* order it had not seen closed; it does spawn one if the rule has a date left.
THEOREM SpawnTheorem == Spec => SpawnsExactlyOne
<1> DEFINE One(k) ==
         /\ \A c \in WorkOrders : Appears(c) =>
               /\ session[k].op = "complete"
               /\ session[k].seen.date # None => session[k].seen.date < orders'[c].date
               /\ orders'[c].date <= session[k].seen.rule.until
               /\ orders[session[k].wo].status \in Terminal => OutOfDate(k)
               /\ \A d \in WorkOrders : Appears(d) => c = d
         /\ /\ session[k].op = "complete" /\ Finishes(session[k].wo)
            /\ session[k].seen.date # None
            /\ After(session[k].seen.rule, session[k].seen.date) # {}
            => \E c \in WorkOrders : Appears(c)
<1>1. ASSUME Known, [Next]_vars, NEW k \in Workers, session'[k] # session[k]
      PROVE  One(k)
  <2> DEFINE s == session[k]
  <2>0. ASSUME \A c \in WorkOrders : orders[c].status = "absent" => orders'[c] = orders[c],
               s.op # "complete" \/ ~Finishes(s.wo)
        PROVE  One(k)
    BY <2>0 DEF Appears
  <2>1. ASSUME \A j \in Workers : ~Commit(j) PROVE One(k)
    <3>1. UNCHANGED orders
      <4>1. PICK j \in Workers : Read(j)
        BY <1>1, <2>1 DEF Next, vars, CreateWorkOrder, CheckOut, GenerateInstances
      <4> QED BY <4>1, ReadsChangeNothing
    <3>2. \A c \in WorkOrders : ~Finishes(c) /\ ~Appears(c)
      BY <3>1 DEF Finishes, Appears
    <3>3. ASSUME s.op = "complete" PROVE ~Finishes(s.wo)
      BY <3>1 DEF Finishes
    <3> QED BY <2>0, <3>1, <3>3
  <2>2. ASSUME NEW j \in Workers, Commit(j) PROVE One(k)
    <3>1. j = k
      BY <1>1, <2>2, SessionsEnd DEF Known, IInv, TypeOK
    <3>2. CASE PatchCommit(k)
      BY <1>1, <2>0, <3>2, PatchRows
    <3>3. ASSUME NEW c \in CheckIns, CheckInCommit(k, c) PROVE One(k)
      BY <1>1, <2>0, <3>3, CheckInRows
    <3>4. CASE DeleteCommit(k)
      BY <1>1, <2>0, <3>4, DeleteRows
    <3>5. CASE CompleteCommit(k)
      <4>1. /\ s.op = "complete" /\ s.wo \in WorkOrders /\ s.seen \in OrderRow
            /\ Admitted(s) /\ orders[s.wo].status # "absent"
        BY <1>1, <3>5, CompleteRows, AtCommit
      <4>2. PICK start \in Start(s.seen) :
            \E kids \in Injection(NextDates(s.seen.rule, start), FreshOrders) :
            \A v \in WorkOrders :
               IF v \in Range(kids)
               THEN /\ orders[v].status = "absent" /\ orders'[v].status = "scheduled"
                    /\ ~orders'[v].deleted /\ ~orders'[v].ended
                    /\ orders'[v].date \in NextDates(s.seen.rule, start)
               ELSE orders'[v] = IF v = s.wo THEN Completed(orders[s.wo]) ELSE orders[v]
        BY <1>1, <3>5, CompleteRows
      <4>3. PICK kids \in Injection(NextDates(s.seen.rule, start), FreshOrders) :
            \A v \in WorkOrders :
               IF v \in Range(kids)
               THEN /\ orders[v].status = "absent" /\ orders'[v].status = "scheduled"
                    /\ ~orders'[v].deleted /\ ~orders'[v].ended
                    /\ orders'[v].date \in NextDates(s.seen.rule, start)
               ELSE orders'[v] = IF v = s.wo THEN Completed(orders[s.wo]) ELSE orders[v]
        BY <4>2
      <4>4. start \in Nat /\ (s.seen.date # None => start = s.seen.date)
        BY <4>1, DatesTyped DEF Start
      <4>5. \A d \in NextDates(s.seen.rule, start) :
               d = start + 1 /\ d <= s.seen.rule.until
        BY DEF NextDates, After
      <4>6. kids \in [NextDates(s.seen.rule, start) -> FreshOrders]
        BY DEF Injection
      <4>7. \A c \in WorkOrders : Appears(c) => c \in Range(kids)
        BY <4>1, <4>3 DEF Appears
      <4>8. \A c, d \in Range(kids) : c = d
        BY <4>5, <4>6 DEF Range
      <4>9. ASSUME orders[s.wo].status \in Terminal PROVE OutOfDate(k)
        <5>1. s.seen.status \notin Terminal
          BY <4>1 DEF Admitted
        <5>2. s.seen # orders[s.wo]
          BY <4>9, <5>1
        <5> QED BY <4>1, <5>2 DEF OutOfDate
      <4>10. ASSUME s.seen.date # None, After(s.seen.rule, s.seen.date) # {}
             PROVE  \E c \in WorkOrders : Appears(c)
        <5>1. start + 1 \in NextDates(s.seen.rule, start)
          BY <4>4, <4>10, NextDateIsFirst
        <5>2. kids[start + 1] \in Range(kids) /\ kids[start + 1] \in WorkOrders
          BY <4>6, <5>1 DEF Range, FreshOrders
        <5> QED BY <4>3, <5>2 DEF Appears
      <4>11. ASSUME NEW c \in WorkOrders, Appears(c)
             PROVE  /\ s.op = "complete"
                    /\ s.seen.date # None => s.seen.date < orders'[c].date
                    /\ orders'[c].date <= s.seen.rule.until
                    /\ orders[s.wo].status \in Terminal => OutOfDate(k)
                    /\ \A d \in WorkOrders : Appears(d) => c = d
        <5>1. orders'[c].date \in NextDates(s.seen.rule, start)
          BY <4>3, <4>7, <4>11
        <5>2. \A d \in WorkOrders : Appears(d) => c = d
          BY <4>7, <4>8, <4>11
        <5>3. orders'[c].date = start + 1 /\ orders'[c].date <= s.seen.rule.until
          BY <4>5, <5>1
        <5> QED BY <4>1, <4>4, <4>9, <5>2, <5>3
      <4> QED BY <4>10, <4>11
    <3>6. CASE UNCHANGED orders
      <4>1. ~Finishes(s.wo)
        BY <3>6 DEF Finishes
      <4> QED BY <2>0, <3>6, <4>1
    <3> HIDE DEF One
    <3> QED BY <2>2, <3>1, <3>2, <3>3, <3>4, <3>5, <3>6, OtherCommits
  <2> QED BY <2>1, <2>2
<1> DEFINE Spawns ==
      \A k \in Workers :
         LET s == session[k] IN
         session'[k] # s =>
            /\ \A c \in WorkOrders : Appears(c) =>
                  /\ s.op = "complete"
                  /\ s.seen.date # None => s.seen.date < orders'[c].date
                  /\ orders'[c].date <= s.seen.rule.until
                  /\ orders[s.wo].status \in Terminal => OutOfDate(k)
                  /\ \A d \in WorkOrders : Appears(d) => c = d
            /\ /\ s.op = "complete" /\ Finishes(s.wo)
               /\ s.seen.date # None /\ After(s.seen.rule, s.seen.date) # {}
               => \E c \in WorkOrders : Appears(c)
<1>2. Known /\ [Next]_vars => [Spawns]_vars
  BY <1>1
<1> QED BY <1>2, KnownInvariance, PTL DEF Spec, SpawnsExactlyOne

-----------------------------------------------------------------------------
(* The lifecycle. *)

Stages == [w \in WorkOrders |-> StageOf(orders[w])]

\* Orders somebody acts on who has loaded another stage of them.
Outdated == {w \in WorkOrders : \E k \in Workers :
                /\ session[k].op \in {"patch", "checkin", "complete", "delete"}
                /\ session[k].wo = w
                /\ StageOf(session[k].seen) # StageOf(orders[w])}

\* A step that changes one order's stage leaves the others where they are.
LEMMA OneStage ==
    ASSUME NEW w \in WorkOrders, \A v \in WorkOrders \ {w} : orders'[v] = orders[v]
    PROVE  Stages' = [Stages EXCEPT ![w] = StageOf(orders'[w])]
  BY DEF Stages

\* The state machine of the handlers is in the lifecycle's moves.
LEMMA TransitionsAreMoves ==
    ASSUME NEW from \in Status, NEW to \in ValidTransitions(from)
    PROVE  <<from, to>> \in Lifecycle!Moves
<1>1. CASE from = "draft"
  BY <1>1 DEF ValidTransitions, Lifecycle!Moves
<1>2. CASE from = "scheduled"
  BY <1>2 DEF ValidTransitions, Lifecycle!Moves
<1>3. CASE from = "in_progress"
  BY <1>3 DEF ValidTransitions, Lifecycle!Moves
<1>4. CASE from = "on_hold"
  BY <1>4 DEF ValidTransitions, Lifecycle!Moves
<1>5. CASE from \notin {"draft", "scheduled", "in_progress", "on_hold"}
  BY <1>5 DEF ValidTransitions, Status
<1> QED BY <1>1, <1>2, <1>3, <1>4, <1>5

\* A change of one order's stage by one move is a step of the lifecycle.
LEMMA MoveStep ==
    ASSUME NEW w \in WorkOrders, \A v \in WorkOrders \ {w} : orders'[v] = orders[v],
           NEW to \in Lifecycle!Stage, StageOf(orders'[w]) = to,
           <<StageOf(orders[w]), to>> \in Lifecycle!Moves
    PROVE  Lifecycle!Next
<1>1. Stages[w] = StageOf(orders[w]) /\ Stages' = [Stages EXCEPT ![w] = to]
  BY OneStage DEF Stages
<1>2. Lifecycle!Move(w)
  BY <1>1 DEF Lifecycle!Move, Stages
<1> QED BY <1>2 DEF Lifecycle!Next

\* So is any change of an outdated order, but back to a draft or out of the trash.
LEMMA OverwriteStep ==
    ASSUME NEW w \in Outdated, \A v \in WorkOrders \ {w} : orders'[v] = orders[v],
           StageOf(orders[w]) \notin {"absent", "deleted"},
           StageOf(orders'[w]) \in Lifecycle!Stage \ {"absent", "draft"}
    PROVE  Lifecycle!Next
<1> DEFINE to == StageOf(orders'[w])
<1>0. w \in WorkOrders
  BY DEF Outdated
<1>1. Stages[w] = StageOf(orders[w]) /\ Stages' = [Stages EXCEPT ![w] = to]
  BY <1>0, OneStage DEF Stages
<1> HIDE DEF to
<1>2. \E x \in Lifecycle!Stage \ {"absent", "draft"} : Stages' = [Stages EXCEPT ![w] = x]
  BY <1>1 DEF to
<1>3. w \in Outdated /\ Stages[w] \notin {"absent", "deleted"}
  BY <1>1
<1>4. Lifecycle!Overwrite(w)
  BY <1>2, <1>3 DEF Lifecycle!Overwrite, Stages, Outdated
<1> QED BY <1>0, <1>4 DEF Lifecycle!Next

\* A step that leaves the stage of the one order it writes is a stutter.
LEMMA SameStage ==
    ASSUME NEW w \in WorkOrders, \A v \in WorkOrders \ {w} : orders'[v] = orders[v],
           StageOf(orders'[w]) = StageOf(orders[w])
    PROVE  Stages' = Stages
  BY DEF Stages

\* A request either finds the order in the stage it has seen, or the order is outdated.
LEMMA SeenOrOutdated ==
    ASSUME Known, NEW k \in Workers,
           session[k].op \in {"patch", "checkin", "complete", "delete"}
    PROVE  LET s == session[k] IN
           \/ s.wo \in Outdated
           \/ ~orders[s.wo].deleted /\ orders[s.wo].status = s.seen.status
<1> DEFINE s == session[k]
<1>1. s.wo \in WorkOrders /\ s.seen \in OrderRow /\ orders[s.wo] \in OrderRow /\ Admitted(s)
  BY AtCommit
<1>2. StageOf(s.seen) = s.seen.status /\ s.seen.status # "deleted"
  BY <1>1 DEF StageOf, Admitted, OrderRow, Status
<1>3. CASE StageOf(s.seen) = StageOf(orders[s.wo])
  BY <1>1, <1>2, <1>3 DEF StageOf
<1>4. CASE StageOf(s.seen) # StageOf(orders[s.wo])
  BY <1>1, <1>4 DEF Outdated
<1> QED BY <1>3, <1>4

\* Every step is a step of the lifecycle or leaves every order where it is.
LEMMA LifecycleStep ==
    ASSUME Known, [Next]_vars
    PROVE  [Lifecycle!Next]_Stages
<1>1. ASSUME UNCHANGED orders PROVE [Lifecycle!Next]_Stages
  BY <1>1 DEF Stages
<1>2. ASSUME NEW w \in WorkOrders, NEW newTasks \in SUBSET FreshTasks,
             NEW rule \in RuleText, NEW date, NEW required \in SUBSET newTasks,
             CreateWorkOrder(w, newTasks, required, rule, date)
      PROVE  [Lifecycle!Next]_Stages
  <2>1. /\ orders[w].status = "absent" /\ ~orders[w].deleted
        /\ orders'[w].status = "draft" /\ ~orders'[w].deleted
        /\ \A v \in WorkOrders \ {w} : orders'[v] = orders[v]
    BY <1>2, CreateAdds DEF Known, IInv, NotYetDeleted
  <2>2. /\ StageOf(orders[w]) = "absent" /\ StageOf(orders'[w]) = "draft"
        /\ Stages' = [Stages EXCEPT ![w] = StageOf(orders'[w])]
    <3>1. Stages' = [Stages EXCEPT ![w] = StageOf(orders'[w])]
      BY <2>1, OneStage
    <3> QED BY <2>1, <3>1 DEF StageOf
  <2>3. Lifecycle!Draft(w)
    BY <2>2 DEF Lifecycle!Draft, Stages
  <2> QED BY <2>3 DEF Lifecycle!Next
<1>3. ASSUME NEW w \in WorkOrders, NEW until \in Horizons, GenerateInstances(w, until)
      PROVE  [Lifecycle!Next]_Stages
  <2>1. PICK instances \in SUBSET FreshOrders :
           \A v \in WorkOrders :
              IF v \in instances
              THEN orders'[v].status = "scheduled" /\ ~orders'[v].deleted /\ ~orders'[v].ended
              ELSE orders'[v] = orders[v]
    BY <1>3, GenerateAdds
  <2>2. instances \in SUBSET WorkOrders /\ \A v \in instances : Stages[v] = "absent"
    BY DEF FreshOrders, Known, IInv, NotYetDeleted, Stages, StageOf
  <2>3. Stages' = [v \in WorkOrders |-> IF v \in instances THEN "scheduled" ELSE Stages[v]]
    BY <2>1 DEF Stages, StageOf
  <2>4. Lifecycle!Plan(instances)
    BY <2>2, <2>3 DEF Lifecycle!Plan, Stages
  <2> QED BY <2>2, <2>4 DEF Lifecycle!Next
<1>4. ASSUME NEW k \in Workers, PatchCommit(k) PROVE [Lifecycle!Next]_Stages
  <2> DEFINE s == session[k]
             w == s.wo
             old == orders[w]
             new == orders'[w]
  <2>1. /\ s.op = "patch" /\ w \in WorkOrders /\ \A v \in WorkOrders \ {w} : orders'[v] = orders[v]
        /\ old \in OrderRow /\ old.status # "absent"
        /\ s.status \in Status \ {"draft"} \/ s.status = s.seen.status
        /\ new.status = IF s.status = s.seen.status THEN old.status ELSE s.status
        /\ new.deleted = old.deleted
    BY <1>4, PatchRows
  <2>2. s.seen \in OrderRow /\ Admitted(s)
    BY <2>1, AtCommit
  <2>3. CASE old.deleted \/ s.status = s.seen.status
    <3>1. StageOf(new) = StageOf(old)
      BY <2>1, <2>3 DEF StageOf
    <3> QED BY <2>1, <3>1, SameStage
  <2>4. CASE ~old.deleted /\ s.status # s.seen.status
    <3>1. /\ StageOf(old) = old.status /\ StageOf(new) = s.status
          /\ s.status \in Status \ {"draft"}
      BY <2>1, <2>4 DEF StageOf
    <3>2. /\ StageOf(new) \in Lifecycle!Stage \ {"absent", "draft"}
          /\ StageOf(old) \notin {"absent", "deleted"}
      BY <2>1, <3>1 DEF Status, OrderRow, Lifecycle!Stage
    <3>3. CASE w \in Outdated
      BY <2>1, <3>2, <3>3, OverwriteStep
    <3>4. CASE old.status = s.seen.status
      <4>1. old.status \in Status /\ s.status \in ValidTransitions(old.status)
        BY <2>1, <2>2, <2>4, <3>4 DEF Admitted, OrderRow
      <4>2. <<StageOf(old), StageOf(new)>> \in Lifecycle!Moves
        BY <3>1, <4>1, TransitionsAreMoves
      <4> QED BY <2>1, <3>2, <4>2, MoveStep
    <3> QED BY <2>1, <3>3, <3>4, SeenOrOutdated
  <2> QED BY <2>3, <2>4
<1>5. ASSUME NEW k \in Workers, NEW c \in CheckIns, CheckInCommit(k, c)
      PROVE  [Lifecycle!Next]_Stages
  <2> DEFINE s == session[k]
             w == s.wo
             old == orders[w]
             new == orders'[w]
  <2>1. /\ s.op = "checkin" /\ w \in WorkOrders
        /\ \A v \in WorkOrders \ {w} : orders'[v] = orders[v]
        /\ old \in OrderRow /\ old.status # "absent" /\ new.deleted = old.deleted
        /\ \/ new = old
           \/ s.seen.status \in {"draft", "scheduled"} /\ new.status = "in_progress"
    BY <1>5, CheckInRows
  <2>2. CASE old.deleted \/ new = old
    <3>1. StageOf(new) = StageOf(old)
      BY <2>1, <2>2 DEF StageOf
    <3> QED BY <2>1, <3>1, SameStage
  <2>3. CASE ~old.deleted /\ new # old
    <3>1. /\ StageOf(old) = old.status /\ StageOf(new) = "in_progress"
          /\ s.seen.status \in {"draft", "scheduled"}
      BY <2>1, <2>3 DEF StageOf
    <3>2. /\ StageOf(new) \in Lifecycle!Stage \ {"absent", "draft"}
          /\ StageOf(old) \notin {"absent", "deleted"}
      BY <2>1, <3>1 DEF Status, OrderRow, Lifecycle!Stage
    <3>3. CASE w \in Outdated
      BY <2>1, <3>2, <3>3, OverwriteStep
    <3>4. CASE old.status = s.seen.status
      <4>1. <<StageOf(old), StageOf(new)>> \in Lifecycle!Moves
        BY <3>1, <3>4 DEF Lifecycle!Moves
      <4> QED BY <2>1, <3>2, <4>1, MoveStep
    <3> QED BY <2>1, <3>3, <3>4, SeenOrOutdated
  <2> QED BY <2>2, <2>3
<1>6. ASSUME NEW k \in Workers, CompleteCommit(k) PROVE [Lifecycle!Next]_Stages
  <2> DEFINE s == session[k]
  <2>1. PICK w : w = s.wo
    OBVIOUS
  <2>2. /\ s.op = "complete" /\ w \in WorkOrders /\ orders[w] \in OrderRow
        /\ orders[w].status # "absent"
        /\ Completed(orders[w]).status = "completed"
        /\ Completed(orders[w]).deleted = orders[w].deleted
    BY <1>6, <2>1, CompleteRows
  <2>3. PICK start \in Start(s.seen) :
        \E kids \in Injection(NextDates(s.seen.rule, start), FreshOrders) :
        \A v \in WorkOrders :
           IF v \in Range(kids)
           THEN /\ orders[v].status = "absent" /\ orders'[v].status = "scheduled"
                /\ ~orders'[v].deleted /\ ~orders'[v].ended
                /\ orders'[v].date \in NextDates(s.seen.rule, start)
           ELSE orders'[v] = IF v = w THEN Completed(orders[w]) ELSE orders[v]
    BY <1>6, <2>1, CompleteRows
  <2>4. PICK kids \in Injection(NextDates(s.seen.rule, start), FreshOrders) :
        \A v \in WorkOrders :
           IF v \in Range(kids)
           THEN /\ orders[v].status = "absent" /\ orders'[v].status = "scheduled"
                /\ ~orders'[v].deleted /\ ~orders'[v].ended
                /\ orders'[v].date \in NextDates(s.seen.rule, start)
           ELSE orders'[v] = IF v = w THEN Completed(orders[w]) ELSE orders[v]
    BY <2>3
  <2>5. /\ Range(kids) \in SUBSET WorkOrders /\ w \notin Range(kids)
        /\ \A c, d \in Range(kids) : c = d
    <3>1. kids \in [NextDates(s.seen.rule, start) -> FreshOrders]
      BY DEF Injection
    <3>2. \A c, d \in NextDates(s.seen.rule, start) : c = d
      BY DEF NextDates
    <3>3. Range(kids) \in SUBSET FreshOrders
      BY <3>1 DEF Range
    <3>4. \A c, d \in Range(kids) : c = d
      BY <3>1, <3>2 DEF Range
    <3> QED BY <2>2, <3>3, <3>4 DEF FreshOrders
  <2>6. \A v \in Range(kids) : Stages[v] = "absent"
    BY <2>4, <2>5 DEF Known, IInv, NotYetDeleted, Stages, StageOf
  <2>7. \/ Stages[w] \in {"draft", "scheduled", "in_progress", "on_hold"}
        \/ Stages[w] # "absent" /\ w \in Outdated
    <3>1. Stages[w] = StageOf(orders[w]) /\ StageOf(orders[w]) # "absent"
      BY <2>2 DEF Stages, StageOf
    <3>2. CASE ~orders[w].deleted /\ orders[w].status = s.seen.status
      <4>1. s.seen.status \notin Terminal
        BY <2>2 DEF Known, AllAdmitted, Admitted
      <4> QED BY <2>2, <3>1, <3>2, <4>1 DEF StageOf, OrderRow, Status, Terminal
    <3> QED BY <2>1, <2>2, <3>1, <3>2, SeenOrOutdated
  <2>8. Stages' = [c \in WorkOrders |-> CASE c = w /\ Stages[w] = "deleted" -> "deleted"
                                          [] c = w /\ Stages[w] # "deleted" -> "completed"
                                          [] c \in Range(kids) -> "scheduled"
                                          [] OTHER -> Stages[c]]
    <3>1. ASSUME NEW c \in WorkOrders
          PROVE  StageOf(orders'[c]) = CASE c = w /\ Stages[w] = "deleted" -> "deleted"
                                         [] c = w /\ Stages[w] # "deleted" -> "completed"
                                         [] c \in Range(kids) -> "scheduled"
                                         [] OTHER -> StageOf(orders[c])
      <4>1. CASE c = w
        <5>1. orders'[w] = Completed(orders[w]) /\ w \notin Range(kids)
          BY <2>2, <2>4, <2>5
        <5>2. Stages[w] = "deleted" <=> orders[w].deleted
          BY <2>2 DEF Stages, StageOf, OrderRow, Status
        <5> QED BY <2>2, <4>1, <5>1, <5>2 DEF StageOf
      <4>2. CASE c # w /\ c \in Range(kids)
        BY <2>4, <4>2 DEF StageOf
      <4>3. CASE c # w /\ c \notin Range(kids)
        BY <2>4, <4>3
      <4> QED BY <4>1, <4>2, <4>3
    <3> QED BY <3>1 DEF Stages
  <2>9. Lifecycle!Finish(w)
    <3>1. Range(kids) \in SUBSET {c \in WorkOrders : Stages[c] = "absent"}
      BY <2>5, <2>6
    <3> QED BY <2>5, <2>7, <2>8, <3>1 DEF Lifecycle!Finish, Stages, Outdated
  <2> QED BY <2>2, <2>9 DEF Lifecycle!Next
<1>7. ASSUME NEW k \in Workers, DeleteCommit(k) PROVE [Lifecycle!Next]_Stages
  <2> DEFINE s == session[k]
             w == s.wo
             old == orders[w]
             new == orders'[w]
  <2>1. /\ s.op = "delete" /\ w \in WorkOrders
        /\ \A v \in WorkOrders \ {w} : orders'[v] = orders[v]
        /\ old \in OrderRow /\ old.status # "absent" /\ new.deleted
    BY <1>7, DeleteRows
  <2>2. StageOf(new) = "deleted"
    BY <2>1 DEF StageOf
  <2>3. CASE old.deleted
    BY <2>1, <2>2, <2>3, SameStage DEF StageOf
  <2>4. CASE ~old.deleted
    <3>1. StageOf(old) = old.status /\ old.status \notin {"absent", "deleted"}
      BY <2>1, <2>4 DEF StageOf, OrderRow, Status
    <3>2. CASE w \in Outdated
      BY <2>1, <2>2, <3>1, <3>2, OverwriteStep DEF Lifecycle!Stage
    <3>3. CASE old.status = s.seen.status
      <4>1. Stages[w] = old.status /\ Stages' = [Stages EXCEPT ![w] = "deleted"]
        BY <2>1, <2>2, <3>1, OneStage DEF Stages
      <4>2. s.seen.status # "in_progress"
        BY <2>1 DEF Known, AllAdmitted, Admitted
      <4>3. Stages[w] \in Lifecycle!Stage \ {"absent", "in_progress", "deleted"}
        BY <2>1, <3>1, <3>3, <4>1, <4>2 DEF OrderRow, Status, Lifecycle!Stage
      <4>4. Lifecycle!Delete(w)
        BY <4>1, <4>3 DEF Lifecycle!Delete, Stages
      <4> QED BY <2>1, <4>4 DEF Lifecycle!Next
    <3> QED BY <2>1, <3>2, <3>3, SeenOrOutdated
  <2> QED BY <2>3, <2>4
<1>8. ASSUME NEW k \in Workers, Commit(k) PROVE [Lifecycle!Next]_Stages
  BY <1>1, <1>4, <1>5, <1>6, <1>7, <1>8, OtherCommits
<1> QED BY <1>1, <1>2, <1>3, <1>8, ReadsChangeNothing DEF Next, CheckOut, vars

\* The requests implement the lifecycle, however they interleave.
THEOREM LifecycleTheorem == Spec => ImplementsLifecycle
<1>1. Init => Lifecycle!Init
  BY DEF Init, Lifecycle!Init, NoOrder, NewOrder, StageOf
<1>2. Known /\ [Next]_vars => [Lifecycle!Next]_Stages
  BY LifecycleStep
<1> QED BY <1>1, <1>2, KnownInvariance, PTL
        DEF Spec, ImplementsLifecycle, Lifecycle!Spec, Stages

=============================================================================
