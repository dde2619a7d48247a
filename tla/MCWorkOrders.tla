---------------------------- MODULE MCWorkOrders ----------------------------
(* The work order model on a small instance, kept to one order with its task and its      *)
(* check-ins, or to one series of bare orders.                                            *)
EXTENDS WorkOrders, TLC

\* Ids of orders and tasks are interchangeable, and so are users and workers.
Symmetry == Permutations(WorkOrders) \cup Permutations(Tasks)
            \cup Permutations(Users) \cup Permutations(Workers)

Present == {w \in WorkOrders : orders[w].status # "absent"}
TasksInUse == {t \in Tasks : tasks[t].wo # None}
Patches == {k \in Workers : session[k].op = "patch"}

\* Nothing depends on what date and rule the order has; it has tasks or check-ins, since no
\* property relates the two; and of two requests one is about the order itself.
OneOrder ==
    /\ Cardinality(Present) <= 1
    /\ \A w \in Present : orders[w].rule = None /\ orders[w].date = None
    /\ \A k \in Patches : session[k].rule = None /\ session[k].date = None
    /\ TasksInUse # {} \/ (\E k \in Workers : session[k].op = "add_task") =>
          /\ \A c \in CheckIns : checkIns[c] = NoCheckIn
          /\ \A k \in Workers : session[k].op # "checkin"
    /\ \A j, k \in Workers :
          j = k \/ ~({session[j].op, session[k].op} \subseteq {"add_task", "update_task"})

\* Orders are not held or cancelled, once there are instances nothing but the date is edited
\* and nothing deleted, with three orders they are completed and no more; a patch writes one
\* field; of two requests one is a completion, the only handler that reads and writes more
\* than one order.
OneSeries ==
    /\ TasksInUse = {} /\ \A c \in CheckIns : checkIns[c] = NoCheckIn
    /\ \A k \in Workers : session[k].op \notin {"add_task", "checkin"}
    /\ Cardinality({w \in Present : orders[w].parent = None}) <= 1
    /\ \A w \in Present : orders[w].status \notin {"on_hold", "cancelled"}
    /\ \A k \in Patches :
          LET s == session[k] IN
          /\ s.status \notin {"on_hold", "cancelled"}
          /\ Cardinality({n \in 1 .. 3 : <<s.status, s.rule, s.date>>[n]
                            # <<s.seen.status, s.seen.rule, s.seen.date>>[n]}) <= 1
          /\ Cardinality(Present) > 1 => s.rule = s.seen.rule /\ s.status = s.seen.status
          /\ Cardinality(Present) < 3
    /\ \A k \in Workers : session[k].op = "delete" => Cardinality(Present) = 1
    /\ \A j, k \in Workers :
          j # k /\ session[j] # Idle /\ session[k] # Idle =>
             "complete" \in {session[j].op, session[k].op}

OneOrderOrSeries == OneOrder \/ OneSeries
=============================================================================
