-------------------------- MODULE WorkOrderLifecycle --------------------------
(***************************************************************************)
(* What the work order API promises its users, without sessions, tables or *)
(* columns: each order is in one stage, moves along the state machine, and *)
(* work done may put one next occurrence on the schedule.  Only of an order *)
(* that is outdated (somebody is acting on a stage it has left since) it    *)
(* promises less: it may go anywhere but back to where orders begin, and    *)
(* out of the trash never.  Which orders are outdated is for others to say. *)
(***************************************************************************)
EXTENDS FiniteSets

CONSTANT WorkOrders

VARIABLES stage, outdated

Stage == {"absent", "draft", "scheduled", "in_progress", "on_hold",
          "completed", "cancelled", "deleted"}

\* The planner's moves, and the move of a crew that arrives on site.
Moves == {<<"draft", "scheduled">>, <<"scheduled", "on_hold">>, <<"on_hold", "scheduled">>,
          <<"scheduled", "in_progress">>, <<"on_hold", "in_progress">>,
          <<"draft", "in_progress">>,
          <<"in_progress", "on_hold">>, <<"in_progress", "completed">>}
         \cup ({"draft", "scheduled", "in_progress", "on_hold"} \X {"cancelled"})

Init == stage = [w \in WorkOrders |-> "absent"]

Draft(w) ==
    /\ stage[w] = "absent"
    /\ stage' = [stage EXCEPT ![w] = "draft"]

Move(w) ==
    \E to \in Stage :
        /\ <<stage[w], to>> \in Moves
        /\ stage' = [stage EXCEPT ![w] = to]

\* The order is done; at most one new order appears, scheduled.
Finish(w) ==
    \E spawned \in SUBSET {c \in WorkOrders : stage[c] = "absent"} :
        /\ \/ stage[w] \in {"draft", "scheduled", "in_progress", "on_hold"}
           \/ stage[w] # "absent" /\ w \in outdated
        /\ \A c, d \in spawned : c = d
        /\ stage' = [c \in WorkOrders |-> CASE c = w /\ stage[w] = "deleted" -> "deleted"
                                            [] c = w /\ stage[w] # "deleted" -> "completed"
                                            [] c \in spawned -> "scheduled"
                                            [] OTHER -> stage[c]]

Plan(instances) ==
    /\ \A c \in instances : stage[c] = "absent"
    /\ stage' = [c \in WorkOrders |-> IF c \in instances THEN "scheduled" ELSE stage[c]]

Delete(w) ==
    /\ stage[w] \in Stage \ {"absent", "in_progress", "deleted"}
    /\ stage' = [stage EXCEPT ![w] = "deleted"]

Overwrite(w) ==
    /\ w \in outdated
    /\ stage[w] \notin {"absent", "deleted"}
    /\ \E to \in Stage \ {"absent", "draft"} : stage' = [stage EXCEPT ![w] = to]

Next ==
    \/ \E w \in WorkOrders : Draft(w) \/ Move(w) \/ Finish(w) \/ Delete(w) \/ Overwrite(w)
    \/ \E instances \in SUBSET WorkOrders : Plan(instances)

Spec == Init /\ [][Next]_stage
=============================================================================
