---------------------------- MODULE MCDeployment ----------------------------
(* The deployment model on a small instance. *)
EXTENDS Deployment, FiniteSets

\* Beside the servers at most two things happen that nobody is obliged to do: a run
\* that people or schedules start, or a crash; beside a production container, whose
\* restarts never end, at most one.  No fair step is cut off.
TwoEvents ==
    Cardinality({p \in Deploys \cup Resets \cup Seedings \cup Downgrades : proc[p].step > 0})
    + crashes <= IF production THEN 1 ELSE 2
=============================================================================
