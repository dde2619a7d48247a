-------------------------------- MODULE MCStaff --------------------------------
(* The staff model on small instances. *)
EXTENDS Staff, FiniteSets, TLC

Symmetry == Permutations(Tenants) \cup Permutations(Emails) \cup Permutations(Users)
            \cup Permutations(Crews) \cup Permutations(Codes \ {Blank}) \cup Permutations(Workers)

Hired == {u \in Users : users[u].tenant # None}
UserRequests == {"create_user", "update_user", "deactivate_user"}
CrewRequests == {"create_crew", "update_crew", "add_member"}
InFlight(ops) == \E k \in Workers : session[k].op \in ops

\* Either people are hired and moved about, two requests at a time as long as there
\* are two of them in one tenant, or two users of one tenant form two crews, or one
\* crew with members; a client's user may do what an employee may; races are about
\* one thing.
Small ==
    LET tenants == {users[u].tenant : u \in Hired}
        serving == {k \in Workers : session[k] # Idle}
        joining == InFlight({"add_member"}) \/ \E m \in DOMAIN members : members[m] # "none"
        forming == InFlight(CrewRequests) \/ \E c \in Crews : crews[c] # NoCrew
    IN  /\ Cardinality(raced) <= 1
        /\ Cardinality(serving) > 1 => Cardinality(Hired) <= 2 /\ Cardinality(tenants) <= 1
        /\ forming => /\ ~InFlight(UserRequests)
                      /\ Cardinality(Hired) <= 2 /\ Cardinality(tenants) = 1
        /\ joining => \E c \in Crews : crews[c] = NoCrew
        /\ \A u \in Users : users[u].role # "client_user"
        /\ \A k \in Workers : session[k].op \in {"create_user", "update_user"} =>
                                 session[k].role # "client_user"
=============================================================================
