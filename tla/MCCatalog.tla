------------------------------ MODULE MCCatalog ------------------------------
(* The catalog model on small instances. *)
EXTENDS Catalog, Naturals, FiniteSets, TLC

Symmetry == Permutations(Clients) \cup Permutations(Codes) \cup Permutations(Locations)
            \cup Permutations(WorkOrders) \cup Permutations(Workers)

\* Two clients, two locations or two orders, but not two of several kinds; QR
\* codes only before there are orders or a second client; and races about two
\* things at most, about one when there are QR codes or two of a kind.
OnePair ==
    LET pairOfClients == \A c \in Clients : clients[c] # NoClient
        pairOfLocations == \A l \in Locations : locations[l] # NoLocation
        pairOfOrders == \A w \in WorkOrders : orders[w] # NoOrder
        anOrder == \E w \in WorkOrders : orders[w] # NoOrder
        tokens == \/ \E l \in Locations : locations[l].token # None
                  \/ \E k \in Workers : session[k].about \cap Tokens # {}
    IN  /\ ~(pairOfClients /\ pairOfLocations)
        /\ ~(pairOfClients /\ pairOfOrders)
        /\ ~(pairOfLocations /\ pairOfOrders)
        /\ tokens => ~anOrder /\ ~pairOfClients
        /\ Cardinality(raced) <= (IF tokens \/ pairOfClients \/ pairOfLocations \/ pairOfOrders
                                  THEN 1 ELSE 2)
=============================================================================
