---------------------------- MODULE InvoiceLedger ----------------------------
(***************************************************************************)
(* What the invoice API promises: an amount due, fixed once the invoice    *)
(* leaves the draft stage; an amount got, which decides between partial and *)
(* settled; and a void that nothing follows.  Only of an invoice that is   *)
(* outdated (somebody is acting on a stage or an amount of it that has     *)
(* changed since) it promises less: the amount got never falls, and there  *)
(* is no way back to a draft.  Which invoices are outdated is for others to *)
(* say.                                                                    *)
(***************************************************************************)
EXTENDS Integers

CONSTANT Invoices

VARIABLES stage, due, got, outdated

ledger == <<stage, due, got>>

Init ==
    /\ stage = [i \in Invoices |-> "none"]
    /\ due = [i \in Invoices |-> 0]
    /\ got = [i \in Invoices |-> 0]

\* A new draft, or a draft edited.
Draft(i) ==
    /\ stage[i] \in {"none", "draft"}
    /\ stage' = [stage EXCEPT ![i] = "draft"]
    /\ due' = [due EXCEPT ![i] = due'[i]]
    /\ UNCHANGED got

Issue(i) ==
    /\ stage[i] = "draft"
    /\ stage' = [stage EXCEPT ![i] = "issued"]
    /\ UNCHANGED <<due, got>>

Receive(i) ==
    /\ stage[i] \notin {"none", "void"}
    /\ got'[i] >= got[i]
    /\ got'[i] > 0 \/ got'[i] >= due[i]
    /\ got' = [got EXCEPT ![i] = got'[i]]
    /\ stage' = [stage EXCEPT ![i] = IF got'[i] >= due[i] THEN "settled" ELSE "partial"]
    /\ UNCHANGED due

Void(i) ==
    /\ stage[i] \in {"draft", "issued", "partial"}
    /\ stage' = [stage EXCEPT ![i] = "void"]
    /\ UNCHANGED <<due, got>>

\* An edit of what is no draft any more.
Revise(i) ==
    /\ i \in outdated
    /\ stage[i] # "none"
    /\ due' = [due EXCEPT ![i] = due'[i]]
    /\ UNCHANGED <<stage, got>>

Overwrite(i) ==
    /\ i \in outdated
    /\ stage[i] # "none"
    /\ got'[i] >= got[i]
    /\ got' = [got EXCEPT ![i] = got'[i]]
    /\ \E to \in {stage[i], "issued", "partial", "settled", "void"} :
          stage' = [stage EXCEPT ![i] = to]
    /\ UNCHANGED due

Next ==
    \E i \in Invoices :
        Draft(i) \/ Issue(i) \/ Receive(i) \/ Void(i) \/ Revise(i) \/ Overwrite(i)

Spec == Init /\ [][Next]_ledger
=============================================================================
