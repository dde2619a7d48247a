----------------------------- MODULE MCInvoices -----------------------------
(* The invoice model on a small instance, kept to one invoice that is edited and paid, or  *)
(* to two that bill work orders.                                                           *)
EXTENDS Invoices, TLC

Symmetry == Permutations(Invoices) \cup Permutations(Jobs) \cup Permutations(Workers)

Present == {i \in Invoices : Exists(i)}
Serves(ops) == {k \in Workers : session[k].op \in ops}

\* One invoice, made by hand: no property about amounts relates several.
OneInvoice ==
    /\ Cardinality(Present) + Cardinality(Serves({"number", "insert"})) <= 1
    /\ \A i \in Present : invoices[i].jobs = {}
    /\ \A k \in Serves({"number", "insert"}) : session[k].jobs = {}

\* Numbering and billing do not depend on the amounts: one rate, no discount, one payment,
\* no edits.
Plain(row) == AmountsOf(row) = <<0, 0, 0, row.subtotal>>
OneAmount ==
    /\ \A i \in Present : Plain(invoices[i]) /\ received[i] <= 1
    /\ Serves({"update"}) = {}
    /\ \A k \in Serves({"number", "insert"}) : session[k].rate = 0 /\ session[k].discount = 0
    /\ \A k \in Serves({"send", "payment", "settle", "void"}) : Plain(session[k].seen)
    /\ \A k \in Serves({"payment", "settle"}) : session[k].amount = 1

OneInvoiceOrAmount == OneInvoice \/ OneAmount
=============================================================================
