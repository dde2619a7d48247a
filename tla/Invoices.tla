------------------------------- MODULE Invoices -------------------------------
(***************************************************************************)
(* Invoices and their payments:                                            *)
(*   backend/app/api/v1/invoices.py, backend/app/services/invoice_service.py *)
(*                                                                         *)
(* As in WorkOrders, a request reads in one step (or several, where it     *)
(* queries again) and commits in another.  Money is in cents and a tax rate *)
(* in halves, so that a tax may have to be rounded to a cent.  An invoice's *)
(* lines never change after it is created, so they are kept as the         *)
(* completed work orders they bill and their sum.                          *)
(***************************************************************************)
EXTENDS Naturals, Integers, FiniteSets

CONSTANTS
    Invoices,    \* ids an invoices row may get
    Jobs,        \* completed work orders of one client
    JobPrice,    \* hours * rate of one work order
    Subtotals,   \* sums of the lines of an invoice made by hand
    Rates,       \* tax_rate, in halves
    Discounts,   \* discount_amount
    Amounts,     \* payment amounts; 0: a positive one that rounds to 0.00
    MaxReceived, \* bound on the payments recorded per invoice
    Workers      \* requests that can be in flight at the same time

ASSUME AmountsAssumption ==
    /\ JobPrice \in Nat /\ Subtotals \subseteq Nat /\ Rates \subseteq Nat
    /\ Discounts \subseteq Nat /\ Amounts \subseteq Nat /\ MaxReceived \in Nat
    /\ IsFiniteSet(Jobs)

VARIABLES
    invoices,  \* invoices with their line items
    received,  \* the sum of the invoice's payments
    session    \* what the request each worker is serving has read

vars == <<invoices, received, session>>

-----------------------------------------------------------------------------

\* viewed and overdue are declared too, but nothing in the code sets them.
Status == {"draft", "sent", "partial", "paid", "void"}

\* number 0: no such row.  sent, paid: sent_at and paid_at are set.
InvoiceRow == [number : Nat, status : Status, jobs : SUBSET Jobs,
               subtotal : Nat, rate : Nat, tax : Nat, discount : Nat, total : Int,
               sent : BOOLEAN, paid : BOOLEAN]

\* A Numeric(12, 2) column rounds half a cent away from zero; sums and products are
\* exact before, and counted in half cents.
Cents(halves) ==
    IF halves >= 0 THEN (halves + 1) \div 2 ELSE -((1 - halves) \div 2)
ExactTax(subtotal, rate) == subtotal * rate
ExactTotal(subtotal, rate, discount) == 2 * subtotal + ExactTax(subtotal, rate) - 2 * discount

NewInvoice(number, jobs, subtotal, rate, discount) ==
    [number |-> number, status |-> "draft", jobs |-> jobs,
     subtotal |-> subtotal, rate |-> rate, tax |-> Cents(ExactTax(subtotal, rate)),
     discount |-> discount, total |-> Cents(ExactTotal(subtotal, rate, discount)),
     sent |-> FALSE, paid |-> FALSE]

NoInvoice == NewInvoice(0, {}, 0, 0, 0)
Idle == [op |-> "idle"]

Exists(i) == invoices[i].number # 0
Numbers == {invoices[i].number : i \in Invoices} \ {0}

Begin(k, request) ==
    /\ session[k] = Idle
    /\ session' = [session EXCEPT ![k] = request]
    /\ UNCHANGED <<invoices, received>>

Serving(k, op) == session[k].op = op
Done(k) == session' = [session EXCEPT ![k] = Idle]

\* An exception rolls the request back: the unique constraint on the invoice
\* number, a bad payload, a lost connection.
Rollback(k) ==
    /\ session[k] # Idle
    /\ Done(k)
    /\ UNCHANGED <<invoices, received>>

-----------------------------------------------------------------------------
(* POST /invoices/from-work-orders and POST /invoices.                     *)

InvoicedByDraft(job) ==
    \E i \in Invoices : Exists(i) /\ job \in invoices[i].jobs /\ invoices[i].status = "draft"

\* The invoices _work_order_has_invoice looks at.
Counting == {i \in Invoices : Exists(i) /\ invoices[i].status # "void"}
Invoiced(job) == \E i \in Counting : job \in invoices[i].jobs

BillJobsCheck(k, jobs, rate) ==
    /\ jobs # {}
    /\ \A job \in jobs : ~Invoiced(job)
    /\ Begin(k, [op |-> "number", jobs |-> jobs, subtotal |-> JobPrice * Cardinality(jobs),
                 rate |-> rate, discount |-> 0, counted |-> Counting])

BillByHand(k, subtotal, rate, discount) ==
    Begin(k, [op |-> "number", jobs |-> {}, subtotal |-> subtotal,
              rate |-> rate, discount |-> discount, counted |-> {}])

\* One past the highest number in use, by a query of its own.
TakeNumber(k) ==
    /\ Serving(k, "number")
    /\ \E last \in Numbers \cup {0} :
          /\ \A n \in Numbers : n <= last
          /\ session' = [session EXCEPT ![k] =
                [op |-> "insert", number |-> last + 1, jobs |-> @.jobs,
                 subtotal |-> @.subtotal, rate |-> @.rate, discount |-> @.discount,
                 counted |-> @.counted]]
    /\ UNCHANGED <<invoices, received>>

InsertInvoiceUnchecked(k, i) ==
    LET s == session[k] IN
    /\ Serving(k, "insert")
    /\ ~Exists(i)
    /\ invoices' = [invoices EXCEPT ![i] =
                      NewInvoice(s.number, s.jobs, s.subtotal, s.rate, s.discount)]
    /\ Done(k)
    /\ UNCHANGED received

\* The unique constraint on (tenant_id, invoice_number) refuses a number in use.
InsertInvoice(k, i) ==
    LET s == session[k] IN
    /\ Serving(k, "insert")
    /\ ~Exists(i)
    /\ s.number \notin Numbers
    /\ invoices' = [invoices EXCEPT ![i] =
                      NewInvoice(s.number, s.jobs, s.subtotal, s.rate, s.discount)]
    /\ Done(k)
    /\ UNCHANGED received

-----------------------------------------------------------------------------
(* PATCH /invoices/{id}.  A payload value equal to the loaded one stands for *)
(* a field the payload leaves out.                                          *)

UpdateRead(k, i, rate, discount) ==
    /\ Exists(i)
    /\ invoices[i].status = "draft"
    /\ Begin(k, [op |-> "update", invoice |-> i, seen |-> invoices[i],
                 rate |-> rate, discount |-> discount])

\* The value a column has after an assignment to the loaded object: unchanged
\* columns are not written.
Written(now, loaded, assigned) == IF assigned = loaded THEN now ELSE assigned

UpdatedNotRecalculated(row, seen, rate, discount) ==
    [row EXCEPT !.rate = Written(@, seen.rate, rate),
                !.discount = Written(@, seen.discount, discount)]

\* What is assigned is not rounded yet: a value with half a cent is never the loaded one.
WrittenCents(now, loaded, halves) == IF halves = 2 * loaded THEN now ELSE Cents(halves)

\* recalculate_totals on the loaded invoice.
Updated(row, seen, rate, discount) ==
    [row EXCEPT
       !.rate = Written(@, seen.rate, rate),
       !.discount = Written(@, seen.discount, discount),
       !.tax = WrittenCents(@, seen.tax, ExactTax(seen.subtotal, rate)),
       !.total = WrittenCents(@, seen.total, ExactTotal(seen.subtotal, rate, discount))]

UpdateCommit(k) ==
    LET s == session[k] IN
    /\ Serving(k, "update")
    /\ invoices' = [invoices EXCEPT ![s.invoice] = Updated(@, s.seen, s.rate, s.discount)]
    /\ Done(k)
    /\ UNCHANGED received

-----------------------------------------------------------------------------
(* POST /invoices/{id}/send.                                               *)

SendReadUnlessVoid(k, i) ==
    /\ Exists(i)
    /\ invoices[i].status # "void"
    /\ Begin(k, [op |-> "send", invoice |-> i, seen |-> invoices[i]])

SendRead(k, i) ==
    /\ Exists(i)
    /\ invoices[i].status \in {"draft", "sent"}
    /\ Begin(k, [op |-> "send", invoice |-> i, seen |-> invoices[i]])

SendCommit(k) ==
    LET s == session[k] IN
    /\ Serving(k, "send")
    /\ invoices' = [invoices EXCEPT
                      ![s.invoice].status = Written(@, s.seen.status, "sent"),
                      ![s.invoice].sent = TRUE]
    /\ Done(k)
    /\ UNCHANGED received

-----------------------------------------------------------------------------
(* POST /invoices/{id}/record-payment.                                     *)

PaymentRead(k, i, amount) ==
    /\ Exists(i)
    /\ invoices[i].status # "void"
    /\ Begin(k, [op |-> "payment", invoice |-> i, seen |-> invoices[i], amount |-> amount])

\* The payment is inserted and the payments are read again: those committed by
\* now and its own.
PaymentSum(k) ==
    LET s == session[k] IN
    /\ Serving(k, "payment")
    /\ session' = [session EXCEPT ![k] =
          [op |-> "settle", invoice |-> s.invoice, seen |-> s.seen, amount |-> s.amount,
           paid |-> received[s.invoice] + s.amount]]
    /\ UNCHANGED <<invoices, received>>

SettledAbove(row, seen, paid) ==
    IF paid > seen.total
    THEN [row EXCEPT !.status = Written(@, seen.status, "paid"), !.paid = TRUE]
    ELSE IF paid > 0
    THEN [row EXCEPT !.status = Written(@, seen.status, "partial"),
                     !.paid = Written(@, seen.paid, FALSE)]
    ELSE row

\* paid_at = now is always a new value; clearing it is written over a loaded one.
Settled(row, seen, paid) ==
    IF paid >= seen.total
    THEN [row EXCEPT !.status = Written(@, seen.status, "paid"), !.paid = TRUE]
    ELSE IF paid > 0
    THEN [row EXCEPT !.status = Written(@, seen.status, "partial"),
                     !.paid = Written(@, seen.paid, FALSE)]
    ELSE row

PaymentCommit(k) ==
    LET s == session[k] IN
    /\ Serving(k, "settle")
    /\ received[s.invoice] + s.amount <= MaxReceived
    /\ received' = [received EXCEPT ![s.invoice] = @ + s.amount]
    /\ invoices' = [invoices EXCEPT ![s.invoice] = Settled(@, s.seen, s.paid)]
    /\ Done(k)

-----------------------------------------------------------------------------
(* DELETE /invoices/{id}: void.                                            *)

VoidRead(k, i) ==
    /\ Exists(i)
    /\ invoices[i].status \notin {"paid", "void"}
    /\ Begin(k, [op |-> "void", invoice |-> i, seen |-> invoices[i]])

VoidCommit(k) ==
    /\ Serving(k, "void")
    /\ invoices' = [invoices EXCEPT ![session[k].invoice].status = "void"]
    /\ Done(k)
    /\ UNCHANGED received

-----------------------------------------------------------------------------

Init ==
    /\ invoices = [i \in Invoices |-> NoInvoice]
    /\ received = [i \in Invoices |-> 0]
    /\ session = [k \in Workers |-> Idle]

Create(k) ==
    \/ \E jobs \in SUBSET Jobs, rate \in Rates : BillJobsCheck(k, jobs, rate)
    \/ \E subtotal \in Subtotals, rate \in Rates, discount \in Discounts :
          BillByHand(k, subtotal, rate, discount)
    \/ TakeNumber(k)
    \/ \E i \in Invoices : InsertInvoice(k, i)

Change(k) ==
    \/ \E i \in Invoices, rate \in Rates :
       \E discount \in Discounts \cup {invoices[i].discount} : UpdateRead(k, i, rate, discount)
    \/ UpdateCommit(k)
    \/ \E i \in Invoices : SendRead(k, i)
    \/ SendCommit(k)
    \/ \E i \in Invoices : VoidRead(k, i)
    \/ VoidCommit(k)

Pay(k) ==
    \/ \E i \in Invoices, amount \in Amounts : PaymentRead(k, i, amount)
    \/ PaymentSum(k)
    \/ PaymentCommit(k)

Next == \E k \in Workers : Create(k) \/ Change(k) \/ Pay(k) \/ Rollback(k)

Spec == Init /\ [][Next]_vars

-----------------------------------------------------------------------------
(* What holds however requests interleave. *)

CreateRequest == [op : {"number"}, jobs : SUBSET Jobs, subtotal : Nat, rate : Nat,
                  discount : Nat, counted : SUBSET Invoices]
InsertRequest == [op : {"insert"}, number : Nat \ {0}, jobs : SUBSET Jobs, subtotal : Nat,
                  rate : Nat, discount : Nat, counted : SUBSET Invoices]
UpdateRequest == [op : {"update"}, invoice : Invoices, seen : InvoiceRow,
                  rate : Nat, discount : Nat]
SendRequest == [op : {"send"}, invoice : Invoices, seen : InvoiceRow]
PaymentRequest == [op : {"payment"}, invoice : Invoices, seen : InvoiceRow, amount : Nat]
SettleRequest == [op : {"settle"}, invoice : Invoices, seen : InvoiceRow, amount : Nat,
                  paid : Nat]
VoidRequest == [op : {"void"}, invoice : Invoices, seen : InvoiceRow]
Request == CreateRequest \cup InsertRequest \cup UpdateRequest \cup SendRequest
           \cup PaymentRequest \cup SettleRequest \cup VoidRequest

\* Every row and every open session has the columns the models declare.
TypeOK ==
    /\ invoices \in [Invoices -> InvoiceRow]
    /\ received \in [Invoices -> Nat]
    /\ session \in [Workers -> Request \cup {Idle}]

\* Invoice numbers are unique and leave no gap, although the number is taken by
\* one query and used by a later statement.
NumbersGapless ==
    /\ \A i, j \in Invoices : Exists(i) /\ invoices[i].number = invoices[j].number => i = j
    /\ \A i \in Invoices : \A n \in 1 .. invoices[i].number : n \in Numbers

\* An invoice is marked partially paid only over payments that are there: the
\* payment and the status are one transaction, also when the amount rounds to 0.
PartialHasMoney ==
    \A i \in Invoices : invoices[i].status = "partial" => received[i] > 0

-----------------------------------------------------------------------------
(* What the handlers check, and which overlap gets past the check.          *)

Commits(k, ops, i) ==
    session[k].op \in ops /\ session[k].invoice = i /\ session'[k] = Idle

AmountsOf(row) == <<row.rate, row.tax, row.discount, row.total>>

\* The tax and the total are those of the rate and the discount the row shows.
Agree(row) ==
    /\ row.tax = Cents(ExactTax(row.subtotal, row.rate))
    /\ row.total = Cents(ExactTotal(row.subtotal, row.rate, row.discount))

\* An edit leaves a row whose amounts agree with each other, also where two edits have left
\* one in which they do not; only an edit that loaded other amounts than it writes to does
\* not.
AmountsAgree ==
    [][\A i \in Invoices :
         ~Agree(invoices'[i]) =>
            \/ ~Agree(invoices[i]) /\ AmountsOf(invoices'[i]) = AmountsOf(invoices[i])
            \/ \E k \in Workers : /\ Commits(k, {"update"}, i)
                                 /\ AmountsOf(session[k].seen) # AmountsOf(invoices[i])]_vars

\* The status tells how much of the total has been received.
Tells(row, sum) ==
    /\ row.status \in {"draft", "sent"} => sum = 0
    /\ row.status = "partial" => sum < row.total
    /\ row.status = "paid" => sum >= row.total
    /\ row.paid <=> row.status = "paid"

\* The request has not loaded, or not summed, what is in the tables now.
OutOfDate(k) ==
    LET s == session[k] IN
    \/ s.seen # invoices[s.invoice]
    \/ s.op = "settle" /\ s.paid # received[s.invoice] + s.amount

\* The status tells how much of the total has been received, to the cent, until a request
\* commits that another one has overtaken.
StatusTellsMoney ==
    [][\A i \in Invoices :
         Tells(invoices[i], received[i]) /\ ~Tells(invoices'[i], received'[i]) =>
            \E k \in Workers :
               Commits(k, {"update", "send", "settle", "void"}, i) /\ OutOfDate(k)]_vars

BothBill(i, j) ==
    i # j /\ {i, j} \subseteq Counting /\ invoices[i].jobs \cap invoices[j].jobs # {}

\* Two invoices that count come to bill a work order only when the one is inserted by a
\* request that looked before the other counted, or is taken back from void by one that
\* loaded it before.
NoneAlreadyInvoiced ==
    [][\A i, j \in Invoices :
         ~BothBill(i, j) /\ BothBill(i, j)' =>
            \E k \in Workers, new \in {i, j} :
               \/ /\ session[k].op = "insert" /\ session'[k] = Idle /\ ~Exists(new)
                  /\ ~({i, j} \ {new} \subseteq session[k].counted)
               \/ /\ Commits(k, {"send", "settle"}, new) /\ invoices[new].status = "void"
                  /\ session[k].seen.status # "void"]_vars

\* The requests implement the ledger.
Stage(row) ==
    IF row.number = 0 THEN "none"
    ELSE CASE row.status = "sent" -> "issued"
           [] row.status = "paid" -> "settled"
           [] OTHER -> row.status
Ledger == INSTANCE InvoiceLedger WITH
    stage <- [i \in Invoices |-> Stage(invoices[i])],
    due <- [i \in Invoices |-> invoices[i].total],
    got <- received,
    outdated <- {i \in Invoices : \E k \in Workers :
                   /\ session[k].op \in {"update", "send", "settle", "void"}
                   /\ session[k].invoice = i
                   /\ \/ Stage(session[k].seen) # Stage(invoices[i])
                      \/ session[k].op = "settle" /\ session[k].seen.total # invoices[i].total
                      \/ session[k].op = "settle"
                         /\ session[k].paid # received[i] + session[k].amount}
ImplementsLedger == Ledger!Spec
=============================================================================
