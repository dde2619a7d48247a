---------------------------- MODULE Invoices_proof ----------------------------
(* Proofs about Invoices, for any number of invoices, workers and requests, however *)
(* these interleave.                                                                *)
EXTENDS Invoices, FiniteSetTheorems, TLAPS

\* The requests that have loaded an invoice.
Changing == {"update", "send", "payment", "settle", "void"}

\* What a session holds is told by its op.
LEMMA RequestKinds ==
    ASSUME NEW s \in Request \cup {Idle}
    PROVE  /\ s.op = "number" => s \in CreateRequest
           /\ s.op = "insert" => s \in InsertRequest
           /\ s.op = "update" => s \in UpdateRequest
           /\ s.op = "send" => s \in SendRequest
           /\ s.op = "payment" => s \in PaymentRequest
           /\ s.op = "settle" => s \in SettleRequest
           /\ s.op = "void" => s \in VoidRequest
  BY DEF Request, Idle, CreateRequest, InsertRequest, UpdateRequest, SendRequest,
         PaymentRequest, SettleRequest, VoidRequest

LEMMA ChangingKinds ==
    ASSUME NEW s \in Request \cup {Idle}, s.op \in Changing
    PROVE  s.invoice \in Invoices /\ s.seen \in InvoiceRow
  BY RequestKinds DEF Changing, UpdateRequest, SendRequest, PaymentRequest, SettleRequest,
                      VoidRequest

-----------------------------------------------------------------------------
(* Money. *)

\* Rounding gives cents, and gives back what had no half cent.
LEMMA CentsTyped ==
    /\ \A n \in Int : Cents(n) \in Int
    /\ \A n \in Nat : Cents(n) \in Nat
    /\ \A n \in Int : Cents(2 * n) = n
  BY DEF Cents

LEMMA ExactTyped ==
    ASSUME NEW subtotal \in Nat, NEW rate \in Nat, NEW discount \in Nat
    PROVE  /\ ExactTax(subtotal, rate) \in Nat
           /\ ExactTotal(subtotal, rate, discount) \in Int
<1>1. subtotal * rate \in Nat
  OBVIOUS
<1> QED BY <1>1 DEF ExactTax, ExactTotal

\* An assignment over the value that was loaded leaves what was assigned, rounded.
LEMMA WrittenCentsRounds ==
    ASSUME NEW now \in Int, NEW halves \in Int
    PROVE  WrittenCents(now, now, halves) = Cents(halves)
  BY CentsTyped DEF WrittenCents

\* A new invoice is a row, its columns are what they are built from, and its amounts agree.
LEMMA NewInvoiceTyped ==
    ASSUME NEW number \in Nat, NEW jobs \in SUBSET Jobs, NEW subtotal \in Nat,
           NEW rate \in Nat, NEW discount \in Nat
    PROVE  LET row == NewInvoice(number, jobs, subtotal, rate, discount) IN
           /\ row \in InvoiceRow
           /\ row.number = number /\ row.status = "draft" /\ row.jobs = jobs /\ ~row.paid
           /\ Agree(row)
<1>1. /\ Cents(ExactTax(subtotal, rate)) \in Nat
      /\ Cents(ExactTotal(subtotal, rate, discount)) \in Int
  BY CentsTyped, ExactTyped
<1> QED BY <1>1 DEF NewInvoice, InvoiceRow, Status, Agree

-----------------------------------------------------------------------------
(* What each commit makes of the row it finds, when the request s loaded s.seen. *)

\* The columns nothing changes once the row is there.
Kept(old, row) ==
    row.number = old.number /\ row.jobs = old.jobs /\ row.subtotal = old.subtotal

SameAmounts(old, row) == AmountsOf(row) = AmountsOf(old) /\ row.subtotal = old.subtotal

Edits(s, old, row) ==
    /\ row.status = old.status /\ row.paid = old.paid
    /\ AmountsOf(s.seen) = AmountsOf(old) => Agree(row)

Sends(s, old, row) ==
    /\ row.status = Written(old.status, s.seen.status, "sent") /\ row.paid = old.paid
    /\ SameAmounts(old, row)

Voids(s, old, row) ==
    /\ row.status = "void" /\ row.paid = old.paid
    /\ SameAmounts(old, row)

Settles(s, old, row) ==
    /\ SameAmounts(old, row)
    /\ s.paid >= s.seen.total =>
          row.status = Written(old.status, s.seen.status, "paid") /\ row.paid
    /\ ~(s.paid >= s.seen.total) /\ s.paid > 0 =>
          /\ row.status = Written(old.status, s.seen.status, "partial")
          /\ row.paid = Written(old.paid, s.seen.paid, FALSE)
    /\ ~(s.paid >= s.seen.total) /\ ~(s.paid > 0) => row = old

LEMMA UpdatedRow ==
    ASSUME NEW old \in InvoiceRow, NEW seen \in InvoiceRow, NEW rate \in Nat,
           NEW discount \in Nat, seen.subtotal = old.subtotal
    PROVE  LET row == Updated(old, seen, rate, discount) IN
           /\ row \in InvoiceRow /\ Kept(old, row)
           /\ row.status = old.status /\ row.paid = old.paid
           /\ AmountsOf(seen) = AmountsOf(old) => Agree(row)
<1> DEFINE row == Updated(old, seen, rate, discount)
           halfTax == ExactTax(seen.subtotal, rate)
           halfTotal == ExactTotal(seen.subtotal, rate, discount)
           newRate == Written(old.rate, seen.rate, rate)
           newDiscount == Written(old.discount, seen.discount, discount)
           newTax == WrittenCents(old.tax, seen.tax, halfTax)
           newTotal == WrittenCents(old.total, seen.total, halfTotal)
<1>1. /\ seen.subtotal \in Nat /\ old.tax \in Nat /\ old.total \in Int
      /\ old.rate \in Nat /\ old.discount \in Nat
  BY DEF InvoiceRow
<1>2. halfTax \in Nat /\ halfTotal \in Int
  BY <1>1, ExactTyped
<1>3. row = [old EXCEPT !.rate = newRate, !.discount = newDiscount,
                        !.tax = newTax, !.total = newTotal]
  BY DEF Updated
<1> HIDE DEF halfTax, halfTotal, row
<1>4. newRate \in Nat /\ newDiscount \in Nat
  BY <1>1 DEF Written
<1>5. newTax \in Nat /\ newTotal \in Int
  BY <1>1, <1>2, CentsTyped DEF WrittenCents
<1>6. ASSUME AmountsOf(seen) = AmountsOf(old)
      PROVE  /\ newRate = rate /\ newDiscount = discount
             /\ newTax = Cents(halfTax) /\ newTotal = Cents(halfTotal)
  <2>1. /\ seen.rate = old.rate /\ seen.discount = old.discount
        /\ seen.tax = old.tax /\ seen.total = old.total
    BY <1>6 DEF AmountsOf
  <2>2. newRate = rate /\ newDiscount = discount
    BY <2>1 DEF Written
  <2>3. newTax = Cents(halfTax)
    BY <2>1, <1>1, <1>2, WrittenCentsRounds
  <2>4. newTotal = Cents(halfTotal)
    BY <2>1, <1>1, <1>2, WrittenCentsRounds
  <2> QED BY <2>2, <2>3, <2>4
<1> HIDE DEF newRate, newDiscount, newTax, newTotal
<1>7. row \in InvoiceRow /\ Kept(old, row) /\ row.status = old.status /\ row.paid = old.paid
  BY <1>3, <1>4, <1>5 DEF InvoiceRow, Kept
<1>8. /\ row.rate = newRate /\ row.discount = newDiscount
      /\ row.tax = newTax /\ row.total = newTotal /\ row.subtotal = seen.subtotal
  BY <1>3 DEF InvoiceRow
<1>9. ASSUME AmountsOf(seen) = AmountsOf(old) PROVE Agree(row)
  BY <1>6, <1>8, <1>9 DEF Agree, halfTax, halfTotal
<1> QED BY <1>7, <1>9 DEF row

LEMMA SettledRow ==
    ASSUME NEW old \in InvoiceRow, NEW s, s.seen \in InvoiceRow, s.paid \in Nat
    PROVE  LET row == Settled(old, s.seen, s.paid) IN
           row \in InvoiceRow /\ Kept(old, row) /\ Settles(s, old, row)
<1> DEFINE row == Settled(old, s.seen, s.paid)
<1>1. /\ Written(old.status, s.seen.status, "paid") \in Status
      /\ Written(old.status, s.seen.status, "partial") \in Status
  BY DEF InvoiceRow, Written, Status
<1>2. Written(old.paid, s.seen.paid, FALSE) \in BOOLEAN
  BY Zenon DEF InvoiceRow, Written
<1>3. CASE s.paid >= s.seen.total
  <2>1. row = [old EXCEPT !.status = Written(old.status, s.seen.status, "paid"), !.paid = TRUE]
    BY <1>3 DEF Settled
  <2> HIDE DEF row
  <2> QED BY <1>1, <1>3, <2>1 DEF InvoiceRow, Kept, Settles, SameAmounts, AmountsOf, row
<1>4. CASE ~(s.paid >= s.seen.total) /\ s.paid > 0
  <2> DEFINE status == Written(old.status, s.seen.status, "partial")
             paid == Written(old.paid, s.seen.paid, FALSE)
  <2>1. row = [old EXCEPT !.status = status, !.paid = paid]
    BY <1>4 DEF Settled
  <2>2. status \in Status /\ paid \in BOOLEAN
    BY <1>1, <1>2
  <2> HIDE DEF row, status, paid
  <2>3. /\ row \in InvoiceRow /\ Kept(old, row) /\ SameAmounts(old, row)
        /\ row.status = status /\ row.paid = paid
    BY <2>1, <2>2 DEF InvoiceRow, Kept, SameAmounts, AmountsOf
  <2> QED BY <1>4, <2>3 DEF Settles, status, paid, row
<1>5. CASE ~(s.paid >= s.seen.total) /\ ~(s.paid > 0)
  BY <1>5 DEF Settled, Kept, Settles, SameAmounts
<1> QED BY <1>3, <1>4, <1>5

-----------------------------------------------------------------------------
(* The inductive invariant.  Beside what the runs check it says what is still *)
(* true of the tables of what an open session has read: the numbers below    *)
(* the one it took are in use, the invoices it looked at for work orders     *)
(* already billed are there and bill none of its own, the invoice it loaded  *)
(* is there with the columns nothing changes, in a status its handler admits, *)
(* and the payments it summed are still there.                               *)

\* What the handler has tested of the row it loaded.
Admitted(s) ==
    /\ s.op = "update" => s.seen.status = "draft"
    /\ s.op = "send" => s.seen.status \in {"draft", "sent"}
    /\ s.op \in {"payment", "settle"} => s.seen.status # "void"
    /\ s.op = "void" => s.seen.status \notin {"paid", "void"}

Holds(s) ==
    /\ s.op = "insert" => \A n \in 1 .. (s.number - 1) : n \in Numbers
    /\ s.op \in {"number", "insert"} =>
          \A i \in s.counted : Exists(i) /\ invoices[i].jobs \cap s.jobs = {}
    /\ s.op \in Changing => /\ Exists(s.invoice) /\ Kept(s.seen, invoices[s.invoice])
                            /\ Admitted(s)
    /\ s.op = "settle" => s.paid <= received[s.invoice] + s.amount

SessionsHold == \A k \in Workers : Holds(session[k])

AbsentEmpty == \A i \in Invoices : ~Exists(i) => invoices[i] = NoInvoice

IInv ==
    /\ TypeOK
    /\ NumbersGapless
    /\ PartialHasMoney
    /\ AbsentEmpty
    /\ SessionsHold

\* What a session has read stays true when invoices keep their columns and lose no payment.
LEMMA HoldsOn ==
    ASSUME NEW s \in Request \cup {Idle}, Holds(s),
           \A i \in Invoices : Exists(i) => Kept(invoices[i], invoices'[i]),
           Numbers \subseteq Numbers',
           received \in [Invoices -> Nat], received' \in [Invoices -> Nat],
           \A i \in Invoices : received'[i] >= received[i]
    PROVE  Holds(s)'
<1>1. s.op = "insert" => \A n \in 1 .. (s.number - 1) : n \in Numbers'
  BY DEF Holds
<1>2. s.op \in {"number", "insert"} =>
         \A i \in s.counted : Exists(i)' /\ invoices'[i].jobs \cap s.jobs = {}
  <2>1. s.op \in {"number", "insert"} => s.counted \subseteq Invoices
    BY RequestKinds DEF CreateRequest, InsertRequest
  <2> QED BY <2>1 DEF Holds, Kept, Exists
<1>3. s.op \in Changing =>
         Exists(s.invoice)' /\ Kept(s.seen, invoices'[s.invoice]) /\ Admitted(s)
  BY ChangingKinds DEF Holds, Kept, Exists
<1>4. s.op = "settle" => s.paid <= received'[s.invoice] + s.amount
  <2>1. s.op = "settle" => s.paid \in Nat /\ s.amount \in Nat /\ s.invoice \in Invoices
    BY RequestKinds DEF SettleRequest
  <2>2. s.op = "settle" =>
           /\ s.paid <= received[s.invoice] + s.amount
           /\ received'[s.invoice] >= received[s.invoice]
           /\ received[s.invoice] \in Nat /\ received'[s.invoice] \in Nat
    BY <2>1 DEF Holds
  <2> QED BY <2>1, <2>2
<1> QED BY <1>1, <1>2, <1>3, <1>4 DEF Holds, Exists, Kept

\* A step that leaves the tables alone and opens, continues or ends one session
\* keeps the invariant if that session's new state is typed and holds.
LEMMA SessionStep ==
    ASSUME IInv, NEW k \in Workers, NEW s \in Request \cup {Idle}, Holds(s),
           session' = [session EXCEPT ![k] = s], UNCHANGED <<invoices, received>>
    PROVE  IInv'
<1>1. TypeOK'
  BY DEF IInv, TypeOK
<1>2. NumbersGapless' /\ PartialHasMoney' /\ AbsentEmpty'
  BY DEF IInv, NumbersGapless, Numbers, Exists, PartialHasMoney, AbsentEmpty
<1>3. ASSUME NEW j \in Workers PROVE Holds(session[j])'
  <2>1. Holds(session'[j])
    <3>1. CASE j = k
      BY <3>1 DEF IInv, TypeOK
    <3>2. CASE j # k
      BY <3>2 DEF IInv, TypeOK, SessionsHold
    <3> QED BY <3>1, <3>2
  <2> QED BY <2>1 DEF Holds, Numbers, Exists
<1>4. SessionsHold'
  BY <1>3 DEF SessionsHold
<1> QED BY <1>1, <1>2, <1>4 DEF IInv

\* The discounts a PATCH may carry.
LEMMA DiscountTyped ==
    ASSUME TypeOK, NEW i \in Invoices, NEW discount \in Discounts \cup {invoices[i].discount}
    PROVE  discount \in Nat
  BY AmountsAssumption DEF TypeOK, InvoiceRow

\* Every read of a request opens or continues a session that holds.
LEMMA ReadStep ==
    ASSUME IInv, NEW k \in Workers
    PROVE  /\ \A jobs \in SUBSET Jobs, rate \in Rates :
                 BillJobsCheck(k, jobs, rate) => IInv'
           /\ \A subtotal \in Subtotals, rate \in Rates, discount \in Discounts :
                 BillByHand(k, subtotal, rate, discount) => IInv'
           /\ TakeNumber(k) => IInv'
           /\ \A i \in Invoices, rate \in Rates :
              \A discount \in Discounts \cup {invoices[i].discount} :
                 UpdateRead(k, i, rate, discount) => IInv'
           /\ \A i \in Invoices : SendRead(k, i) => IInv'
           /\ \A i \in Invoices : VoidRead(k, i) => IInv'
           /\ \A i \in Invoices, amount \in Amounts : PaymentRead(k, i, amount) => IInv'
           /\ PaymentSum(k) => IInv'
           /\ Rollback(k) => IInv'
<1> USE AmountsAssumption
<1>0. /\ session[k] \in Request \cup {Idle} /\ Holds(session[k])
      /\ \A i \in Invoices : invoices[i] \in InvoiceRow
  BY DEF IInv, TypeOK, SessionsHold
<1>1. ASSUME NEW s \in Request, Holds(s), Begin(k, s) PROVE IInv'
  BY <1>1, SessionStep DEF Begin
<1>2. ASSUME NEW jobs \in SUBSET Jobs, NEW rate \in Rates,
             BillJobsCheck(k, jobs, rate)
      PROVE  IInv'
  <2> DEFINE s == [op |-> "number", jobs |-> jobs, subtotal |-> JobPrice * Cardinality(jobs),
                   rate |-> rate, discount |-> 0, counted |-> Counting]
  <2>1. JobPrice * Cardinality(jobs) \in Nat
    BY FS_CardinalityType, FS_Subset
  <2>2. s \in Request
    BY <2>1 DEF Request, CreateRequest, Counting
  <2>3. Holds(s)
    BY <1>2 DEF Holds, BillJobsCheck, Invoiced, Counting, Changing
  <2> QED BY <1>1, <1>2, <2>2, <2>3 DEF BillJobsCheck
<1>3. ASSUME NEW subtotal \in Subtotals, NEW rate \in Rates, NEW discount \in Discounts,
             BillByHand(k, subtotal, rate, discount)
      PROVE  IInv'
  <2> DEFINE s == [op |-> "number", jobs |-> {}, subtotal |-> subtotal,
                   rate |-> rate, discount |-> discount, counted |-> {}]
  <2>1. s \in Request
    BY DEF Request, CreateRequest
  <2>2. Holds(s)
    BY DEF Holds, Changing
  <2> QED BY <1>1, <1>3, <2>1, <2>2 DEF BillByHand
<1>4. CASE TakeNumber(k)
  <2>1. session[k] \in CreateRequest /\ session[k].op = "number"
    BY <1>0, <1>4, RequestKinds DEF TakeNumber, Serving
  <2>2. PICK last \in Numbers \cup {0} :
           /\ \A n \in Numbers : n <= last
           /\ session' = [session EXCEPT ![k] =
              [op |-> "insert", number |-> last + 1, jobs |-> session[k].jobs,
               subtotal |-> session[k].subtotal, rate |-> session[k].rate,
               discount |-> session[k].discount, counted |-> session[k].counted]]
    BY <1>4 DEF TakeNumber
  <2> DEFINE s == [op |-> "insert", number |-> last + 1, jobs |-> session[k].jobs,
                   subtotal |-> session[k].subtotal, rate |-> session[k].rate,
                   discount |-> session[k].discount, counted |-> session[k].counted]
  <2>3. last \in Nat
    BY <1>0, <2>2 DEF Numbers, InvoiceRow
  <2>4. s \in Request
    BY <2>1, <2>3 DEF Request, CreateRequest, InsertRequest
  <2>5. \A n \in 1 .. last : n \in Numbers
    BY <2>2, <2>3 DEF IInv, NumbersGapless, Numbers
  <2>6. Holds(s)
    BY <1>0, <2>1, <2>3, <2>5 DEF Holds, Changing
  <2> QED BY <1>4, <2>2, <2>4, <2>6, SessionStep DEF TakeNumber
<1>5. ASSUME NEW i \in Invoices, NEW rate \in Rates,
             NEW discount \in Discounts \cup {invoices[i].discount},
             UpdateRead(k, i, rate, discount)
      PROVE  IInv'
  <2> DEFINE s == [op |-> "update", invoice |-> i, seen |-> invoices[i],
                   rate |-> rate, discount |-> discount]
  <2>1. s \in Request
    BY <1>0, DiscountTyped DEF Request, UpdateRequest, IInv
  <2>2. Holds(s)
    BY <1>5 DEF Holds, UpdateRead, Kept, Admitted
  <2> QED BY <1>1, <1>5, <2>1, <2>2 DEF UpdateRead
<1>6. ASSUME NEW i \in Invoices, SendRead(k, i) PROVE IInv'
  <2> DEFINE s == [op |-> "send", invoice |-> i, seen |-> invoices[i]]
  <2>1. s \in Request
    BY <1>0 DEF Request, SendRequest
  <2>2. Holds(s)
    BY <1>6 DEF Holds, SendRead, Kept, Admitted
  <2> QED BY <1>1, <1>6, <2>1, <2>2 DEF SendRead
<1>7. ASSUME NEW i \in Invoices, VoidRead(k, i) PROVE IInv'
  <2> DEFINE s == [op |-> "void", invoice |-> i, seen |-> invoices[i]]
  <2>1. s \in Request
    BY <1>0 DEF Request, VoidRequest
  <2>2. Holds(s)
    BY <1>7 DEF Holds, VoidRead, Kept, Admitted
  <2> QED BY <1>1, <1>7, <2>1, <2>2 DEF VoidRead
<1>8. ASSUME NEW i \in Invoices, NEW amount \in Amounts, PaymentRead(k, i, amount) PROVE IInv'
  <2> DEFINE s == [op |-> "payment", invoice |-> i, seen |-> invoices[i], amount |-> amount]
  <2>1. s \in Request
    BY <1>0 DEF Request, PaymentRequest
  <2>2. Holds(s)
    BY <1>8 DEF Holds, PaymentRead, Kept, Admitted
  <2> QED BY <1>1, <1>8, <2>1, <2>2 DEF PaymentRead
<1>9. CASE PaymentSum(k)
  <2>1. session[k] \in PaymentRequest /\ session[k].op = "payment"
    BY <1>0, <1>9, RequestKinds DEF PaymentSum, Serving
  <2> DEFINE paid == received[session[k].invoice] + session[k].amount
             s == [op |-> "settle", invoice |-> session[k].invoice, seen |-> session[k].seen,
                   amount |-> session[k].amount, paid |-> paid]
  <2>2. paid \in Nat
    BY <2>1 DEF PaymentRequest, IInv, TypeOK
  <2>3. s \in Request
    BY <2>1, <2>2 DEF Request, PaymentRequest, SettleRequest
  <2>4. Holds(s)
    BY <1>0, <2>1, <2>2 DEF Holds, Changing, Admitted
  <2> QED BY <1>9, <2>3, <2>4, SessionStep DEF PaymentSum
<1>10. CASE Rollback(k)
  <2>1. Idle \in Request \cup {Idle} /\ Holds(Idle)
    BY DEF Holds, Idle, Changing
  <2> QED BY <1>10, <2>1, SessionStep DEF Rollback, Done
<1> QED BY <1>2, <1>3, <1>4, <1>5, <1>6, <1>7, <1>8, <1>9, <1>10

-----------------------------------------------------------------------------
(* The commits. *)

\* Worker k puts row in the place of invoice i, whose payments then come to got, and is done.
Writes(k, i, row, got) ==
    /\ row \in InvoiceRow /\ got \in Nat
    /\ invoices' = [invoices EXCEPT ![i] = row]
    /\ received' = [received EXCEPT ![i] = got]
    /\ session' = [session EXCEPT ![k] = Idle]

\* What a commit on an existing invoice writes, of a request s.
Rewrites(s, i, row, got) ==
    /\ s.invoice = i /\ Exists(i) /\ Kept(s.seen, invoices[i]) /\ Admitted(s)
    /\ Kept(invoices[i], row)
    /\ \/ s.op = "update" /\ Edits(s, invoices[i], row) /\ got = received[i]
       \/ s.op = "send" /\ Sends(s, invoices[i], row) /\ got = received[i]
       \/ s.op = "void" /\ Voids(s, invoices[i], row) /\ got = received[i]
       \/ /\ s.op = "settle" /\ Settles(s, invoices[i], row)
          /\ got = received[i] + s.amount /\ s.paid <= got

\* Every commit on an existing invoice is such a write.
LEMMA CommitWrites ==
    ASSUME IInv, NEW k \in Workers,
           UpdateCommit(k) \/ SendCommit(k) \/ VoidCommit(k) \/ PaymentCommit(k)
    PROVE  \E i \in Invoices, row \in InvoiceRow, got \in Nat :
              Writes(k, i, row, got) /\ Rewrites(session[k], i, row, got)
<1> DEFINE s == session[k]
           i == s.invoice
           old == invoices[i]
<1>0. /\ s \in Request \cup {Idle} /\ Holds(s)
      /\ invoices \in [Invoices -> InvoiceRow] /\ received \in [Invoices -> Nat]
  BY DEF IInv, TypeOK, SessionsHold
<1>1. s.op \in Changing
  BY DEF UpdateCommit, SendCommit, VoidCommit, PaymentCommit, Serving, Changing
<1>2. /\ i \in Invoices /\ s.seen \in InvoiceRow /\ old \in InvoiceRow /\ received[i] \in Nat
      /\ Exists(i) /\ Kept(s.seen, old) /\ Admitted(s)
  BY <1>0, <1>1, ChangingKinds DEF Holds
<1>3. ASSUME NEW row \in InvoiceRow, NEW got \in Nat, Kept(old, row),
             invoices' = [invoices EXCEPT ![i] = row],
             received' = [received EXCEPT ![i] = got], Done(k),
             \/ s.op = "update" /\ Edits(s, old, row) /\ got = received[i]
             \/ s.op = "send" /\ Sends(s, old, row) /\ got = received[i]
             \/ s.op = "void" /\ Voids(s, old, row) /\ got = received[i]
             \/ /\ s.op = "settle" /\ Settles(s, old, row)
                /\ got = received[i] + s.amount /\ s.paid <= got
      PROVE  \E l \in Invoices, new \in InvoiceRow, sum \in Nat :
                Writes(k, l, new, sum) /\ Rewrites(s, l, new, sum)
  BY <1>2, <1>3, Zenon DEF Writes, Rewrites, Done
<1>a. received = [received EXCEPT ![i] = received[i]]
  BY <1>0
<1>4. CASE UpdateCommit(k)
  <2> DEFINE row == Updated(old, s.seen, s.rate, s.discount)
  <2>1. s \in UpdateRequest /\ s.op = "update"
    BY <1>0, <1>4, RequestKinds DEF UpdateCommit, Serving
  <2>2. s.rate \in Nat /\ s.discount \in Nat /\ s.seen.subtotal = old.subtotal
    BY <2>1, <1>2 DEF UpdateRequest, Kept
  <2>3. /\ invoices' = [invoices EXCEPT ![i] = row]
        /\ received' = [received EXCEPT ![i] = received[i]] /\ Done(k)
    BY <1>4, <1>a DEF UpdateCommit
  <2> HIDE DEF s, i, old
  <2>4. /\ row \in InvoiceRow /\ Kept(old, row)
        /\ row.status = old.status /\ row.paid = old.paid
        /\ AmountsOf(s.seen) = AmountsOf(old) => Agree(row)
    BY <1>2, <2>2, UpdatedRow
  <2> HIDE DEF row
  <2>5. Edits(s, old, row)
    BY <2>4 DEF Edits
  <2> QED BY <1>2, <1>3, <2>1, <2>3, <2>4, <2>5 DEF s
<1>5. CASE SendCommit(k)
  <2> DEFINE status == Written(old.status, s.seen.status, "sent")
             row == [old EXCEPT !.status = status, !.sent = TRUE]
  <2>1. s.op = "send"
    BY <1>5 DEF SendCommit, Serving
  <2>2. status \in Status
    BY <1>2 DEF Written, InvoiceRow, Status
  <2>3. invoices' = [invoices EXCEPT ![i] = row]
    BY <1>0, <1>2, <1>5 DEF SendCommit, InvoiceRow
  <2>4. received' = [received EXCEPT ![i] = received[i]] /\ Done(k)
    BY <1>5, <1>a DEF SendCommit
  <2> HIDE DEF s, i, old, status
  <2>5. /\ row \in InvoiceRow /\ Kept(old, row) /\ SameAmounts(old, row)
        /\ row.status = status /\ row.paid = old.paid
    BY <1>2, <2>2 DEF InvoiceRow, Kept, SameAmounts, AmountsOf
  <2>6. Sends(s, old, row)
    BY <2>5 DEF Sends, status
  <2> HIDE DEF row
  <2> QED BY <1>2, <1>3, <2>1, <2>3, <2>4, <2>5, <2>6 DEF s
<1>6. CASE VoidCommit(k)
  <2> DEFINE row == [old EXCEPT !.status = "void"]
  <2>1. s.op = "void"
    BY <1>6 DEF VoidCommit, Serving
  <2>2. invoices' = [invoices EXCEPT ![i] = row]
    BY <1>6 DEF VoidCommit
  <2>3. received' = [received EXCEPT ![i] = received[i]] /\ Done(k)
    BY <1>6, <1>a DEF VoidCommit
  <2> HIDE DEF s, i, old
  <2>4. /\ row \in InvoiceRow /\ Kept(old, row) /\ SameAmounts(old, row)
        /\ row.status = "void" /\ row.paid = old.paid
    BY <1>2 DEF InvoiceRow, Status, Kept, SameAmounts, AmountsOf
  <2>5. Voids(s, old, row)
    BY <2>4 DEF Voids
  <2> HIDE DEF row
  <2> QED BY <1>2, <1>3, <2>1, <2>2, <2>3, <2>4, <2>5 DEF s
<1>7. CASE PaymentCommit(k)
  <2> DEFINE row == Settled(old, s.seen, s.paid)
             got == received[i] + s.amount
  <2>1. s \in SettleRequest /\ s.op = "settle"
    BY <1>0, <1>7, RequestKinds DEF PaymentCommit, Serving
  <2>2. s.paid \in Nat /\ s.amount \in Nat /\ got \in Nat /\ s.paid <= got
    BY <2>1, <1>0, <1>2 DEF SettleRequest, Holds
  <2>3. /\ invoices' = [invoices EXCEPT ![i] = row]
        /\ received' = [received EXCEPT ![i] = got] /\ Done(k)
    BY <1>7 DEF PaymentCommit
  <2> HIDE DEF s, i, old
  <2>4. row \in InvoiceRow /\ Kept(old, row) /\ Settles(s, old, row)
    BY <1>2, <2>2, SettledRow
  <2> HIDE DEF row
  <2> QED BY <1>2, <1>3, <2>1, <2>2, <2>3, <2>4 DEF s
<1> QED BY <1>4, <1>5, <1>6, <1>7

\* Where the tables stand after a write.
LEMMA AfterWrite ==
    ASSUME TypeOK, NEW k \in Workers, NEW i \in Invoices, NEW row, NEW got,
           Writes(k, i, row, got)
    PROVE  /\ TypeOK'
           /\ invoices'[i] = row /\ received'[i] = got /\ session'[k] = Idle
           /\ \A j \in Invoices \ {i} : invoices'[j] = invoices[j] /\ received'[j] = received[j]
           /\ \A j \in Workers \ {k} : session'[j] = session[j]
  BY DEF TypeOK, Writes

\* After a write that keeps the columns of what is there and loses no number and no
\* payment, all that open sessions have read is still true.
LEMMA WriteHolds ==
    ASSUME IInv, NEW k \in Workers, NEW i \in Invoices, NEW row, NEW got,
           Writes(k, i, row, got), got >= received[i],
           Exists(i) => Kept(invoices[i], row), Numbers \subseteq Numbers'
    PROVE  SessionsHold'
<1>1. TypeOK /\ TypeOK'
  BY AfterWrite DEF IInv
<1>2. \A j \in Invoices : Exists(j) => Kept(invoices[j], invoices'[j])
  BY <1>1, AfterWrite DEF Kept
<1>3. \A j \in Invoices : received'[j] >= received[j]
  BY <1>1, AfterWrite DEF TypeOK
<1>4. ASSUME NEW j \in Workers PROVE Holds(session[j])'
  <2>1. session'[j] = Idle \/ session'[j] = session[j]
    BY <1>1, AfterWrite
  <2>2. CASE session'[j] = Idle
    BY <2>2 DEF Holds, Idle, Changing
  <2>3. CASE session'[j] = session[j]
    <3>1. PICK s \in Request \cup {Idle} : session[j] = s
      BY <1>1 DEF TypeOK
    <3>2. Holds(s)
      BY <3>1 DEF IInv, SessionsHold
    <3>3. Holds(s)'
      BY <3>2, <1>1, <1>2, <1>3, HoldsOn DEF TypeOK
    <3> QED BY <2>3, <3>1, <3>3 DEF Holds, Exists, Numbers
  <2> QED BY <2>1, <2>2, <2>3
<1> QED BY <1>4 DEF SessionsHold

\* Such a commit keeps the invariant: a status that becomes partial is over a positive sum.
LEMMA RewriteStep ==
    ASSUME IInv, NEW k \in Workers, NEW i \in Invoices, NEW row \in InvoiceRow, NEW got \in Nat,
           Writes(k, i, row, got), Rewrites(session[k], i, row, got)
    PROVE  IInv'
<1>0. TypeOK /\ received[i] \in Nat /\ session[k] \in Request \cup {Idle}
  BY DEF IInv, TypeOK
<1>1. TypeOK'
  BY <1>0, AfterWrite
<1>2. /\ invoices'[i] = row /\ received'[i] = got
      /\ \A j \in Invoices \ {i} : invoices'[j] = invoices[j] /\ received'[j] = received[j]
  BY <1>0, AfterWrite
<1>3. row.number = invoices[i].number /\ Exists(i)
  BY DEF Rewrites, Kept
<1>4. Numbers' = Numbers
  BY <1>2, <1>3 DEF Numbers
<1>5. NumbersGapless'
  BY <1>2, <1>3, <1>4 DEF IInv, NumbersGapless, Exists
<1>6. AbsentEmpty'
  BY <1>2, <1>3 DEF IInv, AbsentEmpty, Exists
<1>7. session[k].op = "settle" => session[k].amount \in Nat /\ session[k].paid \in Nat
  BY <1>0, RequestKinds DEF SettleRequest
<1>8. got >= received[i]
  BY <1>0, <1>7 DEF Rewrites
<1>9. row.status = "partial" => got > 0
  <2>1. invoices[i].status = "partial" => received[i] > 0
    BY DEF IInv, PartialHasMoney
  <2>2. row.status = "partial" =>
           \/ invoices[i].status = "partial"
           \/ session[k].op = "settle" /\ session[k].paid > 0
    BY <1>7 DEF Rewrites, Edits, Sends, Voids, Settles, Written
  <2> QED BY <1>0, <1>7, <1>8, <2>1, <2>2 DEF Rewrites
<1>10. PartialHasMoney'
  BY <1>2, <1>9 DEF IInv, PartialHasMoney
<1>11. SessionsHold'
  BY <1>4, <1>8, WriteHolds DEF Rewrites
<1> QED BY <1>1, <1>5, <1>6, <1>10, <1>11 DEF IInv

\* The same of every commit.
LEMMA CommitStep ==
    ASSUME IInv, NEW k \in Workers,
           UpdateCommit(k) \/ SendCommit(k) \/ VoidCommit(k) \/ PaymentCommit(k)
    PROVE  IInv'
  BY CommitWrites, RewriteStep

\* What an insert writes: a new draft over a row that was not there.
Inserts(s, i, row, got) ==
    /\ s.op = "insert" /\ ~Exists(i) /\ invoices[i] = NoInvoice
    /\ s.number # 0 /\ s.number \notin Numbers
    /\ row.number = s.number /\ row.status = "draft" /\ row.jobs = s.jobs /\ ~row.paid
    /\ Agree(row) /\ got = received[i]

LEMMA InsertWrites ==
    ASSUME IInv, NEW k \in Workers, NEW i \in Invoices, InsertInvoice(k, i)
    PROVE  \E row \in InvoiceRow, got \in Nat :
              Writes(k, i, row, got) /\ Inserts(session[k], i, row, got)
<1> DEFINE s == session[k]
           row == NewInvoice(s.number, s.jobs, s.subtotal, s.rate, s.discount)
<1>0. /\ s \in Request \cup {Idle}
      /\ received \in [Invoices -> Nat] /\ received[i] \in Nat
  BY DEF IInv, TypeOK
<1>1. s \in InsertRequest /\ s.op = "insert"
  BY <1>0, RequestKinds DEF InsertInvoice, Serving
<1>2. /\ s.number \in Nat /\ s.number # 0 /\ s.jobs \in SUBSET Jobs /\ s.subtotal \in Nat
      /\ s.rate \in Nat /\ s.discount \in Nat
  BY <1>1 DEF InsertRequest
<1>3. /\ row \in InvoiceRow /\ row.number = s.number /\ row.status = "draft"
      /\ row.jobs = s.jobs /\ ~row.paid /\ Agree(row)
  BY <1>2, NewInvoiceTyped
<1>4. /\ ~Exists(i) /\ s.number \notin Numbers
      /\ invoices' = [invoices EXCEPT ![i] = row]
      /\ received' = received /\ session' = [session EXCEPT ![k] = Idle]
  BY DEF InsertInvoice, Done
<1>5. invoices[i] = NoInvoice
  BY <1>4 DEF IInv, AbsentEmpty
<1>6. received' = [received EXCEPT ![i] = received[i]]
  BY <1>0, <1>4
<1> HIDE DEF row, s
<1>7. Writes(k, i, row, received[i]) /\ Inserts(s, i, row, received[i])
  BY <1>0, <1>1, <1>2, <1>3, <1>4, <1>5, <1>6 DEF Writes, Inserts
<1> QED BY <1>0, <1>3, <1>7 DEF s

\* A new invoice takes the number after those in use, or fails on the unique constraint.
LEMMA InsertStep ==
    ASSUME IInv, NEW k \in Workers, NEW i \in Invoices, InsertInvoice(k, i)
    PROVE  IInv'
<1>1. PICK row \in InvoiceRow, got \in Nat :
         Writes(k, i, row, got) /\ Inserts(session[k], i, row, got)
  BY InsertWrites
<1> DEFINE number == session[k].number
<1>2. TypeOK /\ TypeOK' /\ received[i] \in Nat
  BY <1>1, AfterWrite DEF IInv, TypeOK
<1>3. /\ invoices'[i] = row /\ received'[i] = received[i]
      /\ \A j \in Invoices \ {i} : invoices'[j] = invoices[j] /\ received'[j] = received[j]
  BY <1>1, <1>2, AfterWrite DEF Inserts
<1>4. /\ row.number = number /\ number # 0 /\ number \notin Numbers /\ number \in Nat
      /\ row.status = "draft" /\ ~Exists(i)
  BY <1>1 DEF Inserts, InvoiceRow
<1>5. \A n \in 1 .. (number - 1) : n \in Numbers
  BY <1>1 DEF IInv, SessionsHold, Holds, Inserts
<1> HIDE DEF number
<1>6. Numbers' = Numbers \cup {number}
  BY <1>3, <1>4 DEF Numbers, Exists
<1>7. NumbersGapless'
  <2>1. ASSUME NEW a \in Invoices, NEW b \in Invoices, invoices'[a].number # 0,
               invoices'[a].number = invoices'[b].number
        PROVE  a = b
    <3>1. CASE a # i /\ b # i
      BY <2>1, <3>1, <1>3 DEF IInv, NumbersGapless, Exists
    <3>2. CASE a = i /\ b # i
      BY <2>1, <3>2, <1>3, <1>4 DEF Numbers
    <3>3. CASE a # i /\ b = i
      BY <2>1, <3>3, <1>3, <1>4 DEF Numbers
    <3> QED BY <3>1, <3>2, <3>3
  <2>2. ASSUME NEW a \in Invoices, NEW n \in 1 .. invoices'[a].number
        PROVE  n \in Numbers'
    <3>1. CASE a # i
      BY <2>2, <3>1, <1>3, <1>6 DEF IInv, NumbersGapless
    <3>2. CASE a = i
      <4>1. n = number \/ n \in 1 .. (number - 1)
        BY <2>2, <3>2, <1>3, <1>4
      <4> QED BY <4>1, <1>5, <1>6
    <3> QED BY <3>1, <3>2
  <2> QED BY <2>1, <2>2 DEF NumbersGapless, Exists
<1>8. PartialHasMoney'
  BY <1>3, <1>4 DEF IInv, PartialHasMoney
<1>9. AbsentEmpty'
  BY <1>3, <1>4 DEF IInv, AbsentEmpty, Exists
<1>10. SessionsHold'
  BY <1>1, <1>2, <1>4, <1>6, WriteHolds DEF Inserts
<1> QED BY <1>2, <1>7, <1>8, <1>9, <1>10 DEF IInv

LEMMA IInvInit ==
    ASSUME Init
    PROVE  IInv
<1>1. NoInvoice \in InvoiceRow /\ NoInvoice.number = 0 /\ NoInvoice.status = "draft"
  <2>1. {} \in SUBSET Jobs /\ 0 \in Nat
    OBVIOUS
  <2> QED BY <2>1, NewInvoiceTyped DEF NoInvoice
<1> HIDE DEF NoInvoice
<1>2. TypeOK
  BY <1>1 DEF Init, TypeOK
<1>3. NumbersGapless /\ PartialHasMoney /\ AbsentEmpty
  BY <1>1 DEF Init, NumbersGapless, Numbers, Exists, PartialHasMoney, AbsentEmpty
<1>4. SessionsHold
  BY DEF Init, SessionsHold, Holds, Idle, Changing
<1> QED BY <1>2, <1>3, <1>4 DEF IInv

LEMMA IInvNext ==
    ASSUME IInv, [Next]_vars
    PROVE  IInv'
<1>1. ASSUME NEW k \in Workers, Create(k) PROVE IInv'
  BY <1>1, ReadStep, InsertStep DEF Create
<1>2. ASSUME NEW k \in Workers, Change(k) PROVE IInv'
  BY <1>2, ReadStep, CommitStep DEF Change
<1>3. ASSUME NEW k \in Workers, Pay(k) PROVE IInv'
  BY <1>3, ReadStep, CommitStep DEF Pay
<1>4. ASSUME NEW k \in Workers, Rollback(k) PROVE IInv'
  BY <1>4, ReadStep
<1>5. CASE UNCHANGED vars
  BY <1>5 DEF vars, IInv, TypeOK, NumbersGapless, Numbers, Exists, PartialHasMoney,
              AbsentEmpty, SessionsHold, Holds
<1> QED BY <1>1, <1>2, <1>3, <1>4, <1>5 DEF Next

\* The inductive invariant holds for any number of invoices, amounts and
\* requests in flight.
THEOREM Invariance == Spec => []IInv
  BY IInvInit, IInvNext, PTL DEF Spec

\* Tables and sessions are well typed.
THEOREM TypeCorrect == Spec => []TypeOK
  BY Invariance, PTL DEF IInv

\* Invoice numbers are unique and gapless whatever requests race for them: the
\* unique constraint makes the read-then-insert of the number safe.
THEOREM NumbersTheorem == Spec => []NumbersGapless
  BY Invariance, PTL DEF IInv

\* A partially paid invoice has payments.
THEOREM MoneyTheorem == Spec => []PartialHasMoney
  BY Invariance, PTL DEF IInv

-----------------------------------------------------------------------------
(* What a step may do. *)

\* A step leaves the tables alone, or one request rewrites or inserts one invoice.
LEMMA StepKinds ==
    ASSUME IInv, [Next]_vars
    PROVE  \/ UNCHANGED <<invoices, received>>
           \/ \E k \in Workers, i \in Invoices, row \in InvoiceRow, got \in Nat :
                 /\ Writes(k, i, row, got)
                 /\ Rewrites(session[k], i, row, got) \/ Inserts(session[k], i, row, got)
<1>1. ASSUME NEW k \in Workers, Create(k)
      PROVE  \/ UNCHANGED <<invoices, received>>
             \/ \E i \in Invoices : InsertInvoice(k, i)
  BY <1>1 DEF Create, BillJobsCheck, BillByHand, TakeNumber, Begin
<1>2. ASSUME NEW k \in Workers, Change(k)
      PROVE  \/ UNCHANGED <<invoices, received>>
             \/ UpdateCommit(k) \/ SendCommit(k) \/ VoidCommit(k)
  BY <1>2 DEF Change, UpdateRead, SendRead, VoidRead, Begin
<1>3. ASSUME NEW k \in Workers, Pay(k)
      PROVE  UNCHANGED <<invoices, received>> \/ PaymentCommit(k)
  BY <1>3 DEF Pay, PaymentRead, PaymentSum, Begin
<1>4. ASSUME NEW k \in Workers, Rollback(k) PROVE UNCHANGED <<invoices, received>>
  BY <1>4 DEF Rollback
<1>5. CASE UNCHANGED vars
  BY <1>5 DEF vars
<1>6. ASSUME NEW k \in Workers, NEW i \in Invoices, InsertInvoice(k, i)
      PROVE  \E row \in InvoiceRow, got \in Nat :
                Writes(k, i, row, got) /\ Inserts(session[k], i, row, got)
  BY <1>6, InsertWrites
<1>7. ASSUME NEW k \in Workers,
             UpdateCommit(k) \/ SendCommit(k) \/ VoidCommit(k) \/ PaymentCommit(k)
      PROVE  \E i \in Invoices, row \in InvoiceRow, got \in Nat :
                Writes(k, i, row, got) /\ Rewrites(session[k], i, row, got)
  BY <1>7, CommitWrites
<1> QED BY <1>1, <1>2, <1>3, <1>4, <1>5, <1>6, <1>7 DEF Next

\* Amounts and subtotal decide whether a row's amounts agree.
LEMMA SameAgree ==
    ASSUME NEW old, NEW row, SameAmounts(old, row)
    PROVE  Agree(row) <=> Agree(old)
  BY DEF SameAmounts, AmountsOf, Agree

\* An edit leaves a row whose amounts agree with each other unless it writes to other
\* amounts than it has loaded; no other request touches them.
THEOREM AmountsTheorem == Spec => AmountsAgree
<1> DEFINE Body ==
       \A i \in Invoices :
         ~Agree(invoices'[i]) =>
            \/ ~Agree(invoices[i]) /\ AmountsOf(invoices'[i]) = AmountsOf(invoices[i])
            \/ \E k \in Workers : /\ Commits(k, {"update"}, i)
                                 /\ AmountsOf(session[k].seen) # AmountsOf(invoices[i])
<1>1. ASSUME IInv, [Next]_vars PROVE Body
  <2>1. ASSUME UNCHANGED <<invoices, received>> PROVE Body
    BY <2>1
  <2>2. ASSUME NEW k \in Workers, NEW i \in Invoices, NEW row \in InvoiceRow, NEW got \in Nat,
               Writes(k, i, row, got),
               Rewrites(session[k], i, row, got) \/ Inserts(session[k], i, row, got)
        PROVE  Body
    <3>1. /\ invoices'[i] = row /\ session'[k] = Idle
          /\ \A j \in Invoices \ {i} : invoices'[j] = invoices[j]
      BY <1>1, <2>2, AfterWrite DEF IInv
    <3>2. ASSUME ~Agree(row)
          PROVE  \/ ~Agree(invoices[i]) /\ AmountsOf(row) = AmountsOf(invoices[i])
                 \/ /\ Commits(k, {"update"}, i)
                    /\ AmountsOf(session[k].seen) # AmountsOf(invoices[i])
      <4>1. CASE Inserts(session[k], i, row, got)
        BY <3>2, <4>1 DEF Inserts
      <4>2. CASE Rewrites(session[k], i, row, got) /\ session[k].op = "update"
        BY <3>1, <3>2, <4>2 DEF Rewrites, Edits, Commits
      <4>3. CASE Rewrites(session[k], i, row, got) /\ session[k].op # "update"
        <5>1. SameAmounts(invoices[i], row)
          BY <4>3 DEF Rewrites, Sends, Voids, Settles
        <5> QED BY <3>2, <5>1, SameAgree DEF SameAmounts
      <4> QED BY <2>2, <4>1, <4>2, <4>3
    <3> QED BY <3>1, <3>2
  <2> HIDE DEF Body
  <2> QED BY <1>1, <2>1, <2>2, StepKinds
<1>2. [][Body]_vars <=> AmountsAgree
  BY PTL DEF AmountsAgree
<1> HIDE DEF Body
<1>3. IInv /\ [Next]_vars => [Body]_vars
  BY <1>1
<1> QED BY <1>2, <1>3, Invariance, PTL DEF Spec

-----------------------------------------------------------------------------

\* A request that has loaded and summed what is in the tables leaves a status that tells.
LEMMA TellsOn ==
    ASSUME IInv, NEW k \in Workers, NEW i \in Invoices, NEW row \in InvoiceRow, NEW got \in Nat,
           Rewrites(session[k], i, row, got), ~OutOfDate(k),
           Tells(invoices[i], received[i])
    PROVE  Tells(row, got)
<1> DEFINE s == session[k]
           old == invoices[i]
<1>1. s.seen = old /\ Admitted(s) /\ SameAmounts(old, old)
  BY DEF OutOfDate, Rewrites, SameAmounts
<1>2. /\ old \in InvoiceRow /\ row.total \in Int /\ received[i] \in Nat
      /\ s \in Request \cup {Idle}
  BY DEF IInv, TypeOK, InvoiceRow
<1>3. CASE s.op = "update" /\ Edits(s, old, row) /\ got = received[i]
  BY <1>1, <1>3 DEF Edits, Admitted, Tells
<1>4. CASE s.op = "send" /\ Sends(s, old, row) /\ got = received[i]
  BY <1>1, <1>4 DEF Sends, Written, Admitted, Tells
<1>5. CASE s.op = "void" /\ Voids(s, old, row) /\ got = received[i]
  BY <1>1, <1>5 DEF Voids, Admitted, Tells
<1>6. CASE s.op = "settle" /\ Settles(s, old, row) /\ got = received[i] + s.amount
  <2>1. s.invoice = i /\ s.paid = got /\ s.amount \in Nat
    <3>1. s.invoice = i
      BY DEF Rewrites
    <3>2. s.paid = received[i] + s.amount
      BY <1>6, <3>1 DEF OutOfDate
    <3>3. s.amount \in Nat
      BY <1>2, <1>6, RequestKinds DEF SettleRequest
    <3> QED BY <1>6, <3>1, <3>2, <3>3
  <2>2. row.total = old.total /\ old.total \in Int
    BY <1>2, <1>6 DEF Settles, SameAmounts, AmountsOf, InvoiceRow
  <2>3. old.paid \in BOOLEAN
    BY <1>2 DEF InvoiceRow
  <2> HIDE DEF s, old
  <2>4. CASE got >= old.total
    <3>1. row.status = "paid" /\ row.paid
      BY <1>1, <1>6, <2>1, <2>4 DEF Settles, Written
    <3> QED BY <2>2, <2>4, <3>1 DEF Tells
  <2>5. CASE ~(got >= old.total) /\ got > 0
    <3>1. row.status = "partial" /\ row.paid = FALSE
      <4>1. row.status = "partial"
        BY <1>1, <1>6, <2>1, <2>5 DEF Settles, Written
      <4>2. row.paid = Written(old.paid, s.seen.paid, FALSE)
        BY <1>1, <1>6, <2>1, <2>5 DEF Settles
      <4>3. Written(old.paid, old.paid, FALSE) = FALSE
        BY <2>3, Zenon DEF Written
      <4> QED BY <1>1, <4>1, <4>2, <4>3
    <3> QED BY <2>2, <2>5, <3>1 DEF Tells
  <2>6. CASE ~(got >= old.total) /\ ~(got > 0)
    <3>1. row = old /\ got = received[i]
      BY <1>1, <1>2, <1>6, <2>1, <2>6 DEF Settles
    <3> QED BY <3>1 DEF old
  <2> QED BY <2>4, <2>5, <2>6
<1> QED BY <1>3, <1>4, <1>5, <1>6 DEF Rewrites

\* The status tells how much of the total has been received, until a request commits that
\* another one has overtaken.
THEOREM StatusTheorem == Spec => StatusTellsMoney
<1> DEFINE Body ==
       \A i \in Invoices :
         Tells(invoices[i], received[i]) /\ ~Tells(invoices'[i], received'[i]) =>
            \E k \in Workers :
               Commits(k, {"update", "send", "settle", "void"}, i) /\ OutOfDate(k)
<1>1. ASSUME IInv, [Next]_vars PROVE Body
  <2>1. ASSUME UNCHANGED <<invoices, received>> PROVE Body
    BY <2>1
  <2>2. ASSUME NEW k \in Workers, NEW i \in Invoices, NEW row \in InvoiceRow, NEW got \in Nat,
               Writes(k, i, row, got),
               Rewrites(session[k], i, row, got) \/ Inserts(session[k], i, row, got)
        PROVE  Body
    <3>1. /\ invoices'[i] = row /\ received'[i] = got /\ session'[k] = Idle
          /\ \A j \in Invoices \ {i} : invoices'[j] = invoices[j] /\ received'[j] = received[j]
      BY <1>1, <2>2, AfterWrite DEF IInv
    <3>2. ASSUME Tells(invoices[i], received[i]), ~Tells(row, got)
          PROVE  Commits(k, {"update", "send", "settle", "void"}, i) /\ OutOfDate(k)
      <4>1. CASE Inserts(session[k], i, row, got)
        <5>1. NoInvoice.status = "draft"
          BY DEF NoInvoice, NewInvoice
        <5> QED BY <3>2, <4>1, <5>1 DEF Inserts, Tells
      <4>2. CASE Rewrites(session[k], i, row, got)
        <5>1. OutOfDate(k)
          BY <1>1, <3>2, <4>2, TellsOn
        <5>2. Commits(k, {"update", "send", "settle", "void"}, i)
          BY <3>1, <4>2 DEF Rewrites, Commits
        <5> QED BY <5>1, <5>2
      <4> QED BY <2>2, <4>1, <4>2
    <3> QED BY <3>1, <3>2
  <2> HIDE DEF Body
  <2> QED BY <1>1, <2>1, <2>2, StepKinds
<1>2. [][Body]_vars <=> StatusTellsMoney
  BY PTL DEF StatusTellsMoney
<1> HIDE DEF Body
<1>3. IInv /\ [Next]_vars => [Body]_vars
  BY <1>1
<1> QED BY <1>2, <1>3, Invariance, PTL DEF Spec

-----------------------------------------------------------------------------

\* Two invoices come to bill a work order only when the one is inserted by a request that
\* looked before the other counted, or taken back from void by one that loaded it before.
THEOREM BilledTheorem == Spec => NoneAlreadyInvoiced
<1> DEFINE Body ==
       \A i, j \in Invoices :
         ~BothBill(i, j) /\ BothBill(i, j)' =>
            \E k \in Workers, new \in {i, j} :
               \/ /\ session[k].op = "insert" /\ session'[k] = Idle /\ ~Exists(new)
                  /\ ~({i, j} \ {new} \subseteq session[k].counted)
               \/ /\ Commits(k, {"send", "settle"}, new) /\ invoices[new].status = "void"
                  /\ session[k].seen.status # "void"
<1>1. ASSUME IInv, [Next]_vars PROVE Body
  <2>1. ASSUME UNCHANGED <<invoices, received>> PROVE Body
    BY <2>1 DEF BothBill, Counting, Exists
  <2>2. ASSUME NEW k \in Workers, NEW l \in Invoices, NEW row \in InvoiceRow, NEW got \in Nat,
               Writes(k, l, row, got),
               Rewrites(session[k], l, row, got) \/ Inserts(session[k], l, row, got)
        PROVE  Body
    <3>1. /\ invoices'[l] = row /\ session'[k] = Idle
          /\ \A j \in Invoices \ {l} : invoices'[j] = invoices[j]
      BY <1>1, <2>2, AfterWrite DEF IInv
    <3>2. Holds(session[k])
      BY <1>1 DEF IInv, SessionsHold
    <3>3. ASSUME NEW other \in Invoices, other # l, ~BothBill(l, other), BothBill(l, other)'
          PROVE  \/ /\ session[k].op = "insert" /\ ~Exists(l)
                    /\ other \notin session[k].counted
                 \/ /\ Commits(k, {"send", "settle"}, l) /\ invoices[l].status = "void"
                    /\ session[k].seen.status # "void"
      <4>1. /\ other \in Counting /\ row.status # "void"
            /\ row.jobs \cap invoices[other].jobs # {}
        BY <3>1, <3>3 DEF BothBill, Counting, Exists
      <4>2. CASE Inserts(session[k], l, row, got)
        <5>1. other \notin session[k].counted
          BY <3>2, <4>1, <4>2 DEF Inserts, Holds
        <5> QED BY <4>2, <5>1 DEF Inserts
      <4>3. CASE Rewrites(session[k], l, row, got)
        <5>1. Exists(l) /\ row.jobs = invoices[l].jobs
          BY <4>3 DEF Rewrites, Kept
        <5>2. invoices[l].status = "void"
          BY <3>3, <4>1, <5>1 DEF BothBill, Counting
        <5>3. session[k].op \in {"send", "settle"} /\ session[k].seen.status # "void"
          BY <4>1, <4>3, <5>2 DEF Rewrites, Edits, Voids, Admitted
        <5> QED BY <3>1, <4>3, <5>2, <5>3 DEF Rewrites, Commits
      <4> QED BY <2>2, <4>2, <4>3
    <3>4. ASSUME NEW i \in Invoices, NEW j \in Invoices, ~BothBill(i, j), BothBill(i, j)'
          PROVE  \E new \in {i, j} :
                   \/ /\ session[k].op = "insert" /\ session'[k] = Idle /\ ~Exists(new)
                      /\ ~({i, j} \ {new} \subseteq session[k].counted)
                   \/ /\ Commits(k, {"send", "settle"}, new) /\ invoices[new].status = "void"
                      /\ session[k].seen.status # "void"
      <4>1. i # j
        BY <3>4 DEF BothBill
      <4>2. i = l \/ j = l
        BY <3>1, <3>4 DEF BothBill, Counting, Exists
      <4>3. PICK other \in Invoices : other # l /\ {i, j} = {l, other}
        BY <4>1, <4>2
      <4>4. ~BothBill(l, other) /\ BothBill(l, other)'
        BY <3>4, <4>1, <4>3 DEF BothBill
      <4>5. l \in {i, j} /\ other \in {i, j} \ {l}
        BY <4>3
      <4> QED BY <3>1, <3>3, <4>3, <4>4, <4>5
    <3> QED BY <3>4
  <2> HIDE DEF Body
  <2> QED BY <1>1, <2>1, <2>2, StepKinds
<1>2. [][Body]_vars <=> NoneAlreadyInvoiced
  BY PTL DEF NoneAlreadyInvoiced
<1> HIDE DEF Body
<1>3. IInv /\ [Next]_vars => [Body]_vars
  BY <1>1
<1> QED BY <1>2, <1>3, Invariance, PTL DEF Spec

-----------------------------------------------------------------------------
(* The ledger. *)

\* An invoice some request acts on whose stage, total or payments have changed since.
Overtaken(i) ==
    \E k \in Workers :
       /\ session[k].op \in {"update", "send", "settle", "void"}
       /\ session[k].invoice = i
       /\ \/ Stage(session[k].seen) # Stage(invoices[i])
          \/ session[k].op = "settle" /\ session[k].seen.total # invoices[i].total
          \/ session[k].op = "settle"
             /\ session[k].paid # received[i] + session[k].amount

\* A change of one row that the ledger allows.
Entry(i, row, got) ==
    LET old == invoices[i]
        had == received[i] IN
    \/ /\ Stage(old) \in {"none", "draft"} /\ Stage(row) = "draft"
       /\ got = had
    \/ /\ Stage(old) = "draft" /\ Stage(row) = "issued"
       /\ row.total = old.total /\ got = had
    \/ /\ Stage(old) \notin {"none", "void"}
       /\ Stage(row) = IF got >= old.total THEN "settled" ELSE "partial"
       /\ row.total = old.total
       /\ got >= had /\ (got > 0 \/ got >= old.total)
    \/ /\ Stage(old) \in {"draft", "issued", "partial"} /\ Stage(row) = "void"
       /\ row.total = old.total /\ got = had
    \/ /\ Overtaken(i) /\ Stage(old) # "none"
       /\ Stage(row) = Stage(old) /\ got = had
    \/ /\ Overtaken(i) /\ Stage(old) # "none"
       /\ Stage(row) \in {Stage(old), "issued", "partial", "settled", "void"}
       /\ row.total = old.total /\ got >= had
    \/ /\ Stage(old) = Stage(row) /\ row.total = old.total /\ got = had

\* Such a change is a step of the ledger, or none.
LEMMA LedgerStep ==
    ASSUME TypeOK, NEW k \in Workers, NEW i \in Invoices, NEW row \in InvoiceRow,
           NEW got \in Nat, Writes(k, i, row, got), Entry(i, row, got)
    PROVE  [Ledger!Next]_(Ledger!ledger)
<1> DEFINE before(j) == Stage(invoices[j])
           after(j) == Stage(invoices'[j])
           dueBefore(j) == invoices[j].total
           dueAfter(j) == invoices'[j].total
           stage == [j \in Invoices |-> Stage(invoices[j])]
           due == [j \in Invoices |-> invoices[j].total]
           outdated == {j \in Invoices : Overtaken(j)}
<1>1. /\ invoices'[i] = row /\ received'[i] = got
      /\ \A j \in Invoices \ {i} : invoices'[j] = invoices[j]
      /\ received' = [received EXCEPT ![i] = got] /\ received \in [Invoices -> Nat]
  BY AfterWrite DEF Writes, TypeOK
<1>2. stage' = [stage EXCEPT ![i] = Stage(row)]
  <2>1. stage = [j \in Invoices |-> before(j)] /\ stage' = [j \in Invoices |-> after(j)]
    OBVIOUS
  <2>2. after(i) = Stage(row) /\ \A j \in Invoices \ {i} : after(j) = before(j)
    BY <1>1
  <2> HIDE DEF stage, before, after
  <2> QED BY <2>1, <2>2
<1>3. due' = [due EXCEPT ![i] = row.total]
  <2>1. due = [j \in Invoices |-> dueBefore(j)] /\ due' = [j \in Invoices |-> dueAfter(j)]
    OBVIOUS
  <2>2. dueAfter(i) = row.total /\ \A j \in Invoices \ {i} : dueAfter(j) = dueBefore(j)
    BY <1>1
  <2> HIDE DEF due, dueBefore, dueAfter
  <2> QED BY <2>1, <2>2
<1>4. stage[i] = Stage(invoices[i]) /\ due[i] = invoices[i].total
  OBVIOUS
<1>5. due'[i] = row.total
  BY <1>1
<1>6. ASSUME got = received[i] PROVE received' = received
  BY <1>1, <1>6
<1>7. ASSUME row.total = due[i] PROVE due' = due
  BY <1>7, <1>1
<1>8. ASSUME Stage(row) = stage[i] PROVE stage' = stage
  <2>1. \A j \in Invoices : after(j) = before(j)
    BY <1>1, <1>4, <1>8
  <2> QED BY <2>1
<1>9. Overtaken(i) => i \in outdated
  OBVIOUS
<1>10. ASSUME Ledger!Next PROVE [Ledger!Next]_(Ledger!ledger)
  BY <1>10
<1> HIDE DEF stage, due, before, after, dueBefore, dueAfter
<1>11. CASE /\ stage[i] \in {"none", "draft"} /\ Stage(row) = "draft"
            /\ got = received[i]
  <2>1. Ledger!Draft(i)
    BY <1>11, <1>2, <1>3, <1>5, <1>6 DEF Ledger!Draft, stage, due
  <2> QED BY <2>1, <1>10 DEF Ledger!Next
<1>12. CASE /\ stage[i] = "draft" /\ Stage(row) = "issued"
            /\ row.total = due[i] /\ got = received[i]
  <2>1. Ledger!Issue(i)
    BY <1>12, <1>2, <1>6, <1>7 DEF Ledger!Issue, stage, due
  <2> QED BY <2>1, <1>10 DEF Ledger!Next
<1>13. CASE /\ stage[i] \notin {"none", "void"}
            /\ Stage(row) = IF got >= due[i] THEN "settled" ELSE "partial"
            /\ row.total = due[i]
            /\ got >= received[i] /\ (got > 0 \/ got >= due[i])
  <2>1. Ledger!Receive(i)
    BY <1>13, <1>1, <1>2, <1>7 DEF Ledger!Receive, stage, due
  <2> QED BY <2>1, <1>10 DEF Ledger!Next
<1>14. CASE /\ stage[i] \in {"draft", "issued", "partial"} /\ Stage(row) = "void"
            /\ row.total = due[i] /\ got = received[i]
  <2>1. Ledger!Void(i)
    BY <1>14, <1>2, <1>6, <1>7 DEF Ledger!Void, stage, due
  <2> QED BY <2>1, <1>10 DEF Ledger!Next
<1>15. CASE /\ Overtaken(i) /\ stage[i] # "none"
            /\ Stage(row) = stage[i] /\ got = received[i]
  <2>1. Ledger!Revise(i)
    BY <1>15, <1>3, <1>5, <1>6, <1>8, <1>9
       DEF Ledger!Revise, stage, due, outdated, Overtaken
  <2> QED BY <2>1, <1>10 DEF Ledger!Next
<1>16. CASE /\ Overtaken(i) /\ stage[i] # "none"
            /\ Stage(row) \in {stage[i], "issued", "partial", "settled", "void"}
            /\ row.total = due[i] /\ got >= received[i]
  <2>1. Ledger!Overwrite(i)
    BY <1>16, <1>1, <1>2, <1>7, <1>9
       DEF Ledger!Overwrite, stage, due, outdated, Overtaken
  <2> QED BY <2>1, <1>10 DEF Ledger!Next
<1>17. CASE stage[i] = Stage(row) /\ row.total = due[i] /\ got = received[i]
  BY <1>17, <1>6, <1>7, <1>8 DEF Ledger!ledger, stage, due
<1> QED BY <1>4, <1>11, <1>12, <1>13, <1>14, <1>15, <1>16, <1>17 DEF Entry

\* Of rows that are there, the stage tells the status.
LEMMA StageTells ==
    ASSUME NEW old \in InvoiceRow, NEW seen \in InvoiceRow, old.number # 0, seen.number # 0
    PROVE  /\ Stage(old) # "none"
           /\ Stage(old) = Stage(seen) => old.status = seen.status
           /\ Stage(old) = "draft" <=> old.status = "draft"
           /\ Stage(old) = "issued" <=> old.status = "sent"
           /\ Stage(old) = "partial" <=> old.status = "partial"
           /\ Stage(old) = "settled" <=> old.status = "paid"
           /\ Stage(old) = "void" <=> old.status = "void"
           /\ Stage(old) \in {"draft", "issued", "partial", "settled", "void"}
<1>1. /\ old.status \in {"draft", "sent", "partial", "paid", "void"}
      /\ seen.status \in {"draft", "sent", "partial", "paid", "void"}
  BY DEF InvoiceRow, Status
<1> QED BY <1>1 DEF Stage

\* What a commit writes is an entry of the ledger; where the invoice has changed since the
\* request loaded it, one for an outdated invoice.
LEMMA RewriteEntry ==
    ASSUME TypeOK, NEW k \in Workers, NEW i \in Invoices, NEW row \in InvoiceRow,
           NEW got \in Nat, Rewrites(session[k], i, row, got)
    PROVE  Entry(i, row, got)
<1> DEFINE s == session[k]
           old == invoices[i]
           had == received[i]
<1>1. /\ old \in InvoiceRow /\ had \in Nat /\ s \in Request \cup {Idle}
      /\ s.op \in Changing /\ s.invoice = i
  BY DEF TypeOK, Rewrites, Changing
<1>2. s.seen \in InvoiceRow
  BY <1>1, ChangingKinds
<1>3. old.number # 0 /\ s.seen.number = old.number /\ row.number = old.number
  BY DEF Rewrites, Kept, Exists
<1>4. ASSUME s.op \in {"update", "send", "settle", "void"}, Stage(s.seen) # Stage(old)
      PROVE  Overtaken(i)
  BY <1>1, <1>4 DEF Overtaken
<1>5. Admitted(s)
  BY DEF Rewrites
<1>6. /\ old.total \in Int /\ row.total \in Int /\ s.seen.total \in Int
      /\ \A r \in {old, row, s.seen} : r.status \in {"draft", "sent", "partial", "paid", "void"}
  BY <1>1, <1>2 DEF InvoiceRow, Status
<1>7. /\ Stage(old) # "none" /\ Stage(s.seen) # "none"
      /\ Stage(old) = Stage(s.seen) => old.status = s.seen.status
      /\ \A r \in {old, row, s.seen} :
            /\ Stage(r) = "draft" <=> r.status = "draft"
            /\ Stage(r) = "issued" <=> r.status = "sent"
            /\ Stage(r) = "partial" <=> r.status = "partial"
            /\ Stage(r) = "settled" <=> r.status = "paid"
            /\ Stage(r) = "void" <=> r.status = "void"
  BY <1>1, <1>2, <1>3, StageTells
<1>8. row.status = old.status => Stage(row) = Stage(old)
  BY <1>3 DEF Stage
<1>9. CASE s.op = "update" /\ Edits(s, old, row) /\ got = had
  <2>1. Stage(s.seen) = "draft" /\ Stage(row) = Stage(old)
    BY <1>5, <1>7, <1>8, <1>9 DEF Admitted, Edits
  <2>2. CASE Stage(old) = "draft"
    BY <1>9, <2>1, <2>2 DEF Entry
  <2>3. CASE Stage(old) # "draft"
    BY <1>4, <1>7, <1>9, <2>1, <2>3 DEF Entry
  <2> QED BY <2>2, <2>3
<1>10. CASE s.op = "send" /\ Sends(s, old, row) /\ got = had
  <2>1. row.total = old.total /\ row.status = Written(old.status, s.seen.status, "sent")
    BY <1>10 DEF Sends, SameAmounts, AmountsOf
  <2>2. CASE Stage(old) = Stage(s.seen)
    <3>1. old.status = s.seen.status /\ s.seen.status \in {"draft", "sent"}
      BY <1>5, <1>7, <1>10, <2>2 DEF Admitted
    <3>2. row.status = "sent"
      BY <2>1, <3>1 DEF Written
    <3>3. CASE old.status = "draft"
      BY <1>7, <1>10, <2>1, <3>2, <3>3 DEF Entry
    <3>4. CASE old.status = "sent"
      BY <1>7, <1>8, <1>10, <2>1, <3>2, <3>4 DEF Entry
    <3> QED BY <3>1, <3>3, <3>4
  <2>3. CASE Stage(old) # Stage(s.seen)
    <3>1. row.status = old.status \/ row.status = "sent"
      BY <2>1 DEF Written
    <3>2. Stage(row) \in {Stage(old), "issued"}
      BY <1>7, <1>8, <3>1
    <3>3. Overtaken(i)
      BY <1>4, <1>10, <2>3
    <3> QED BY <1>1, <1>7, <1>10, <2>1, <3>2, <3>3 DEF Entry
  <2> QED BY <2>2, <2>3
<1>11. CASE s.op = "void" /\ Voids(s, old, row) /\ got = had
  <2>1. row.total = old.total /\ Stage(row) = "void"
    BY <1>7, <1>11 DEF Voids, SameAmounts, AmountsOf
  <2>2. CASE Stage(old) = Stage(s.seen)
    <3>1. Stage(old) \in {"draft", "issued", "partial"}
      BY <1>5, <1>6, <1>7, <1>11, <2>2 DEF Admitted
    <3> QED BY <1>11, <2>1, <3>1 DEF Entry
  <2>3. CASE Stage(old) # Stage(s.seen)
    <3>1. Overtaken(i)
      BY <1>4, <1>11, <2>3
    <3> QED BY <1>1, <1>7, <1>11, <2>1, <3>1 DEF Entry
  <2> QED BY <2>2, <2>3
<1>12. CASE s.op = "settle" /\ Settles(s, old, row) /\ got = had + s.amount /\ s.paid <= got
  <2>1. row.total = old.total
    BY <1>12 DEF Settles, SameAmounts, AmountsOf
  <2>2. s.amount \in Nat /\ s.paid \in Nat
    BY <1>1, <1>12, RequestKinds DEF SettleRequest
  <2>3. got >= had
    BY <1>1, <1>12, <2>2
  <2>4. CASE /\ Stage(old) = Stage(s.seen) /\ s.seen.total = old.total /\ s.paid = got
    <3>1. old.status = s.seen.status /\ Stage(old) \notin {"none", "void"}
      BY <1>5, <1>7, <1>12, <2>4 DEF Admitted
    <3>2. CASE got >= old.total
      <4>1. row.status = "paid"
        BY <1>12, <2>4, <3>1, <3>2 DEF Settles, Written
      <4>2. Stage(row) = "settled"
        BY <1>7, <4>1
      <4> QED BY <2>1, <2>3, <3>1, <3>2, <4>2 DEF Entry
    <3>3. CASE ~(got >= old.total) /\ got > 0
      <4>1. row.status = "partial"
        BY <1>12, <2>4, <3>1, <3>3 DEF Settles, Written
      <4>2. Stage(row) = "partial"
        BY <1>7, <4>1
      <4> QED BY <2>1, <2>3, <3>1, <3>3, <4>2 DEF Entry
    <3>4. CASE ~(got >= old.total) /\ ~(got > 0)
      <4>1. row = old /\ got = had
        BY <1>1, <1>12, <2>2, <2>4, <3>4 DEF Settles
      <4> QED BY <4>1 DEF Entry
    <3> QED BY <3>2, <3>3, <3>4
  <2>5. CASE ~(Stage(old) = Stage(s.seen) /\ s.seen.total = old.total /\ s.paid = got)
    <3>1. Overtaken(i)
      BY <1>1, <1>12, <2>5 DEF Overtaken
    <3>2. row.status = old.status \/ row.status \in {"paid", "partial"}
      BY <1>12 DEF Settles, Written
    <3>3. Stage(row) \in {Stage(old), "settled", "partial"}
      BY <1>7, <1>8, <3>2
    <3> QED BY <1>7, <2>1, <2>3, <3>1, <3>3 DEF Entry
  <2> QED BY <2>4, <2>5
<1> QED BY <1>9, <1>10, <1>11, <1>12 DEF Rewrites

\* A new invoice is a draft of the ledger.
LEMMA InsertEntry ==
    ASSUME NEW k \in Workers, NEW i \in Invoices, NEW row, NEW got,
           Inserts(session[k], i, row, got)
    PROVE  Entry(i, row, got)
<1>1. Stage(invoices[i]) = "none" /\ got = received[i]
  BY DEF Inserts, Exists, Stage
<1>2. Stage(row) = "draft"
  BY DEF Inserts, Stage
<1> QED BY <1>1, <1>2 DEF Entry

\* The handlers of invoices implement the ledger, whatever requests interleave.
THEOREM LedgerTheorem == Spec => ImplementsLedger
<1>1. Init => Ledger!Init
  <2>1. NoInvoice.number = 0 /\ NoInvoice.total = 0
    BY CentsTyped DEF NoInvoice, NewInvoice, ExactTotal, ExactTax, Cents
  <2> QED BY <2>1 DEF Init, Ledger!Init, Stage
<1>2. ASSUME IInv, [Next]_vars PROVE [Ledger!Next]_(Ledger!ledger)
  <2>1. CASE UNCHANGED <<invoices, received>>
    BY <2>1 DEF Ledger!ledger
  <2>2. ASSUME NEW k \in Workers, NEW i \in Invoices, NEW row \in InvoiceRow, NEW got \in Nat,
               Writes(k, i, row, got),
               Rewrites(session[k], i, row, got) \/ Inserts(session[k], i, row, got)
        PROVE  [Ledger!Next]_(Ledger!ledger)
    <3>1. TypeOK
      BY <1>2 DEF IInv
    <3>2. Entry(i, row, got)
      BY <2>2, <3>1, RewriteEntry, InsertEntry
    <3> QED BY <2>2, <3>1, <3>2, LedgerStep
  <2> QED BY <1>2, <2>1, <2>2, StepKinds
<1> QED BY <1>1, <1>2, Invariance, PTL DEF Spec, ImplementsLedger, Ledger!Spec
=============================================================================
