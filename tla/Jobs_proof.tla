------------------------------- MODULE Jobs_proof -------------------------------
(* Proofs about Jobs, for any number of requests, tries, stops and outages. *)
EXTENDS Jobs, TLAPS

-----------------------------------------------------------------------------
(* The inductive invariant.  Every stop of the worker gives a job at most one   *)
(* more try, and every try at most one mail, which is the last thing it does.   *)

\* Mails of password resets are enqueued where the worker looks, as it wants them.
Readable(r) == ~At(r, "none") => jobs[r].db = "arq" /\ jobs[r].keywords

\* A job that is not at its end has sent no mail since the last stop.
MailsCounted(r) ==
    /\ jobs[r].mails <= jobs[r].tries
    /\ jobs[r].stage \in {"started", "querying"} => jobs[r].mails < jobs[r].tries
    /\ jobs[r].stage \in {"ending", "ended"} => jobs[r].mails <= stops + 1
    /\ jobs[r].stage \notin {"ending", "ended"} => jobs[r].mails <= stops

TriesCounted(r) ==
    /\ jobs[r].tries <= MaxTries
    /\ jobs[r].stage \in {"none", "queued", "claimed"} => jobs[r].tries <= stops
    /\ jobs[r].tries <= stops + 1

LossCause(r) == jobs[r].lost => r \in raced \/ outages > 0 \/ stops >= MaxTries

\* What send_invoice enqueues is never started.
InvoiceMailWaits ==
    \A i \in Sends : At(i, "none") \/ (At(i, "queued") /\ jobs[i].db = "cache")

Facts(r) == Readable(r) /\ MailsCounted(r) /\ TriesCounted(r) /\ LossCause(r)

IInv ==
    /\ TypeOK
    /\ \A r \in Resets : Facts(r)
    /\ InvoiceMailWaits
    /\ conn = "broken" => outages > 0

-----------------------------------------------------------------------------

\* A step that changes the row of one password reset and counts no stop.
LEMMA RowStep ==
    ASSUME IInv, NEW r \in Resets, NEW row \in JobRow, jobs' = [jobs EXCEPT ![r] = row],
           UNCHANGED <<sends, worker, stops, outages>>,
           conn' \in {"none", "connecting", "open", "broken"}, conn' = "broken" => conn = "broken",
           raced' \in SUBSET All, raced \subseteq raced',
           row.stage # "none", row.db = "arq", row.keywords = TRUE,
           row.mails <= row.tries,
           row.stage \in {"started", "querying"} => row.mails < row.tries,
           row.stage \in {"ending", "ended"} => row.mails <= stops + 1,
           row.stage \notin {"ending", "ended"} => row.mails <= stops,
           row.tries <= MaxTries,
           row.stage \in {"none", "queued", "claimed"} => row.tries <= stops,
           row.tries <= stops + 1,
           row.lost => r \in raced' \/ outages > 0 \/ stops >= MaxTries
    PROVE  IInv'
<1>0. TypeOK /\ Resets \subseteq All /\ r \in All
  BY DEF IInv, All
<1>1. \A q \in All : jobs'[q] = IF q = r THEN row ELSE jobs[q]
  BY <1>0 DEF TypeOK
<1>2. TypeOK'
  BY <1>0 DEF TypeOK
<1>3. ASSUME NEW q \in Resets PROVE Facts(q)'
  <2>1. CASE q = r
    <3>1. jobs'[q] = row
      BY <1>0, <1>1, <2>1
    <3> QED BY <3>1, <2>1 DEF Facts, Readable, MailsCounted, TriesCounted, LossCause, At
  <2>2. CASE q # r
    <3>1. jobs'[q] = jobs[q]
      BY <1>0, <1>1, <2>2
    <3> QED BY <3>1 DEF IInv, Facts, Readable, MailsCounted, TriesCounted, LossCause, At
  <2> QED BY <2>1, <2>2
<1>4. InvoiceMailWaits'
  <2>1. \A i \in Sends : jobs'[i] = jobs[i]
    BY <1>1, RequestsAssumption DEF All
  <2> QED BY <2>1 DEF IInv, InvoiceMailWaits, At
<1> QED BY <1>2, <1>3, <1>4 DEF IInv

LEMMA Requests ==
    ASSUME IInv
    PROVE  /\ \A r \in Resets : ForgotPassword(r) => IInv'
           /\ \A i \in Sends : SendFlush(i) \/ SendEnqueue(i) \/ SendEnd(i) => IInv'
<1>0. TypeOK /\ MaxTries \in Nat /\ stops \in Nat
  BY BoundsAssumption DEF IInv, TypeOK
<1>1. ASSUME NEW r \in Resets, ForgotPassword(r) PROVE IInv'
  <2> DEFINE row == Enqueued("arq", TRUE)
  <2>1. row = [stage |-> "queued", db |-> "arq", keywords |-> TRUE, tries |-> 0, mails |-> 0,
               lost |-> FALSE]
    BY DEF Enqueued
  <2>2. row \in JobRow
    BY DEF Enqueued, JobRow, Stage, Database
  <2> HIDE DEF row
  <2>3. jobs' = [jobs EXCEPT ![r] = row] /\ UNCHANGED <<sends, worker, conn, stops, outages, raced>>
    BY <1>1 DEF ForgotPassword, EnqueueTask, row
  <2>4. /\ row.stage = "queued" /\ row.db = "arq" /\ row.keywords = TRUE /\ row.lost = FALSE
        /\ row.tries = 0 /\ row.mails = 0
    BY <2>1
  <2>5. 0 <= stops /\ 0 <= stops + 1 /\ 0 <= MaxTries
    BY <1>0
  <2>6. /\ raced \in SUBSET All /\ conn \in {"none", "connecting", "open", "broken"}
    BY <1>0 DEF TypeOK
  <2>7. row.mails <= row.tries /\ row.mails <= stops /\ row.mails <= stops + 1
        /\ row.tries <= stops /\ row.tries <= stops + 1 /\ row.tries <= MaxTries
    BY <2>4, <2>5
  <2>8. /\ UNCHANGED <<sends, worker, stops, outages>>
        /\ conn' \in {"none", "connecting", "open", "broken"}
        /\ (conn' = "broken" => conn = "broken")
        /\ raced' \in SUBSET All /\ raced \subseteq raced'
    BY <2>3, <2>6
  <2>9. jobs' = [jobs EXCEPT ![r] = row]
    BY <2>3
  <2> QED BY <2>2, <2>4, <2>7, <2>8, <2>9, RowStep
<1>2. ASSUME NEW i \in Sends, SendFlush(i) \/ SendEnqueue(i) \/ SendEnd(i) PROVE IInv'
  <2> DEFINE row == Enqueued("cache", FALSE)
  <2>1. row = [stage |-> "queued", db |-> "cache", keywords |-> FALSE, tries |-> 0, mails |-> 0,
               lost |-> FALSE]
    BY DEF Enqueued
  <2>2. row \in JobRow /\ i \in All
    BY DEF Enqueued, JobRow, Stage, Database, All
  <2> HIDE DEF row
  <2>3. /\ jobs' \in {jobs, [jobs EXCEPT ![i] = row]}
        /\ UNCHANGED <<worker, conn, stops, outages, raced>>
    BY <1>2 DEF SendFlush, SendEnqueue, SendEnd, row
  <2>4. sends' \in [Sends -> {"none", "flushed", "enqueued", "sent", "failed"}]
    BY <1>0, <1>2 DEF SendFlush, SendEnqueue, SendEnd, TypeOK
  <2>5. /\ \A j \in All : j # i => jobs'[j] = jobs[j]
        /\ jobs'[i] \in {jobs[i], row}
    BY <1>0, <2>2, <2>3 DEF TypeOK
  <2>6. TypeOK'
    BY <1>0, <2>2, <2>3, <2>4 DEF TypeOK
  <2>7. \A r \in Resets : jobs'[r] = jobs[r]
    BY <2>5, RequestsAssumption DEF All
  <2>8. \A r \in Resets : Facts(r)'
    BY <2>3, <2>7 DEF IInv, Facts, Readable, MailsCounted, TriesCounted, LossCause, At
  <2>9. InvoiceMailWaits'
    BY <2>1, <2>5 DEF IInv, InvoiceMailWaits, At, All
  <2> QED BY <2>3, <2>6, <2>8, <2>9 DEF IInv
<1> QED BY <1>1, <1>2

LEMMA WorkKeeps ==
    ASSUME IInv, NEW j \in All, Work(j)
    PROVE  IInv'
<1>0. TypeOK /\ MaxTries \in Nat /\ stops \in Nat
  BY BoundsAssumption DEF IInv, TypeOK
<1>1. jobs[j] \in JobRow /\ jobs[j].mails \in Nat /\ jobs[j].tries \in Nat
  BY <1>0 DEF TypeOK, JobRow
<1>m. jobs[j].mails + 1 \in Nat /\ jobs[j].tries + 1 \in Nat
  BY <1>1
<1>2. j \in Resets
  <2>1. ~At(j, "none") /\ (At(j, "queued") => jobs[j].db = "arq")
    BY DEF Work, Start, Query, Answer, Finish, Expire, At, Polled
  <2> QED BY <2>1 DEF IInv, InvoiceMailWaits, At, All
<1>3. Facts(j)
  BY <1>2 DEF IInv
<1>4. /\ raced \in SUBSET All /\ conn \in {"none", "connecting", "open", "broken"}
  BY <1>0 DEF TypeOK
<1>5. CASE Start(j)
  <2>0. /\ jobs[j].stage = "queued" /\ UNCHANGED <<sends, worker, conn, stops, outages, raced>>
        /\ jobs[j].mails <= jobs[j].tries /\ jobs[j].tries <= stops /\ jobs[j].tries <= MaxTries
        /\ jobs[j].db = "arq" /\ jobs[j].keywords = TRUE
    BY <1>1, <1>3, <1>5 DEF Start, At, Facts, Readable, MailsCounted, TriesCounted, JobRow
  <2>1. CASE jobs[j].tries < MaxTries
    <3> DEFINE row == [jobs[j] EXCEPT !.stage = "started", !.tries = @ + 1]
    <3>1. /\ row \in JobRow /\ row.stage = "started" /\ row.db = "arq" /\ row.keywords = TRUE
          /\ row.tries = jobs[j].tries + 1 /\ row.mails = jobs[j].mails
          /\ row.lost = jobs[j].lost
      BY <1>1, <1>m, <2>0 DEF JobRow, Stage
    <3>2. jobs' = [jobs EXCEPT ![j] = row]
      BY <1>5, <2>1 DEF Start, Started
    <3>3. /\ row.mails < row.tries /\ row.mails <= stops
          /\ row.tries <= stops + 1 /\ row.tries <= MaxTries
      BY <1>0, <1>1, <2>0, <2>1, <3>1
    <3>4. row.mails <= row.tries
      BY <1>1, <3>1, <3>3
    <3> HIDE DEF row
    <3> QED BY <1>2, <1>3, <1>4, <2>0, <3>1, <3>2, <3>3, <3>4, RowStep DEF Facts, LossCause
  <2>2. CASE ~(jobs[j].tries < MaxTries)
    <3> DEFINE row == Lost(jobs[j])
    <3>1. /\ row \in JobRow /\ row.stage = "ending" /\ row.db = "arq" /\ row.keywords = TRUE
          /\ row.tries = jobs[j].tries /\ row.mails = jobs[j].mails
      BY <1>1, <2>0 DEF JobRow, Stage, Lost
    <3>2. jobs' = [jobs EXCEPT ![j] = row]
      BY <1>5, <2>2 DEF Start, Started
    <3>3. stops >= MaxTries /\ row.mails <= stops + 1 /\ row.tries <= stops + 1
      BY <1>0, <1>1, <2>0, <2>2, <3>1
    <3> HIDE DEF row
    <3> QED BY <1>2, <1>4, <2>0, <3>1, <3>2, <3>3, RowStep
  <2> QED BY <2>1, <2>2
<1>6. CASE Query(j)
  <2>0. /\ jobs[j].stage = "started" /\ UNCHANGED <<sends, worker, stops, outages>>
        /\ jobs[j].mails < jobs[j].tries /\ jobs[j].mails <= stops
        /\ jobs[j].tries <= stops + 1 /\ jobs[j].tries <= MaxTries
        /\ jobs[j].db = "arq" /\ jobs[j].keywords = TRUE
    BY <1>1, <1>3, <1>6 DEF Query, At, Facts, Readable, MailsCounted, TriesCounted, JobRow
  <2>1. /\ conn' \in {"none", "connecting", "open", "broken"}
        /\ (conn' = "broken" => conn = "broken")
        /\ raced' \in SUBSET All /\ raced \subseteq raced' /\ (conn = "connecting" => j \in raced')
    BY <1>4, <1>6 DEF Query
  <2>2. PICK row : /\ jobs' = [jobs EXCEPT ![j] = row]
                   /\ row = IF conn \in {"connecting", "broken"} THEN Lost(jobs[j])
                            ELSE [jobs[j] EXCEPT !.stage = "querying"]
    BY <1>0, <1>6, <2>0 DEF Query, TypeOK
  <2>3. /\ row \in JobRow /\ row.db = "arq" /\ row.keywords = TRUE
        /\ row.tries = jobs[j].tries /\ row.mails = jobs[j].mails
        /\ row.stage \in {"ending", "querying"}
    BY <1>1, <2>0, <2>2 DEF JobRow, Stage, Lost
  <2>4. row.lost => j \in raced' \/ outages > 0 \/ stops >= MaxTries
    <3>1. conn = "broken" => outages > 0
      BY DEF IInv
    <3>2. conn \notin {"connecting", "broken"} => row.lost = jobs[j].lost
      BY <1>1, <2>2 DEF JobRow
    <3> QED BY <1>3, <2>1, <3>1, <3>2 DEF Facts, LossCause
  <2>5. /\ row.mails < row.tries /\ row.mails <= row.tries
        /\ row.mails <= stops /\ row.mails <= stops + 1
    BY <1>0, <1>1, <2>0, <2>3
  <2> QED BY <1>2, <2>0, <2>1, <2>2, <2>3, <2>4, <2>5, RowStep
<1>7. CASE Answer(j)
  <2>0. /\ jobs[j].stage = "querying" /\ UNCHANGED <<sends, worker, stops, outages, raced>>
        /\ jobs[j].mails < jobs[j].tries /\ jobs[j].mails <= stops /\ conn' = "open"
        /\ jobs[j].tries <= stops + 1 /\ jobs[j].tries <= MaxTries
        /\ jobs[j].db = "arq" /\ jobs[j].keywords = TRUE
    BY <1>1, <1>3, <1>7 DEF Answer, At, Facts, Readable, MailsCounted, TriesCounted, JobRow
  <2>1. PICK row : row \in {Mailed(jobs[j]), Ended(jobs[j])} /\ jobs' = [jobs EXCEPT ![j] = row]
    BY <1>0, <1>7 DEF Answer, TypeOK
  <2>2. /\ row \in JobRow /\ row.db = "arq" /\ row.keywords = TRUE /\ row.stage = "ending"
        /\ row.tries = jobs[j].tries /\ row.mails \in {jobs[j].mails, jobs[j].mails + 1}
        /\ row.lost = jobs[j].lost
    BY <1>1, <1>m, <2>0, <2>1 DEF JobRow, Stage, Mailed, Ended
  <2>3. row.mails <= row.tries /\ row.mails <= stops + 1
    BY <1>0, <1>1, <2>0, <2>2
  <2> QED BY <1>2, <1>3, <1>4, <2>0, <2>1, <2>2, <2>3, RowStep DEF Facts, LossCause
<1>8. CASE Finish(j) \/ Expire(j)
  <2>0. /\ UNCHANGED <<sends, worker, conn, stops, outages, raced>>
        /\ jobs[j].mails <= jobs[j].tries /\ jobs[j].tries <= stops + 1 /\ jobs[j].tries <= MaxTries
        /\ jobs[j].db = "arq" /\ jobs[j].keywords = TRUE
    BY <1>1, <1>3, <1>8
       DEF Finish, Expire, At, Facts, Readable, MailsCounted, TriesCounted, JobRow
  <2>1. PICK row : /\ jobs' = [jobs EXCEPT ![j] = row]
                   /\ \/ jobs[j].stage = "ending" /\ row = [jobs[j] EXCEPT !.stage = "ended"]
                      \/ jobs[j].stage = "claimed" /\ row = [jobs[j] EXCEPT !.stage = "queued"]
    BY <1>0, <1>8 DEF Finish, Expire, At, TypeOK
  <2>2. /\ row \in JobRow /\ row.db = "arq" /\ row.keywords = TRUE
        /\ row.tries = jobs[j].tries /\ row.mails = jobs[j].mails /\ row.lost = jobs[j].lost
        /\ row.stage \in {"ended", "queued"}
    BY <1>1, <2>0, <2>1 DEF JobRow, Stage
  <2>3. /\ row.stage = "ended" => row.mails <= stops + 1
        /\ row.stage = "queued" => row.mails <= stops /\ row.tries <= stops
    BY <1>1, <1>3, <2>1, <2>2 DEF Facts, MailsCounted, TriesCounted, JobRow
  <2> QED BY <1>2, <1>3, <1>4, <2>0, <2>1, <2>2, <2>3, RowStep DEF Facts, LossCause
<1> QED BY <1>5, <1>6, <1>7, <1>8 DEF Work

\* The steps of the worker that concern all jobs.
LEMMA AllJobsStep ==
    ASSUME IInv, jobs' \in [All -> JobRow], UNCHANGED <<sends, raced>>,
           worker' \in {"up", "down"}, conn' \in {"none", "connecting", "open", "broken"},
           stops' \in Nat, outages' \in Nat, conn' = "broken" => outages' > 0,
           \A r \in Resets : Facts(r)', \A i \in Sends : jobs'[i] = jobs[i]
    PROVE  IInv'
<1>1. TypeOK'
  BY DEF IInv, TypeOK
<1>2. InvoiceMailWaits'
  BY DEF IInv, InvoiceMailWaits, At
<1> QED BY <1>1, <1>2 DEF IInv

LEMMA FaultsKeep ==
    ASSUME IInv, Outage \/ Crash \/ Stop \/ Restart
    PROVE  IInv'
<1>0. /\ TypeOK /\ stops \in Nat /\ outages \in Nat /\ stops + 1 \in Nat /\ outages + 1 \in Nat
      /\ Resets \subseteq All /\ Sends \subseteq All
  BY DEF IInv, TypeOK, All
<1>1. \A i \in Sends : jobs[i].stage \in {"none", "queued"}
  BY DEF IInv, InvoiceMailWaits, At
<1>2. ASSUME NEW j \in All PROVE jobs[j] \in JobRow
  BY <1>0 DEF TypeOK
<1>3. CASE Outage
  <2>0. /\ outages' = outages + 1 /\ outages' > 0 /\ UNCHANGED <<sends, worker, stops, raced>>
        /\ conn' \in {"none", "broken"}
        /\ jobs' = [j \in All |-> IF At(j, "querying") THEN Lost(jobs[j]) ELSE jobs[j]]
    BY <1>0, <1>3 DEF Outage
  <2>1. ASSUME NEW j \in All PROVE Lost(jobs[j]) \in JobRow
    BY <1>2 DEF Lost, JobRow, Stage
  <2>2. jobs' \in [All -> JobRow]
    BY <1>2, <2>0, <2>1
  <2>3. ASSUME NEW r \in Resets PROVE Facts(r)'
    <3>1. CASE ~At(r, "querying")
      <4>1. jobs'[r] = jobs[r]
        BY <1>0, <2>0, <3>1
      <4> QED BY <2>0, <4>1
              DEF IInv, Facts, Readable, MailsCounted, TriesCounted, LossCause, At
    <3>2. CASE At(r, "querying")
      <4>1. jobs'[r] = Lost(jobs[r]) /\ jobs[r] \in JobRow
        BY <1>0, <1>2, <2>0, <3>2
      <4>2. /\ jobs'[r].stage = "ending" /\ jobs'[r].db = jobs[r].db
            /\ jobs'[r].keywords = jobs[r].keywords
            /\ jobs'[r].tries = jobs[r].tries /\ jobs'[r].mails = jobs[r].mails
        BY <4>1 DEF Lost, JobRow
      <4>3. jobs[r].mails \in Nat /\ jobs[r].tries \in Nat
        BY <4>1 DEF JobRow
      <4> QED BY <1>0, <2>0, <3>2, <4>2, <4>3
              DEF IInv, Facts, Readable, MailsCounted, TriesCounted, LossCause, At
    <3> QED BY <3>1, <3>2
  <2>4. \A i \in Sends : jobs'[i] = jobs[i]
    BY <1>0, <1>1, <2>0 DEF At
  <2> QED BY <1>0, <2>0, <2>2, <2>3, <2>4, AllJobsStep DEF TypeOK
<1>4. CASE Crash
  <2> DEFINE Claimed(job) == [job EXCEPT !.stage = "claimed", !.lost = FALSE]
  <2>0. /\ stops' = stops + 1 /\ UNCHANGED <<sends, outages, raced>>
        /\ worker' = "down" /\ conn' = "none"
        /\ jobs' = [j \in All |-> IF jobs[j].stage \in Running THEN Claimed(jobs[j]) ELSE jobs[j]]
    BY <1>4 DEF Crash
  <2>1. ASSUME NEW j \in All PROVE Claimed(jobs[j]) \in JobRow
    BY <1>2 DEF JobRow, Stage
  <2>2. jobs' \in [All -> JobRow]
    BY <1>2, <2>0, <2>1
  <2>3. stops' = stops + 1 /\ outages' = outages /\ raced' = raced
    BY <2>0
  <2>4. ASSUME NEW r \in Resets PROVE Facts(r)'
    <3>0. /\ jobs[r] \in JobRow /\ jobs[r].mails \in Nat /\ jobs[r].tries \in Nat
          /\ MaxTries \in Nat
      BY <1>0, <1>2, BoundsAssumption DEF JobRow
    <3>1. CASE jobs[r].stage \notin Running
      <4>1. jobs'[r] = jobs[r]
        BY <1>0, <2>0, <3>1
      <4>2. Readable(r)' /\ LossCause(r)'
        BY <1>0, <2>3, <3>0, <4>1 DEF IInv, Facts, Readable, LossCause, At
      <4>3. MailsCounted(r)' /\ TriesCounted(r)'
        BY <1>0, <2>3, <3>0, <3>1, <4>1 DEF IInv, Facts, MailsCounted, TriesCounted
      <4> QED BY <4>2, <4>3 DEF Facts
    <3>2. CASE jobs[r].stage \in Running
      <4>1. jobs'[r] = Claimed(jobs[r])
        BY <1>0, <2>0, <3>2
      <4>2. /\ jobs'[r].stage = "claimed" /\ jobs'[r].db = jobs[r].db
            /\ jobs'[r].keywords = jobs[r].keywords /\ jobs'[r].lost = FALSE
            /\ jobs'[r].tries = jobs[r].tries /\ jobs'[r].mails = jobs[r].mails
        BY <3>0, <4>1 DEF JobRow
      <4>3. Readable(r)' /\ LossCause(r)'
        BY <3>2, <4>2 DEF IInv, Facts, Readable, LossCause, At, Running
      <4>4. MailsCounted(r)' /\ TriesCounted(r)'
        BY <1>0, <2>3, <3>0, <3>2, <4>2 DEF IInv, Facts, MailsCounted, TriesCounted, Running
      <4> QED BY <4>3, <4>4 DEF Facts
    <3> QED BY <3>1, <3>2
  <2>5. \A i \in Sends : jobs'[i] = jobs[i]
    BY <1>0, <1>1, <2>0 DEF Running
  <2> QED BY <1>0, <2>0, <2>2, <2>4, <2>5, AllJobsStep
<1>5. CASE Stop
  <2> DEFINE Requeued(job) == [job EXCEPT !.stage = "queued"]
  <2>0. /\ stops' = stops + 1 /\ UNCHANGED <<sends, outages, raced>>
        /\ worker' = "down" /\ conn' = "none" /\ \A j \in All : ~At(j, "ending")
        /\ jobs' = [j \in All |-> IF jobs[j].stage \in Running THEN Requeued(jobs[j]) ELSE jobs[j]]
    BY <1>5 DEF Stop
  <2>1. ASSUME NEW j \in All PROVE Requeued(jobs[j]) \in JobRow
    BY <1>2 DEF JobRow, Stage
  <2>2. jobs' \in [All -> JobRow]
    BY <1>2, <2>0, <2>1
  <2>3. ASSUME NEW r \in Resets PROVE Facts(r)'
    <3>0. /\ jobs[r] \in JobRow /\ jobs[r].mails \in Nat /\ jobs[r].tries \in Nat
          /\ MaxTries \in Nat
      BY <1>0, <1>2, BoundsAssumption DEF JobRow
    <3>1. CASE jobs[r].stage \notin Running
      <4>1. jobs'[r] = jobs[r]
        BY <1>0, <2>0, <3>1
      <4> QED BY <1>0, <2>0, <3>0, <3>1, <4>1
              DEF IInv, Facts, Readable, MailsCounted, TriesCounted, LossCause, At, Running
    <3>2. CASE jobs[r].stage \in Running
      <4>1. jobs'[r] = Requeued(jobs[r]) /\ jobs[r].stage # "ending"
        BY <1>0, <2>0, <3>2 DEF At
      <4>2. /\ jobs'[r].stage = "queued" /\ jobs'[r].db = jobs[r].db
            /\ jobs'[r].keywords = jobs[r].keywords /\ jobs'[r].lost = jobs[r].lost
            /\ jobs'[r].tries = jobs[r].tries /\ jobs'[r].mails = jobs[r].mails
        BY <3>0, <4>1 DEF JobRow
      <4> QED BY <1>0, <2>0, <3>0, <3>2, <4>1, <4>2
              DEF IInv, Facts, Readable, MailsCounted, TriesCounted, LossCause, At, Running
    <3> QED BY <3>1, <3>2
  <2>4. \A i \in Sends : jobs'[i] = jobs[i]
    BY <1>0, <1>1, <2>0 DEF Running
  <2> QED BY <1>0, <2>0, <2>2, <2>3, <2>4, AllJobsStep
<1>6. CASE Restart
  <2>1. worker' = "up" /\ UNCHANGED <<jobs, sends, conn, stops, outages, raced>>
    BY <1>6 DEF Restart
  <2>2. \A r \in Resets : Facts(r)'
    BY <2>1 DEF IInv, Facts, Readable, MailsCounted, TriesCounted, LossCause, At
  <2>3. conn' = "broken" => outages' > 0
    BY <2>1 DEF IInv
  <2> QED BY <2>1, <2>2, <2>3, AllJobsStep DEF IInv, TypeOK
<1> QED BY <1>3, <1>4, <1>5, <1>6

-----------------------------------------------------------------------------

\* The invariant holds of every behaviour.
THEOREM Invariance == Spec => []IInv
<1>1. Init => IInv
  <2> SUFFICES ASSUME Init PROVE IInv
    OBVIOUS
  <2>1. \A j \in All : jobs[j] = [stage |-> "none", db |-> "arq", keywords |-> TRUE,
                                  tries |-> 0, mails |-> 0, lost |-> FALSE]
    BY DEF Init, NoJob
  <2>2. TypeOK
    BY DEF Init, NoJob, TypeOK, JobRow, Stage, Database
  <2>3. \A r \in Resets : Facts(r)
    BY <2>1, BoundsAssumption
       DEF Init, All, Facts, Readable, MailsCounted, TriesCounted, LossCause, At
  <2>4. InvoiceMailWaits /\ conn = "none"
    BY <2>1 DEF Init, InvoiceMailWaits, At, All
  <2> QED BY <2>2, <2>3, <2>4 DEF IInv
<1>2. IInv /\ [Next]_vars => IInv'
  <2> SUFFICES ASSUME IInv, [Next]_vars PROVE IInv'
    OBVIOUS
  <2>1. CASE UNCHANGED vars
    BY <2>1 DEF vars, IInv, TypeOK, Facts, Readable, MailsCounted, TriesCounted, LossCause,
       InvoiceMailWaits, At
  <2> QED BY <2>1, Requests, WorkKeeps, FaultsKeep DEF Next
<1> QED BY <1>1, <1>2, PTL DEF Spec

\* A mail is repeated only by stops of the worker, and no more often than MaxTries.
THEOREM MailsTheorem == Spec => []MailsExplained
<1>1. IInv => MailsExplained
  <2> SUFFICES ASSUME IInv, NEW r \in Resets
               PROVE  jobs[r].mails <= stops + 1 /\ jobs[r].mails <= MaxTries
    BY DEF MailsExplained
  <2>1. /\ jobs[r].mails \in Nat /\ jobs[r].tries \in Nat /\ stops \in Nat /\ MaxTries \in Nat
    BY BoundsAssumption DEF IInv, TypeOK, JobRow, All
  <2> QED BY <2>1 DEF IInv, Facts, MailsCounted, TriesCounted
<1> QED BY <1>1, Invariance, PTL

\* A reset mail is lost in the three ways only.
THEOREM LossTheorem == Spec => []LossExplained
<1>1. IInv => LossExplained
  BY DEF IInv, LossExplained, Facts, LossCause
<1> QED BY <1>1, Invariance, PTL

\* The worker never starts what send_invoice enqueues, however many invoices are sent.
THEOREM NeverStarted == Spec => []InvoiceMailWaits
<1>1. IInv => InvoiceMailWaits
  BY DEF IInv
<1> QED BY <1>1, Invariance, PTL

=============================================================================
