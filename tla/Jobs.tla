--------------------------------- MODULE Jobs ---------------------------------
(***************************************************************************)
(* Background jobs: who enqueues them, where, and what the worker makes of *)
(* them:                                                                   *)
(*   backend/app/workers/tasks.py, backend/app/workers/main.py,            *)
(*   forgot_password in auth.py, send_invoice in invoices.py               *)
(*                                                                         *)
(* The worker is one process with one event loop.  A job waits only for    *)
(* the database and for Redis: smtplib blocks, so a mail is sent in the    *)
(* step in which the query is answered.  All jobs use the one database     *)
(* session of startup(), in which nobody ever commits or rolls back.  What *)
(* arq does with a job is modelled from arq 0.26: it stays in the queue    *)
(* until it is finished, claimed meanwhile by an in-progress key that      *)
(* expires.                                                                *)
(***************************************************************************)
EXTENDS Naturals, FiniteSets

CONSTANTS
    Resets,     \* POST /auth/forgot-password requests
    Sends,      \* POST /invoices/{id}/send requests
    MaxJobs,    \* jobs the worker runs at a time
    MaxTries,   \* times the worker starts a job before it gives it up
    MaxStops,   \* bound: stops and crashes of the worker
    MaxOutages  \* bound: losses of the database connection

ASSUME RequestsAssumption == Resets \cap Sends = {}
ASSUME BoundsAssumption == MaxJobs \in Nat /\ MaxTries \in Nat /\ MaxTries > 0
                           /\ MaxStops \in Nat /\ MaxOutages \in Nat

VARIABLES
    jobs,
    sends,    \* where each POST /invoices/{id}/send is
    worker,   \* "up" or "down"
    conn,     \* the connection of the worker's session
    stops,    \* history: how often the worker has stopped
    outages,  \* history: how often its connection was lost
    raced     \* history: jobs that asked for a connection while another was getting it

vars == <<jobs, sends, worker, conn, stops, outages, raced>>

-----------------------------------------------------------------------------

All == Resets \cup Sends

\* The two databases of the Redis server: REDIS_URL and ARQ_REDIS_URL.
Database == {"cache", "arq"}

\* queued: in the queue, unclaimed.  started: the worker has begun it.  querying: it
\* waits for the database.  ending: it has returned or raised, and the worker is about
\* to remove it from the queue.  claimed: the process that claimed it has died.
Stage == {"none", "queued", "started", "querying", "ending", "claimed", "ended"}
Running == {"started", "querying", "ending"}

\* tries and mails count how often it was started and how often its mail went out.
\* lost: it ended in an exception other than the mail server's.
JobRow == [stage : Stage, db : Database, keywords : BOOLEAN, tries : Nat, mails : Nat,
           lost : BOOLEAN]
NoJob == [stage |-> "none", db |-> "arq", keywords |-> TRUE, tries |-> 0, mails |-> 0,
          lost |-> FALSE]

\* enqueue_job, to one of the databases, with the arguments as keywords or in order.
Enqueued(db, keywords) ==
    [stage |-> "queued", db |-> db, keywords |-> keywords, tries |-> 0, mails |-> 0,
     lost |-> FALSE]

At(j, stage) == jobs[j].stage = stage
Ended(job) == [job EXCEPT !.stage = "ending"]
Lost(job) == [job EXCEPT !.stage = "ending", !.lost = TRUE]

-----------------------------------------------------------------------------
(* The requests. *)

EnqueueTaskInOrder(r) ==
    jobs' = [jobs EXCEPT ![r] = Enqueued("arq", FALSE)]

\* enqueue_task
EnqueueTask(r) ==
    jobs' = [jobs EXCEPT ![r] = Enqueued("arq", TRUE)]

\* POST /auth/forgot-password for an active user.  When Redis does not answer, the
\* request is answered all the same, and nothing happens.
ForgotPassword(r) ==
    /\ At(r, "none")
    /\ EnqueueTask(r)
    /\ UNCHANGED <<sends, worker, conn, stops, outages, raced>>

\* POST /invoices/{id}/send flushes the status, enqueues the job and commits.  A
\* failure to enqueue is swallowed, a failure afterwards rolls back the status only.
SendFlush(i) ==
    /\ sends[i] = "none"
    /\ sends' = [sends EXCEPT ![i] = "flushed"]
    /\ UNCHANGED <<jobs, worker, conn, stops, outages, raced>>

SendEnqueue(i) ==
    /\ sends[i] = "flushed"
    /\ sends' = [sends EXCEPT ![i] = "enqueued"]
    /\ jobs' \in {jobs, [jobs EXCEPT ![i] = Enqueued("cache", FALSE)]}
    /\ UNCHANGED <<worker, conn, stops, outages, raced>>

SendEnd(i) ==
    /\ sends[i] = "enqueued"
    /\ \E end \in {"sent", "failed"} : sends' = [sends EXCEPT ![i] = end]
    /\ UNCHANGED <<jobs, worker, conn, stops, outages, raced>>

-----------------------------------------------------------------------------
(* The worker. *)

PolledCache == "cache"

\* WorkerSettings.redis_settings
Polled == "arq"

\* A job started too often ends without being run.
Started(job) ==
    IF job.tries < MaxTries THEN [job EXCEPT !.stage = "started", !.tries = @ + 1] ELSE Lost(job)

Start(j) ==
    /\ worker = "up"
    /\ At(j, "queued") /\ jobs[j].db = Polled
    /\ Cardinality({k \in All : jobs[k].stage \in Running}) < MaxJobs
    /\ jobs' = [jobs EXCEPT ![j] = Started(@)]
    /\ UNCHANGED <<sends, worker, conn, stops, outages, raced>>

\* The task functions take keywords only.  The first query of the session gets it a
\* connection, and until it has one the session refuses every other query; a session
\* whose connection was lost refuses all, as it is never rolled back.
Query(j) ==
    /\ At(j, "started")
    /\ LET refused == conn \in {"connecting", "broken"} \/ ~jobs[j].keywords IN
       /\ jobs' = [jobs EXCEPT ![j] = IF refused THEN Lost(@) ELSE [@ EXCEPT !.stage = "querying"]]
       /\ conn' = IF conn = "none" /\ ~refused THEN "connecting" ELSE conn
    /\ raced' = IF conn = "connecting" THEN raced \cup {j} ELSE raced
    /\ UNCHANGED <<sends, worker, stops, outages>>

MailedAndRetry(job) == [job EXCEPT !.stage = "queued", !.mails = @ + 1]

\* _send_email has sent the mail.
Mailed(job) == [Ended(job) EXCEPT !.mails = @ + 1]

\* The answer comes and the mail goes out; or it does not, because the mail server
\* refuses it, there is no mail server or no address.
Answer(j) ==
    /\ At(j, "querying")
    /\ conn' = "open"
    /\ jobs' \in {[jobs EXCEPT ![j] = Mailed(@)], [jobs EXCEPT ![j] = Ended(@)]}
    /\ UNCHANGED <<sends, worker, stops, outages, raced>>

\* A finished job is removed from the queue, whether it succeeded or failed:
\* arq tries again only what was cancelled, or raised Retry, which no task does.
Finish(j) ==
    /\ At(j, "ending")
    /\ jobs' = [jobs EXCEPT ![j].stage = "ended"]
    /\ UNCHANGED <<sends, worker, conn, stops, outages, raced>>

\* The claim of a dead process expires.
Expire(j) ==
    /\ At(j, "claimed")
    /\ jobs' = [jobs EXCEPT ![j].stage = "queued"]
    /\ UNCHANGED <<sends, worker, conn, stops, outages, raced>>

\* The connection drops, or a query takes longer than job_timeout and is cancelled.
\* Getting one may fail as well, which leaves the session as it was.
Outage ==
    /\ outages < MaxOutages
    /\ outages' = outages + 1
    /\ \/ conn = "open" /\ conn' = "broken"
       \/ conn = "connecting" /\ conn' = "none"
    /\ jobs' = [j \in All |-> IF At(j, "querying") THEN Lost(jobs[j]) ELSE jobs[j]]
    /\ UNCHANGED <<sends, worker, stops, raced>>

\* The process dies (killed, out of memory): its claims stay.
Crash ==
    /\ worker = "up" /\ stops < MaxStops
    /\ jobs' = [j \in All |-> IF jobs[j].stage \in Running
                              THEN [jobs[j] EXCEPT !.stage = "claimed", !.lost = FALSE]
                              ELSE jobs[j]]
    /\ worker' = "down" /\ conn' = "none" /\ stops' = stops + 1
    /\ UNCHANGED <<sends, outages, raced>>

\* The process is told to stop, at a deployment for instance.  It cancels its jobs,
\* which arq puts back, and waits for those that are ending.
Stop ==
    /\ worker = "up" /\ stops < MaxStops
    /\ \A j \in All : ~At(j, "ending")
    /\ jobs' = [j \in All |-> IF jobs[j].stage \in Running
                              THEN [jobs[j] EXCEPT !.stage = "queued"] ELSE jobs[j]]
    /\ worker' = "down" /\ conn' = "none" /\ stops' = stops + 1
    /\ UNCHANGED <<sends, outages, raced>>

\* docker-compose restarts the worker; startup() opens another session.
Restart ==
    /\ worker = "down"
    /\ worker' = "up"
    /\ UNCHANGED <<jobs, sends, conn, stops, outages, raced>>

-----------------------------------------------------------------------------

Init ==
    /\ jobs = [j \in All |-> NoJob]
    /\ sends = [i \in Sends |-> "none"]
    /\ worker = "up"
    /\ conn = "none"
    /\ stops = 0
    /\ outages = 0
    /\ raced = {}

Work(j) == Start(j) \/ Query(j) \/ Answer(j) \/ Finish(j) \/ Expire(j)

Next ==
    \/ \E r \in Resets : ForgotPassword(r)
    \/ \E i \in Sends : SendFlush(i) \/ SendEnqueue(i) \/ SendEnd(i)
    \/ \E j \in All : Work(j)
    \/ Outage \/ Crash \/ Stop \/ Restart

Spec == Init /\ [][Next]_vars

\* The worker's loop goes on, databases and mail servers answer in the end, and a
\* stopped worker is started again.  Nobody has to ask for anything.
FairSpec == Spec /\ WF_vars(Restart) /\ \A j \in All : WF_vars(Work(j))

-----------------------------------------------------------------------------

TypeOK ==
    /\ jobs \in [All -> JobRow]
    /\ sends \in [Sends -> {"none", "flushed", "enqueued", "sent", "failed"}]
    /\ worker \in {"up", "down"}
    /\ conn \in {"none", "connecting", "open", "broken"}
    /\ stops \in Nat /\ outages \in Nat
    /\ raced \in SUBSET All

\* A mail goes out a second time only because the worker died between the sending and
\* the removal of the job from the queue, and no more often than MaxTries.
MailsExplained ==
    \A r \in Resets : jobs[r].mails <= stops + 1 /\ jobs[r].mails <= MaxTries

\* A reset mail is lost in three ways only: another job was getting the session its
\* connection, the connection had been lost, or the worker stopped MaxTries times.
LossExplained ==
    \A r \in Resets :
        jobs[r].lost => r \in raced \/ outages > 0 \/ stops >= MaxTries

\* Every password reset that was enqueued is dealt with: its mail is sent or given up.
ResetSettled == \A r \in Resets : At(r, "queued") ~> At(r, "ended")

\* What send_invoice enqueues is dealt with.
SendSettled == \A i \in Sends : At(i, "queued") ~> At(i, "ended")

=============================================================================
