------------------------------ MODULE JobQueue ------------------------------
(***************************************************************************)
(* The job engine of services/jobService.ts and the job routes of          *)
(* routes/jobs.ts: one Postgres `jobs` table shared by several API         *)
(* replicas, each of which claims, runs, finishes and reaps jobs.          *)
(*                                                                         *)
(* A row of the table and an execution of runClaimedJob() are separate     *)
(* pieces of state.  An execution carries the snapshot of the row that     *)
(* claimNextJob() returned and goes on using it, whatever happens to the   *)
(* row meanwhile: that is what the interesting interleavings are about.    *)
(*                                                                         *)
(* Abstractions.  Timestamps are kept as what the queries ask of them:     *)
(* whether run_after and next_run_at lie in the past, and how many ticks   *)
(* old heartbeat_at is.  ORDER BY run_after is dropped (SKIP LOCKED may    *)
(* pass over any locked row, so every claimable row may be taken).  Text   *)
(* columns (payload, stage, last_error, output) and the published progress *)
(* events carry no control and are left out.                               *)
(***************************************************************************)
EXTENDS Naturals

CONSTANTS
    Worker,         \* replicas; WORKER_ID is hostname:pid, kept over a container restart
    Job,            \* job ids (UUIDs, never reused)
    NULL,           \* SQL NULL
    NumDevices,     \* length of a job's device_ids
    MaxAttempts,    \* largest maxAttempts a job may be created with
    BeatTicks,      \* HEARTBEAT_MS in ticks
    StaleTicks,     \* STALE_MS in ticks
    ReliableBeats,  \* TRUE: no execution outlives its heartbeat period unheard
    MaxClaims,      \* bound on `attempts`
    MaxCrashes      \* bound on crashes

ASSUME NullAssumption == NULL \notin Worker /\ NULL \notin Nat
ASSUME SizeAssumption ==
    /\ NumDevices \in Nat \ {0}
    /\ MaxAttempts \in Nat \ {0}
    /\ MaxClaims \in Nat /\ MaxAttempts <= MaxClaims
    /\ MaxCrashes \in Nat
ASSUME BeatAssumption ==
    /\ BeatTicks \in Nat \ {0}
    /\ StaleTicks \in Nat /\ BeatTicks <= StaleTicks
    /\ ReliableBeats \in BOOLEAN

VARIABLES
    jobs,       \* the jobs table
    results,    \* the job_results table
    runs,       \* executions of runClaimedJob() that are still going
    crashes     \* crashes so far (bounds the model, no counterpart in the code)

vars == <<jobs, results, runs, crashes>>

Finished == {"done", "failed", "cancelled"}

\* "absent": not inserted yet; "deleted": removed by DELETE /api/jobs/finished
Status == {"absent", "pending", "running", "deleted"} \cup Finished

Owner == Worker \cup {NULL}

Age == 0 .. StaleTicks + 1 \cup {NULL}

Row == [status      : Status,
        attempts    : Nat,
        maxAttempts : Nat,
        cron        : BOOLEAN,                      \* a cron expression is set
        lockedBy    : Owner,
        heartbeat   : Age,                          \* age of heartbeat_at
        due         : BOOLEAN,                      \* run_after <= now()
        cronDue     : BOOLEAN]                      \* next_run_at <= now()

Result == [job : Job, device : 1 .. NumDevices, attempt : Nat, success : BOOLEAN]

\* One call of runClaimedJob(): `attempt`, `maxAttempts` and `cron` come from the
\* claimed row; `pos` is the device being worked on, NumDevices + 1 once the loop
\* is over and the heartbeat timer is cleared; `beat` is the age of the timer.
Run == [job         : Job,
        worker      : Worker,
        attempt     : Nat,
        maxAttempts : Nat,
        cron        : BOOLEAN,
        pos         : 1 .. NumDevices + 1,
        allOk       : BOOLEAN,
        beat        : 0 .. BeatTicks]

NoRow(status) ==
    [status |-> status, attempts |-> 0, maxAttempts |-> 0, cron |-> FALSE,
     lockedBy |-> NULL, heartbeat |-> NULL, due |-> FALSE, cronDue |-> FALSE]

Exists(j) == jobs[j].status \notin {"absent", "deleted"}

Looping(r) == r.pos <= NumDevices

-----------------------------------------------------------------------------
Init ==
    /\ jobs = [j \in Job |-> NoRow("absent")]
    /\ results = {}
    /\ runs = {}
    /\ crashes = 0

\* createJob(): an immediate job is claimable now, a scheduled one later, a
\* recurring one not before its first cron date.
CreateJob(j, cron, due, max) ==
    /\ jobs[j].status = "absent"
    /\ jobs' = [jobs EXCEPT ![j] =
         [NoRow("pending") EXCEPT !.maxAttempts = max, !.cron = cron, !.due = due]]
    /\ UNCHANGED <<results, runs, crashes>>

\* The WHERE clause of the claim's sub-select.
Claimable(row) ==
    /\ row.status = "pending"
    /\ row.due
    /\ row.cron => row.cronDue

\* Mutant: the claim does not count the attempt.
ClaimNextJobUncounted(w, j) ==
    /\ Claimable(jobs[j])
    /\ jobs' = [jobs EXCEPT ![j].status = "running", ![j].heartbeat = 0, ![j].lockedBy = w]
    /\ runs' = runs \cup
         {[job |-> j, worker |-> w, attempt |-> jobs[j].attempts,
           maxAttempts |-> jobs[j].maxAttempts, cron |-> jobs[j].cron,
           pos |-> 1, allOk |-> TRUE, beat |-> 0]}
    /\ UNCHANGED <<results, crashes>>

\* Mutant: the claim leaves heartbeat_at to the first beat.
ClaimNextJobNoHeartbeat(w, j) ==
    /\ Claimable(jobs[j])
    /\ jobs[j].attempts < MaxClaims
    /\ jobs' = [jobs EXCEPT ![j].status = "running", ![j].lockedBy = w, ![j].attempts = @ + 1]
    /\ runs' = runs \cup
         {[job |-> j, worker |-> w, attempt |-> jobs[j].attempts + 1,
           maxAttempts |-> jobs[j].maxAttempts, cron |-> jobs[j].cron,
           pos |-> 1, allOk |-> TRUE, beat |-> 0]}
    /\ UNCHANGED <<results, crashes>>

\* One round of drainJobQueue(): the claim is a single UPDATE ... SKIP LOCKED, and
\* the execution starts without being awaited.
ClaimNextJob(w, j) ==
    /\ Claimable(jobs[j])
    /\ jobs[j].attempts < MaxClaims
    /\ jobs' = [jobs EXCEPT ![j].status = "running",
                            ![j].heartbeat = 0,
                            ![j].lockedBy = w,
                            ![j].attempts = @ + 1]
    /\ runs' = runs \cup
         {[job |-> j, worker |-> w, attempt |-> jobs[j].attempts + 1,
           maxAttempts |-> jobs[j].maxAttempts, cron |-> jobs[j].cron,
           pos |-> 1, allOk |-> TRUE, beat |-> 0]}
    /\ UNCHANGED <<results, crashes>>

\* The interval timer of runClaimedJob() fires: the row is touched only while it is
\* still locked by this worker.
Heartbeat(r) ==
    /\ Looping(r)
    /\ r.beat = BeatTicks
    /\ runs' = (runs \ {r}) \cup {[r EXCEPT !.beat = 0]}
    /\ jobs' = IF jobs[r.job].lockedBy = r.worker
                 THEN [jobs EXCEPT ![r.job].heartbeat = 0]
                 ELSE jobs
    /\ UNCHANGED <<results, crashes>>

\* runJobOnDevice() returns or throws for one device, and its job_results row is
\* inserted.  The row refers to the job (foreign key), so the job must still exist.
RunJobOnDevice(r, ok) ==
    /\ Looping(r)
    /\ Exists(r.job)
    /\ results' = results \cup
         {[job |-> r.job, device |-> r.pos, attempt |-> r.attempt, success |-> ok]}
    /\ runs' = (runs \ {r}) \cup {[r EXCEPT !.pos = @ + 1, !.allOk = @ /\ ok]}
    /\ UNCHANGED <<jobs, crashes>>

\* An exception escapes runClaimedJob(): a failed query (counted as a crash), or the
\* insert of a result whose job was deleted meanwhile.  The row stays as it is.
RunThrows(r) ==
    /\ \/ Looping(r) /\ ~Exists(r.job) /\ UNCHANGED crashes
       \/ crashes < MaxCrashes /\ crashes' = crashes + 1
    /\ runs' = runs \ {r}
    /\ UNCHANGED <<jobs, results>>

\* A replica dies with every execution it was running.
WorkerCrash(w) ==
    /\ crashes < MaxCrashes
    /\ crashes' = crashes + 1
    /\ \E r \in runs : r.worker = w
    /\ runs' = {r \in runs : r.worker # w}
    /\ UNCHANGED <<jobs, results>>

\* Mutant: off by one, a retry is granted when the attempts are used up.
DecideJobOutcomeOffByOne(r) ==
    IF r.cron THEN "reschedule"
    ELSE IF r.allOk THEN "done"
    ELSE IF r.attempt <= r.maxAttempts THEN "retry"
    ELSE "fail"

\* Mutant: the outcome looks at the attempts before it looks at the failures.
DecideJobOutcomeDoneFirst(r) ==
    IF r.cron THEN "reschedule"
    ELSE IF r.allOk \/ r.attempt = r.maxAttempts THEN "done"
    ELSE "retry"

\* decideJobOutcome() on the claimed snapshot.
DecideJobOutcome(r) ==
    IF r.cron THEN "reschedule"
    ELSE IF r.allOk THEN "done"
    ELSE IF r.attempt < r.maxAttempts THEN "retry"
    ELSE "fail"

\* Mutant: a status the table's CHECK constraint does not allow.
OutcomeBadStatus(row, outcome) ==
    [row EXCEPT !.status = IF outcome = "fail" THEN "error" ELSE "pending",
                !.lockedBy = NULL, !.heartbeat = NULL]

\* What finishJob() writes to the row for each outcome.
Outcome(row, outcome) ==
    LET freed == [row EXCEPT !.lockedBy = NULL, !.heartbeat = NULL]
    IN  CASE outcome = "reschedule" ->
                 [freed EXCEPT !.status = "pending", !.due = FALSE, !.cronDue = FALSE]
          [] outcome = "retry"      -> [freed EXCEPT !.status = "pending", !.due = FALSE]
          [] outcome = "done"       -> [freed EXCEPT !.status = "done"]
          [] outcome = "fail"       -> [freed EXCEPT !.status = "failed"]

\* finishJob(): the UPDATE names the job by id alone.
FinishJob(r) ==
    /\ ~Looping(r)
    /\ jobs' = IF Exists(r.job)
                 THEN [jobs EXCEPT ![r.job] = Outcome(@, DecideJobOutcome(r))]
                 ELSE jobs
    /\ runs' = runs \ {r}
    /\ UNCHANGED <<results, crashes>>

\* Mutant: the reaper takes every running row, however fresh its heartbeat.
StaleAnyAge(row) ==
    /\ row.status = "running"
    /\ row.heartbeat # NULL

Stale(row) ==
    /\ row.status = "running"
    /\ row.heartbeat # NULL
    /\ row.heartbeat > StaleTicks

\* Mutant: the reaper forgets to clear the lock of the row it requeues.
ReapedKeepsLock(row) ==
    [row EXCEPT !.status = IF row.attempts < row.maxAttempts THEN "pending" ELSE "failed",
                !.heartbeat = NULL,
                !.due = TRUE]

Reaped(row) ==
    [row EXCEPT !.status = IF row.attempts < row.maxAttempts THEN "pending" ELSE "failed",
                !.lockedBy = NULL,
                !.heartbeat = NULL,
                !.due = TRUE]

\* reapStaleJobs(): one UPDATE over every stale row.
ReapStaleJobs ==
    /\ \E j \in Job : Stale(jobs[j])
    /\ jobs' = [j \in Job |-> IF Stale(jobs[j]) THEN Reaped(jobs[j]) ELSE jobs[j]]
    /\ UNCHANGED <<results, runs, crashes>>

\* Mutant: the manual retry does not check that the job failed.
RetryJobAnyStatus(j) ==
    /\ Exists(j)
    /\ jobs[j].attempts < MaxClaims
    /\ jobs' = [jobs EXCEPT
         ![j].status = "pending",
         ![j].lockedBy = NULL,
         ![j].heartbeat = NULL,
         ![j].due = TRUE,
         ![j].maxAttempts = IF @ > jobs[j].attempts THEN @ ELSE jobs[j].attempts + 1]
    /\ UNCHANGED <<results, runs, crashes>>

\* retryJob(): POST /api/jobs/:id/retry.
RetryJob(j) ==
    /\ jobs[j].status = "failed"
    /\ jobs[j].attempts < MaxClaims
    /\ jobs' = [jobs EXCEPT
         ![j].status = "pending",
         ![j].lockedBy = NULL,
         ![j].heartbeat = NULL,
         ![j].due = TRUE,
         ![j].maxAttempts = IF @ > jobs[j].attempts THEN @ ELSE jobs[j].attempts + 1]
    /\ UNCHANGED <<results, runs, crashes>>

\* POST /api/jobs/:id/cancel.
CancelJob(j) ==
    /\ jobs[j].status = "pending"
    /\ jobs' = [jobs EXCEPT ![j].status = "cancelled"]
    /\ UNCHANGED <<results, runs, crashes>>

\* DELETE /api/jobs/finished; job_results rows go with their job (ON DELETE CASCADE).
ClearFinished ==
    /\ \E j \in Job : jobs[j].status \in Finished
    /\ jobs' = [j \in Job |->
                  IF jobs[j].status \in Finished THEN NoRow("deleted") ELSE jobs[j]]
    /\ results' = {x \in results : jobs[x.job].status \notin Finished}
    /\ UNCHANGED <<runs, crashes>>

\* The clock passes run_after, or next_run_at of a recurring job.
BecomeDue(j) ==
    /\ jobs[j].status = "pending"
    /\ \/ /\ ~jobs[j].due
          /\ jobs' = [jobs EXCEPT ![j].due = TRUE]
       \/ /\ jobs[j].cron /\ ~jobs[j].cronDue
          /\ jobs' = [jobs EXCEPT ![j].cronDue = TRUE]
    /\ UNCHANGED <<results, runs, crashes>>

Older(row) ==
    IF row.heartbeat \in 0 .. StaleTicks
      THEN [row EXCEPT !.heartbeat = @ + 1]
      ELSE row

Later(r) == [r EXCEPT !.beat = IF @ < BeatTicks THEN @ + 1 ELSE @]

\* A tick of the clock.  With reliable beats no execution lets its heartbeat period
\* pass without a successful beat (or its finishing UPDATE).
Tick ==
    /\ ReliableBeats => \A r \in runs : r.beat < BeatTicks
    /\ jobs' = [j \in Job |-> Older(jobs[j])]
    /\ runs' = {Later(r) : r \in runs}
    /\ UNCHANGED <<results, crashes>>

Next ==
    \/ \E j \in Job :
         \/ \E cron, due \in BOOLEAN, max \in 1 .. MaxAttempts :
               CreateJob(j, cron, due, max)
         \/ \E w \in Worker : ClaimNextJob(w, j)
         \/ RetryJob(j)
         \/ CancelJob(j)
         \/ BecomeDue(j)
    \/ \E r \in runs :
         \/ Heartbeat(r)
         \/ \E ok \in BOOLEAN : RunJobOnDevice(r, ok)
         \/ RunThrows(r)
         \/ FinishJob(r)
    \/ \E w \in Worker : WorkerCrash(w)
    \/ ReapStaleJobs
    \/ ClearFinished
    \/ Tick

Spec == Init /\ [][Next]_vars

\* The scheduler's timers keep draining and reaping on every replica, and a device
\* operation ends (SSH and SNMP calls time out).  Users and crashes are not fair.
Fairness ==
    /\ WF_vars(Tick)
    /\ WF_vars(ReapStaleJobs)
    /\ \A j \in Job :
         /\ WF_vars(BecomeDue(j))
         /\ WF_vars(\E w \in Worker : ClaimNextJob(w, j))
         /\ WF_vars(\E r \in runs : r.job = j /\ Heartbeat(r))
         /\ WF_vars(\E r \in runs : r.job = j /\
               (FinishJob(r) \/ RunThrows(r) \/ \E ok \in BOOLEAN : RunJobOnDevice(r, ok)))

FairSpec == Spec /\ Fairness

-----------------------------------------------------------------------------
TypeOK ==
    /\ jobs \in [Job -> Row]
    /\ results \in SUBSET Result
    /\ runs \in SUBSET Run
    /\ crashes \in Nat

\* A row is running exactly while it names its worker and has a heartbeat.  The
\* reaper looks only at rows with a heartbeat: a running row without one would never
\* be requeued, and a lock left on a requeued row would let the old worker keep it alive.
LockDiscipline ==
    \A j \in Job :
        /\ jobs[j].status = "running" <=> jobs[j].lockedBy # NULL
        /\ jobs[j].status = "running" <=> jobs[j].heartbeat # NULL

\* Header of jobService.ts: "exactly one replica picks up each runnable job - no
\* double execution".  No two executions of one job are going at once.
NoDoubleExecution == \A r, s \in runs : r.job = s.job => r = s

\* A going execution is the one its row records: nobody cancelled, requeued, finished
\* or deleted the job under it, and finishJob() writes over no one else's claim.
RunOwnsRow ==
    \A r \in runs : /\ jobs[r.job].status = "running"
                    /\ jobs[r.job].lockedBy = r.worker
                    /\ jobs[r.job].attempts = r.attempt

\* While beats are reliable the row's heartbeat is never older than the timer of the
\* execution that owns it, so the reaper passes it over.
HeartbeatFresh == \A r \in runs : jobs[r.job].heartbeat \in 0 .. r.beat

\* The claimed snapshot stays up to date: nobody changes max_attempts or cron of a
\* running row.
SnapshotCurrent ==
    \A r \in runs : /\ r.maxAttempts = jobs[r.job].maxAttempts
                    /\ r.cron = jobs[r.job].cron

\* A pending one-shot job has an attempt left.
PendingHasAttempt ==
    \A j \in Job : jobs[j].status = "pending" /\ ~jobs[j].cron
                     => jobs[j].attempts < jobs[j].maxAttempts

\* A one-shot job is executed at most max_attempts times: the claim itself does not
\* look at max_attempts, so everyone who makes a row pending must leave it room.
AttemptsWithinBudget ==
    \A j \in Job : ~jobs[j].cron => jobs[j].attempts <= jobs[j].maxAttempts

\* Inductive with TypeOK when beats are reliable.
OwnershipInv ==
    /\ NoDoubleExecution
    /\ RunOwnsRow
    /\ HeartbeatFresh
    /\ SnapshotCurrent
    /\ PendingHasAttempt
    /\ AttemptsWithinBudget

\* An attempt number stands for one execution even when several executions of a job
\* overlap: the results filed under a going execution's attempt are its own, one for
\* each device it has been through.
AttemptIdentifiesRun ==
    /\ \A r, s \in runs : r.job = s.job /\ r.attempt = s.attempt => r = s
    /\ \A r \in runs : Exists(r.job) =>
         {x.device : x \in {y \in results : y.job = r.job /\ y.attempt = r.attempt}}
           = 1 .. r.pos - 1

\* A job is reported done only if some single attempt succeeded on every device.
DoneMeansAllSucceeded ==
    \A j \in Job : jobs[j].status = "done" =>
        \E a \in 1 .. jobs[j].attempts : \A d \in 1 .. NumDevices :
            [job |-> j, device |-> d, attempt |-> a, success |-> TRUE] \in results

\* What is filed under a job is filed under an attempt that was claimed: numbers are
\* never given out again, and a job that was deleted does not come back.
AttemptsOnRecord ==
    /\ \A r \in runs : /\ jobs[r.job].status # "absent"
                       /\ Exists(r.job) => r.attempt \in 1 .. jobs[r.job].attempts
    /\ \A x \in results : Exists(x.job) /\ x.attempt \in 1 .. jobs[x.job].attempts

\* An execution that has met no failure so far has a success on record for every device
\* it has been through.
AllOkIsOnRecord ==
    \A r \in runs : Exists(r.job) /\ r.allOk => \A d \in 1 .. r.pos - 1 :
        [job |-> r.job, device |-> d, attempt |-> r.attempt, success |-> TRUE] \in results

\* Inductive with TypeOK, whether beats are reliable or not.
HistoryInv ==
    /\ LockDiscipline
    /\ AttemptsOnRecord
    /\ AttemptIdentifiesRun
    /\ AllOkIsOnRecord
    /\ DoneMeansAllSucceeded

\* A job that was done or cancelled is never put back or executed again; a failed
\* one only by retryJob().
FinishedIsFinal ==
    [][\A j \in Job :
         /\ jobs[j].status \in {"done", "cancelled"} =>
              jobs'[j].status \in {jobs[j].status, "deleted"}
         /\ jobs[j].status = "failed" /\ jobs'[j].status # "failed" =>
              jobs'[j].status = "deleted" \/ RetryJob(j)]_vars

\* Every one-shot job comes to an end, however often it is retried and whatever worker
\* dies on it: it is not pending or running for good.
OneShotSettles ==
    \A j \in Job : []<>(jobs[j].status \notin {"pending", "running"} \/ jobs[j].cron)

\* finishJob(): "Recurring jobs always return to pending for their next scheduled run."
RecurringReturnsToPending ==
    \A j \in Job : jobs[j].cron => jobs[j].status # "failed"

=============================================================================
