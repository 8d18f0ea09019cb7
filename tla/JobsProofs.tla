--------------------------- MODULE JobsProofs ------------------------------
(***************************************************************************)
(* Theorems about the job engine and the upgrades it carries out: about    *)
(* JobQueue for any set of workers and jobs, any number of devices and any *)
(* bounds, first with executions that are heard in time and then with any; *)
(* and about Firmware for any devices, images and bounds.                  *)
(***************************************************************************)
EXTENDS MCJobs, SequenceTheorems, TLAPS

USE NullAssumption, SizeAssumption, BeatAssumption, ZombieAssumption

\* The values the actions write into lockedBy and heartbeat.
LEMMA ColumnValues ==
    /\ NULL \in Owner /\ \A w \in Worker : w \in Owner
    /\ NULL \in Age /\ 0 \in Age
  BY DEF Owner, Age

\* What a single action does to a row stays within the row type.
LEMMA RowOps ==
    ASSUME NEW line \in Row
    PROVE  /\ Reaped(line) \in Row
           /\ Older(line) \in Row
           /\ \A o \in {"reschedule", "retry", "done", "fail"} : Outcome(line, o) \in Row
  <1>1. Reaped(line) \in Row
    BY ColumnValues DEF Reaped, Row, Status, Finished
  <1>2. Older(line) \in Row
    BY DEF Older, Row, Age
  <1>3. ASSUME NEW o \in {"reschedule", "retry", "done", "fail"}
        PROVE  Outcome(line, o) \in Row
    BY ColumnValues DEF Outcome, Row, Status, Finished
  <1> QED BY <1>1, <1>2, <1>3

\* The same for the updates that are written out in the actions, with the values
\* written kept abstract (the provers mix up strings and numbers otherwise).
LEMMA RowUpdates ==
    ASSUME NEW line \in Row, NEW st \in Status, NEW n \in Nat, NEW o \in Owner, NEW a \in Age,
           NEW b \in BOOLEAN, NEW c \in BOOLEAN
    PROVE  /\ [line EXCEPT !.maxAttempts = n, !.cron = b, !.due = c] \in Row
           /\ [line EXCEPT !.status = st, !.heartbeat = a, !.lockedBy = o, !.attempts = n] \in Row
           /\ [line EXCEPT !.status = st, !.lockedBy = o, !.heartbeat = a, !.due = b,
                          !.maxAttempts = n] \in Row
  BY DEF Row

LEMMA NoRowType == \A st \in Status : NoRow(st) \in Row
  BY ColumnValues DEF NoRow, Row

LEMMA OutcomeType ==
    \A r \in Run : DecideJobOutcome(r) \in {"reschedule", "retry", "done", "fail"}
  BY DEF DecideJobOutcome

\* Every column and every local of an execution keeps its type, on every step.
LEMMA TypeStep == TypeOK /\ [Next]_vars => TypeOK'
  <1> SUFFICES ASSUME TypeOK, [Next]_vars PROVE TypeOK'
    OBVIOUS
  <1> USE DEF TypeOK
  <1>1. ASSUME NEW j \in Job, NEW cron \in BOOLEAN, NEW due \in BOOLEAN,
               NEW max \in 1 .. MaxAttempts, CreateJob(j, cron, due, max)
        PROVE  TypeOK'
    <2>1. "pending" \in Status /\ max \in Nat
      BY DEF Status
    <2>2. NoRow("pending") \in Row
      BY <2>1, NoRowType
    <2>3. [NoRow("pending") EXCEPT !.maxAttempts = max, !.cron = cron, !.due = due] \in Row
      BY <2>1, <2>2, RowUpdates, ColumnValues
    <2> QED BY <1>1, <2>3 DEF CreateJob
  <1>2. ASSUME NEW j \in Job, NEW w \in Worker, ClaimNextJob(w, j)
        PROVE  TypeOK'
    <2>1. jobs[j] \in Row /\ jobs[j].attempts + 1 \in Nat /\ "running" \in Status
      BY DEF Row, Status
    <2>2. [jobs[j] EXCEPT !.status = "running", !.heartbeat = 0, !.lockedBy = w,
                          !.attempts = jobs[j].attempts + 1] \in Row
      BY <2>1, RowUpdates, ColumnValues
    <2>3. jobs' \in [Job -> Row]
      BY <1>2, <2>2 DEF ClaimNextJob
    <2>4. runs' \in SUBSET Run
      BY <1>2 DEF ClaimNextJob, Row, Run
    <2> QED BY <1>2, <2>3, <2>4 DEF ClaimNextJob
  <1>3. ASSUME NEW j \in Job, RetryJob(j) PROVE TypeOK'
    <2> DEFINE m == IF jobs[j].maxAttempts > jobs[j].attempts THEN jobs[j].maxAttempts
                    ELSE jobs[j].attempts + 1
    <2>1. jobs[j] \in Row /\ m \in Nat /\ "pending" \in Status
      BY DEF Row, Status
    <2>2. [jobs[j] EXCEPT !.status = "pending", !.lockedBy = NULL, !.heartbeat = NULL,
                          !.due = TRUE, !.maxAttempts = m] \in Row
      BY <2>1, RowUpdates, ColumnValues
    <2> QED BY <1>3, <2>2 DEF RetryJob
  <1>4. ASSUME NEW j \in Job, CancelJob(j) PROVE TypeOK'
    BY <1>4 DEF CancelJob, Row, Status, Finished
  <1>5. ASSUME NEW j \in Job, BecomeDue(j) PROVE TypeOK'
    <2>1. /\ [jobs[j] EXCEPT !.due = TRUE] \in Row
          /\ [jobs[j] EXCEPT !.cronDue = TRUE] \in Row
      BY DEF Row
    <2> QED BY <1>5, <2>1 DEF BecomeDue
  <1>6. ASSUME NEW r \in runs, Heartbeat(r) PROVE TypeOK'
    <2>1. r \in Run /\ r.job \in Job /\ [r EXCEPT !.beat = 0] \in Run
      BY DEF Run
    <2>2. [jobs[r.job] EXCEPT !.heartbeat = 0] \in Row
      BY <2>1, ColumnValues DEF Row
    <2> QED BY <1>6, <2>1, <2>2 DEF Heartbeat
  <1>7. ASSUME NEW r \in runs, NEW ok \in BOOLEAN, RunJobOnDevice(r, ok) PROVE TypeOK'
    <2>1. r \in Run /\ r.pos + 1 \in 1 .. NumDevices + 1
      BY <1>7 DEF RunJobOnDevice, Looping, Run
    <2>2. [r EXCEPT !.pos = @ + 1, !.allOk = @ /\ ok] \in Run
      BY <2>1 DEF Run
    <2>3. [job |-> r.job, device |-> r.pos, attempt |-> r.attempt, success |-> ok] \in Result
      BY <1>7, <2>1 DEF RunJobOnDevice, Looping, Run, Result
    <2> QED BY <1>7, <2>2, <2>3 DEF RunJobOnDevice
  <1>8. ASSUME NEW r \in runs, RunThrows(r) PROVE TypeOK'
    BY <1>8 DEF RunThrows
  <1>9. ASSUME NEW r \in runs, FinishJob(r) PROVE TypeOK'
    <2>1. r \in Run /\ r.job \in Job
      BY DEF Run
    <2>2. Outcome(jobs[r.job], DecideJobOutcome(r)) \in Row
      BY <2>1, RowOps, OutcomeType
    <2> QED BY <1>9, <2>1, <2>2 DEF FinishJob
  <1>10. ASSUME NEW w \in Worker, WorkerCrash(w) PROVE TypeOK'
    BY <1>10 DEF WorkerCrash
  <1>11. CASE ReapStaleJobs
    BY <1>11, RowOps DEF ReapStaleJobs
  <1>12. CASE ClearFinished
    <2>1. NoRow("deleted") \in Row
      BY NoRowType DEF Status
    <2> QED BY <1>12, <2>1 DEF ClearFinished
  <1>13. CASE Tick
    <2>1. \A r \in Run : Later(r) \in Run
      BY DEF Later, Run
    <2> QED BY <1>13, <2>1, RowOps DEF Tick
  <1>14. CASE UNCHANGED vars
    BY <1>14 DEF vars
  <1> QED
    BY <1>1, <1>2, <1>3, <1>4, <1>5, <1>6, <1>7, <1>8, <1>9, <1>10, <1>11, <1>12, <1>13,
       <1>14 DEF Next

LEMMA TypeInit == Init => TypeOK
  BY NoRowType DEF Init, TypeOK, Status

\* The jobs table, the results and the executions always have their types.
THEOREM TypeCorrect == Spec => []TypeOK
  BY TypeInit, TypeStep, PTL DEF Spec

-----------------------------------------------------------------------------
\* A row that an execution owns is not stale while beats are reliable.
LEMMA OwnedNotStale ==
    ASSUME TypeOK, OwnershipInv, NEW r \in runs
    PROVE  ~Stale(jobs[r.job])
  <1>1. jobs[r.job].heartbeat \in 0 .. r.beat /\ r.beat \in 0 .. BeatTicks
    BY DEF OwnershipInv, HeartbeatFresh, TypeOK, Run
  <1> QED BY <1>1 DEF Stale

\* With reliable beats every step keeps each execution the sole owner of its row.
LEMMA OwnershipStep ==
    ASSUME ReliableBeats, TypeOK, OwnershipInv, [Next]_vars
    PROVE  OwnershipInv'
  <1> USE DEF OwnershipInv, NoDoubleExecution, RunOwnsRow, HeartbeatFresh, SnapshotCurrent,
              PendingHasAttempt, AttemptsWithinBudget
  <1>0. /\ jobs \in [Job -> Row]
        /\ \A r \in runs : r \in Run /\ r.job \in Job
        /\ \A j \in Job : jobs[j] \in Row /\ jobs[j].attempts \in Nat
                           /\ jobs[j].maxAttempts \in Nat
    BY DEF TypeOK, Run, Row
  <1>1. ASSUME NEW j \in Job, NEW cron \in BOOLEAN, NEW due \in BOOLEAN,
               NEW max \in 1 .. MaxAttempts, CreateJob(j, cron, due, max)
        PROVE  OwnershipInv'
    BY <1>0, <1>1 DEF CreateJob, NoRow
  <1>2. ASSUME NEW j \in Job, NEW w \in Worker, ClaimNextJob(w, j)
        PROVE  OwnershipInv'
    <2> DEFINE n == [job |-> j, worker |-> w, attempt |-> jobs[j].attempts + 1,
                     maxAttempts |-> jobs[j].maxAttempts, cron |-> jobs[j].cron,
                     pos |-> 1, allOk |-> TRUE, beat |-> 0]
    <2>1. /\ jobs'[j].status = "running" /\ jobs'[j].lockedBy = w /\ jobs'[j].heartbeat = 0
          /\ jobs'[j].attempts = jobs[j].attempts + 1
          /\ jobs'[j].maxAttempts = jobs[j].maxAttempts /\ jobs'[j].cron = jobs[j].cron
          /\ \A k \in Job : k # j => jobs'[k] = jobs[k]
      BY <1>0, <1>2 DEF ClaimNextJob, Row
    <2>2. /\ jobs[j].status = "pending"
          /\ \A r \in runs : r.job # j
      BY <1>2 DEF ClaimNextJob, Claimable
    <2>3. /\ runs' = runs \cup {n}
          /\ n.job = j /\ n.worker = w /\ n.attempt = jobs[j].attempts + 1
          /\ n.maxAttempts = jobs[j].maxAttempts /\ n.cron = jobs[j].cron /\ n.beat = 0
      BY <1>2 DEF ClaimNextJob
    <2> HIDE DEF n
    <2>4. NoDoubleExecution'
      BY <2>2, <2>3
    <2>5. RunOwnsRow' /\ HeartbeatFresh' /\ SnapshotCurrent'
      BY <1>0, <2>1, <2>2, <2>3
    <2>6. PendingHasAttempt' /\ AttemptsWithinBudget'
      BY <1>0, <2>1, <2>2
    <2> QED BY <2>4, <2>5, <2>6
  <1>3. ASSUME NEW j \in Job, RetryJob(j) PROVE OwnershipInv'
    <2>1. /\ jobs[j].status = "failed" /\ runs' = runs
          /\ \A k \in Job : k # j => jobs'[k] = jobs[k]
      BY <1>0, <1>3 DEF RetryJob
    <2>2. /\ jobs'[j].status = "pending" /\ jobs'[j].attempts = jobs[j].attempts
          /\ jobs'[j].cron = jobs[j].cron
      BY <1>0, <1>3 DEF RetryJob, Row
    <2>3. jobs'[j].maxAttempts = IF jobs[j].maxAttempts > jobs[j].attempts
                                 THEN jobs[j].maxAttempts ELSE jobs[j].attempts + 1
      BY <1>0, <1>3 DEF RetryJob, Row
    <2>4. /\ jobs'[j].attempts < jobs'[j].maxAttempts
          /\ jobs'[j].attempts \in Nat /\ jobs'[j].maxAttempts \in Nat
      BY <1>0, <2>2, <2>3
    <2>5. \A r \in runs : r.job # j
      BY <2>1
    <2>6. NoDoubleExecution'
      BY <2>1
    <2>7. RunOwnsRow' /\ HeartbeatFresh' /\ SnapshotCurrent'
      BY <1>0, <2>1, <2>5
    <2>8. PendingHasAttempt'
      BY <1>0, <2>1, <2>4
    <2>9. AttemptsWithinBudget'
      BY <1>0, <2>1, <2>4
    <2> QED BY <2>6, <2>7, <2>8, <2>9
  <1>4. ASSUME NEW j \in Job, CancelJob(j) PROVE OwnershipInv'
    BY <1>0, <1>4 DEF CancelJob
  <1>5. ASSUME NEW j \in Job, BecomeDue(j) PROVE OwnershipInv'
    <2>1. \A k \in Job :
            /\ jobs'[k].status = jobs[k].status /\ jobs'[k].lockedBy = jobs[k].lockedBy
            /\ jobs'[k].heartbeat = jobs[k].heartbeat /\ jobs'[k].attempts = jobs[k].attempts
            /\ jobs'[k].maxAttempts = jobs[k].maxAttempts /\ jobs'[k].cron = jobs[k].cron
      BY <1>0, <1>5 DEF BecomeDue, Row
    <2> QED BY <1>0, <1>5, <2>1 DEF BecomeDue
  <1>6. ASSUME NEW r \in runs, Heartbeat(r) PROVE OwnershipInv'
    <2> DEFINE n == [r EXCEPT !.beat = 0]
    <2>1. /\ jobs'[r.job].heartbeat = 0
          /\ \A k \in Job :
               /\ jobs'[k].status = jobs[k].status /\ jobs'[k].lockedBy = jobs[k].lockedBy
               /\ jobs'[k].attempts = jobs[k].attempts
               /\ jobs'[k].maxAttempts = jobs[k].maxAttempts /\ jobs'[k].cron = jobs[k].cron
               /\ k # r.job => jobs'[k] = jobs[k]
      BY <1>0, <1>6 DEF Heartbeat, Row
    <2>2. /\ runs' = (runs \ {r}) \cup {n}
          /\ n.job = r.job /\ n.worker = r.worker /\ n.attempt = r.attempt
          /\ n.maxAttempts = r.maxAttempts /\ n.cron = r.cron /\ n.beat = 0
      BY <1>0, <1>6 DEF Heartbeat, Run
    <2> HIDE DEF n
    <2>3. NoDoubleExecution'
      BY <2>2
    <2>4. RunOwnsRow' /\ HeartbeatFresh' /\ SnapshotCurrent'
      BY <1>0, <2>1, <2>2
    <2>5. PendingHasAttempt' /\ AttemptsWithinBudget'
      BY <1>0, <2>1
    <2> QED BY <2>3, <2>4, <2>5
  <1>7. ASSUME NEW r \in runs, NEW ok \in BOOLEAN, RunJobOnDevice(r, ok) PROVE OwnershipInv'
    <2> DEFINE n == [r EXCEPT !.pos = @ + 1, !.allOk = @ /\ ok]
    <2>1. /\ runs' = (runs \ {r}) \cup {n} /\ jobs' = jobs
          /\ n.job = r.job /\ n.worker = r.worker /\ n.attempt = r.attempt
          /\ n.maxAttempts = r.maxAttempts /\ n.cron = r.cron /\ n.beat = r.beat
      BY <1>0, <1>7 DEF RunJobOnDevice, Run
    <2> HIDE DEF n
    <2> QED BY <1>0, <2>1
  <1>8. ASSUME NEW r \in runs, RunThrows(r) PROVE OwnershipInv'
    BY <1>0, <1>8 DEF RunThrows
  <1>9. ASSUME NEW r \in runs, FinishJob(r) PROVE OwnershipInv'
    <2>1. runs' = runs \ {r} /\ r.job \in Job
      BY <1>0, <1>9 DEF FinishJob
    <2>2. \A k \in Job : k # r.job => jobs'[k] = jobs[k]
      BY <1>0, <1>9 DEF FinishJob
    <2>3. LET o == jobs'[r.job]
          IN  /\ o = jobs[r.job] \/ o = Outcome(jobs[r.job], DecideJobOutcome(r))
              /\ o.attempts = jobs[r.job].attempts
              /\ o.maxAttempts = jobs[r.job].maxAttempts /\ o.cron = jobs[r.job].cron
              /\ \/ o = jobs[r.job]
                 \/ o.status = "pending" /\ (r.cron \/ r.attempt < r.maxAttempts)
                 \/ o.status \in {"done", "failed"}
      <3>1. jobs'[r.job] = jobs[r.job] \/ jobs'[r.job] = Outcome(jobs[r.job], DecideJobOutcome(r))
        BY <1>0, <1>9 DEF FinishJob
      <3>2. jobs[r.job] \in Row
        BY <1>0, <2>1
      <3>3. \A w \in {"reschedule", "retry", "done", "fail"} :
              LET o == Outcome(jobs[r.job], w)
              IN  /\ o.attempts = jobs[r.job].attempts
                  /\ o.maxAttempts = jobs[r.job].maxAttempts /\ o.cron = jobs[r.job].cron
                  /\ o.status = CASE w \in {"reschedule", "retry"} -> "pending"
                                  [] w = "done" -> "done"
                                  [] w = "fail" -> "failed"
        BY <3>2 DEF Outcome, Row
      <3>4. DecideJobOutcome(r) \in {"reschedule", "retry", "done", "fail"}
            /\ (DecideJobOutcome(r) \in {"reschedule", "retry"} => r.cron \/ r.attempt < r.maxAttempts)
        BY DEF DecideJobOutcome
      <3> HIDE DEF DecideJobOutcome
      <3> QED BY <3>1, <3>3, <3>4
    <2>4. NoDoubleExecution'
      BY <2>1
    <2>5. RunOwnsRow' /\ HeartbeatFresh' /\ SnapshotCurrent'
      BY <1>0, <2>1, <2>2
    <2>6. PendingHasAttempt' /\ AttemptsWithinBudget'
      BY <1>0, <2>1, <2>2, <2>3
    <2> QED BY <2>4, <2>5, <2>6
  <1>10. ASSUME NEW w \in Worker, WorkerCrash(w) PROVE OwnershipInv'
    BY <1>0, <1>10 DEF WorkerCrash
  <1>11. CASE ReapStaleJobs
    <2>1. runs' = runs /\ \A r \in runs : jobs'[r.job] = jobs[r.job]
      BY <1>0, <1>11, OwnedNotStale DEF ReapStaleJobs
    <2>2. ASSUME NEW j \in Job
          PROVE  /\ jobs'[j].attempts = jobs[j].attempts
                 /\ jobs'[j].maxAttempts = jobs[j].maxAttempts /\ jobs'[j].cron = jobs[j].cron
                 /\ jobs'[j].status = "pending" =>
                      jobs[j].status = "pending" \/ jobs[j].attempts < jobs[j].maxAttempts
      <3>1. jobs'[j] = jobs[j] \/ jobs'[j] = Reaped(jobs[j])
        BY <1>11 DEF ReapStaleJobs
      <3>2. /\ Reaped(jobs[j]).attempts = jobs[j].attempts
            /\ Reaped(jobs[j]).maxAttempts = jobs[j].maxAttempts
            /\ Reaped(jobs[j]).cron = jobs[j].cron
            /\ Reaped(jobs[j]).status = "pending" => jobs[j].attempts < jobs[j].maxAttempts
        BY <1>0 DEF Reaped, Row
      <3> QED BY <3>1, <3>2
    <2> QED BY <1>0, <2>1, <2>2
  <1>12. CASE ClearFinished
    <2>1. runs' = runs /\ \A r \in runs : jobs'[r.job] = jobs[r.job]
      BY <1>0, <1>12 DEF ClearFinished, Finished
    <2>2. \A j \in Job : jobs'[j] = jobs[j] \/ jobs'[j] = NoRow("deleted")
      BY <1>12 DEF ClearFinished
    <2> QED BY <1>0, <2>1, <2>2 DEF NoRow
  <1>13. CASE Tick
    <2>1. \A k \in Job :
            /\ jobs'[k].status = jobs[k].status /\ jobs'[k].lockedBy = jobs[k].lockedBy
            /\ jobs'[k].attempts = jobs[k].attempts
            /\ jobs'[k].maxAttempts = jobs[k].maxAttempts /\ jobs'[k].cron = jobs[k].cron
            /\ jobs[k].heartbeat \in 0 .. StaleTicks =>
                 jobs'[k].heartbeat = jobs[k].heartbeat + 1
      BY <1>0, <1>13 DEF Tick, Older, Row
    <2>2. ASSUME NEW r \in runs
          PROVE  /\ Later(r).job = r.job /\ Later(r).worker = r.worker
                 /\ Later(r).attempt = r.attempt /\ Later(r).maxAttempts = r.maxAttempts
                 /\ Later(r).cron = r.cron /\ Later(r).beat = r.beat + 1
                 /\ r.beat \in 0 .. BeatTicks - 1
      BY <1>0, <1>13 DEF Tick, Later, Run
    <2>3. runs' = {Later(r) : r \in runs}
      BY <1>13 DEF Tick
    <2>4. NoDoubleExecution'
      BY <2>2, <2>3
    <2>5. RunOwnsRow' /\ SnapshotCurrent'
      BY <1>0, <2>1, <2>2, <2>3
    <2>6. HeartbeatFresh'
      <3> SUFFICES ASSUME NEW r \in runs
                   PROVE  jobs'[r.job].heartbeat \in 0 .. r.beat + 1
        BY <2>2, <2>3
      <3>1. jobs[r.job].heartbeat \in 0 .. StaleTicks
        BY <2>2
      <3> QED BY <1>0, <2>1, <2>2, <3>1
    <2>7. PendingHasAttempt' /\ AttemptsWithinBudget'
      BY <1>0, <2>1
    <2> QED BY <2>4, <2>5, <2>6, <2>7
  <1>14. CASE UNCHANGED vars
    BY <1>14 DEF vars
  <1> QED
    BY <1>1, <1>2, <1>3, <1>4, <1>5, <1>6, <1>7, <1>8, <1>9, <1>10, <1>11, <1>12, <1>13,
       <1>14 DEF Next

LEMMA OwnershipInit == Init => OwnershipInv
  BY DEF Init, NoRow, OwnershipInv, NoDoubleExecution, RunOwnsRow, HeartbeatFresh,
         SnapshotCurrent, PendingHasAttempt, AttemptsWithinBudget

LEMMA OwnershipAlways == ASSUME ReliableBeats PROVE Spec => []OwnershipInv
  <1>1. TypeOK /\ OwnershipInv /\ [Next]_vars => OwnershipInv'
    BY OwnershipStep
  <1> QED BY <1>1, OwnershipInit, TypeCorrect, PTL DEF Spec

\* No double execution (jobService.ts, header), as long as no execution goes unheard
\* for a heartbeat period: at most one execution of a job at any time.
THEOREM ExecutionIsExclusive == ASSUME ReliableBeats PROVE Spec => []NoDoubleExecution
  <1>1. OwnershipInv => NoDoubleExecution
    BY DEF OwnershipInv
  <1> QED BY <1>1, OwnershipAlways, PTL

\* Under the same assumption finishJob() only ever writes the row its execution holds.
THEOREM ExecutionOwnsItsRow == ASSUME ReliableBeats PROVE Spec => []RunOwnsRow
  <1>1. OwnershipInv => RunOwnsRow
    BY DEF OwnershipInv
  <1> QED BY <1>1, OwnershipAlways, PTL

\* Under the same assumption a one-shot job runs at most max_attempts times, although
\* the claim does not look at max_attempts.
THEOREM BudgetRespected == ASSUME ReliableBeats PROVE Spec => []AttemptsWithinBudget
  <1>1. OwnershipInv => AttemptsWithinBudget
    BY DEF OwnershipInv
  <1> QED BY <1>1, OwnershipAlways, PTL

\* Under the same assumption done and cancelled jobs stay so, and failed ones leave
\* only through retryJob() or the clearing of the history.
THEOREM FinishedStays == ASSUME ReliableBeats PROVE Spec => FinishedIsFinal
  <1>1. ASSUME TypeOK, OwnershipInv, [Next]_vars, NEW j \in Job
        PROVE  /\ jobs[j].status \in {"done", "cancelled"} =>
                    jobs'[j].status \in {jobs[j].status, "deleted"}
               /\ jobs[j].status = "failed" /\ jobs'[j].status # "failed" =>
                    jobs'[j].status = "deleted" \/ RetryJob(j)
    <2>0. /\ jobs \in [Job -> Row]
          /\ \A r \in runs : r.job \in Job /\ jobs[r.job].status = "running"
      BY <1>1 DEF TypeOK, Run, OwnershipInv, RunOwnsRow
    <2>1. ASSUME NEW k \in Job, NEW cron \in BOOLEAN, NEW due \in BOOLEAN,
                 NEW max \in 1 .. MaxAttempts, CreateJob(k, cron, due, max),
                 jobs[j].status \in Finished
          PROVE  jobs'[j] = jobs[j]
      BY <2>0, <2>1 DEF CreateJob, Finished
    <2>2. ASSUME NEW k \in Job, NEW w \in Worker, ClaimNextJob(w, k), jobs[j].status \in Finished
          PROVE  jobs'[j] = jobs[j]
      BY <2>0, <2>2 DEF ClaimNextJob, Claimable, Finished
    <2>3. ASSUME NEW k \in Job, RetryJob(k), jobs[j].status \in Finished
          PROVE  jobs'[j] = jobs[j] \/ (k = j /\ jobs[j].status = "failed")
      BY <2>0, <2>3 DEF RetryJob, Finished
    <2>4. ASSUME NEW k \in Job, CancelJob(k) \/ BecomeDue(k), jobs[j].status \in Finished
          PROVE  jobs'[j] = jobs[j]
      BY <2>0, <2>4 DEF CancelJob, BecomeDue, Finished
    <2>5. ASSUME NEW r \in runs, Heartbeat(r) \/ FinishJob(r), jobs[j].status \in Finished
          PROVE  jobs'[j] = jobs[j]
      BY <2>0, <2>5 DEF Heartbeat, FinishJob, Finished
    <2>6. ASSUME NEW r \in runs, RunThrows(r) \/ \E ok \in BOOLEAN : RunJobOnDevice(r, ok)
          PROVE  jobs'[j] = jobs[j]
      BY <2>6 DEF RunThrows, RunJobOnDevice
    <2>7. ASSUME ReapStaleJobs, jobs[j].status \in Finished PROVE jobs'[j] = jobs[j]
      BY <2>0, <2>7 DEF ReapStaleJobs, Stale, Finished
    <2>8. ASSUME ClearFinished, jobs[j].status \in Finished PROVE jobs'[j].status = "deleted"
      BY <2>0, <2>8 DEF ClearFinished, NoRow
    <2>9. ASSUME Tick PROVE jobs'[j].status = jobs[j].status
      BY <2>0, <2>9 DEF Tick, Older, Row
    <2>10. ASSUME (\E w \in Worker : WorkerCrash(w)) \/ UNCHANGED vars PROVE jobs'[j] = jobs[j]
      BY <2>10 DEF WorkerCrash, vars
    <2>11. {"done", "cancelled", "failed"} \subseteq Finished
      BY DEF Finished
    <2> QED
      BY <1>1, <2>1, <2>2, <2>3, <2>4, <2>5, <2>6, <2>7, <2>8, <2>9, <2>10, <2>11 DEF Next
  <1>2. TypeOK /\ OwnershipInv /\ [Next]_vars =>
          [\A j \in Job :
             /\ jobs[j].status \in {"done", "cancelled"} =>
                  jobs'[j].status \in {jobs[j].status, "deleted"}
             /\ jobs[j].status = "failed" /\ jobs'[j].status # "failed" =>
                  jobs'[j].status = "deleted" \/ RetryJob(j)]_vars
    BY <1>1
  <1> QED BY <1>2, OwnershipAlways, TypeCorrect, PTL DEF Spec, FinishedIsFinal
-----------------------------------------------------------------------------
(* Executions that may outlive their heartbeats.  A row is the same thing. *)

LEMMA SameRows ==
    /\ Z!Row = Row /\ Z!Status = Status /\ Z!Owner = Owner /\ Z!Age = Age
    /\ \A st \in Status : Z!NoRow(st) = NoRow(st)
    /\ \A x \in Row : Z!Reaped(x) = Reaped(x) /\ Z!Older(x) = Older(x)
    /\ \A x \in Row : \A o \in {"reschedule", "retry", "done", "fail"} :
         Z!Outcome(x, o) = Outcome(x, o)
  BY DEF Z!Row, Row, Z!Status, Status, Z!Owner, Owner, Z!Age, Age, Z!NoRow, NoRow, Z!Finished,
         Finished, Z!Reaped, Reaped, Z!Older, Older, Z!Outcome, Outcome

LEMMA ZOutcomes ==
    \A r \in Z!Run : Z!DecideJobOutcome(r) \in {"reschedule", "retry", "done", "fail"}
  BY DEF Z!DecideJobOutcome

\* Every column and every local of an execution keeps its type, on every step.
LEMMA ZTypeStep == Z!TypeOK /\ [Z!Next]_zvars => Z!TypeOK'
  <1> SUFFICES ASSUME Z!TypeOK, [Z!Next]_zvars PROVE Z!TypeOK'
    OBVIOUS
  <1> USE DEF Z!TypeOK
  <1>1. ASSUME NEW j \in ZombieJob, NEW cron \in BOOLEAN, NEW due \in BOOLEAN,
               NEW max \in 1 .. MaxAttempts, Z!CreateJob(j, cron, due, max)
        PROVE  Z!TypeOK'
    <2>1. "pending" \in Z!Status /\ max \in Nat
      BY DEF Z!Status
    <2>2. Z!NoRow("pending") \in Z!Row
      BY <2>1, NoRowType, SameRows
    <2>3. [Z!NoRow("pending") EXCEPT !.maxAttempts = max, !.cron = cron, !.due = due] \in Z!Row
      BY <2>1, <2>2, RowUpdates, ColumnValues, SameRows
    <2> QED BY <1>1, <2>3 DEF Z!CreateJob
  <1>2. ASSUME NEW j \in ZombieJob, NEW w \in Worker, Z!ClaimNextJob(w, j)
        PROVE  Z!TypeOK'
    <2>1. zjobs[j] \in Z!Row /\ zjobs[j].attempts + 1 \in Nat /\ "running" \in Z!Status
      BY DEF Z!Row, Z!Status
    <2>2. [zjobs[j] EXCEPT !.status = "running", !.heartbeat = 0, !.lockedBy = w,
                          !.attempts = zjobs[j].attempts + 1] \in Z!Row
      BY <2>1, RowUpdates, ColumnValues, SameRows
    <2>3. zjobs' \in [ZombieJob -> Z!Row]
      BY <1>2, <2>2 DEF Z!ClaimNextJob
    <2>4. zruns' \in SUBSET Z!Run
      BY <1>2 DEF Z!ClaimNextJob, Z!Row, Z!Run
    <2> QED BY <1>2, <2>3, <2>4 DEF Z!ClaimNextJob
  <1>3. ASSUME NEW j \in ZombieJob, Z!RetryJob(j) PROVE Z!TypeOK'
    <2> DEFINE m == IF zjobs[j].maxAttempts > zjobs[j].attempts THEN zjobs[j].maxAttempts
                    ELSE zjobs[j].attempts + 1
    <2>1. zjobs[j] \in Z!Row /\ m \in Nat /\ "pending" \in Z!Status
      BY DEF Z!Row, Z!Status
    <2>2. [zjobs[j] EXCEPT !.status = "pending", !.lockedBy = NULL, !.heartbeat = NULL,
                          !.due = TRUE, !.maxAttempts = m] \in Z!Row
      BY <2>1, RowUpdates, ColumnValues, SameRows
    <2> QED BY <1>3, <2>2 DEF Z!RetryJob
  <1>4. ASSUME NEW j \in ZombieJob, Z!CancelJob(j) PROVE Z!TypeOK'
    BY <1>4 DEF Z!CancelJob, Z!Row, Z!Status, Z!Finished
  <1>5. ASSUME NEW j \in ZombieJob, Z!BecomeDue(j) PROVE Z!TypeOK'
    <2>1. /\ [zjobs[j] EXCEPT !.due = TRUE] \in Z!Row
          /\ [zjobs[j] EXCEPT !.cronDue = TRUE] \in Z!Row
      BY DEF Z!Row
    <2> QED BY <1>5, <2>1 DEF Z!BecomeDue
  <1>6. ASSUME NEW r \in zruns, Z!Heartbeat(r) PROVE Z!TypeOK'
    <2>1. r \in Z!Run /\ r.job \in ZombieJob /\ [r EXCEPT !.beat = 0] \in Z!Run
      BY DEF Z!Run
    <2>2. [zjobs[r.job] EXCEPT !.heartbeat = 0] \in Z!Row
      BY <2>1, ColumnValues, SameRows DEF Z!Row
    <2> QED BY <1>6, <2>1, <2>2 DEF Z!Heartbeat
  <1>7. ASSUME NEW r \in zruns, NEW ok \in BOOLEAN, Z!RunJobOnDevice(r, ok) PROVE Z!TypeOK'
    <2>1. r \in Z!Run /\ r.pos + 1 \in 1 .. ZombieDevices + 1
      BY <1>7 DEF Z!RunJobOnDevice, Z!Looping, Z!Run
    <2>2. [r EXCEPT !.pos = @ + 1, !.allOk = @ /\ ok] \in Z!Run
      BY <2>1 DEF Z!Run
    <2>3. [job |-> r.job, device |-> r.pos, attempt |-> r.attempt, success |-> ok] \in Z!Result
      BY <1>7, <2>1 DEF Z!RunJobOnDevice, Z!Looping, Z!Run, Z!Result
    <2> QED BY <1>7, <2>2, <2>3 DEF Z!RunJobOnDevice
  <1>8. ASSUME NEW r \in zruns, Z!RunThrows(r) PROVE Z!TypeOK'
    BY <1>8 DEF Z!RunThrows
  <1>9. ASSUME NEW r \in zruns, Z!FinishJob(r) PROVE Z!TypeOK'
    <2>1. r \in Z!Run /\ r.job \in ZombieJob
      BY DEF Z!Run
    <2>2. Z!Outcome(zjobs[r.job], Z!DecideJobOutcome(r)) \in Z!Row
      BY <2>1, RowOps, SameRows, ZOutcomes
    <2> QED BY <1>9, <2>1, <2>2 DEF Z!FinishJob
  <1>10. ASSUME NEW w \in Worker, Z!WorkerCrash(w) PROVE Z!TypeOK'
    BY <1>10 DEF Z!WorkerCrash
  <1>11. CASE Z!ReapStaleJobs
    BY <1>11, RowOps, SameRows DEF Z!ReapStaleJobs
  <1>12. CASE Z!ClearFinished
    <2>1. Z!NoRow("deleted") \in Z!Row
      BY NoRowType, SameRows DEF Z!Status
    <2> QED BY <1>12, <2>1 DEF Z!ClearFinished
  <1>13. CASE Z!Tick
    <2>1. \A r \in Z!Run : Z!Later(r) \in Z!Run
      BY DEF Z!Later, Z!Run
    <2> QED BY <1>13, <2>1, RowOps, SameRows DEF Z!Tick
  <1>14. CASE UNCHANGED zvars
    BY <1>14 DEF zvars
  <1> QED
    BY <1>1, <1>2, <1>3, <1>4, <1>5, <1>6, <1>7, <1>8, <1>9, <1>10, <1>11, <1>12, <1>13,
       <1>14 DEF Z!Next

\* No action but these three touches the results, and a claim is the only one that
\* starts an execution or counts an attempt: for every other step it is enough to know
\* that executions stay who they are, and where rows and executions have changed.
LEMMA RowsKeepHistory ==
    ASSUME Z!TypeOK, Z!HistoryInv, Z!LockDiscipline',
           zresults' = zresults, zruns' \subseteq zruns, zjobs' \in [ZombieJob -> Z!Row],
           \A j \in ZombieJob : /\ zjobs'[j].attempts = zjobs[j].attempts
                                /\ zjobs'[j].status = "absent" <=> zjobs[j].status = "absent"
                                /\ zjobs'[j].status = "deleted" <=> zjobs[j].status = "deleted"
                                /\ zjobs'[j].status = "done" => zjobs[j].status = "done"
    PROVE  Z!HistoryInv'
  <1> USE DEF Z!HistoryInv, Z!Exists
  <1>0. /\ \A r \in zruns : r \in Z!Run /\ r.job \in ZombieJob
        /\ \A x \in zresults : x \in Z!Result /\ x.job \in ZombieJob
    BY DEF Z!TypeOK, Z!Run, Z!Result
  <1>1. Z!AttemptsOnRecord'
    BY <1>0 DEF Z!AttemptsOnRecord
  <1>2. Z!AttemptIdentifiesRun'
    BY <1>0 DEF Z!AttemptIdentifiesRun
  <1>3. Z!AllOkIsOnRecord'
    BY <1>0 DEF Z!AllOkIsOnRecord
  <1>4. Z!DoneMeansAllSucceeded'
    BY <1>0 DEF Z!DoneMeansAllSucceeded
  <1> QED BY <1>1, <1>2, <1>3, <1>4

\* The same of a step that only moves the timers of executions.
LEMMA TimersKeepHistory ==
    ASSUME Z!TypeOK, Z!HistoryInv, Z!LockDiscipline',
           zresults' = zresults, zjobs' \in [ZombieJob -> Z!Row],
           NEW f \in [zruns -> Z!Run], zruns' = {f[r] : r \in zruns},
           \A r \in zruns : /\ f[r].job = r.job /\ f[r].attempt = r.attempt
                            /\ f[r].pos = r.pos /\ f[r].allOk = r.allOk,
           \A j \in ZombieJob : /\ zjobs'[j].attempts = zjobs[j].attempts
                                /\ zjobs'[j].status = zjobs[j].status
    PROVE  Z!HistoryInv'
  <1> USE DEF Z!HistoryInv, Z!Exists
  <1>0. /\ \A r \in zruns : r \in Z!Run /\ r.job \in ZombieJob
        /\ \A x \in zresults : x \in Z!Result /\ x.job \in ZombieJob
    BY DEF Z!TypeOK, Z!Run, Z!Result
  <1>1. Z!AttemptsOnRecord'
    BY <1>0 DEF Z!AttemptsOnRecord
  <1>2. Z!AttemptIdentifiesRun'
    BY <1>0 DEF Z!AttemptIdentifiesRun
  <1>3. Z!AllOkIsOnRecord'
    BY <1>0 DEF Z!AllOkIsOnRecord
  <1>4. Z!DoneMeansAllSucceeded'
    BY <1>0 DEF Z!DoneMeansAllSucceeded
  <1> QED BY <1>1, <1>2, <1>3, <1>4

\* The lock columns change together on every step, overlapping executions or not.
LEMMA LockStep == ASSUME Z!TypeOK, Z!LockDiscipline, [Z!Next]_zvars PROVE Z!LockDiscipline'
  <1> USE DEF Z!LockDiscipline
  <1>0. /\ zjobs \in [ZombieJob -> Z!Row]
        /\ \A r \in zruns : r \in Z!Run /\ r.job \in ZombieJob /\ r.worker \in Worker
    BY DEF Z!TypeOK, Z!Run
  <1>1. ASSUME NEW j \in ZombieJob, NEW cron \in BOOLEAN, NEW due \in BOOLEAN,
               NEW max \in 1 .. MaxAttempts, Z!CreateJob(j, cron, due, max)
        PROVE  Z!LockDiscipline'
    BY <1>0, <1>1 DEF Z!CreateJob, Z!NoRow
  <1>2. ASSUME NEW j \in ZombieJob, NEW w \in Worker, Z!ClaimNextJob(w, j) PROVE Z!LockDiscipline'
    BY <1>0, <1>2 DEF Z!ClaimNextJob, Z!Row
  <1>3. ASSUME NEW j \in ZombieJob, Z!RetryJob(j) \/ Z!CancelJob(j) \/ Z!BecomeDue(j)
        PROVE  Z!LockDiscipline'
    BY <1>0, <1>3 DEF Z!RetryJob, Z!CancelJob, Z!BecomeDue, Z!Row
  <1>4. ASSUME NEW r \in zruns, Z!Heartbeat(r) PROVE Z!LockDiscipline'
    BY <1>0, <1>4 DEF Z!Heartbeat, Z!Row
  <1>5. ASSUME NEW r \in zruns, Z!FinishJob(r) PROVE Z!LockDiscipline'
    BY <1>0, <1>5 DEF Z!FinishJob, Z!Outcome, Z!DecideJobOutcome, Z!Row
  <1>6. ASSUME NEW r \in zruns, Z!RunThrows(r) \/ \E ok \in BOOLEAN : Z!RunJobOnDevice(r, ok)
        PROVE  Z!LockDiscipline'
    BY <1>6 DEF Z!RunThrows, Z!RunJobOnDevice
  <1>7. CASE Z!ReapStaleJobs
    <2>1. \A j \in ZombieJob : zjobs'[j] = zjobs[j] \/ zjobs'[j] = Z!Reaped(zjobs[j])
      BY <1>7 DEF Z!ReapStaleJobs
    <2>2. \A j \in ZombieJob : LET o == Z!Reaped(zjobs[j])
                       IN  /\ o.status \in {"pending", "failed"}
                           /\ o.lockedBy = NULL /\ o.heartbeat = NULL
      BY <1>0 DEF Z!Reaped, Z!Row
    <2> QED BY <1>0, <2>1, <2>2
  <1>8. CASE Z!ClearFinished
    BY <1>0, <1>8 DEF Z!ClearFinished, Z!NoRow, Z!Row
  <1>9. CASE Z!Tick
    BY <1>0, <1>9 DEF Z!Tick, Z!Older, Z!Row
  <1>10. ASSUME (\E w \in Worker : Z!WorkerCrash(w)) \/ UNCHANGED zvars PROVE Z!LockDiscipline'
    BY <1>10 DEF Z!WorkerCrash, zvars
  <1> QED
    BY <1>1, <1>2, <1>3, <1>4, <1>5, <1>6, <1>7, <1>8, <1>9, <1>10 DEF Z!Next

\* What an attempt has on record is not touched by the claim of another one.
LEMMA ClaimKeepsHistory ==
    ASSUME Z!TypeOK, Z!HistoryInv, Z!LockDiscipline',
           NEW j \in ZombieJob, NEW w \in Worker, Z!ClaimNextJob(w, j)
    PROVE  Z!HistoryInv'
  <1> DEFINE n == [job |-> j, worker |-> w, attempt |-> zjobs[j].attempts + 1,
                   maxAttempts |-> zjobs[j].maxAttempts, cron |-> zjobs[j].cron,
                   pos |-> 1, allOk |-> TRUE, beat |-> 0]
  <1> USE DEF Z!HistoryInv, Z!Exists
  <1>0. /\ \A k \in ZombieJob : zjobs[k] \in Z!Row /\ zjobs[k].attempts \in Nat
        /\ \A r \in zruns : r \in Z!Run /\ r.job \in ZombieJob /\ r.attempt \in Nat
        /\ \A x \in zresults : x \in Z!Result /\ x.job \in ZombieJob /\ x.attempt \in Nat
    BY DEF Z!TypeOK, Z!Run, Z!Result, Z!Row
  <1>1. /\ zjobs'[j].status = "running" /\ zjobs'[j].attempts = zjobs[j].attempts + 1
        /\ \A k \in ZombieJob : k # j => zjobs'[k] = zjobs[k]
        /\ zjobs[j].status = "pending"
        /\ zresults' = zresults
    BY <1>0 DEF Z!ClaimNextJob, Z!Claimable, Z!TypeOK, Z!Row
  <1>2. /\ zruns' = zruns \cup {n} /\ n.job = j /\ n.attempt = zjobs[j].attempts + 1
        /\ n.pos = 1
    BY DEF Z!ClaimNextJob
  <1> HIDE DEF n
  <1>3. Z!AttemptsOnRecord'
    BY <1>0, <1>1, <1>2 DEF Z!AttemptsOnRecord
  <1>4. /\ \A r \in zruns : r.job = j => r.attempt # n.attempt
        /\ \A x \in zresults : x.job = j => x.attempt # n.attempt
    BY <1>0, <1>1, <1>2 DEF Z!AttemptsOnRecord
  <1>5. Z!AttemptIdentifiesRun'
    BY <1>0, <1>1, <1>2, <1>4 DEF Z!AttemptIdentifiesRun
  <1>6. Z!AllOkIsOnRecord'
    BY <1>0, <1>1, <1>2 DEF Z!AllOkIsOnRecord
  <1>7. Z!DoneMeansAllSucceeded'
    BY <1>0, <1>1 DEF Z!DoneMeansAllSucceeded
  <1> QED BY <1>3, <1>5, <1>6, <1>7

\* A device's result is filed under the attempt that worked on it.
LEMMA DeviceKeepsHistory ==
    ASSUME Z!TypeOK, Z!HistoryInv, Z!LockDiscipline',
           NEW r \in zruns, NEW ok \in BOOLEAN, Z!RunJobOnDevice(r, ok)
    PROVE  Z!HistoryInv'
  <1> DEFINE n == [r EXCEPT !.pos = @ + 1, !.allOk = @ /\ ok]
             x == [job |-> r.job, device |-> r.pos, attempt |-> r.attempt, success |-> ok]
  <1> USE DEF Z!HistoryInv, Z!Exists
  <1>0. /\ \A s \in zruns : s \in Z!Run /\ s.job \in ZombieJob /\ s.pos \in Nat /\ s.attempt \in Nat
        /\ \A y \in zresults : y \in Z!Result /\ y.job \in ZombieJob /\ y.attempt \in Nat
        /\ \A k \in ZombieJob : zjobs[k].attempts \in Nat
    BY DEF Z!TypeOK, Z!Run, Z!Result, Z!Row
  <1>1. /\ zruns' = (zruns \ {r}) \cup {n} /\ zjobs' = zjobs
        /\ n.job = r.job /\ n.attempt = r.attempt /\ n.pos = r.pos + 1
        /\ n.allOk = (r.allOk /\ ok)
    BY <1>0 DEF Z!RunJobOnDevice, Z!Run
  <1>2. /\ zresults' = zresults \cup {x} /\ Z!Exists(r.job)
        /\ x.job = r.job /\ x.device = r.pos /\ x.attempt = r.attempt
        /\ ok => x = [job |-> r.job, device |-> r.pos, attempt |-> r.attempt, success |-> TRUE]
    BY DEF Z!RunJobOnDevice
  <1> HIDE DEF n, x
  <1>3. Z!AttemptsOnRecord'
    BY <1>0, <1>1, <1>2 DEF Z!AttemptsOnRecord
  <1>4. \A s \in zruns : s # r => s.job # r.job \/ s.attempt # r.attempt
    BY DEF Z!AttemptIdentifiesRun
  <1>5. Z!AttemptIdentifiesRun'
    <2>1. \A s, t \in zruns' : s.job = t.job /\ s.attempt = t.attempt => s = t
      BY <1>1, <1>4 DEF Z!AttemptIdentifiesRun
    <2>2. ASSUME NEW s \in zruns', Z!Exists(s.job)
          PROVE  {y.device : y \in {z \in zresults' : z.job = s.job /\ z.attempt = s.attempt}}
                   = 1 .. s.pos - 1
      <3>1. CASE s = n
        <4>1. {y.device : y \in {z \in zresults : z.job = r.job /\ z.attempt = r.attempt}}
                   = 1 .. r.pos - 1
          BY <1>2 DEF Z!AttemptIdentifiesRun
        <4>2. {y.device : y \in {z \in zresults' : z.job = r.job /\ z.attempt = r.attempt}}
                   = (1 .. r.pos - 1) \cup {r.pos}
          BY <1>2, <4>1
        <4>3. r.pos \in 1 .. ZombieDevices
          BY <1>0 DEF Z!RunJobOnDevice, Z!Looping, Z!Run
        <4> QED BY <1>0, <1>1, <3>1, <4>2, <4>3
      <3>2. CASE s \in zruns /\ s # r
        <4>1. {y.device : y \in {z \in zresults : z.job = s.job /\ z.attempt = s.attempt}}
                   = 1 .. s.pos - 1
          BY <2>2, <3>2 DEF Z!AttemptIdentifiesRun
        <4>2. {z \in zresults' : z.job = s.job /\ z.attempt = s.attempt} =
              {z \in zresults : z.job = s.job /\ z.attempt = s.attempt}
          BY <1>2, <1>4, <3>2
        <4> QED BY <4>1, <4>2
      <3> QED BY <1>1, <3>1, <3>2
    <2> QED BY <1>1, <2>1, <2>2 DEF Z!AttemptIdentifiesRun
  <1>6. Z!AllOkIsOnRecord'
    <2> SUFFICES ASSUME NEW s \in zruns', Z!Exists(s.job), s.allOk, NEW d \in 1 .. s.pos - 1
                 PROVE  [job |-> s.job, device |-> d, attempt |-> s.attempt,
                         success |-> TRUE] \in zresults'
      BY <1>1 DEF Z!AllOkIsOnRecord
    <2>1. CASE s = n /\ d = r.pos
      BY <1>1, <1>2, <2>1
    <2>2. CASE s = n /\ d # r.pos
      <3>0. n.allOk
        BY <2>2
      <3>1. r.allOk /\ d \in 1 .. r.pos - 1
        <4>1. r.allOk
          BY <1>1, <3>0
        <4> QED BY <1>0, <1>1, <2>2, <4>1
      <3>2. [job |-> r.job, device |-> d, attempt |-> r.attempt, success |-> TRUE] \in zresults
        BY <1>2, <3>1 DEF Z!AllOkIsOnRecord
      <3> QED BY <1>1, <1>2, <2>2, <3>2
    <2>3. CASE s \in zruns
      BY <1>2, <2>3 DEF Z!AllOkIsOnRecord
    <2> QED BY <1>1, <2>1, <2>2, <2>3
  <1>7. Z!DoneMeansAllSucceeded'
    BY <1>0, <1>1, <1>2 DEF Z!DoneMeansAllSucceeded
  <1> QED BY <1>3, <1>5, <1>6, <1>7

\* A job becomes done only by an execution that has gone through every device and met no
\* failure; whether that execution still owns the row does not matter.
LEMMA FinishKeepsHistory ==
    ASSUME Z!TypeOK, Z!HistoryInv, Z!LockDiscipline', zjobs' \in [ZombieJob -> Z!Row],
           NEW r \in zruns, Z!FinishJob(r)
    PROVE  Z!HistoryInv'
  <1> USE DEF Z!HistoryInv, Z!Exists
  <1>0. /\ \A s \in zruns : s \in Z!Run /\ s.job \in ZombieJob /\ s.pos \in Nat /\ s.attempt \in Nat
        /\ \A y \in zresults : y \in Z!Result /\ y.job \in ZombieJob
        /\ \A k \in ZombieJob : zjobs[k] \in Z!Row /\ zjobs[k].attempts \in Nat
    BY DEF Z!TypeOK, Z!Run, Z!Result, Z!Row
  <1>1. /\ zresults' = zresults /\ zruns' = zruns \ {r}
        /\ \A k \in ZombieJob : k # r.job => zjobs'[k] = zjobs[k]
    BY <1>0 DEF Z!FinishJob, Z!TypeOK
  <1>2. /\ zjobs'[r.job].attempts = zjobs[r.job].attempts
        /\ Z!Exists(r.job)' <=> Z!Exists(r.job)
        /\ zjobs'[r.job].status = "absent" <=> zjobs[r.job].status = "absent"
        /\ zjobs'[r.job].status = "deleted" <=> zjobs[r.job].status = "deleted"
        /\ zjobs'[r.job].status = "done" => (r.allOk /\ Z!Exists(r.job)) \/ ~Z!Exists(r.job)
    BY <1>0 DEF Z!FinishJob, Z!Outcome, Z!DecideJobOutcome, Z!Row, Z!TypeOK
  <1>3. r.pos = ZombieDevices + 1
    BY <1>0 DEF Z!FinishJob, Z!Looping, Z!Run
  <1>4. Z!AttemptsOnRecord'
    BY <1>0, <1>1, <1>2 DEF Z!AttemptsOnRecord
  <1>5. Z!AttemptIdentifiesRun'
    BY <1>0, <1>1, <1>2 DEF Z!AttemptIdentifiesRun
  <1>6. Z!AllOkIsOnRecord'
    BY <1>0, <1>1, <1>2 DEF Z!AllOkIsOnRecord
  <1>7. Z!DoneMeansAllSucceeded'
    <2> SUFFICES ASSUME NEW j \in ZombieJob, zjobs'[j].status = "done"
                 PROVE  \E a \in 1 .. zjobs'[j].attempts : \A d \in 1 .. ZombieDevices :
                   [job |-> j, device |-> d, attempt |-> a, success |-> TRUE] \in zresults
      BY <1>1 DEF Z!DoneMeansAllSucceeded
    <2>1. CASE j # r.job
      BY <1>0, <1>1, <2>1 DEF Z!DoneMeansAllSucceeded
    <2>2. CASE j = r.job
      <3>1. Z!Exists(r.job) /\ r.allOk
        BY <1>2, <2>2
      <3>2. /\ r.attempt \in 1 .. zjobs[r.job].attempts
            /\ \A d \in 1 .. ZombieDevices :
                 [job |-> r.job, device |-> d, attempt |-> r.attempt, success |-> TRUE] \in zresults
        BY <1>3, <3>1 DEF Z!AttemptsOnRecord, Z!AllOkIsOnRecord
      <3> QED BY <1>2, <2>2, <3>2
    <2> QED BY <2>1, <2>2
  <1> QED BY <1>4, <1>5, <1>6, <1>7

\* Results are deleted with their job, and executions of a deleted job find nothing.
LEMMA ClearKeepsHistory ==
    ASSUME Z!TypeOK, Z!HistoryInv, Z!LockDiscipline', Z!ClearFinished
    PROVE  Z!HistoryInv'
  <1> USE DEF Z!HistoryInv, Z!Exists
  <1>0. /\ \A s \in zruns : s \in Z!Run /\ s.job \in ZombieJob
        /\ \A y \in zresults : y \in Z!Result /\ y.job \in ZombieJob
    BY DEF Z!TypeOK, Z!Run, Z!Result
  <1>1. /\ zruns' = zruns
        /\ \A k \in ZombieJob : zjobs[k].status \in Z!Finished => zjobs'[k].status = "deleted"
        /\ \A k \in ZombieJob : zjobs[k].status \notin Z!Finished => zjobs'[k] = zjobs[k]
        /\ zresults' = {x \in zresults : zjobs[x.job].status \notin Z!Finished}
    BY DEF Z!ClearFinished, Z!NoRow
  <1>2. Z!AttemptsOnRecord'
    BY <1>0, <1>1 DEF Z!AttemptsOnRecord, Z!Finished
  <1>3. Z!AttemptIdentifiesRun'
    <2>1. \A r, s \in zruns' : r.job = s.job /\ r.attempt = s.attempt => r = s
      BY <1>1 DEF Z!AttemptIdentifiesRun
    <2>2. ASSUME NEW r \in zruns, Z!Exists(r.job)'
          PROVE  /\ Z!Exists(r.job)
                 /\ {x \in zresults' : x.job = r.job /\ x.attempt = r.attempt} =
                    {x \in zresults : x.job = r.job /\ x.attempt = r.attempt}
      BY <1>0, <1>1, <2>2 DEF Z!Finished
    <2> QED BY <1>1, <2>1, <2>2 DEF Z!AttemptIdentifiesRun
  <1>4. Z!AllOkIsOnRecord'
    BY <1>0, <1>1 DEF Z!AllOkIsOnRecord, Z!Finished
  <1>5. Z!DoneMeansAllSucceeded'
    BY <1>0, <1>1 DEF Z!DoneMeansAllSucceeded, Z!Finished
  <1> QED BY <1>2, <1>3, <1>4, <1>5

LEMMA HistoryStep == ASSUME Z!TypeOK, Z!HistoryInv, [Z!Next]_zvars PROVE Z!HistoryInv'
  <1>0. Z!TypeOK' /\ Z!LockDiscipline'
    BY ZTypeStep, LockStep DEF Z!HistoryInv
  <1>t. /\ zjobs \in [ZombieJob -> Z!Row] /\ zjobs' \in [ZombieJob -> Z!Row]
        /\ \A r \in zruns : r \in Z!Run /\ r.job \in ZombieJob
        /\ \A j \in ZombieJob : zjobs[j] \in Z!Row
    BY <1>0 DEF Z!TypeOK, Z!Run
  <1>1. ASSUME NEW j \in ZombieJob, NEW cron \in BOOLEAN, NEW due \in BOOLEAN,
               NEW max \in 1 .. MaxAttempts, Z!CreateJob(j, cron, due, max)
        PROVE  Z!HistoryInv'
    <2>1. /\ zjobs[j].status = "absent" /\ zjobs'[j].status = "pending"
          /\ \A k \in ZombieJob : k # j => zjobs'[k] = zjobs[k]
          /\ zruns' = zruns /\ zresults' = zresults
      BY <1>t, <1>1 DEF Z!CreateJob, Z!NoRow
    <2>2. /\ \A r \in zruns : r.job # j
          /\ \A x \in zresults : x.job # j /\ x.job \in ZombieJob
      BY <2>1 DEF Z!HistoryInv, Z!AttemptsOnRecord, Z!Exists, Z!TypeOK, Z!Result
    <2> QED
      BY <1>0, <1>t, <2>1, <2>2
      DEF Z!HistoryInv, Z!AttemptsOnRecord, Z!AttemptIdentifiesRun, Z!AllOkIsOnRecord,
          Z!DoneMeansAllSucceeded, Z!Exists
  <1>2. ASSUME NEW j \in ZombieJob, NEW w \in Worker, Z!ClaimNextJob(w, j) PROVE Z!HistoryInv'
    BY <1>0, <1>2, ClaimKeepsHistory
  <1>3. ASSUME NEW j \in ZombieJob, Z!RetryJob(j) \/ Z!CancelJob(j) \/ Z!BecomeDue(j) PROVE Z!HistoryInv'
    <2>1. \A k \in ZombieJob :
            /\ zjobs'[k].attempts = zjobs[k].attempts
            /\ zjobs'[k].status = "absent" <=> zjobs[k].status = "absent"
            /\ zjobs'[k].status = "deleted" <=> zjobs[k].status = "deleted"
            /\ zjobs'[k].status = "done" => zjobs[k].status = "done"
      BY <1>t, <1>3 DEF Z!RetryJob, Z!CancelJob, Z!BecomeDue, Z!Row
    <2>2. zresults' = zresults /\ zruns' = zruns
      BY <1>3 DEF Z!RetryJob, Z!CancelJob, Z!BecomeDue
    <2> QED BY <1>0, <1>t, <2>1, <2>2, RowsKeepHistory
  <1>4. ASSUME NEW r \in zruns, Z!Heartbeat(r) PROVE Z!HistoryInv'
    <2> DEFINE f == [s \in zruns |-> IF s = r THEN [r EXCEPT !.beat = 0] ELSE s]
    <2>1. /\ f \in [zruns -> Z!Run]
          /\ \A s \in zruns : /\ f[s].job = s.job /\ f[s].attempt = s.attempt
                              /\ f[s].pos = s.pos /\ f[s].allOk = s.allOk
      BY <1>t DEF Z!Run
    <2>2. zresults' = zresults /\ zruns' = {f[s] : s \in zruns}
      BY <1>4 DEF Z!Heartbeat
    <2>3. \A k \in ZombieJob : zjobs'[k].attempts = zjobs[k].attempts /\ zjobs'[k].status = zjobs[k].status
      BY <1>t, <1>4 DEF Z!Heartbeat, Z!Row
    <2> HIDE DEF f
    <2> QED BY <1>0, <1>t, <2>1, <2>2, <2>3, TimersKeepHistory
  <1>5. ASSUME NEW r \in zruns, NEW ok \in BOOLEAN, Z!RunJobOnDevice(r, ok) PROVE Z!HistoryInv'
    BY <1>0, <1>5, DeviceKeepsHistory
  <1>6. ASSUME (\E r \in zruns : Z!RunThrows(r)) \/ (\E w \in Worker : Z!WorkerCrash(w))
                 \/ UNCHANGED zvars
        PROVE  Z!HistoryInv'
    <2>1. zresults' = zresults /\ zruns' \subseteq zruns /\ zjobs' = zjobs
      BY <1>6 DEF Z!RunThrows, Z!WorkerCrash, zvars
    <2> QED BY <1>0, <1>t, <2>1, RowsKeepHistory
  <1>7. ASSUME NEW r \in zruns, Z!FinishJob(r) PROVE Z!HistoryInv'
    BY <1>0, <1>t, <1>7, FinishKeepsHistory
  <1>8. CASE Z!ReapStaleJobs
    <2>1. \A k \in ZombieJob :
            /\ zjobs'[k].attempts = zjobs[k].attempts
            /\ zjobs'[k].status = "absent" <=> zjobs[k].status = "absent"
            /\ zjobs'[k].status = "deleted" <=> zjobs[k].status = "deleted"
            /\ zjobs'[k].status = "done" => zjobs[k].status = "done"
      BY <1>t, <1>8 DEF Z!ReapStaleJobs, Z!Reaped, Z!Stale, Z!Row
    <2>2. zresults' = zresults /\ zruns' = zruns
      BY <1>8 DEF Z!ReapStaleJobs
    <2> QED BY <1>0, <1>t, <2>1, <2>2, RowsKeepHistory
  <1>9. CASE Z!ClearFinished
    BY <1>0, <1>9, ClearKeepsHistory
  <1>10. CASE Z!Tick
    <2> DEFINE f == [s \in zruns |-> Z!Later(s)]
    <2>1. /\ f \in [zruns -> Z!Run]
          /\ \A s \in zruns : /\ f[s].job = s.job /\ f[s].attempt = s.attempt
                              /\ f[s].pos = s.pos /\ f[s].allOk = s.allOk
      BY <1>t DEF Z!Later, Z!Run
    <2>2. zresults' = zresults /\ zruns' = {f[s] : s \in zruns}
      BY <1>10 DEF Z!Tick
    <2>3. \A k \in ZombieJob : zjobs'[k].attempts = zjobs[k].attempts /\ zjobs'[k].status = zjobs[k].status
      BY <1>t, <1>10 DEF Z!Tick, Z!Older, Z!Row
    <2> HIDE DEF f
    <2> QED BY <1>0, <1>t, <2>1, <2>2, <2>3, TimersKeepHistory
  <1> QED
    BY <1>1, <1>2, <1>3, <1>4, <1>5, <1>6, <1>7, <1>8, <1>9, <1>10 DEF Z!Next

LEMMA ZombiesInit == Z!Init => Z!TypeOK /\ Z!HistoryInv
  <1>1. Z!Init => Z!TypeOK
    BY NoRowType, SameRows DEF Z!Init, Z!TypeOK, Status
  <1>2. Z!Init => Z!HistoryInv
    BY DEF Z!Init, Z!NoRow, Z!HistoryInv, Z!LockDiscipline, Z!AttemptsOnRecord,
           Z!AttemptIdentifiesRun, Z!AllOkIsOnRecord, Z!DoneMeansAllSucceeded
  <1> QED BY <1>1, <1>2

\* Whether or not executions are heard in time: a row is running exactly while it names a
\* worker and has a heartbeat, so the reaper sees every running row; the attempt number
\* tells the executions of a job apart, and the results filed under one are those of that
\* execution; and "done" means that one attempt succeeded on every device, even when an
\* older execution of the job says so.
THEOREM ZombiesAreHarmless == JobsSpec => []ZombiesDoNoHarm
  <1> DEFINE Inv == TypeOK /\ Z!TypeOK /\ Z!HistoryInv
  <1>1. JobsInit => Inv
    BY TypeInit, ZombiesInit DEF JobsInit
  <1>2. Inv /\ [JobsNext]_all => Inv'
    <2> SUFFICES ASSUME Inv, [JobsNext]_all PROVE Inv'
      OBVIOUS
    <2>1. [Next]_vars /\ [Z!Next]_zvars
      BY DEF JobsNext, all, vars, zvars
    <2> QED BY <2>1, TypeStep, ZTypeStep, HistoryStep
  <1>3. Inv => ZombiesDoNoHarm
    BY DEF ZombiesDoNoHarm
  <1> QED BY <1>1, <1>2, <1>3, PTL DEF JobsSpec
-----------------------------------------------------------------------------
(* Upgrades. *)

USE UploadsAssumption

Image == [id : 1..MaxUploads, md5 : Content]
UpgradeStatus == {"pending", "running", "done", "failed", "cancelled"}
Upgrade == [image : 1..MaxUploads, devs : SUBSET Device, status : UpgradeStatus]
Execution == [pc : Upgrades!Steps \cup {"idle"}, dev : Device \cup {NULL}, left : SUBSET Device,
              md5 : Content \cup {NULL}, got : Content \cup {NULL}, allOk : BOOLEAN, runs : Nat]
Ids == DOMAIN upgrades
Going(j) == upgrades[j].status = "running"

\* What a request has left.
Said(op, arg) == [op |-> op, arg |-> arg]
Stores(c) == <<Said("store", c), Said("insertImage", c)>>
Inserts(c) == <<Said("insertImage", c)>>
Asks(x) == <<Said("activeJobs", x), Said("deleteRow", x), Said("unlink", x)>>
Deletes(x) == <<Said("deleteRow", x), Said("unlink", x)>>
Unlinks(x) == <<Said("unlink", x)>>
Left ==
    {<< >>} \cup {Stores(c) : c \in Content} \cup {Inserts(c) : c \in Content}
    \cup {Asks(x) : x \in 1..MaxUploads} \cup {Deletes(x) : x \in 1..MaxUploads}
    \cup {Unlinks(x) : x \in 1..MaxUploads}

LEMMA Statements ==
    /\ \A c : /\ Stores(c) # << >> /\ Head(Stores(c)) = Said("store", c)
              /\ Tail(Stores(c)) = Inserts(c)
              /\ Inserts(c) # << >> /\ Head(Inserts(c)) = Said("insertImage", c)
              /\ Tail(Inserts(c)) = << >>
    /\ \A x : /\ Asks(x) # << >> /\ Head(Asks(x)) = Said("activeJobs", x)
              /\ Tail(Asks(x)) = Deletes(x)
              /\ Deletes(x) # << >> /\ Head(Deletes(x)) = Said("deleteRow", x)
              /\ Tail(Deletes(x)) = Unlinks(x)
              /\ Unlinks(x) # << >> /\ Head(Unlinks(x)) = Said("unlink", x)
              /\ Tail(Unlinks(x)) = << >>
    /\ \A op, arg : Said(op, arg).op = op /\ Said(op, arg).arg = arg
  <1>1. ASSUME NEW c
        PROVE  /\ Stores(c) # << >> /\ Head(Stores(c)) = Said("store", c)
               /\ Tail(Stores(c)) = Inserts(c)
    BY DEF Stores, Inserts
  <1>2. ASSUME NEW c
        PROVE  /\ Inserts(c) # << >> /\ Head(Inserts(c)) = Said("insertImage", c)
               /\ Tail(Inserts(c)) = << >>
    BY DEF Inserts
  <1>3. ASSUME NEW x
        PROVE  /\ Asks(x) # << >> /\ Head(Asks(x)) = Said("activeJobs", x)
               /\ Tail(Asks(x)) = Deletes(x)
    BY DEF Asks, Deletes
  <1>4. ASSUME NEW x
        PROVE  /\ Deletes(x) # << >> /\ Head(Deletes(x)) = Said("deleteRow", x)
               /\ Tail(Deletes(x)) = Unlinks(x)
    BY DEF Deletes, Unlinks
  <1>5. ASSUME NEW x
        PROVE  /\ Unlinks(x) # << >> /\ Head(Unlinks(x)) = Said("unlink", x)
               /\ Tail(Unlinks(x)) = << >>
    BY DEF Unlinks
  <1>6. \A op, arg : Said(op, arg).op = op /\ Said(op, arg).arg = arg
    BY DEF Said
  <1> QED BY <1>1, <1>2, <1>3, <1>4, <1>5, <1>6

\* The lists that the two requests begin with.
LEMMA Begun ==
    /\ \A c : <<Upgrades!Do("store", c), Upgrades!Do("insertImage", c)>> = Stores(c)
    /\ \A x : <<Upgrades!Do("activeJobs", x), Upgrades!Do("deleteRow", x),
               Upgrades!Do("unlink", x)>> = Asks(x)
  BY DEF Upgrades!Do, Stores, Asks, Said

DeviceTypes ==
    /\ flash \in [Device -> Content \cup {NULL, "partial"}]
    /\ boot \in [Device -> SUBSET {"old", "new"}]
    /\ saved \in [Device -> SUBSET {"old", "new"}]
    /\ up \in [Device -> BOOLEAN]

UpgradeTypes ==
    /\ row = NULL \/ row \in Image
    /\ file \in Content \cup {NULL} /\ uploads \in 0..MaxUploads
    /\ upgrades \in Seq(Upgrade) /\ exec \in Seq(Execution) /\ Len(exec) = Len(upgrades)
    /\ \A j \in Ids : /\ Going(j) <=> exec[j].pc # "idle"
                      /\ Going(j) => exec[j].dev \in Device
    /\ overlap \subseteq Device
    /\ DOMAIN work = Request
    /\ \A q \in Request : work[q] \in Left
    /\ \A q \in Request : \A c \in Content :
         work[q] \in {Stores(c), Inserts(c)} => uploads # 0

\* An execution that has got so far has an image, and past "verify" the image is on the
\* device, which is up; from "no boot system" on its boot statements follow, unless another
\* execution has been at the device.
Booting == {"noBoot", "setBoot", "save", "reload", "install"}
Working == {"preflight", "delete", "copy", "copying", "verify"} \cup Booting
Sound(e) ==
    /\ e.pc \in Working => e.md5 \in Content
    /\ e.dev \notin overlap =>
         /\ e.pc \in Booting => flash[e.dev] = e.md5 /\ up[e.dev]
         /\ e.pc = "setBoot" => boot[e.dev] = {}
         /\ e.pc = "save" => boot[e.dev] = {"new"}
         /\ e.pc = "reload" => saved[e.dev] = {"new"}
SoundInv == \A j \in Ids : Going(j) => Sound(exec[j])

\* Two executions at one device are on record.
ApartInv ==
    \A j, k \in Ids : Going(j) /\ Going(k) /\ exec[j].dev = exec[k].dev =>
        j = k \/ exec[j].dev \in overlap

UpgradeInv == UpgradeTypes /\ DeviceTypes /\ SoundInv /\ ApartInv

\* Between its two statements a deletion has made sure that nobody uses the image.
SparedInv ==
    \A q \in Request : \A x \in 1..MaxUploads : work[q] = Deletes(x) =>
        \A j \in Ids : upgrades[j].image = x => upgrades[j].status \notin Upgrades!Active

LEMMA Replaced ==
    ASSUME NEW S, NEW s \in Seq(S), NEW i \in DOMAIN s, NEW e \in S
    PROVE  LET t == [s EXCEPT ![i] = e] IN
           /\ t \in Seq(S) /\ Len(t) = Len(s) /\ DOMAIN t = DOMAIN s /\ t[i] = e
           /\ \A k \in DOMAIN s : k # i => t[k] = s[k]
  <1>1. s \in [1..Len(s) -> S] /\ Len(s) \in Nat /\ DOMAIN s = 1..Len(s)
    OBVIOUS
  <1>2. [s EXCEPT ![i] = e] \in [1..Len(s) -> S]
    BY <1>1
  <1>3. [s EXCEPT ![i] = e] \in Seq(S)
    BY <1>1, <1>2
  <1> QED BY <1>1, <1>2, <1>3

\* The devices that execution j is not working on stand still.
Elsewhere(j) ==
    \A d \in Device : d # exec[j].dev =>
        /\ flash'[d] = flash[d] /\ boot'[d] = boot[d] /\ saved'[d] = saved[d] /\ up'[d] = up[d]

Resting == <<row, file, uploads, upgrades, overlap, work>>

\* A going execution moves on at its device: the others find their devices as they were,
\* or theirs is on record as shared.
LEMMA ExecutionMoves ==
    ASSUME UpgradeInv, NEW j \in Ids, NEW e \in Execution, Going(j),
           exec' = [exec EXCEPT ![j] = e], e.pc # "idle", e.dev = exec[j].dev,
           UNCHANGED Resting, DeviceTypes', Elsewhere(j), Sound(exec[j])'
    PROVE  UpgradeInv'
  <1>0. UpgradeTypes /\ SoundInv /\ ApartInv
    BY DEF UpgradeInv
  <1>1. UNCHANGED <<row, file, uploads, upgrades, overlap, work>>
    BY DEF Resting
  <1>2. exec \in Seq(Execution) /\ Len(exec) = Len(upgrades) /\ DOMAIN exec = Ids
    BY <1>0 DEF UpgradeTypes, Ids
  <1>3. /\ exec' \in Seq(Execution) /\ Len(exec') = Len(exec) /\ exec'[j] = e
        /\ \A k \in Ids : k # j => exec'[k] = exec[k]
    BY <1>2, Replaced
  <1>4. \A k \in Ids : exec'[k].dev = exec[k].dev /\ (exec'[k].pc = "idle" <=> exec[k].pc = "idle")
    BY <1>0, <1>3 DEF UpgradeTypes
  <1>5. UpgradeTypes'
    <2>1. exec' \in Seq(Execution) /\ Len(exec') = Len(upgrades')
      BY <1>1, <1>2, <1>3
    <2>2. Ids' = Ids /\ \A k \in Ids : Going(k)' <=> Going(k)
      BY <1>1 DEF Ids, Going
    <2>3. \A k \in Ids' : /\ Going(k)' <=> exec'[k].pc # "idle"
                          /\ Going(k)' => exec'[k].dev \in Device
      BY <1>0, <1>4, <2>2 DEF UpgradeTypes
    <2> QED BY <1>0, <1>1, <2>1, <2>3 DEF UpgradeTypes
  <1>6. SoundInv'
    <2> SUFFICES ASSUME NEW k \in Ids, Going(k) PROVE Sound(exec[k])'
      BY <1>1 DEF SoundInv, Ids, Going
    <2>1. CASE k = j
      BY <2>1
    <2>2. CASE k # j
      <3>1. exec'[k] = exec[k] /\ Sound(exec[k])
        BY <1>0, <1>3, <2>2 DEF SoundInv
      <3>2. exec[k].dev \in Device
        BY <1>0 DEF UpgradeTypes
      <3>3. CASE exec[k].dev = exec[j].dev
        <4>1. exec[k].dev \in overlap'
          BY <1>0, <1>1, <2>2, <3>3 DEF ApartInv
        <4> QED BY <3>1, <4>1 DEF Sound
      <3>4. CASE exec[k].dev # exec[j].dev
        BY <1>1, <3>1, <3>2, <3>4 DEF Sound, Elsewhere
      <3> QED BY <3>3, <3>4
    <2> QED BY <2>1, <2>2
  <1>7. ApartInv'
    BY <1>0, <1>1, <1>4 DEF ApartInv, Ids, Going
  <1> QED BY <1>5, <1>6, <1>7 DEF UpgradeInv

\* What Step() does to its execution.
LEMMA Stepped ==
    ASSUME UpgradeInv, NEW j \in Ids, NEW pc, NEW next \in Upgrades!Steps,
           Upgrades!Step(j, pc, next)
    PROVE  /\ Going(j) /\ exec[j].pc = pc /\ exec[j].dev \in Device
           /\ exec[j] \in Execution /\ Sound(exec[j]) /\ DeviceTypes
           /\ UNCHANGED Resting
           /\ exec' = [exec EXCEPT ![j] = [exec[j] EXCEPT !.pc = next]]
           /\ [exec[j] EXCEPT !.pc = next] \in Execution
           /\ exec'[j].pc = next /\ exec'[j].dev = exec[j].dev /\ exec'[j].md5 = exec[j].md5
           /\ UNCHANGED <<row, file, uploads, upgrades, overlap, work>>
  <1>0. UpgradeTypes /\ SoundInv /\ DeviceTypes
    BY DEF UpgradeInv
  <1>1. /\ Going(j) /\ exec[j].pc = pc
        /\ exec' = [exec EXCEPT ![j].pc = next]
        /\ UNCHANGED <<row, file, uploads, upgrades, overlap, work>>
    BY DEF Upgrades!Step, Upgrades!registry, Going
  <1>2. exec \in Seq(Execution) /\ DOMAIN exec = Ids
    BY <1>0 DEF UpgradeTypes, Ids
  <1>3. exec[j] \in Execution /\ exec[j].dev \in Device /\ Sound(exec[j])
    BY <1>0, <1>1, <1>2 DEF UpgradeTypes, SoundInv
  <1>4. [exec[j] EXCEPT !.pc = next] \in Execution
    BY <1>3 DEF Execution
  <1>5. exec' = [exec EXCEPT ![j] = [exec[j] EXCEPT !.pc = next]]
    BY <1>1
  <1>6. exec'[j] = [exec[j] EXCEPT !.pc = next]
    BY <1>2, <1>4, <1>5, Replaced
  <1>7. exec'[j].pc = next /\ exec'[j].dev = exec[j].dev /\ exec'[j].md5 = exec[j].md5
    BY <1>3, <1>6 DEF Execution
  <1> QED BY <1>0, <1>1, <1>3, <1>4, <1>5, <1>7 DEF Resting

\* A step of an execution that leaves its device as the next step expects it.
LEMMA StepKeeps ==
    ASSUME UpgradeInv, NEW j \in Ids, NEW pc, NEW next \in Upgrades!Steps,
           Upgrades!Step(j, pc, next), DeviceTypes', Elsewhere(j),
           next \in Working => exec[j].md5 \in Content,
           exec[j].dev \notin overlap =>
             /\ next \in Booting => flash'[exec[j].dev] = exec[j].md5 /\ up'[exec[j].dev]
             /\ next = "setBoot" => boot'[exec[j].dev] = {}
             /\ next = "save" => boot'[exec[j].dev] = {"new"}
             /\ next = "reload" => saved'[exec[j].dev] = {"new"}
    PROVE  UpgradeInv'
  <1>1. /\ Going(j) /\ UNCHANGED Resting /\ overlap' = overlap
        /\ exec' = [exec EXCEPT ![j] = [exec[j] EXCEPT !.pc = next]]
        /\ [exec[j] EXCEPT !.pc = next] \in Execution
        /\ exec'[j].pc = next /\ exec'[j].dev = exec[j].dev /\ exec'[j].md5 = exec[j].md5
        /\ exec[j] \in Execution
    BY Stepped
  <1>2. Sound(exec[j])'
    BY <1>1 DEF Sound
  <1>3. /\ [exec[j] EXCEPT !.pc = next].pc = next
        /\ [exec[j] EXCEPT !.pc = next].dev = exec[j].dev
    BY <1>1 DEF Execution
  <1>4. next # "idle"
    BY DEF Upgrades!Steps
  <1> HIDE DEF Elsewhere, Sound, DeviceTypes, UpgradeInv, Resting, Going
  <1> DEFINE e == [exec[j] EXCEPT !.pc = next]
  <1>5. e \in Execution /\ exec' = [exec EXCEPT ![j] = e] /\ e.pc # "idle" /\ e.dev = exec[j].dev
    BY <1>1, <1>3, <1>4
  <1> HIDE DEF e
  <1> QED BY <1>1, <1>2, <1>5, ExecutionMoves

\* ReloadsIntoVerifiedImage, of one step.
Reloads ==
    \A d \in Device :
        up[d] /\ ~up'[d] /\ d \notin overlap => saved'[d] = {"new"} /\ flash[d] \in Content

\* The step of an execution that changes nothing at its device.
LEMMA LooksOnly ==
    ASSUME UpgradeInv, NEW j \in Ids, NEW pc, NEW next \in Upgrades!Steps,
           Upgrades!Step(j, pc, next), UNCHANGED <<flash, boot, saved, up>>,
           next \in Working => exec[j].md5 \in Content,
           exec[j].dev \notin overlap =>
             /\ next \in Booting => flash[exec[j].dev] = exec[j].md5 /\ up[exec[j].dev]
             /\ next \notin {"setBoot", "save", "reload"}
    PROVE  UpgradeInv' /\ Reloads
  <1>1. DeviceTypes' /\ Elsewhere(j)
    BY DEF UpgradeInv, DeviceTypes, Elsewhere
  <1>2. Reloads
    BY DEF Reloads
  <1>3. UpgradeInv'
    <2>1. exec[j].dev \notin overlap =>
             /\ next \in Booting => flash'[exec[j].dev] = exec[j].md5 /\ up'[exec[j].dev]
             /\ next = "setBoot" => boot'[exec[j].dev] = {}
             /\ next = "save" => boot'[exec[j].dev] = {"new"}
             /\ next = "reload" => saved'[exec[j].dev] = {"new"}
      OBVIOUS
    <2> QED BY <1>1, <2>1, StepKeeps
  <1> QED BY <1>2, <1>3

LEMMA FailKeeps ==
    ASSUME UpgradeInv, NEW j \in Ids, Upgrades!StepFails(j)
    PROVE  UpgradeInv' /\ Reloads
  <1>1. Upgrades!Step(j, exec[j].pc, "failed") /\ UNCHANGED <<flash, boot, saved, up>>
    BY DEF Upgrades!StepFails, Upgrades!device
  <1>2. "failed" \in Upgrades!Steps /\ "failed" \notin Working \cup {"setBoot", "save", "reload"}
    BY DEF Upgrades!Steps, Working, Booting
  <1>3. "failed" \notin Working /\ "failed" \notin Booting
    BY <1>2 DEF Working
  <1> QED BY <1>1, <1>2, <1>3, LooksOnly

LEMMA PreflightKeeps ==
    ASSUME UpgradeInv, NEW j \in Ids, Upgrades!Preflight(j)
    PROVE  UpgradeInv' /\ Reloads
  <1> DEFINE next == IF flash[exec[j].dev] = NULL THEN "copy"
                     ELSE IF flash[exec[j].dev] = exec[j].md5 THEN Upgrades!Verified(j)
                     ELSE "delete"
  <1>1. /\ Upgrades!Step(j, "preflight", next) /\ up[exec[j].dev]
        /\ UNCHANGED <<flash, boot, saved, up>>
    BY DEF Upgrades!Preflight, Upgrades!Exchange, Upgrades!device, Upgrades!Md5Matches, Upgrades!Dev
  <1>2. next \in Upgrades!Steps /\ next \notin {"setBoot", "save", "reload"}
        /\ (next \in Booting => flash[exec[j].dev] = exec[j].md5)
    BY DEF Upgrades!Steps, Upgrades!Verified, Booting
  <1> HIDE DEF next
  <1>3. exec[j].md5 \in Content
    BY <1>1, <1>2, Stepped DEF Sound, Working
  <1> QED BY <1>1, <1>2, <1>3, LooksOnly

LEMMA VerifyKeeps ==
    ASSUME UpgradeInv, NEW j \in Ids, Upgrades!Verify(j)
    PROVE  UpgradeInv' /\ Reloads
  <1> DEFINE next == IF flash[exec[j].dev] = exec[j].md5 THEN Upgrades!Verified(j) ELSE "failed"
  <1>1. /\ Upgrades!Step(j, "verify", next) /\ up[exec[j].dev]
        /\ UNCHANGED <<flash, boot, saved, up>>
    BY DEF Upgrades!Verify, Upgrades!Exchange, Upgrades!device, Upgrades!Md5Matches, Upgrades!Dev
  <1>2. next \in Upgrades!Steps /\ next \notin {"setBoot", "save", "reload"}
        /\ (next \in Booting => flash[exec[j].dev] = exec[j].md5)
    BY DEF Upgrades!Steps, Upgrades!Verified, Booting
  <1> HIDE DEF next
  <1>3. exec[j].md5 \in Content
    BY <1>1, <1>2, Stepped DEF Sound, Working
  <1> QED BY <1>1, <1>2, <1>3, LooksOnly

LEMMA SeenBackKeeps ==
    ASSUME UpgradeInv, NEW j \in Ids, Upgrades!SeenBack(j)
    PROVE  UpgradeInv' /\ Reloads
  <1>1. Upgrades!Step(j, "waiting", "ok") /\ UNCHANGED <<flash, boot, saved, up>>
    BY DEF Upgrades!SeenBack, Upgrades!Exchange, Upgrades!device
  <1>2. "ok" \in Upgrades!Steps /\ "ok" \notin Working /\ "ok" \notin Booting
    BY DEF Upgrades!Steps, Working, Booting
  <1> QED BY <1>1, <1>2, LooksOnly

LEMMA DeleteKeeps ==
    ASSUME UpgradeInv, NEW j \in Ids, Upgrades!DeleteFromFlash(j)
    PROVE  UpgradeInv' /\ Reloads
  <1>1. /\ Upgrades!Step(j, "delete", "copy") /\ UNCHANGED <<boot, saved, up>>
        /\ flash' = [flash EXCEPT ![exec[j].dev] = NULL]
    BY DEF Upgrades!DeleteFromFlash, Upgrades!Exchange, Upgrades!Dev
  <1>2. "copy" \in Upgrades!Steps /\ "copy" \notin Booting
    BY DEF Upgrades!Steps, Booting
  <1>3. exec[j].md5 \in Content /\ exec[j].dev \in Device
    BY <1>1, <1>2, Stepped DEF Sound, Working
  <1>4. DeviceTypes' /\ Elsewhere(j)
    BY <1>1, <1>3 DEF UpgradeInv, DeviceTypes, Elsewhere
  <1>5. UpgradeInv'
    BY <1>1, <1>2, <1>3, <1>4, StepKeeps
  <1>6. Reloads
    BY <1>1 DEF Reloads
  <1> QED BY <1>5, <1>6

LEMMA FinishCopyKeeps ==
    ASSUME UpgradeInv, NEW j \in Ids, Upgrades!FinishCopy(j)
    PROVE  UpgradeInv' /\ Reloads
  <1>1. /\ Upgrades!Step(j, "copying", "verify") /\ UNCHANGED <<boot, saved, up>>
        /\ \E c \in {exec[j].got, "partial"} : flash' = [flash EXCEPT ![exec[j].dev] = c]
    BY DEF Upgrades!FinishCopy, Upgrades!Exchange, Upgrades!Dev
  <1>2. "verify" \in Upgrades!Steps /\ "verify" \notin Booting
    BY DEF Upgrades!Steps, Booting
  <1>3. exec[j].md5 \in Content /\ exec[j].dev \in Device /\ exec[j] \in Execution
    BY <1>1, <1>2, Stepped DEF Sound, Working
  <1>4. exec[j].got \in Content \cup {NULL}
    BY <1>3 DEF Execution
  <1>5. DeviceTypes' /\ Elsewhere(j)
    BY <1>1, <1>3, <1>4 DEF UpgradeInv, DeviceTypes, Elsewhere
  <1>6. UpgradeInv'
    BY <1>1, <1>2, <1>3, <1>5, StepKeeps
  <1>7. Reloads
    BY <1>1 DEF Reloads
  <1> QED BY <1>6, <1>7

LEMMA NoBootKeeps ==
    ASSUME UpgradeInv, NEW j \in Ids, Upgrades!NoBoot(j)
    PROVE  UpgradeInv' /\ Reloads
  <1>1. /\ Upgrades!Step(j, "noBoot", "setBoot") /\ UNCHANGED <<flash, saved, up>>
        /\ boot' = [boot EXCEPT ![exec[j].dev] = {}]
    BY DEF Upgrades!NoBoot, Upgrades!Exchange, Upgrades!Dev
  <1>2. "setBoot" \in Upgrades!Steps
    BY DEF Upgrades!Steps
  <1>3. /\ exec[j].md5 \in Content /\ exec[j].dev \in Device
        /\ exec[j].dev \notin overlap => flash[exec[j].dev] = exec[j].md5 /\ up[exec[j].dev]
    BY <1>1, <1>2, Stepped DEF Sound, Working, Booting
  <1>4. DeviceTypes' /\ Elsewhere(j) /\ boot'[exec[j].dev] = {}
    BY <1>1, <1>3 DEF UpgradeInv, DeviceTypes, Elsewhere
  <1>5. UpgradeInv'
    BY <1>1, <1>2, <1>3, <1>4, StepKeeps
  <1>6. Reloads
    BY <1>1 DEF Reloads
  <1> QED BY <1>5, <1>6

LEMMA SetBootKeeps ==
    ASSUME UpgradeInv, NEW j \in Ids, Upgrades!SetBoot(j)
    PROVE  UpgradeInv' /\ Reloads
  <1>1. /\ Upgrades!Step(j, "setBoot", "save") /\ UNCHANGED <<flash, saved, up>>
        /\ boot' = [boot EXCEPT ![exec[j].dev] = @ \cup {"new"}]
    BY DEF Upgrades!SetBoot, Upgrades!Exchange, Upgrades!Dev
  <1>2. "save" \in Upgrades!Steps
    BY DEF Upgrades!Steps
  <1>3. /\ exec[j].md5 \in Content /\ exec[j].dev \in Device
        /\ exec[j].dev \notin overlap =>
             flash[exec[j].dev] = exec[j].md5 /\ up[exec[j].dev] /\ boot[exec[j].dev] = {}
    BY <1>1, <1>2, Stepped DEF Sound, Working, Booting
  <1>4. /\ DeviceTypes' /\ Elsewhere(j)
        /\ boot'[exec[j].dev] = boot[exec[j].dev] \cup {"new"}
    BY <1>1, <1>3 DEF UpgradeInv, DeviceTypes, Elsewhere
  <1>5. exec[j].dev \notin overlap => boot'[exec[j].dev] = {"new"}
    BY <1>3, <1>4
  <1>6. UpgradeInv'
    BY <1>1, <1>2, <1>3, <1>4, <1>5, StepKeeps
  <1>7. Reloads
    BY <1>1 DEF Reloads
  <1> QED BY <1>6, <1>7

LEMMA SaveKeeps ==
    ASSUME UpgradeInv, NEW j \in Ids, Upgrades!Save(j)
    PROVE  UpgradeInv' /\ Reloads
  <1>1. /\ Upgrades!Step(j, "save", "reload") /\ UNCHANGED <<flash, boot, up>>
        /\ saved' = [saved EXCEPT ![exec[j].dev] = boot[exec[j].dev]]
    BY DEF Upgrades!Save, Upgrades!Exchange, Upgrades!Dev
  <1>2. "reload" \in Upgrades!Steps
    BY DEF Upgrades!Steps
  <1>3. /\ exec[j].md5 \in Content /\ exec[j].dev \in Device
        /\ exec[j].dev \notin overlap =>
             flash[exec[j].dev] = exec[j].md5 /\ up[exec[j].dev] /\ boot[exec[j].dev] = {"new"}
    BY <1>1, <1>2, Stepped DEF Sound, Working, Booting
  <1>4. DeviceTypes' /\ Elsewhere(j) /\ saved'[exec[j].dev] = boot[exec[j].dev]
    BY <1>1, <1>3 DEF UpgradeInv, DeviceTypes, Elsewhere
  <1>5. UpgradeInv'
    BY <1>1, <1>2, <1>3, <1>4, StepKeeps
  <1>6. Reloads
    BY <1>1 DEF Reloads
  <1> QED BY <1>5, <1>6

\* The reload finds a verified image on the device and in its startup configuration.
LEMMA ReloadKeeps ==
    ASSUME UpgradeInv, NEW j \in Ids, Upgrades!Reload(j)
    PROVE  UpgradeInv' /\ Reloads
  <1>1. /\ Upgrades!Step(j, "reload", "waiting") /\ UNCHANGED <<flash, boot, saved>>
        /\ up' = [up EXCEPT ![exec[j].dev] = FALSE]
    BY DEF Upgrades!Reload, Upgrades!Exchange, Upgrades!Dev
  <1>2. "waiting" \in Upgrades!Steps /\ "waiting" \notin Working /\ "waiting" \notin Booting
    BY DEF Upgrades!Steps, Working, Booting
  <1>3. /\ exec[j].md5 \in Content /\ exec[j].dev \in Device
        /\ exec[j].dev \notin overlap =>
             flash[exec[j].dev] = exec[j].md5 /\ saved[exec[j].dev] = {"new"}
    BY <1>1, <1>2, Stepped DEF Sound, Working, Booting
  <1>4. DeviceTypes' /\ Elsewhere(j)
    BY <1>1, <1>3 DEF UpgradeInv, DeviceTypes, Elsewhere
  <1>5. UpgradeInv'
    BY <1>1, <1>2, <1>4, StepKeeps
  <1>6. Reloads
    BY <1>1, <1>3 DEF Reloads, UpgradeInv, DeviceTypes
  <1> QED BY <1>5, <1>6

LEMMA InstallKeeps ==
    ASSUME UpgradeInv, NEW j \in Ids, Upgrades!Install(j)
    PROVE  UpgradeInv' /\ Reloads
  <1>1. /\ Upgrades!Step(j, "install", "ok") /\ UNCHANGED flash
        /\ up' = [up EXCEPT ![exec[j].dev] = FALSE]
        /\ boot' = [boot EXCEPT ![exec[j].dev] = {"new"}]
        /\ saved' = [saved EXCEPT ![exec[j].dev] = {"new"}]
    BY DEF Upgrades!Install, Upgrades!Exchange, Upgrades!Dev
  <1>2. "ok" \in Upgrades!Steps /\ "ok" \notin Working /\ "ok" \notin Booting
    BY DEF Upgrades!Steps, Working, Booting
  <1>3. /\ exec[j].md5 \in Content /\ exec[j].dev \in Device
        /\ exec[j].dev \notin overlap => flash[exec[j].dev] = exec[j].md5
    BY <1>1, <1>2, Stepped DEF Sound, Working, Booting
  <1>4. DeviceTypes' /\ Elsewhere(j)
    BY <1>1, <1>3 DEF UpgradeInv, DeviceTypes, Elsewhere
  <1>5. UpgradeInv'
    BY <1>1, <1>2, <1>4, StepKeeps
  <1>6. Reloads
    BY <1>1, <1>3 DEF Reloads, UpgradeInv, DeviceTypes
  <1> QED BY <1>5, <1>6

\* The two steps that fill in the execution's locals.
LEMMA LookupKeeps ==
    ASSUME UpgradeInv, NEW j \in Ids, Upgrades!Lookup(j)
    PROVE  UpgradeInv' /\ Reloads
  <1> DEFINE e == IF row # NULL /\ row.id = upgrades[j].image
                  THEN [exec[j] EXCEPT !.md5 = row.md5, !.pc = "preflight"]
                  ELSE [exec[j] EXCEPT !.pc = "failed"]
  <1>0. UpgradeTypes /\ DeviceTypes
    BY DEF UpgradeInv
  <1>1. /\ Going(j) /\ UNCHANGED <<row, file, uploads, upgrades, overlap, work>>
        /\ UNCHANGED <<flash, boot, saved, up>> /\ exec' = [exec EXCEPT ![j] = e]
    BY DEF Upgrades!Lookup, Upgrades!registry, Upgrades!device, Going
  <1>2. exec \in Seq(Execution) /\ DOMAIN exec = Ids /\ exec[j] \in Execution
    BY <1>0 DEF UpgradeTypes, Ids
  <1>3. /\ e \in Execution /\ e.dev = exec[j].dev /\ e.pc \in {"preflight", "failed"}
        /\ e.pc = "preflight" => e.md5 \in Content
    BY <1>0, <1>2 DEF Execution, UpgradeTypes, Image, Upgrades!Steps
  <1> HIDE DEF e
  <1>4. exec'[j] = e
    BY <1>1, <1>2, <1>3, Replaced
  <1>5. Sound(exec[j])'
    BY <1>3, <1>4 DEF Sound, Working, Booting
  <1>6. DeviceTypes' /\ Elsewhere(j) /\ UNCHANGED Resting
    BY <1>0, <1>1 DEF DeviceTypes, Elsewhere, Resting
  <1>7. UpgradeInv'
    BY <1>1, <1>3, <1>5, <1>6, ExecutionMoves
  <1>8. Reloads
    BY <1>1 DEF Reloads
  <1> QED BY <1>7, <1>8

LEMMA StartCopyKeeps ==
    ASSUME UpgradeInv, NEW j \in Ids, Upgrades!StartCopy(j)
    PROVE  UpgradeInv' /\ Reloads
  <1>0. UpgradeTypes /\ DeviceTypes /\ SoundInv
    BY DEF UpgradeInv
  <1>1. /\ Going(j) /\ UNCHANGED <<row, file, uploads, upgrades, overlap, work>>
        /\ exec[j].pc = "copy" /\ UNCHANGED <<boot, saved, up>>
    BY DEF Upgrades!StartCopy, Upgrades!registry, Going
  <1>2. /\ exec \in Seq(Execution) /\ DOMAIN exec = Ids /\ exec[j] \in Execution
        /\ exec[j].dev \in Device
    BY <1>0, <1>1 DEF UpgradeTypes, Ids
  <1>3. exec[j].md5 \in Content
    BY <1>0, <1>1 DEF SoundInv, Sound, Working
  <1>4. Reloads
    BY <1>1 DEF Reloads
  <1>5. CASE row = NULL \/ file = NULL
    <2>1. Upgrades!Step(j, "copy", "failed") /\ UNCHANGED flash
      BY <1>5 DEF Upgrades!StartCopy, Upgrades!Step
    <2>2. "failed" \in Upgrades!Steps /\ "failed" \notin Working /\ "failed" \notin Booting
      BY DEF Upgrades!Steps, Working, Booting
    <2> QED BY <1>1, <2>1, <2>2, LooksOnly
  <1>6. CASE ~(row = NULL \/ file = NULL)
    <2> DEFINE e == [exec[j] EXCEPT !.pc = "copying", !.got = file]
    <2>1. /\ exec' = [exec EXCEPT ![j] = e]
          /\ flash' = [flash EXCEPT ![exec[j].dev] = "partial"]
      BY <1>6 DEF Upgrades!StartCopy, Upgrades!Dev
    <2>2. /\ e \in Execution /\ e.dev = exec[j].dev /\ e.pc = "copying" /\ e.md5 = exec[j].md5
      BY <1>0, <1>2 DEF Execution, UpgradeTypes, Upgrades!Steps
    <2> HIDE DEF e
    <2>3. exec'[j] = e
      BY <1>2, <2>1, <2>2, Replaced
    <2>4. Sound(exec[j])'
      BY <1>3, <2>2, <2>3 DEF Sound, Booting
    <2>5. DeviceTypes' /\ Elsewhere(j) /\ UNCHANGED Resting
      BY <1>0, <1>1, <1>2, <2>1 DEF DeviceTypes, Elsewhere, Resting
    <2>6. UpgradeInv'
      BY <1>1, <2>1, <2>2, <2>4, <2>5, ExecutionMoves
    <2> QED BY <1>4, <2>6
  <1> QED BY <1>5, <1>6

\* The status of one upgrade job changes.
LEMMA StatusSet ==
    ASSUME UpgradeTypes, NEW j \in Ids, NEW st \in UpgradeStatus,
           upgrades' = [upgrades EXCEPT ![j].status = st]
    PROVE  /\ upgrades' \in Seq(Upgrade) /\ Len(upgrades') = Len(upgrades) /\ Ids' = Ids
           /\ upgrades'[j].status = st /\ upgrades'[j].devs = upgrades[j].devs
           /\ \A k \in Ids : upgrades'[k].image = upgrades[k].image
           /\ \A k \in Ids : k # j => upgrades'[k] = upgrades[k]
  <1>1. upgrades \in Seq(Upgrade) /\ upgrades[j] \in Upgrade
    BY DEF UpgradeTypes, Ids
  <1> DEFINE u == [upgrades[j] EXCEPT !.status = st]
  <1>2. /\ u \in Upgrade /\ u.status = st /\ u.devs = upgrades[j].devs
        /\ u.image = upgrades[j].image /\ upgrades' = [upgrades EXCEPT ![j] = u]
    BY <1>1 DEF Upgrade
  <1> HIDE DEF u
  <1>3. /\ upgrades' \in Seq(Upgrade) /\ Len(upgrades') = Len(upgrades)
        /\ DOMAIN upgrades' = DOMAIN upgrades /\ upgrades'[j] = u
        /\ \A k \in DOMAIN upgrades : k # j => upgrades'[k] = upgrades[k]
    BY <1>1, <1>2, Replaced DEF Ids
  <1> QED BY <1>2, <1>3 DEF Ids

LEMMA IdleType ==
    ASSUME NEW n \in Nat
    PROVE  /\ [Upgrades!Idle EXCEPT !.runs = n] \in Execution
           /\ [Upgrades!Idle EXCEPT !.runs = n].pc = "idle"
           /\ \A s \in SUBSET Device : [Upgrades!Idle EXCEPT !.left = s, !.runs = n] \in Execution
  BY DEF Upgrades!Idle, Execution

\* A job ends, or waits, and its execution is over.
LEMMA Ends ==
    ASSUME UpgradeInv, NEW j \in Ids, NEW st \in UpgradeStatus \ {"running"},
           upgrades' = [upgrades EXCEPT ![j].status = st],
           NEW e \in Execution, e.pc = "idle", exec' = [exec EXCEPT ![j] = e],
           UNCHANGED <<row, file, uploads, flash, boot, saved, up, overlap, work>>
    PROVE  UpgradeInv' /\ Reloads
  <1>0. UpgradeTypes /\ DeviceTypes /\ SoundInv /\ ApartInv
    BY DEF UpgradeInv
  <1>1. /\ upgrades' \in Seq(Upgrade) /\ Len(upgrades') = Len(upgrades) /\ Ids' = Ids
        /\ upgrades'[j].status = st /\ \A k \in Ids : k # j => upgrades'[k] = upgrades[k]
    BY <1>0, StatusSet
  <1>2. exec \in Seq(Execution) /\ Len(exec) = Len(upgrades) /\ DOMAIN exec = Ids
    BY <1>0 DEF UpgradeTypes, Ids
  <1>3. /\ exec' \in Seq(Execution) /\ Len(exec') = Len(exec) /\ exec'[j] = e
        /\ \A k \in Ids : k # j => exec'[k] = exec[k]
    BY <1>2, Replaced
  <1>4. /\ ~Going(j)' /\ \A k \in Ids : k # j => (Going(k)' <=> Going(k))
    BY <1>1 DEF Going
  <1>5. UpgradeTypes'
    <2>1. \A k \in Ids' : /\ Going(k)' <=> exec'[k].pc # "idle"
                          /\ Going(k)' => exec'[k].dev \in Device
      BY <1>0, <1>1, <1>3, <1>4 DEF UpgradeTypes
    <2> QED BY <1>0, <1>1, <1>2, <1>3, <2>1 DEF UpgradeTypes
  <1>6. SoundInv'
    <2>1. ASSUME NEW k \in Ids, k # j, Going(k) PROVE Sound(exec[k])'
      BY <1>0, <1>3, <2>1 DEF SoundInv, Sound
    <2> QED BY <1>1, <1>4, <2>1 DEF SoundInv
  <1>7. ApartInv'
    BY <1>0, <1>1, <1>3, <1>4 DEF ApartInv
  <1>8. DeviceTypes' /\ Reloads
    BY <1>0 DEF DeviceTypes, Reloads
  <1> QED BY <1>5, <1>6, <1>7, <1>8 DEF UpgradeInv

\* An execution turns to a device: it starts afresh there, and whoever is there already
\* has it on record.
LEMMA Turns ==
    ASSUME UpgradeInv, NEW j \in Ids, NEW e \in Execution, NEW d \in Device,
           Upgrades!Turn(j, e, d),
           upgrades' \in Seq(Upgrade), Len(upgrades') = Len(upgrades), Ids' = Ids,
           upgrades'[j].status = "running", \A k \in Ids : k # j => upgrades'[k] = upgrades[k],
           UNCHANGED <<row, file, uploads, flash, boot, saved, up, work>>
    PROVE  UpgradeInv' /\ Reloads
  <1>0. UpgradeTypes /\ DeviceTypes /\ SoundInv /\ ApartInv
    BY DEF UpgradeInv
  <1> DEFINE n == [e EXCEPT !.pc = "lookup", !.dev = d, !.left = @ \ {d}]
  <1>1. /\ exec' = [exec EXCEPT ![j] = n] /\ overlap \subseteq overlap'
        /\ overlap' \subseteq overlap \cup {d}
        /\ \A k \in Ids : k # j /\ Going(k) /\ exec[k].dev = d => d \in overlap'
    BY DEF Upgrades!Turn, Upgrades!Busy, Upgrades!JobId, Ids, Going
  <1>2. n \in Execution /\ n.pc = "lookup" /\ n.dev = d
    BY DEF Execution, Upgrades!Steps
  <1> HIDE DEF n
  <1>3. exec \in Seq(Execution) /\ Len(exec) = Len(upgrades) /\ DOMAIN exec = Ids
    BY <1>0 DEF UpgradeTypes, Ids
  <1>4. /\ exec' \in Seq(Execution) /\ Len(exec') = Len(exec) /\ exec'[j] = n
        /\ \A k \in Ids : k # j => exec'[k] = exec[k]
    BY <1>1, <1>2, <1>3, Replaced
  <1>5. Going(j)' /\ \A k \in Ids : k # j => (Going(k)' <=> Going(k))
    BY DEF Going
  <1>6. UpgradeTypes'
    <2>1. \A k \in Ids' : /\ Going(k)' <=> exec'[k].pc # "idle"
                          /\ Going(k)' => exec'[k].dev \in Device
      BY <1>0, <1>2, <1>4, <1>5 DEF UpgradeTypes
    <2>2. overlap' \subseteq Device
      BY <1>0, <1>1 DEF UpgradeTypes
    <2> QED BY <1>0, <1>3, <1>4, <2>1, <2>2 DEF UpgradeTypes
  <1>7. SoundInv'
    <2>1. Sound(exec[j])'
      BY <1>2, <1>4 DEF Sound, Working, Booting
    <2>2. ASSUME NEW k \in Ids, k # j, Going(k) PROVE Sound(exec[k])'
      BY <1>0, <1>1, <1>4, <2>2 DEF SoundInv, Sound
    <2> QED BY <1>5, <2>1, <2>2 DEF SoundInv
  <1>8. ApartInv'
    BY <1>0, <1>1, <1>2, <1>4, <1>5 DEF ApartInv
  <1>9. DeviceTypes' /\ Reloads
    BY <1>0 DEF DeviceTypes, Reloads
  <1> QED BY <1>6, <1>7, <1>8, <1>9 DEF UpgradeInv

LEMMA ClaimKeeps ==
    ASSUME UpgradeInv, NEW j \in Ids, Upgrades!ClaimUpgrade(j)
    PROVE  UpgradeInv' /\ Reloads
  <1>0. UpgradeTypes
    BY DEF UpgradeInv
  <1>1. /\ upgrades[j].status = "pending"
        /\ upgrades' = [upgrades EXCEPT ![j].status = "running"]
        /\ UNCHANGED <<row, file, uploads, flash, boot, saved, up, work>>
    BY DEF Upgrades!ClaimUpgrade, Upgrades!registry, Upgrades!device
  <1>2. /\ upgrades' \in Seq(Upgrade) /\ Len(upgrades') = Len(upgrades) /\ Ids' = Ids
        /\ upgrades'[j].status = "running" /\ \A k \in Ids : k # j => upgrades'[k] = upgrades[k]
    BY <1>0, <1>1, StatusSet DEF UpgradeStatus
  <1>3. exec[j] \in Execution /\ upgrades[j] \in Upgrade
    BY <1>0 DEF UpgradeTypes, Ids
  <1> DEFINE e == [Upgrades!Idle EXCEPT !.left = upgrades[j].devs, !.runs = exec[j].runs + 1]
  <1>4. e \in Execution
    <2>1. exec[j].runs + 1 \in Nat /\ upgrades[j].devs \in SUBSET Device
      BY <1>3 DEF Execution, Upgrade
    <2> QED BY <2>1, IdleType
  <1>5. \E d \in upgrades[j].devs : Upgrades!Turn(j, e, d)
    BY DEF Upgrades!ClaimUpgrade
  <1> HIDE DEF e
  <1>6. PICK d \in Device : Upgrades!Turn(j, e, d)
    BY <1>3, <1>5 DEF Upgrade
  <1> QED BY <1>1, <1>2, <1>4, <1>6, Turns

LEMMA NextDeviceKeeps ==
    ASSUME UpgradeInv, NEW j \in Ids, Upgrades!NextDevice(j)
    PROVE  UpgradeInv' /\ Reloads
  <1>0. UpgradeTypes
    BY DEF UpgradeInv
  <1>1. /\ upgrades[j].status = "running"
        /\ UNCHANGED <<row, file, uploads, flash, boot, saved, up, work>>
    BY DEF Upgrades!NextDevice, Upgrades!registry, Upgrades!device
  <1>2. exec[j] \in Execution /\ upgrades[j] \in Upgrade
    BY <1>0 DEF UpgradeTypes, Ids
  <1>3. CASE exec[j].left = {}
    <2>1. PICK st \in {"done", "failed"} : upgrades' = [upgrades EXCEPT ![j].status = st]
      BY <1>3 DEF Upgrades!NextDevice
    <2>2. /\ exec' = [exec EXCEPT ![j] = [Upgrades!Idle EXCEPT !.runs = exec[j].runs]]
          /\ UNCHANGED overlap
      BY <1>3 DEF Upgrades!NextDevice
    <2>3. st \in UpgradeStatus \ {"running"} /\ exec[j].runs \in Nat
      BY <1>2 DEF UpgradeStatus, Execution
    <2> QED BY <1>1, <2>1, <2>2, <2>3, IdleType, Ends
  <1>4. CASE exec[j].left # {}
    <2> DEFINE e == [exec[j] EXCEPT !.allOk = exec[j].allOk /\ exec[j].pc = "ok"]
    <2>1. e \in Execution
      BY <1>2 DEF Execution
    <2>2. UNCHANGED upgrades /\ \E d \in exec[j].left : Upgrades!Turn(j, e, d)
      BY <1>4 DEF Upgrades!NextDevice
    <2> HIDE DEF e
    <2>3. PICK d \in Device : Upgrades!Turn(j, e, d)
      BY <1>2, <2>2 DEF Execution
    <2>4. upgrades' \in Seq(Upgrade) /\ Len(upgrades') = Len(upgrades) /\ Ids' = Ids
      BY <1>0, <2>2 DEF UpgradeTypes, Ids
    <2> QED BY <1>1, <2>1, <2>2, <2>3, <2>4, Turns
  <1> QED BY <1>3, <1>4

LEMMA DeathKeeps ==
    ASSUME UpgradeInv, NEW j \in Ids, Upgrades!WorkerDies(j)
    PROVE  UpgradeInv' /\ Reloads
  <1>1. /\ upgrades' = [upgrades EXCEPT ![j].status = "failed"]
        /\ exec' = [exec EXCEPT ![j] = [Upgrades!Idle EXCEPT !.runs = exec[j].runs]]
        /\ UNCHANGED <<row, file, uploads, flash, boot, saved, up, overlap, work>>
    BY DEF Upgrades!WorkerDies, Upgrades!registry, Upgrades!device
  <1>2. "failed" \in UpgradeStatus \ {"running"}
    BY DEF UpgradeStatus
  <1>3. exec[j] \in Execution
    BY DEF UpgradeInv, UpgradeTypes, Ids
  <1>4. exec[j].runs \in Nat
    BY <1>3 DEF Execution
  <1> QED BY <1>1, <1>2, <1>4, IdleType, Ends

\* A device that is down is nobody's, or shared: those who need it up are not there.
LEMMA ComesBackKeeps ==
    ASSUME UpgradeInv, NEW d \in Device, Upgrades!ComesBack(d)
    PROVE  UpgradeInv' /\ Reloads
  <1>0. UpgradeTypes /\ DeviceTypes /\ SoundInv /\ ApartInv
    BY DEF UpgradeInv
  <1>1. /\ ~up[d] /\ up' = [up EXCEPT ![d] = TRUE] /\ boot' = [boot EXCEPT ![d] = saved[d]]
        /\ UNCHANGED <<row, file, uploads, upgrades, exec, flash, saved, overlap, work>>
    BY DEF Upgrades!ComesBack, Upgrades!registry
  <1>2. DeviceTypes'
    BY <1>0, <1>1 DEF DeviceTypes
  <1>3. SoundInv'
    <2> SUFFICES ASSUME NEW k \in Ids, Going(k) PROVE Sound(exec[k])'
      BY <1>1 DEF SoundInv, Ids, Going
    <2>1. Sound(exec[k]) /\ exec[k].dev \in Device
      BY <1>0 DEF SoundInv, UpgradeTypes
    <2> QED BY <1>0, <1>1, <2>1 DEF Sound, DeviceTypes, Booting
  <1>4. UpgradeTypes' /\ ApartInv'
    BY <1>0, <1>1 DEF UpgradeTypes, ApartInv, Ids, Going
  <1>5. Reloads
    BY <1>0, <1>1 DEF Reloads, DeviceTypes
  <1> QED BY <1>2, <1>3, <1>4, <1>5 DEF UpgradeInv

\* A request that is at a statement: its argument and what is left after it.
LEMMA Statement ==
    ASSUME NEW q \in Request, work[q] \in Left
    PROVE  /\ Upgrades!At(q, "store") =>
                \E c \in Content : /\ work[q] = Stores(c) /\ Upgrades!Arg(q) = c
                                   /\ Tail(work[q]) = Inserts(c)
           /\ Upgrades!At(q, "insertImage") =>
                \E c \in Content : /\ work[q] = Inserts(c) /\ Upgrades!Arg(q) = c
                                   /\ Tail(work[q]) = << >>
           /\ Upgrades!At(q, "activeJobs") =>
                \E x \in 1..MaxUploads : /\ work[q] = Asks(x) /\ Upgrades!Arg(q) = x
                                         /\ Tail(work[q]) = Deletes(x)
           /\ Upgrades!At(q, "deleteRow") =>
                \E x \in 1..MaxUploads : /\ work[q] = Deletes(x) /\ Upgrades!Arg(q) = x
                                         /\ Tail(work[q]) = Unlinks(x)
           /\ Upgrades!At(q, "unlink") =>
                \E x \in 1..MaxUploads : /\ work[q] = Unlinks(x) /\ Upgrades!Arg(q) = x
                                         /\ Tail(work[q]) = << >>
  <1> USE DEF Upgrades!At, Upgrades!Arg
  <1>0. CASE work[q] = << >>
    BY <1>0
  <1>1. CASE \E c \in Content : work[q] = Stores(c)
    BY <1>1, Statements
  <1>2. CASE \E c \in Content : work[q] = Inserts(c)
    BY <1>2, Statements
  <1>3. CASE \E x \in 1..MaxUploads : work[q] = Asks(x)
    BY <1>3, Statements
  <1>4. CASE \E x \in 1..MaxUploads : work[q] = Deletes(x)
    BY <1>4, Statements
  <1>5. CASE \E x \in 1..MaxUploads : work[q] = Unlinks(x)
    BY <1>5, Statements
  <1> QED BY <1>0, <1>1, <1>2, <1>3, <1>4, <1>5 DEF Left

\* The lists differ in their first statement.
LEMMA Apart ==
    /\ \A x, y : Deletes(x) = Deletes(y) => x = y
    /\ \A x : Deletes(x) # << >>
    /\ \A x, y : /\ Deletes(x) # Asks(y) /\ Deletes(x) # Unlinks(y)
                 /\ Deletes(x) # Stores(y) /\ Deletes(x) # Inserts(y)
    /\ \A c, y : /\ Inserts(c) # << >> /\ Inserts(c) # Asks(y) /\ Inserts(c) # Unlinks(y)
                 /\ Inserts(c) # Deletes(y)
                 /\ Stores(c) # << >> /\ Stores(c) # Asks(y) /\ Stores(c) # Unlinks(y)
                 /\ Stores(c) # Deletes(y)
  <1>1. ASSUME NEW x, NEW y, Deletes(x) = Deletes(y) PROVE x = y
    <2>1. Said("deleteRow", x).arg = Said("deleteRow", y).arg
      BY <1>1, Statements
    <2> QED BY <2>1, Statements
  <1>2. \A op, a, b, oq : Said(op, a) = Said(oq, b) => op = oq
    <2> SUFFICES ASSUME NEW op, NEW a, NEW b, NEW oq, Said(op, a) = Said(oq, b) PROVE op = oq
      OBVIOUS
    <2>1. Said(op, a).op = Said(oq, b).op
      OBVIOUS
    <2> QED BY <2>1, Statements
  <1>3. \A x, y : /\ Deletes(x) # Asks(y) /\ Deletes(x) # Unlinks(y)
                  /\ Deletes(x) # Stores(y) /\ Deletes(x) # Inserts(y)
    BY <1>2, Statements
  <1>4. \A c, y : /\ Inserts(c) # Asks(y) /\ Inserts(c) # Unlinks(y)
                  /\ Inserts(c) # Deletes(y)
                  /\ Stores(c) # Asks(y) /\ Stores(c) # Unlinks(y)
                  /\ Stores(c) # Deletes(y)
    BY <1>2, Statements
  <1> QED BY <1>1, <1>3, <1>4, Statements

\* A request changes the registry and nothing else.
LEMMA RequestKeeps ==
    ASSUME UpgradeInv, NEW q \in Request, NEW list \in Left, work' = [work EXCEPT ![q] = list],
           UNCHANGED <<upgrades, exec, flash, boot, saved, up, overlap>>,
           row' = NULL \/ row' \in Image, file' \in Content \cup {NULL},
           uploads' \in 0..MaxUploads, uploads' # uploads => uploads' # 0,
           (\E c \in Content : list \in {Stores(c), Inserts(c)}) => uploads' # 0
    PROVE  UpgradeInv' /\ Reloads
  <1>0. UpgradeTypes /\ DeviceTypes /\ SoundInv /\ ApartInv
    BY DEF UpgradeInv
  <1>1. /\ DOMAIN work' = Request /\ work'[q] = list
        /\ \A r \in Request : r # q => work'[r] = work[r]
    BY <1>0 DEF UpgradeTypes
  <1>2. \A r \in Request : work'[r] \in Left
    BY <1>0, <1>1 DEF UpgradeTypes
  <1>3. \A r \in Request : \A c \in Content : work'[r] \in {Stores(c), Inserts(c)} => uploads' # 0
    BY <1>0, <1>1 DEF UpgradeTypes
  <1>4. UpgradeTypes'
    BY <1>0, <1>1, <1>2, <1>3 DEF UpgradeTypes, Ids, Going
  <1>5. DeviceTypes' /\ SoundInv' /\ ApartInv' /\ Reloads
    BY <1>0 DEF DeviceTypes, SoundInv, Sound, ApartInv, Reloads, Ids, Going
  <1> QED BY <1>4, <1>5 DEF UpgradeInv

LEMMA ListTypes ==
    /\ << >> \in Left
    /\ \A c \in Content : Stores(c) \in Left /\ Inserts(c) \in Left
    /\ \A x \in 1..MaxUploads : Asks(x) \in Left /\ Deletes(x) \in Left /\ Unlinks(x) \in Left
  BY DEF Left

\* What a statement does to the registry and leaves of its request.
LEMMA RegistryStep ==
    ASSUME UpgradeInv, NEW q \in Request,
           \/ \E c \in Content : Upgrades!Upload(q, c)
           \/ Upgrades!DeleteImage(q) \/ Upgrades!RequestStep(q) \/ Upgrades!RequestFails(q)
    PROVE  /\ UpgradeInv' /\ Reloads
           /\ UNCHANGED <<upgrades, exec, flash, boot, saved, up, overlap>>
           /\ \A r \in Request : r # q => work'[r] = work[r]
           /\ \A x \in 1..MaxUploads : work'[q] = Deletes(x) =>
                \A j \in Ids : upgrades[j].image = x => upgrades[j].status \notin Upgrades!Active
           /\ row # NULL /\ row' = NULL => work[q] = Deletes(row.id)
  <1> USE DEF Upgrades!Continue, Upgrades!Skip, Upgrades!Drop, Upgrades!registry, Upgrades!device
  <1>0. UpgradeTypes
    BY DEF UpgradeInv
  <1>1. /\ row = NULL \/ (row \in Image /\ row.id \in 1..MaxUploads)
        /\ file \in Content \cup {NULL} /\ uploads \in 0..MaxUploads
        /\ work[q] \in Left /\ DOMAIN work = Request
        /\ \A c \in Content : work[q] \in {Stores(c), Inserts(c)} => uploads # 0
    BY <1>0 DEF UpgradeTypes, Image
  <1> DEFINE Goal(list) ==
           /\ list \in Left /\ work' = [work EXCEPT ![q] = list]
           /\ UNCHANGED <<upgrades, exec, flash, boot, saved, up, overlap>>
           /\ row' = NULL \/ row' \in Image
           /\ file' \in Content \cup {NULL}
           /\ uploads' \in 0..MaxUploads /\ (uploads' # uploads => uploads' # 0)
           /\ (\E c \in Content : list \in {Stores(c), Inserts(c)}) => uploads' # 0
           /\ \A x \in 1..MaxUploads : list = Deletes(x) =>
                \A j \in Ids : upgrades[j].image = x => upgrades[j].status \notin Upgrades!Active
           /\ row # NULL /\ row' = NULL => work[q] = Deletes(row.id)
  <1>2. SUFFICES \E list : Goal(list)
    <2>1. PICK list : Goal(list)
      BY <1>2
    <2>2. UpgradeInv' /\ Reloads
      BY <2>1, RequestKeeps
    <2> QED BY <1>1, <2>1, <2>2
  <1>3. CASE \E c \in Content : Upgrades!Upload(q, c)
    <2>1. PICK c \in Content : Upgrades!Upload(q, c)
      BY <1>3
    <2>2. uploads' \in 0..MaxUploads /\ uploads' # 0
      BY <1>1, <2>1 DEF Upgrades!Upload
    <2>3. /\ work' = [work EXCEPT ![q] = Stores(c)]
          /\ UNCHANGED <<row, file, upgrades, exec, flash, boot, saved, up, overlap>>
      BY <2>1, Begun DEF Upgrades!Upload
    <2>4. Stores(c) \in Left /\ \A x : Stores(c) # Deletes(x)
      BY ListTypes, Apart
    <2>5. Goal(Stores(c))
      BY <1>1, <2>2, <2>3, <2>4
    <2> QED BY <2>5
  <1>4. CASE Upgrades!DeleteImage(q)
    <2>1. Goal(Asks(row.id))
      BY <1>1, <1>4, Begun, ListTypes, Apart DEF Upgrades!DeleteImage
    <2> QED BY <2>1
  <1>5. CASE Upgrades!RequestFails(q)
    <2>1. Goal(<< >>)
      BY <1>1, <1>5, ListTypes, Apart DEF Upgrades!RequestFails
    <2> QED BY <2>1
  <1>6. CASE Upgrades!Store(q)
    <2>1. PICK c \in Content : /\ work[q] = Stores(c) /\ Upgrades!Arg(q) = c
                               /\ Tail(work[q]) = Inserts(c)
      BY <1>1, <1>6, Statement DEF Upgrades!Store
    <2>2. Goal(Inserts(c))
      BY <1>1, <1>6, <2>1, ListTypes, Apart DEF Upgrades!Store
    <2> QED BY <2>2
  <1>7. CASE Upgrades!InsertImage(q)
    <2>1. PICK c \in Content : /\ work[q] = Inserts(c) /\ Upgrades!Arg(q) = c
                               /\ Tail(work[q]) = << >>
      BY <1>1, <1>7, Statement DEF Upgrades!InsertImage
    <2>2. [id |-> uploads, md5 |-> c] \in Image
      BY <1>1, <2>1 DEF Image
    <2>3. row' = IF row = NULL THEN [id |-> uploads, md5 |-> c] ELSE row
      BY <1>7, <2>1 DEF Upgrades!InsertImage
    <2>4. Goal(<< >>)
      BY <1>1, <1>7, <2>1, <2>2, <2>3, ListTypes, Apart DEF Upgrades!InsertImage
    <2> QED BY <2>4
  <1>8. CASE Upgrades!ActiveJobs(q)
    <2>1. PICK x \in 1..MaxUploads : /\ work[q] = Asks(x) /\ Upgrades!Arg(q) = x
                                     /\ Tail(work[q]) = Deletes(x)
      BY <1>1, <1>8, Statement DEF Upgrades!ActiveJobs
    <2>2. CASE \E j \in Ids : upgrades[j].image = x /\ upgrades[j].status \in Upgrades!Active
      <3>1. Goal(<< >>)
        BY <1>1, <1>8, <2>1, <2>2, ListTypes, Apart DEF Upgrades!ActiveJobs, Upgrades!JobId, Ids
      <3> QED BY <3>1
    <2>3. CASE ~\E j \in Ids : upgrades[j].image = x /\ upgrades[j].status \in Upgrades!Active
      <3>1. Goal(Deletes(x))
        BY <1>1, <1>8, <2>1, <2>3, ListTypes, Apart DEF Upgrades!ActiveJobs, Upgrades!JobId, Ids
      <3> QED BY <3>1
    <2> QED BY <2>2, <2>3
  <1>9. CASE Upgrades!DeleteRow(q)
    <2>1. PICK x \in 1..MaxUploads : /\ work[q] = Deletes(x) /\ Upgrades!Arg(q) = x
                                     /\ Tail(work[q]) = Unlinks(x)
      BY <1>1, <1>9, Statement DEF Upgrades!DeleteRow
    <2>2. Goal(Unlinks(x))
      BY <1>1, <1>9, <2>1, ListTypes, Apart DEF Upgrades!DeleteRow
    <2> QED BY <2>2
  <1>10. CASE Upgrades!Unlink(q)
    <2>1. PICK x \in 1..MaxUploads : /\ work[q] = Unlinks(x) /\ Upgrades!Arg(q) = x
                                     /\ Tail(work[q]) = << >>
      BY <1>1, <1>10, Statement DEF Upgrades!Unlink
    <2>2. Goal(<< >>)
      BY <1>1, <1>10, <2>1, ListTypes, Apart DEF Upgrades!Unlink
    <2> QED BY <2>2
  <1> QED BY <1>3, <1>4, <1>5, <1>6, <1>7, <1>8, <1>9, <1>10 DEF Upgrades!RequestStep

\* The job's execution of one device after the other.
LEMMA ExecutionKeeps ==
    ASSUME UpgradeInv, NEW j \in Ids,
           Upgrades!ClaimUpgrade(j) \/ Upgrades!StepOf(j) \/ Upgrades!WorkerDies(j)
    PROVE  UpgradeInv' /\ Reloads
  <1>1. CASE Upgrades!ClaimUpgrade(j)
    BY <1>1, ClaimKeeps
  <1>2. CASE Upgrades!WorkerDies(j)
    BY <1>2, DeathKeeps
  <1>3. CASE Upgrades!StepOf(j)
    <2>1. CASE Upgrades!Lookup(j)
      BY <2>1, LookupKeeps
    <2>2. CASE Upgrades!Preflight(j)
      BY <2>2, PreflightKeeps
    <2>3. CASE Upgrades!DeleteFromFlash(j)
      BY <2>3, DeleteKeeps
    <2>4. CASE Upgrades!StartCopy(j)
      BY <2>4, StartCopyKeeps
    <2>5. CASE Upgrades!FinishCopy(j)
      BY <2>5, FinishCopyKeeps
    <2>6. CASE Upgrades!Verify(j)
      BY <2>6, VerifyKeeps
    <2>7. CASE Upgrades!NoBoot(j)
      BY <2>7, NoBootKeeps
    <2>8. CASE Upgrades!SetBoot(j)
      BY <2>8, SetBootKeeps
    <2>9. CASE Upgrades!Save(j)
      BY <2>9, SaveKeeps
    <2>10. CASE Upgrades!Reload(j)
      BY <2>10, ReloadKeeps
    <2>11. CASE Upgrades!Install(j)
      BY <2>11, InstallKeeps
    <2>12. CASE Upgrades!SeenBack(j)
      BY <2>12, SeenBackKeeps
    <2>13. CASE Upgrades!StepFails(j)
      BY <2>13, FailKeeps
    <2>14. CASE Upgrades!NextDevice(j)
      BY <2>14, NextDeviceKeeps
    <2> QED
      BY <1>3, <2>1, <2>2, <2>3, <2>4, <2>5, <2>6, <2>7, <2>8, <2>9, <2>10, <2>11, <2>12,
         <2>13, <2>14 DEF Upgrades!StepOf
  <1> QED BY <1>1, <1>2, <1>3

\* What an execution does to the jobs: nobody's image changes, no job becomes active, and
\* the registry and the requests stand still.
LEMMA ExecutionSpares ==
    ASSUME UpgradeInv, NEW j \in Ids,
           Upgrades!ClaimUpgrade(j) \/ Upgrades!StepOf(j) \/ Upgrades!WorkerDies(j)
    PROVE  /\ UNCHANGED <<row, work>> /\ Ids' = Ids
           /\ \A k \in Ids : upgrades'[k].image = upgrades[k].image
           /\ \A k \in Ids : upgrades'[k].status \in Upgrades!Active =>
                             upgrades[k].status \in Upgrades!Active
  <1>0. UpgradeTypes
    BY DEF UpgradeInv
  <1>1. UNCHANGED <<row, work>>
    BY DEF Upgrades!ClaimUpgrade, Upgrades!StepOf, Upgrades!WorkerDies, Upgrades!Lookup,
           Upgrades!Preflight, Upgrades!DeleteFromFlash, Upgrades!StartCopy,
           Upgrades!FinishCopy, Upgrades!Verify, Upgrades!NoBoot, Upgrades!SetBoot,
           Upgrades!Save, Upgrades!Reload, Upgrades!Install, Upgrades!SeenBack,
           Upgrades!StepFails, Upgrades!NextDevice, Upgrades!Exchange, Upgrades!Step,
           Upgrades!registry
  <1>2. CASE UNCHANGED upgrades
    BY <1>1, <1>2 DEF Ids
  <1>3. CASE \E st \in UpgradeStatus : /\ upgrades' = [upgrades EXCEPT ![j].status = st]
                                       /\ st \in Upgrades!Active =>
                                            upgrades[j].status \in Upgrades!Active
    <2>1. PICK st \in UpgradeStatus :
              /\ upgrades' = [upgrades EXCEPT ![j].status = st]
              /\ st \in Upgrades!Active => upgrades[j].status \in Upgrades!Active
      BY <1>3
    <2>2. /\ Ids' = Ids /\ upgrades'[j].status = st
          /\ \A k \in Ids : upgrades'[k].image = upgrades[k].image
          /\ \A k \in Ids : k # j => upgrades'[k] = upgrades[k]
      BY <1>0, <2>1, StatusSet
    <2> QED BY <1>1, <2>1, <2>2
  <1>4. \/ UNCHANGED upgrades
        \/ \E st \in UpgradeStatus : /\ upgrades' = [upgrades EXCEPT ![j].status = st]
                                     /\ st \in Upgrades!Active =>
                                          upgrades[j].status \in Upgrades!Active
    <2>1. CASE Upgrades!ClaimUpgrade(j)
      BY <2>1 DEF Upgrades!ClaimUpgrade, UpgradeStatus, Upgrades!Active
    <2>2. CASE Upgrades!WorkerDies(j)
      BY <2>2 DEF Upgrades!WorkerDies, UpgradeStatus, Upgrades!Active
    <2>3. CASE Upgrades!NextDevice(j)
      BY <2>3 DEF Upgrades!NextDevice, UpgradeStatus, Upgrades!Active
    <2>4. CASE Upgrades!StepOf(j) /\ ~Upgrades!NextDevice(j)
      BY <2>4 DEF Upgrades!StepOf, Upgrades!Lookup,
           Upgrades!Preflight, Upgrades!DeleteFromFlash, Upgrades!StartCopy,
           Upgrades!FinishCopy, Upgrades!Verify, Upgrades!NoBoot, Upgrades!SetBoot,
           Upgrades!Save, Upgrades!Reload, Upgrades!Install, Upgrades!SeenBack,
           Upgrades!StepFails, Upgrades!Exchange, Upgrades!Step
    <2> QED BY <2>1, <2>2, <2>3, <2>4
  <1> QED BY <1>2, <1>3, <1>4

\* A job is queued for a registered image.
LEMMA ScheduleKeeps ==
    ASSUME UpgradeInv, NEW q \in Request, NEW devs \in SUBSET Device,
           Upgrades!ScheduleUpgrade(q, devs)
    PROVE  UpgradeInv' /\ Reloads
  <1>0. UpgradeTypes /\ DeviceTypes /\ SoundInv /\ ApartInv
    BY DEF UpgradeInv
  <1> DEFINE u == [image |-> row.id, devs |-> devs, status |-> "pending"]
             e == Upgrades!Idle
  <1>1. /\ row # NULL /\ upgrades' = Append(upgrades, u) /\ exec' = Append(exec, e)
        /\ UNCHANGED <<row, file, uploads, flash, boot, saved, up, overlap, work>>
    BY DEF Upgrades!ScheduleUpgrade, Upgrades!NewJob, Upgrades!registry, Upgrades!device
  <1>2. u \in Upgrade /\ u.status = "pending"
    BY <1>0, <1>1 DEF UpgradeTypes, Image, Upgrade, UpgradeStatus
  <1>3. e \in Execution /\ e.pc = "idle"
    BY DEF Upgrades!Idle, Execution
  <1> HIDE DEF u, e
  <1>4. upgrades \in Seq(Upgrade) /\ exec \in Seq(Execution) /\ Len(exec) = Len(upgrades)
    BY <1>0 DEF UpgradeTypes
  <1>n. PICK n \in Nat : n = Len(upgrades) + 1
    BY <1>4
  <1>5. /\ upgrades' \in Seq(Upgrade) /\ exec' \in Seq(Execution) /\ Len(exec') = Len(upgrades')
        /\ Ids' = Ids \cup {n} /\ n \notin Ids
        /\ upgrades'[n] = u /\ exec'[n] = e
        /\ \A k \in Ids : upgrades'[k] = upgrades[k] /\ exec'[k] = exec[k]
    BY <1>1, <1>2, <1>3, <1>4, <1>n, AppendProperties DEF Ids
  <1>6. ~Going(n)' /\ \A k \in Ids : Going(k)' <=> Going(k)
    BY <1>2, <1>5 DEF Going
  <1>7. UpgradeTypes'
    <2>1. \A k \in Ids' : /\ Going(k)' <=> exec'[k].pc # "idle"
                          /\ Going(k)' => exec'[k].dev \in Device
      BY <1>0, <1>3, <1>5, <1>6 DEF UpgradeTypes
    <2> QED BY <1>0, <1>1, <1>5, <2>1 DEF UpgradeTypes
  <1>8. SoundInv'
    <2>1. ASSUME NEW k \in Ids, Going(k) PROVE Sound(exec[k])'
      <3>1. exec'[k] = exec[k] /\ Sound(exec[k])
        BY <1>0, <1>5, <2>1 DEF SoundInv
      <3>2. UNCHANGED <<flash, boot, saved, up, overlap>>
        BY <1>1
      <3> QED BY <3>1, <3>2 DEF Sound
    <2> QED BY <1>5, <1>6, <2>1 DEF SoundInv
  <1>9. ApartInv'
    <2> SUFFICES ASSUME NEW k \in Ids', NEW l \in Ids', Going(k)', Going(l)',
                        exec'[k].dev = exec'[l].dev
                 PROVE  k = l \/ exec'[k].dev \in overlap'
      BY DEF ApartInv
    <2>1. k \in Ids /\ l \in Ids /\ Going(k) /\ Going(l)
      BY <1>5, <1>6
    <2>2. exec'[k] = exec[k] /\ exec'[l] = exec[l] /\ overlap' = overlap
      BY <1>1, <1>5, <2>1
    <2> QED BY <1>0, <2>1, <2>2 DEF ApartInv
  <1>10. DeviceTypes' /\ Reloads
    BY <1>0, <1>1 DEF DeviceTypes, Reloads
  <1> QED BY <1>7, <1>8, <1>9, <1>10 DEF UpgradeInv

\* A job that is not running is put on another list.
LEMMA CancelOrRetryKeeps ==
    ASSUME UpgradeInv, NEW q \in Request, NEW j \in Ids,
           Upgrades!CancelUpgrade(q, j) \/ Upgrades!RetryUpgrade(q, j)
    PROVE  UpgradeInv' /\ Reloads
  <1>0. UpgradeTypes
    BY DEF UpgradeInv
  <1>1. PICK st \in {"cancelled", "pending"} :
             /\ upgrades' = [upgrades EXCEPT ![j].status = st] /\ ~Going(j)
             /\ UNCHANGED <<row, file, uploads, exec, flash, boot, saved, up, overlap, work>>
    BY DEF Upgrades!CancelUpgrade, Upgrades!RetryUpgrade, Upgrades!registry, Upgrades!device, Going
  <1>2. st \in UpgradeStatus \ {"running"}
    BY DEF UpgradeStatus
  <1>3. exec \in Seq(Execution) /\ exec[j] \in Execution /\ exec[j].pc = "idle" /\ DOMAIN exec = Ids
    BY <1>0, <1>1 DEF UpgradeTypes, Ids
  <1> DEFINE e == exec[j]
  <1>4. exec' = [exec EXCEPT ![j] = e] /\ e \in Execution /\ e.pc = "idle"
    <2>1. exec = [exec EXCEPT ![j] = exec[j]]
      BY <1>3
    <2> QED BY <1>1, <1>3, <2>1
  <1> HIDE DEF e
  <1> QED BY <1>1, <1>2, <1>4, Ends

\* ImagesAreKept, step by step.
LEMMA UpgradeStep ==
    ASSUME UpgradeInv, [Upgrades!Next]_Upgrades!vars
    PROVE  UpgradeInv' /\ Reloads
  <1>1. CASE Upgrades!Next
    <2>1. ASSUME NEW q \in Request,
                 \/ \E c \in Content : Upgrades!Upload(q, c)
                 \/ Upgrades!DeleteImage(q) \/ Upgrades!RequestStep(q) \/ Upgrades!RequestFails(q)
          PROVE  UpgradeInv' /\ Reloads
      BY <2>1, RegistryStep
    <2>2. ASSUME NEW q \in Request, NEW devs \in (SUBSET Device) \ {{}},
                 Upgrades!ScheduleUpgrade(q, devs)
          PROVE  UpgradeInv' /\ Reloads
      BY <2>2, ScheduleKeeps
    <2>3. ASSUME NEW q \in Request, NEW j \in Ids,
                 Upgrades!CancelUpgrade(q, j) \/ Upgrades!RetryUpgrade(q, j)
          PROVE  UpgradeInv' /\ Reloads
      BY <2>3, CancelOrRetryKeeps
    <2>4. ASSUME NEW j \in Ids,
                 Upgrades!ClaimUpgrade(j) \/ Upgrades!StepOf(j) \/ Upgrades!WorkerDies(j)
          PROVE  UpgradeInv' /\ Reloads
      BY <2>4, ExecutionKeeps
    <2>5. ASSUME NEW d \in Device, Upgrades!ComesBack(d)
          PROVE  UpgradeInv' /\ Reloads
      BY <2>5, ComesBackKeeps
    <2> HIDE DEF UpgradeInv, Reloads
    <2> QED BY <1>1, <2>1, <2>2, <2>3, <2>4, <2>5 DEF Upgrades!Next, Upgrades!JobId, Ids
  <1>2. CASE UNCHANGED Upgrades!vars
    <2>1. UNCHANGED <<row, file, uploads, upgrades, exec, flash, boot, saved, up, overlap, work>>
      BY <1>2 DEF Upgrades!vars, Upgrades!state, Upgrades!registry, Upgrades!device
    <2>2. UpgradeTypes' /\ DeviceTypes'
      BY <2>1 DEF UpgradeInv, UpgradeTypes, DeviceTypes, Ids, Going
    <2>3. SoundInv' /\ ApartInv' /\ Reloads
      BY <2>1 DEF UpgradeInv, SoundInv, Sound, ApartInv, Reloads, Ids, Going
    <2> QED BY <2>2, <2>3 DEF UpgradeInv
  <1> QED BY <1>1, <1>2

LEMMA UpgradeStart == Upgrades!Init => UpgradeInv /\ SparedInv
  <1> SUFFICES ASSUME Upgrades!Init PROVE UpgradeInv /\ SparedInv
    OBVIOUS
  <1> USE DEF Upgrades!Init
  <1>1. Ids = {} /\ upgrades \in Seq(Upgrade) /\ exec \in Seq(Execution) /\ Len(exec) = Len(upgrades)
    BY DEF Ids
  <1>2. \A q \in Request : work[q] = << >>
    OBVIOUS
  <1>3. \A q \in Request : \A x : /\ work[q] \in Left /\ work[q] # Deletes(x)
                                  /\ work[q] # Stores(x) /\ work[q] # Inserts(x)
    BY <1>2, ListTypes, Apart
  <1>4. UpgradeTypes
    <2>1. row = NULL /\ file = NULL /\ uploads \in 0..MaxUploads /\ overlap = {}
      OBVIOUS
    <2>2. DOMAIN work = Request /\ \A q \in Request : work[q] \in Left
      BY <1>3
    <2>3. \A q \in Request : \A c \in Content : work[q] \notin {Stores(c), Inserts(c)}
      BY <1>3
    <2> HIDE DEF Upgrades!Init
    <2> QED BY <1>1, <2>1, <2>2, <2>3 DEF UpgradeTypes
  <1>5. DeviceTypes
    BY DEF DeviceTypes
  <1>6. SoundInv /\ ApartInv
    BY <1>1 DEF SoundInv, ApartInv
  <1> QED BY <1>3, <1>4, <1>5, <1>6 DEF UpgradeInv, SparedInv

\* DeleteSparesActiveJobs, of one step.
Spares ==
    row # NULL /\ row' = NULL =>
        ~\E j \in Ids : upgrades[j].image = row.id /\ upgrades[j].status \in Upgrades!Active

\* One request at a time: nobody queues a job between the question and the deletion.
LEMMA SparedStep ==
    ASSUME \A q, r \in Request : q = r, UpgradeInv, SparedInv, [Upgrades!Next]_Upgrades!vars
    PROVE  SparedInv' /\ Spares
  <1>0. UpgradeTypes
    BY DEF UpgradeInv
  <1>1. CASE Upgrades!Next
    <2>1. ASSUME NEW q \in Request,
                 \/ \E c \in Content : Upgrades!Upload(q, c)
                 \/ Upgrades!DeleteImage(q) \/ Upgrades!RequestStep(q) \/ Upgrades!RequestFails(q)
          PROVE  SparedInv' /\ Spares
      <3>1. /\ UNCHANGED upgrades
            /\ \A x \in 1..MaxUploads : work'[q] = Deletes(x) =>
                 \A j \in Ids : upgrades[j].image = x => upgrades[j].status \notin Upgrades!Active
            /\ row # NULL /\ row' = NULL => work[q] = Deletes(row.id)
        BY <2>1, RegistryStep
      <3>2. SparedInv'
        BY <3>1 DEF SparedInv, Ids
      <3>3. row # NULL => row.id \in 1..MaxUploads
        BY <1>0 DEF UpgradeTypes, Image
      <3>4. Spares
        BY <3>1, <3>3 DEF Spares, SparedInv
      <3> QED BY <3>2, <3>4
    <2>2. ASSUME NEW q \in Request, UNCHANGED <<row, work>>, Upgrades!Free(q)
          PROVE  SparedInv' /\ Spares
      <3>1. \A r \in Request : work'[r] = << >>
        BY <2>2 DEF Upgrades!Free
      <3> QED BY <2>2, <3>1, Apart DEF SparedInv, Spares
    <2>3. ASSUME NEW q \in Request, NEW devs \in (SUBSET Device) \ {{}},
                 Upgrades!ScheduleUpgrade(q, devs)
          PROVE  SparedInv' /\ Spares
      BY <2>2, <2>3 DEF Upgrades!ScheduleUpgrade, Upgrades!registry
    <2>4. ASSUME NEW q \in Request, NEW j \in Ids,
                 Upgrades!CancelUpgrade(q, j) \/ Upgrades!RetryUpgrade(q, j)
          PROVE  SparedInv' /\ Spares
      BY <2>2, <2>4 DEF Upgrades!CancelUpgrade, Upgrades!RetryUpgrade, Upgrades!registry
    <2>5. ASSUME NEW j \in Ids,
                 Upgrades!ClaimUpgrade(j) \/ Upgrades!StepOf(j) \/ Upgrades!WorkerDies(j)
          PROVE  SparedInv' /\ Spares
      <3>1. /\ UNCHANGED <<row, work>> /\ Ids' = Ids
            /\ \A k \in Ids : upgrades'[k].image = upgrades[k].image
            /\ \A k \in Ids : upgrades'[k].status \in Upgrades!Active =>
                              upgrades[k].status \in Upgrades!Active
        BY <2>5, ExecutionSpares
      <3> QED BY <3>1 DEF SparedInv, Spares
    <2>6. ASSUME NEW d \in Device, Upgrades!ComesBack(d)
          PROVE  SparedInv' /\ Spares
      BY <2>6 DEF Upgrades!ComesBack, Upgrades!registry, SparedInv, Spares, Ids
    <2> HIDE DEF SparedInv, Spares
    <2> QED BY <1>1, <2>1, <2>3, <2>4, <2>5, <2>6 DEF Upgrades!Next, Upgrades!JobId, Ids
  <1>2. CASE UNCHANGED Upgrades!vars
    BY <1>2 DEF Upgrades!vars, Upgrades!state, Upgrades!registry, SparedInv, Spares, Ids
  <1> QED BY <1>1, <1>2

LEMMA UpgradeTypesHold == UpgradeInv => Upgrades!TypeOK
  <1> SUFFICES ASSUME UpgradeInv PROVE Upgrades!TypeOK
    OBVIOUS
  <1>0. UpgradeTypes /\ DeviceTypes
    BY DEF UpgradeInv
  <1>1. \A j \in Ids : upgrades[j] \in Upgrade /\ exec[j] \in Execution
    BY <1>0 DEF UpgradeTypes, Ids
  <1>2. \A j \in Ids :
          /\ upgrades[j].status \in {"pending", "running", "done", "failed", "cancelled"}
          /\ upgrades[j].devs \in SUBSET Device
          /\ exec[j].pc \in Upgrades!Steps \cup {"idle"}
          /\ exec[j].md5 \in Content \cup {NULL}
    BY <1>1 DEF Upgrade, UpgradeStatus, Execution
  <1>3. \A j \in Ids : (upgrades[j].status = "running") = (exec[j].pc # "idle")
    BY <1>0 DEF UpgradeTypes, Going
  <1>4. row = NULL \/ row \in [id : 1..MaxUploads, md5 : Content]
    BY <1>0 DEF UpgradeTypes, Image
  <1> QED
    BY <1>0, <1>2, <1>3, <1>4 DEF Upgrades!TypeOK, Upgrades!JobId, Ids, DeviceTypes, UpgradeTypes

LEMMA FirmwareMoves == [JobsNext]_all => [Upgrades!Next]_Upgrades!vars
  BY DEF JobsNext, all, firmware, Upgrades!vars, Upgrades!state, Upgrades!registry, Upgrades!device

LEMMA UpgradesAlways == JobsSpec => []UpgradeInv
  <1>1. JobsInit => UpgradeInv
    BY UpgradeStart DEF JobsInit
  <1>2. UpgradeInv /\ [JobsNext]_all => UpgradeInv'
    BY FirmwareMoves, UpgradeStep
  <1> QED BY <1>1, <1>2, PTL DEF JobsSpec

\* A device that no two executions have worked on at once goes down only into a complete
\* image that its startup configuration names, whatever was on its flash before, however
\* often a copy broke off, and whatever was uploaded, replaced or deleted meanwhile
\* (upgradeFirmware(): preflight, copy, verify, boot statements, reload).
THEOREM ReloadsAreVerified == JobsSpec => Upgrades!ReloadsIntoVerifiedImage
  <1>1. UpgradeInv /\ [JobsNext]_all =>
          [\A d \in Device : up[d] /\ ~up'[d] /\ d \notin overlap =>
              saved'[d] = {"new"} /\ flash[d] \in Content]_Upgrades!vars
    <2>1. UpgradeInv /\ [JobsNext]_all => Reloads
      BY FirmwareMoves, UpgradeStep
    <2> QED BY <2>1 DEF Reloads
  <1> QED BY <1>1, UpgradesAlways, PTL DEF JobsSpec, Upgrades!ReloadsIntoVerifiedImage

\* With requests that do not overlap, an image keeps its row while a job that names it
\* waits or runs (DELETE /api/firmware/:imageId), and with the types and the reloads that
\* is all a run checks of the images.
THEOREM ImagesKept ==
    ASSUME \A q, r \in Request : q = r
    PROVE  JobsSpec => ImagesAreKept
  <1>1. JobsInit => UpgradeInv /\ SparedInv
    BY UpgradeStart DEF JobsInit
  <1>2. UpgradeInv /\ SparedInv /\ [JobsNext]_all => UpgradeInv' /\ SparedInv'
    BY FirmwareMoves, UpgradeStep, SparedStep
  <1>3. UpgradeInv /\ SparedInv /\ [JobsNext]_all =>
          [row # NULL /\ row' = NULL =>
             ~\E j \in Upgrades!JobId :
                upgrades[j].image = row.id /\ upgrades[j].status \in Upgrades!Active]_Upgrades!vars
    <2>1. UpgradeInv /\ SparedInv /\ [JobsNext]_all => Spares
      BY FirmwareMoves, SparedStep
    <2> QED BY <2>1 DEF Spares, Upgrades!JobId, Ids
  <1>4. JobsSpec => Upgrades!DeleteSparesActiveJobs
    BY <1>1, <1>2, <1>3, PTL DEF JobsSpec, Upgrades!DeleteSparesActiveJobs
  <1>5. JobsSpec => []Upgrades!TypeOK
    BY UpgradesAlways, UpgradeTypesHold, PTL
  <1> QED BY <1>4, <1>5, ReloadsAreVerified, PTL DEF ImagesAreKept
=============================================================================
