--------------------------- MODULE JobStoreProofs ---------------------------
(***************************************************************************)
(* Proofs about JobStore for every set of jobs and workers, every bound on *)
(* attempts, lease, backoff and transaction age.                           *)
(*                                                                         *)
(* No property of JobStore is inductive alone.  FailJob indexes Backoff    *)
(* with attempt_count, which is at least 1 only because a running row has  *)
(* an open attempt; a claim keeps the attempt rows unique only because     *)
(* their numbers and tokens are bounded by attempt_count and issued.  Inv  *)
(* is the conjunction that is.                                             *)
(***************************************************************************)
EXTENDS JobStore, TLAPS

AbsentRows == \A j \in Jobs : jobs[j].status = "absent" => jobs[j] = NoRow

Inv ==
  /\ TypeOK
  /\ AbsentRows
  /\ OpenAttemptIsLease
  /\ AttemptsGapless
  /\ AttemptBudget
  /\ SucceededOnce
  /\ OutcomeColumns

(* What the invariant says about job_attempts.                             *)
AttemptRows ==
  /\ attempts \subseteq Attempt
  /\ OpenAttemptIsLease
  /\ AttemptsGapless
  /\ SucceededOnce

(* What the invariant says about single rows of jobs.                      *)
JobRows ==
  /\ jobs \in [Jobs -> Row]
  /\ AbsentRows
  /\ AttemptBudget
  /\ OutcomeColumns

(* The attempt a after a step that closes the open attempts of the jobs S. *)
Close(a, S, outcome) ==
  IF a.job \in S /\ a.status = "running"
  THEN [a EXCEPT !.status = outcome]
  ELSE a

-----------------------------------------------------------------------------
(* Steps of the table jobs that claim no job and release none.             *)

(* A step that keeps the attempt rows, the attempt counts and the leases,  *)
(* and turns no row into a success or out of one, keeps AttemptRows: all   *)
(* of CreateJob, RetryJob, CancelJob, HeartbeatWorker and Tick are such.   *)
LEMMA KeepingLeases ==
  ASSUME Inv,
         jobs' \in [Jobs -> Row],
         attempts' = attempts, issued' = issued,
         \A j \in Jobs :
           /\ jobs'[j].attemptCount = jobs[j].attemptCount
           /\ jobs'[j].lockedBy = jobs[j].lockedBy
           /\ jobs'[j].leaseToken = jobs[j].leaseToken
           /\ jobs'[j].lockedUntil = Null <=> jobs[j].lockedUntil = Null
           /\ jobs'[j].status = "running" <=> jobs[j].status = "running"
           /\ jobs'[j].status = "succeeded" <=> jobs[j].status = "succeeded"
  PROVE  AttemptRows'
<1>1. attempts' \subseteq Attempt
  BY DEF Inv, TypeOK
<1>2. OpenAttemptIsLease'
  <2>1. \A a \in attempts : a.job \in Jobs
    BY DEF Inv, TypeOK, Attempt
  <2> QED  BY <2>1 DEF Inv, OpenAttemptIsLease, LeaseColumns, Running
<1>3. AttemptsGapless'
  <2>1. \A a \in attempts : a.job \in Jobs
    BY DEF Inv, TypeOK, Attempt
  <2> QED  BY <2>1 DEF Inv, AttemptsGapless
<1>4. SucceededOnce'
  <2>1. \A a \in attempts : a.job \in Jobs
    BY DEF Inv, TypeOK, Attempt
  <2> QED  BY <2>1 DEF Inv, SucceededOnce
<1> QED  BY <1>1, <1>2, <1>3, <1>4 DEF AttemptRows

(* A step that ends the open attempts of some running jobs and releases    *)
(* their leases keeps AttemptRows: CompleteJob, FailJob and                *)
(* RecoverExpiredJobs are such.                                            *)
LEMMA Closing ==
  ASSUME Inv,
         NEW S \in SUBSET Jobs,
         NEW outcome \in {"succeeded", "failed"},
         \A j \in S : Running(j),
         jobs' \in [Jobs -> Row], issued' = issued,
         \A j \in Jobs \ S : jobs'[j] = jobs[j],
         \A j \in S :
           /\ jobs'[j].attemptCount = jobs[j].attemptCount
           /\ jobs'[j].lockedBy = Null
           /\ jobs'[j].lockedUntil = Null
           /\ jobs'[j].leaseToken = Null
           /\ jobs'[j].status # "running"
           /\ jobs'[j].status = "succeeded" <=> outcome = "succeeded",
         attempts' = {Close(a, S, outcome) : a \in attempts}
  PROVE  AttemptRows'
<1>1. \A a \in attempts :
        /\ Close(a, S, outcome) \in Attempt
        /\ Close(a, S, outcome).job = a.job
        /\ Close(a, S, outcome).number = a.number
        /\ Close(a, S, outcome).token = a.token
        /\ Close(a, S, outcome).worker = a.worker
        /\ a.status # "running" => Close(a, S, outcome) = a
        /\ a.job \notin S => Close(a, S, outcome) = a
        /\ a.job \in S /\ a.status = "running"
             => Close(a, S, outcome).status = outcome
  BY DEF Inv, TypeOK, Attempt, Close
<1>2. \A b \in attempts' : \E a \in attempts : b = Close(a, S, outcome)
  OBVIOUS
<1>3. \A a \in attempts : Close(a, S, outcome) \in attempts'
  OBVIOUS
<1>4. \A a \in attempts : a.job \in Jobs
  BY DEF Inv, TypeOK, Attempt
<1>5. attempts' \subseteq Attempt
  BY <1>1, <1>2
<1>6. OpenAttemptIsLease'
  <2>1. LeaseColumns'
    BY DEF Inv, OpenAttemptIsLease, LeaseColumns, Running
  <2>2. \A b \in attempts' : b.status = "running" => b.job \notin S /\ b \in attempts
    BY <1>1, <1>2
  <2>3. ASSUME NEW b \in attempts', b.status = "running"
        PROVE  /\ Running(b.job)'
               /\ b.token = jobs'[b.job].leaseToken
               /\ b.number = jobs'[b.job].attemptCount
               /\ b.worker = jobs'[b.job].lockedBy
    BY <2>2, <2>3, <1>4 DEF Inv, OpenAttemptIsLease, Running
  <2>4. ASSUME NEW j \in Jobs, Running(j)'
        PROVE  \E a \in attempts' : a.job = j /\ a.status = "running"
    <3>1. j \notin S /\ Running(j)
      BY <2>4 DEF Running
    <3>2. PICK a \in attempts : a.job = j /\ a.status = "running"
      BY <3>1 DEF Inv, OpenAttemptIsLease
    <3> QED  BY <3>1, <3>2, <1>1, <1>3
  <2> QED  BY <2>1, <2>3, <2>4 DEF OpenAttemptIsLease
<1>7. AttemptsGapless'
  <2>1. \A j \in Jobs : jobs'[j].attemptCount = jobs[j].attemptCount
    OBVIOUS
  <2>2. ASSUME NEW b \in attempts'
        PROVE  b.number <= jobs'[b.job].attemptCount /\ b.token \in 1..issued'
    BY <1>1, <1>2, <1>4, <2>1 DEF Inv, AttemptsGapless
  <2>3. ASSUME NEW b \in attempts', NEW c \in attempts',
               (b.job = c.job /\ b.number = c.number) \/ b.token = c.token
        PROVE  b = c
    <3>1. PICK a \in attempts : b = Close(a, S, outcome)
      BY <1>2
    <3>2. PICK d \in attempts : c = Close(d, S, outcome)
      BY <1>2
    <3>3. (a.job = d.job /\ a.number = d.number) \/ a.token = d.token
      BY <1>1, <2>3, <3>1, <3>2
    <3>4. a = d
      BY <3>3 DEF Inv, AttemptsGapless
    <3> QED  BY <3>1, <3>2, <3>4
  <2>4. ASSUME NEW j \in Jobs, NEW n \in 1..jobs'[j].attemptCount
        PROVE  \E b \in attempts' : b.job = j /\ b.number = n
    <3>1. PICK a \in attempts : a.job = j /\ a.number = n
      BY <2>1 DEF Inv, AttemptsGapless
    <3> QED  BY <3>1, <1>1, <1>3
  <2> QED  BY <2>2, <2>3, <2>4 DEF AttemptsGapless
<1>8. SucceededOnce'
  <2>1. ASSUME NEW b \in attempts', b.status = "succeeded"
        PROVE  jobs'[b.job].status = "succeeded" /\ b.number = jobs'[b.job].attemptCount
    <3>1. PICK a \in attempts : b = Close(a, S, outcome)
      BY <1>2
    <3>2. CASE a.job \in S /\ a.status = "running"
      BY <1>1, <1>4, <2>1, <3>1, <3>2 DEF Inv, OpenAttemptIsLease
    <3>3. CASE ~ (a.job \in S /\ a.status = "running")
      <4>1. b = a
        BY <1>1, <3>1, <3>3
      <4>2. jobs[a.job].status = "succeeded" /\ a.number = jobs[a.job].attemptCount
        BY <2>1, <4>1 DEF Inv, SucceededOnce
      <4>3. a.job \notin S
        BY <4>2 DEF Running
      <4> QED  BY <1>4, <4>1, <4>2, <4>3
    <3> QED  BY <3>2, <3>3
  <2>2. ASSUME NEW j \in Jobs, jobs'[j].status = "succeeded"
        PROVE  \E b \in attempts' : b.job = j /\ b.status = "succeeded"
    <3>1. CASE j \in S
      <4>1. PICK a \in attempts : a.job = j /\ a.status = "running"
        BY <3>1 DEF Inv, OpenAttemptIsLease
      <4> QED  BY <1>1, <1>3, <2>2, <3>1, <4>1
    <3>2. CASE j \notin S
      <4>1. PICK a \in attempts : a.job = j /\ a.status = "succeeded"
        BY <2>2, <3>2 DEF Inv, SucceededOnce
      <4> QED  BY <1>1, <1>3, <4>1
    <3> QED  BY <3>1, <3>2
  <2> QED  BY <2>1, <2>2 DEF SucceededOnce
<1> QED  BY <1>5, <1>6, <1>7, <1>8 DEF AttemptRows

(* ClaimJob appends the attempt with the next number and a fresh token.    *)
LEMMA Claiming ==
  ASSUME Inv,
         NEW j \in Jobs, NEW q \in Queues, NEW w \in Workers, NEW lag \in Lags,
         ClaimJob(j, q, w, lag)
  PROVE  JobRows' /\ AttemptRows'
<1> DEFINE number == jobs[j].attemptCount + 1
           token == issued + 1
           new == [job |-> j, number |-> number, worker |-> w, token |-> token,
                   status |-> "running"]
           row == [jobs[j] EXCEPT !.status = "running",
                                  !.lockedBy = w,
                                  !.lockedUntil = LeaseDuration - lag,
                                  !.leaseToken = token,
                                  !.attemptCount = number]
<1>1. /\ jobs[j] \in Row /\ jobs \in [Jobs -> Row]
      /\ jobs[j].status \in Claimable
      /\ number \in 1..AttemptBound
      /\ issued \in Nat /\ attempts \subseteq Attempt
      /\ LeaseDuration - lag \in Int
  BY BoundAssumption DEF Inv, TypeOK, ClaimJob, FitsColumn, Due, Row, Lags
<1>2. /\ jobs' = [jobs EXCEPT ![j] = row]
      /\ attempts' = attempts \cup {new}
      /\ issued' = token
  BY <1>1 DEF ClaimJob, NewToken
<1>3. row \in Row
  <2>1. number \in 0..AttemptBound /\ token \in Nat
    BY <1>1
  <2> HIDE DEF number, token
  <2> QED  BY <1>1, <2>1, Zenon DEF Row, JobStatus
<1>4. /\ row.status = "running" /\ row.lockedBy = w
      /\ row.lockedUntil = LeaseDuration - lag
      /\ row.leaseToken = token /\ row.attemptCount = number
      /\ row.maxAttempts = jobs[j].maxAttempts
      /\ row.completed = jobs[j].completed
      /\ row.deadLettered = jobs[j].deadLettered
      /\ row.hasError = jobs[j].hasError
  BY <1>1 DEF Row
<1>5. /\ new \in Attempt /\ new.job = j /\ new.number = number
      /\ new.worker = w /\ new.token = token /\ new.status = "running"
  BY <1>1 DEF Attempt
<1>6. jobs'[j] = row /\ jobs' \in [Jobs -> Row]
  BY <1>1, <1>2, <1>3
<1>7. \A k \in Jobs \ {j} : jobs'[k] = jobs[k]
  BY <1>1, <1>2
<1>8. \A a \in attempts : a.job \in Jobs
  BY <1>1 DEF Attempt
<1> HIDE DEF row, new
<1>9. JobRows'
  <2>1. AbsentRows'
    BY <1>4, <1>6, <1>7 DEF Inv, AbsentRows
  <2>2. AttemptBudget'
    BY <1>1, <1>4, <1>6, <1>7 DEF Inv, AttemptBudget, AttemptsLeft, Claimable, Row
  <2>3. OutcomeColumns'
    BY <1>1, <1>4, <1>6, <1>7 DEF Inv, OutcomeColumns, Claimable
  <2> QED  BY <1>6, <2>1, <2>2, <2>3 DEF JobRows
<1>10. attempts' \subseteq Attempt
  BY <1>1, <1>2, <1>5
<1>11. OpenAttemptIsLease'
  <2>1. ~ Running(j)
    BY <1>1 DEF Running, Claimable
  <2>2. LeaseColumns'
    BY <1>1, <1>2, <1>4, <1>6, <1>7, NullAssumption
    DEF Inv, OpenAttemptIsLease, LeaseColumns, Running
  <2>3. ASSUME NEW b \in attempts', b.status = "running"
        PROVE  /\ Running(b.job)'
               /\ b.token = jobs'[b.job].leaseToken
               /\ b.number = jobs'[b.job].attemptCount
               /\ b.worker = jobs'[b.job].lockedBy
    <3>1. CASE b = new
      BY <1>4, <1>5, <1>6, <3>1 DEF Running
    <3>2. CASE b \in attempts
      <4>1. b.job # j
        BY <2>1, <2>3, <3>2 DEF Inv, OpenAttemptIsLease
      <4> QED  BY <1>7, <1>8, <2>3, <3>2, <4>1 DEF Inv, OpenAttemptIsLease, Running
    <3> QED  BY <1>2, <3>1, <3>2
  <2>4. ASSUME NEW k \in Jobs, Running(k)'
        PROVE  \E a \in attempts' : a.job = k /\ a.status = "running"
    <3>1. CASE k = j
      BY <1>2, <1>5, <3>1
    <3>2. CASE k # j
      BY <1>2, <1>7, <2>4, <3>2 DEF Inv, OpenAttemptIsLease, Running
    <3> QED  BY <3>1, <3>2
  <2> QED  BY <2>2, <2>3, <2>4 DEF OpenAttemptIsLease
<1>12. AttemptsGapless'
  <2>1. ASSUME NEW b \in attempts'
        PROVE  b.number <= jobs'[b.job].attemptCount /\ b.token \in 1..issued'
    <3>1. CASE b = new
      BY <1>1, <1>2, <1>4, <1>5, <1>6, <3>1
    <3>2. CASE b \in attempts
      <4>1. b.number <= jobs[b.job].attemptCount /\ b.token \in 1..issued
        BY <3>2 DEF Inv, AttemptsGapless
      <4>2. b.job \in Jobs /\ b.number \in Nat
        BY <1>1, <3>2 DEF Attempt
      <4>3. CASE b.job = j
        BY <1>1, <1>2, <1>4, <1>6, <4>1, <4>2, <4>3 DEF Row
      <4>4. CASE b.job # j
        BY <1>1, <1>2, <1>7, <4>1, <4>2, <4>4
      <4> QED  BY <4>3, <4>4
    <3> QED  BY <1>2, <3>1, <3>2
  <2>2. ASSUME NEW b \in attempts
        PROVE  ~ (b.job = j /\ b.number = number) /\ b.token # token
    <3>1. b.number <= jobs[b.job].attemptCount /\ b.token \in 1..issued
      BY DEF Inv, AttemptsGapless
    <3> QED  BY <1>1, <3>1 DEF Attempt, Row
  <2>3. ASSUME NEW b \in attempts', NEW c \in attempts',
               (b.job = c.job /\ b.number = c.number) \/ b.token = c.token
        PROVE  b = c
    <3>1. CASE b = new /\ c = new
      BY <3>1
    <3>2. CASE b = new /\ c \in attempts
      BY <1>5, <2>2, <2>3, <3>2
    <3>3. CASE b \in attempts /\ c = new
      BY <1>5, <2>2, <2>3, <3>3
    <3>4. CASE b \in attempts /\ c \in attempts
      BY <2>3, <3>4 DEF Inv, AttemptsGapless
    <3> QED  BY <1>2, <3>1, <3>2, <3>3, <3>4
  <2>4. ASSUME NEW k \in Jobs, NEW n \in 1..jobs'[k].attemptCount
        PROVE  \E b \in attempts' : b.job = k /\ b.number = n
    <3>1. CASE k = j /\ n = number
      BY <1>2, <1>5, <3>1
    <3>2. CASE ~ (k = j /\ n = number)
      <4>1. n \in 1..jobs[k].attemptCount
        BY <1>1, <1>4, <1>6, <1>7, <3>2 DEF Row
      <4> QED  BY <1>2, <4>1 DEF Inv, AttemptsGapless
    <3> QED  BY <3>1, <3>2
  <2> QED  BY <2>1, <2>3, <2>4 DEF AttemptsGapless
<1>13. SucceededOnce'
  <2>1. \A a \in attempts : a.status = "succeeded" => a.job # j
    BY <1>1 DEF Inv, SucceededOnce, Claimable
  <2>2. \A k \in Jobs : jobs'[k].status = "succeeded" => k # j
    BY <1>4, <1>6
  <2> QED  BY <1>2, <1>5, <1>7, <1>8, <2>1, <2>2 DEF Inv, SucceededOnce
<1> QED  BY <1>9, <1>10, <1>11, <1>12, <1>13 DEF AttemptRows

-----------------------------------------------------------------------------
(* Rows written by the operations.                                         *)

(* Clearing the lease columns changes nothing else.                        *)
LEMMA UnlockedRow ==
  ASSUME NEW r \in Row
  PROVE  /\ Unlocked(r) \in Row
         /\ Unlocked(r).lockedBy = Null
         /\ Unlocked(r).lockedUntil = Null
         /\ Unlocked(r).leaseToken = Null
         /\ Unlocked(r).status = r.status
         /\ Unlocked(r).attemptCount = r.attemptCount
         /\ Unlocked(r).maxAttempts = r.maxAttempts
         /\ Unlocked(r).deadLettered = r.deadLettered
<1>1. Unlocked(r) \in Row
  BY Zenon DEF Unlocked, Row
<1> QED  BY <1>1 DEF Unlocked, Row

(* A failed attempt releases the lease and leaves a row that waits for a   *)
(* retry only when attempts are left.                                      *)
LEMMA AfterFailureRow ==
  ASSUME NEW r \in Row, NEW delay \in Int
  PROVE  LET f == AfterFailure(r, delay)
         IN /\ f \in Row
            /\ f.lockedBy = Null /\ f.lockedUntil = Null /\ f.leaseToken = Null
            /\ f.attemptCount = r.attemptCount /\ f.maxAttempts = r.maxAttempts
            /\ f.hasError
            /\ \/ /\ AttemptsLeft(r) /\ f.status = "retry_scheduled"
                  /\ f.completed = FALSE /\ f.deadLettered = r.deadLettered
               \/ /\ f.status = "dead_letter" /\ f.completed /\ f.deadLettered
<1> DEFINE u == Unlocked(r)
           retry == [u EXCEPT !.status = "retry_scheduled", !.availableAt = delay,
                              !.completed = FALSE, !.hasError = TRUE]
           dead == [u EXCEPT !.status = "dead_letter", !.completed = TRUE,
                             !.deadLettered = TRUE, !.hasError = TRUE]
<1>1. /\ u \in Row
      /\ u.lockedBy = Null /\ u.lockedUntil = Null /\ u.leaseToken = Null
      /\ u.attemptCount = r.attemptCount /\ u.maxAttempts = r.maxAttempts
      /\ u.deadLettered = r.deadLettered
  BY UnlockedRow
<1>2. AfterFailure(r, delay) = IF AttemptsLeft(r) THEN retry ELSE dead
  BY DEF AfterFailure
<1> HIDE DEF u
<1>3. retry \in Row /\ dead \in Row
  <2>1. {"retry_scheduled", "dead_letter"} \subseteq JobStatus
    BY DEF JobStatus, Claimable, Retryable
  <2>2. u \in Row
    BY <1>1
  <2>3. retry \in Row
    BY <2>1, <2>2, Zenon DEF Row
  <2>4. dead \in Row
    BY <2>1, <2>2, Zenon DEF Row
  <2> QED  BY <2>3, <2>4
<1>4. /\ retry.lockedBy = Null /\ retry.lockedUntil = Null /\ retry.leaseToken = Null
      /\ retry.attemptCount = r.attemptCount /\ retry.maxAttempts = r.maxAttempts
      /\ retry.hasError /\ retry.status = "retry_scheduled"
      /\ retry.completed = FALSE /\ retry.deadLettered = r.deadLettered
  BY <1>1 DEF Row
<1>5. /\ dead.lockedBy = Null /\ dead.lockedUntil = Null /\ dead.leaseToken = Null
      /\ dead.attemptCount = r.attemptCount /\ dead.maxAttempts = r.maxAttempts
      /\ dead.hasError /\ dead.status = "dead_letter"
      /\ dead.completed /\ dead.deadLettered
  BY <1>1 DEF Row
<1> HIDE DEF retry, dead
<1> QED  BY <1>2, <1>3, <1>4, <1>5

(* A running job has started at least one attempt, so FailJob and recovery *)
(* index Backoff inside its domain.                                        *)
LEMMA RunningHasAttempt ==
  ASSUME Inv, NEW j \in Jobs, Running(j)
  PROVE  jobs[j].attemptCount \in 1..AttemptBound
<1>1. PICK a \in attempts : a.job = j /\ a.status = "running"
  BY DEF Inv, OpenAttemptIsLease
<1>2. a.number = jobs[j].attemptCount
  BY <1>1 DEF Inv, OpenAttemptIsLease
<1> QED  BY <1>2 DEF Inv, TypeOK, Attempt

(* What Finish does to the attempts of a running job is what Close does:   *)
(* its open attempt is the one that has the lease token.                   *)
LEMMA FinishIsClose ==
  ASSUME Inv, NEW j \in Jobs, NEW t, Fenced(j, t), NEW outcome,
         NEW a \in attempts
  PROVE  Finish(a, j, t, outcome) = Close(a, {j}, outcome)
BY DEF Inv, OpenAttemptIsLease, Fenced, Finish, Close

(* A new row has no attempts and at least one attempt to go.               *)
LEMMA CreateJobInv ==
  ASSUME Inv, NEW j \in Jobs, NEW q \in Queues, NEW m \in MaxAttempts,
         NEW d \in Delays, NEW lag \in Lags, CreateJob(j, q, m, d, lag)
  PROVE  JobRows' /\ AttemptRows'
<1> DEFINE at == d - lag
           row == [NoRow EXCEPT !.status = "queued", !.queue = q,
                                !.maxAttempts = m, !.availableAt = at]
<1>1. /\ jobs \in [Jobs -> Row]
      /\ jobs[j] = NoRow
      /\ m \in 1..AttemptBound /\ m \in 0..AttemptBound
      /\ at \in Int /\ 0 \in 0..AttemptBound /\ 0 \in Int
  BY BoundAssumption DEF Inv, TypeOK, AbsentRows, CreateJob, Lags
<1>2. jobs' = [jobs EXCEPT ![j] = row]
  BY DEF CreateJob
<1> HIDE DEF at
<1>3. row \in Row
  BY <1>1, Zenon DEF Row, NoRow, JobStatus, Claimable
<1>4. /\ row.status = "queued" /\ row.maxAttempts = m /\ row.attemptCount = 0
      /\ row.lockedBy = Null /\ row.lockedUntil = Null /\ row.leaseToken = Null
      /\ row.completed = FALSE /\ row.deadLettered = FALSE /\ row.hasError = FALSE
  BY DEF NoRow
<1>5. jobs'[j] = row /\ jobs' \in [Jobs -> Row]
  BY <1>1, <1>2, <1>3
<1>6. \A k \in Jobs \ {j} : jobs'[k] = jobs[k]
  BY <1>1, <1>2
<1> HIDE DEF row
<1>7. JobRows'
  <2>1. AbsentRows'
    BY <1>4, <1>5, <1>6 DEF Inv, AbsentRows
  <2>2. AttemptBudget'
    BY <1>1, <1>4, <1>5, <1>6 DEF Inv, AttemptBudget, AttemptsLeft
  <2>3. OutcomeColumns'
    BY <1>4, <1>5, <1>6 DEF Inv, OutcomeColumns
  <2> QED  BY <1>5, <2>1, <2>2, <2>3 DEF JobRows
<1>8. AttemptRows'
  <2>1. /\ jobs[j].status = "absent" /\ jobs[j].attemptCount = 0
        /\ jobs[j].lockedBy = Null /\ jobs[j].lockedUntil = Null
        /\ jobs[j].leaseToken = Null
    BY <1>1 DEF NoRow
  <2>2. attempts' = attempts /\ issued' = issued
    BY DEF CreateJob
  <2> QED  BY <1>4, <1>5, <1>6, <2>1, <2>2, KeepingLeases
<1> QED  BY <1>7, <1>8

(* An operator retry grants an attempt and keeps the history.              *)
LEMMA RetryJobInv ==
  ASSUME Inv, NEW j \in Jobs, NEW lag \in Lags, RetryJob(j, lag)
  PROVE  JobRows' /\ AttemptRows'
<1> DEFINE u == Unlocked(jobs[j])
           max == IF AttemptsLeft(jobs[j]) THEN jobs[j].maxAttempts
                  ELSE jobs[j].attemptCount + 1
           at == -lag
           row == [u EXCEPT !.status = "queued", !.maxAttempts = max,
                            !.availableAt = at, !.deadLettered = FALSE,
                            !.completed = FALSE, !.hasError = FALSE]
<1>1. /\ jobs \in [Jobs -> Row] /\ jobs[j] \in Row
      /\ jobs[j].status \in Retryable
      /\ at \in Int
  BY BoundAssumption DEF Inv, TypeOK, RetryJob, Lags
<1>2. jobs' = [jobs EXCEPT ![j] = row]
  BY <1>1 DEF RetryJob, Reopened
<1>3. /\ u \in Row
      /\ u.lockedBy = Null /\ u.lockedUntil = Null /\ u.leaseToken = Null
      /\ u.attemptCount = jobs[j].attemptCount
      /\ u.maxAttempts = jobs[j].maxAttempts
  BY <1>1, UnlockedRow
<1> HIDE DEF u, at
<1>4. max \in 0..AttemptBound /\ max > jobs[j].attemptCount
  BY <1>1 DEF RetryJob, FitsColumn, AttemptsLeft, Row
<1> HIDE DEF max
<1>5. row \in Row
  <2>1. /\ "queued" \in JobStatus
        /\ u \in Row /\ max \in 0..AttemptBound /\ at \in Int
    BY <1>1, <1>3, <1>4 DEF JobStatus, Claimable
  <2> QED  BY <2>1, Zenon DEF Row
<1>6. /\ row.status = "queued" /\ row.maxAttempts = max
      /\ row.attemptCount = jobs[j].attemptCount
      /\ row.lockedBy = Null /\ row.lockedUntil = Null /\ row.leaseToken = Null
      /\ row.completed = FALSE /\ row.deadLettered = FALSE /\ row.hasError = FALSE
  BY <1>3 DEF Row
<1>7. jobs'[j] = row /\ jobs' \in [Jobs -> Row]
  BY <1>1, <1>2, <1>5
<1>8. \A k \in Jobs \ {j} : jobs'[k] = jobs[k]
  BY <1>1, <1>2
<1> HIDE DEF row
<1>9. JobRows'
  <2>1. AbsentRows'
    BY <1>6, <1>7, <1>8 DEF Inv, AbsentRows
  <2>2. AttemptBudget'
    BY <1>1, <1>4, <1>6, <1>7, <1>8 DEF Inv, AttemptBudget, AttemptsLeft, Row
  <2>3. OutcomeColumns'
    BY <1>6, <1>7, <1>8 DEF Inv, OutcomeColumns
  <2> QED  BY <1>7, <2>1, <2>2, <2>3 DEF JobRows
<1>10. AttemptRows'
  <2>1. /\ jobs[j].status # "running" /\ jobs[j].status # "succeeded"
        /\ jobs[j].lockedBy = Null /\ jobs[j].lockedUntil = Null
        /\ jobs[j].leaseToken = Null
    BY <1>1 DEF Inv, OpenAttemptIsLease, LeaseColumns, Running, Retryable
  <2>2. attempts' = attempts /\ issued' = issued
    BY DEF RetryJob
  <2> QED  BY <1>6, <1>7, <1>8, <2>1, <2>2, KeepingLeases
<1> QED  BY <1>9, <1>10

(* Only a row without a lease is cancelled.                                *)
LEMMA CancelJobInv ==
  ASSUME Inv, NEW j \in Jobs, CancelJob(j)
  PROVE  JobRows' /\ AttemptRows'
<1> DEFINE u == Unlocked(jobs[j])
           row == [u EXCEPT !.status = "cancelled", !.completed = TRUE,
                            !.hasError = TRUE]
<1>1. /\ jobs \in [Jobs -> Row] /\ jobs[j] \in Row
      /\ jobs[j].status \in Claimable
  BY DEF Inv, TypeOK, CancelJob
<1>2. jobs' = [jobs EXCEPT ![j] = row]
  BY <1>1 DEF CancelJob
<1>3. /\ u \in Row
      /\ u.lockedBy = Null /\ u.lockedUntil = Null /\ u.leaseToken = Null
      /\ u.attemptCount = jobs[j].attemptCount
      /\ u.maxAttempts = jobs[j].maxAttempts
      /\ u.deadLettered = jobs[j].deadLettered
  BY <1>1, UnlockedRow
<1> HIDE DEF u
<1>4. row \in Row
  BY <1>3, Zenon DEF Row, JobStatus, Retryable
<1>5. /\ row.status = "cancelled" /\ row.maxAttempts = jobs[j].maxAttempts
      /\ row.attemptCount = jobs[j].attemptCount
      /\ row.lockedBy = Null /\ row.lockedUntil = Null /\ row.leaseToken = Null
      /\ row.completed /\ row.hasError
      /\ row.deadLettered = jobs[j].deadLettered
  BY <1>3 DEF Row
<1>6. jobs'[j] = row /\ jobs' \in [Jobs -> Row]
  BY <1>1, <1>2, <1>4
<1>7. \A k \in Jobs \ {j} : jobs'[k] = jobs[k]
  BY <1>1, <1>2
<1> HIDE DEF row
<1>8. JobRows'
  <2>1. AbsentRows'
    BY <1>5, <1>6, <1>7 DEF Inv, AbsentRows
  <2>2. AttemptBudget'
    BY <1>5, <1>6, <1>7 DEF Inv, AttemptBudget, AttemptsLeft, Claimable
  <2>3. OutcomeColumns'
    BY <1>1, <1>5, <1>6, <1>7 DEF Inv, OutcomeColumns, Claimable
  <2> QED  BY <1>6, <2>1, <2>2, <2>3 DEF JobRows
<1>9. AttemptRows'
  <2>1. /\ jobs[j].status # "running" /\ jobs[j].status # "succeeded"
        /\ jobs[j].lockedBy = Null /\ jobs[j].lockedUntil = Null
        /\ jobs[j].leaseToken = Null
    BY <1>1 DEF Inv, OpenAttemptIsLease, LeaseColumns, Running, Claimable
  <2>2. attempts' = attempts /\ issued' = issued
    BY DEF CancelJob
  <2> QED  BY <1>5, <1>6, <1>7, <2>1, <2>2, KeepingLeases
<1> QED  BY <1>8, <1>9

(* A fenced completion closes the one open attempt as succeeded.           *)
LEMMA CompleteJobInv ==
  ASSUME Inv, NEW j \in Jobs, NEW t \in 1..issued, CompleteJob(j, t)
  PROVE  JobRows' /\ AttemptRows'
<1> DEFINE u == Unlocked(jobs[j])
           row == [u EXCEPT !.status = "succeeded", !.completed = TRUE,
                            !.hasError = FALSE]
<1>1. /\ jobs \in [Jobs -> Row] /\ jobs[j] \in Row
      /\ jobs[j].status = "running"
  BY DEF Inv, TypeOK, CompleteJob, Fenced, Running
<1>2. jobs' = [jobs EXCEPT ![j] = row]
  BY <1>1 DEF CompleteJob
<1>3. /\ u \in Row
      /\ u.lockedBy = Null /\ u.lockedUntil = Null /\ u.leaseToken = Null
      /\ u.attemptCount = jobs[j].attemptCount
      /\ u.maxAttempts = jobs[j].maxAttempts
      /\ u.deadLettered = jobs[j].deadLettered
  BY <1>1, UnlockedRow
<1> HIDE DEF u
<1>4. row \in Row
  <2>1. "succeeded" \in JobStatus
    BY DEF JobStatus
  <2> QED  BY <1>3, <2>1, Zenon DEF Row
<1>5. /\ row.status = "succeeded" /\ row.maxAttempts = jobs[j].maxAttempts
      /\ row.attemptCount = jobs[j].attemptCount
      /\ row.lockedBy = Null /\ row.lockedUntil = Null /\ row.leaseToken = Null
      /\ row.completed /\ row.hasError = FALSE
      /\ row.deadLettered = jobs[j].deadLettered
  BY <1>3 DEF Row
<1>6. jobs'[j] = row /\ jobs' \in [Jobs -> Row]
  BY <1>1, <1>2, <1>4
<1>7. \A k \in Jobs \ {j} : jobs'[k] = jobs[k]
  BY <1>1, <1>2
<1> HIDE DEF row
<1>8. JobRows'
  <2>1. AbsentRows'
    BY <1>5, <1>6, <1>7 DEF Inv, AbsentRows
  <2>2. AttemptBudget'
    BY <1>5, <1>6, <1>7 DEF Inv, AttemptBudget, AttemptsLeft, Claimable
  <2>3. OutcomeColumns'
    BY <1>1, <1>5, <1>6, <1>7 DEF Inv, OutcomeColumns
  <2> QED  BY <1>6, <2>1, <2>2, <2>3 DEF JobRows
<1>9. AttemptRows'
  <2>1. Fenced(j, t) /\ Running(j) /\ issued' = issued
    BY DEF CompleteJob, Fenced
  <2>2. attempts' = {Close(a, {j}, "succeeded") : a \in attempts}
    <3>1. attempts' = {Finish(a, j, t, "succeeded") : a \in attempts}
      BY DEF CompleteJob
    <3>2. \A a \in attempts : Finish(a, j, t, "succeeded") = Close(a, {j}, "succeeded")
      BY <2>1, FinishIsClose
    <3> QED  BY <3>1, <3>2
  <2>3. \A k \in Jobs \ {j} : jobs'[k] = jobs[k]
    BY <1>7
  <2> QED  BY <1>5, <1>6, <2>1, <2>2, <2>3, Closing
<1> QED  BY <1>8, <1>9

(* FailJob and RecoverExpiredJobs: failing the attempts of the jobs S,     *)
(* each with its own delay, keeps the invariant.                           *)
LEMMA FailingInv ==
  ASSUME Inv, NEW S \in SUBSET Jobs, \A j \in S : Running(j),
         NEW delay, \A j \in S : delay[j] \in Int,
         jobs' = [j \in Jobs |-> IF j \in S THEN AfterFailure(jobs[j], delay[j])
                                            ELSE jobs[j]],
         attempts' = {Close(a, S, "failed") : a \in attempts},
         issued' = issued
  PROVE  JobRows' /\ AttemptRows'
<1>1. jobs \in [Jobs -> Row]
  BY DEF Inv, TypeOK
<1>2. \A j \in S :
        /\ jobs'[j] \in Row
        /\ jobs'[j].lockedBy = Null /\ jobs'[j].lockedUntil = Null
        /\ jobs'[j].leaseToken = Null
        /\ jobs'[j].attemptCount = jobs[j].attemptCount
        /\ jobs'[j].maxAttempts = jobs[j].maxAttempts
        /\ jobs'[j].hasError
        /\ \/ /\ AttemptsLeft(jobs[j]) /\ jobs'[j].status = "retry_scheduled"
              /\ jobs'[j].completed = FALSE
              /\ jobs'[j].deadLettered = jobs[j].deadLettered
           \/ /\ jobs'[j].status = "dead_letter" /\ jobs'[j].completed
              /\ jobs'[j].deadLettered
  <2> SUFFICES ASSUME NEW j \in S
               PROVE  /\ jobs'[j] \in Row
                      /\ jobs'[j].lockedBy = Null /\ jobs'[j].lockedUntil = Null
                      /\ jobs'[j].leaseToken = Null
                      /\ jobs'[j].attemptCount = jobs[j].attemptCount
                      /\ jobs'[j].maxAttempts = jobs[j].maxAttempts
                      /\ jobs'[j].hasError
                      /\ \/ /\ AttemptsLeft(jobs[j])
                            /\ jobs'[j].status = "retry_scheduled"
                            /\ jobs'[j].completed = FALSE
                            /\ jobs'[j].deadLettered = jobs[j].deadLettered
                         \/ /\ jobs'[j].status = "dead_letter"
                            /\ jobs'[j].completed
                            /\ jobs'[j].deadLettered
    OBVIOUS
  <2>1. jobs'[j] = AfterFailure(jobs[j], delay[j])
    OBVIOUS
  <2>2. jobs[j] \in Row /\ delay[j] \in Int
    BY <1>1
  <2> QED  BY <2>1, <2>2, AfterFailureRow
<1>3. \A j \in Jobs \ S : jobs'[j] = jobs[j]
  OBVIOUS
<1>4. jobs' \in [Jobs -> Row]
  <2>1. \A j \in Jobs : jobs'[j] \in Row
    BY <1>1, <1>2, <1>3
  <2> QED  BY <2>1
<1>5. JobRows'
  <2>1. AbsentRows'
    BY <1>2, <1>3 DEF Inv, AbsentRows
  <2>2. AttemptBudget'
    BY <1>2, <1>3 DEF Inv, AttemptBudget, AttemptsLeft, Claimable
  <2>3. OutcomeColumns'
    BY <1>2, <1>3 DEF Inv, OutcomeColumns, Running
  <2> QED  BY <1>4, <2>1, <2>2, <2>3 DEF JobRows
<1>6. AttemptRows'
  BY <1>2, <1>3, <1>4, Closing
<1> QED  BY <1>5, <1>6

(* A fenced failure closes the open attempt and looks up its backoff.      *)
LEMMA FailJobInv ==
  ASSUME Inv, NEW j \in Jobs, NEW t \in 1..issued, NEW lag \in Lags,
         FailJob(j, t, lag)
  PROVE  JobRows' /\ AttemptRows'
<1> DEFINE delay == [k \in Jobs |-> Backoff[jobs[k].attemptCount] - lag]
<1>1. Fenced(j, t) /\ Running(j) /\ issued' = issued
  BY DEF FailJob, Fenced
<1>2. delay[j] \in Int
  BY <1>1, RunningHasAttempt, BackoffAssumption, BoundAssumption DEF Lags
<1>3. jobs' = [k \in Jobs |-> IF k \in {j} THEN AfterFailure(jobs[k], delay[k])
                                           ELSE jobs[k]]
  BY DEF FailJob, Inv, TypeOK
<1>4. attempts' = {Close(a, {j}, "failed") : a \in attempts}
  <2>1. attempts' = {Finish(a, j, t, "failed") : a \in attempts}
    BY DEF FailJob
  <2>2. \A a \in attempts : Finish(a, j, t, "failed") = Close(a, {j}, "failed")
    BY <1>1, FinishIsClose
  <2> QED  BY <2>1, <2>2
<1> HIDE DEF delay
<1> QED  BY <1>1, <1>2, <1>3, <1>4, FailingInv

(* Recovery closes the open attempts of all the rows of its batch.         *)
LEMMA RecoverExpiredJobsInv ==
  ASSUME Inv, NEW S \in SUBSET Jobs, NEW lag \in Lags,
         RecoverExpiredJobs(S, lag)
  PROVE  JobRows' /\ AttemptRows'
<1> DEFINE delay == [k \in Jobs |-> -lag]
           close(a) == IF a.job \in S
                       THEN Finish(a, a.job, jobs[a.job].leaseToken, "failed")
                       ELSE a
<1>1. (\A j \in S : Running(j)) /\ issued' = issued
  BY DEF RecoverExpiredJobs, Expired
<1>2. \A j \in S : delay[j] \in Int
  BY BoundAssumption DEF Lags
<1>3. jobs' = [k \in Jobs |-> IF k \in S THEN AfterFailure(jobs[k], delay[k])
                                         ELSE jobs[k]]
  BY DEF RecoverExpiredJobs
<1>4. attempts' = {Close(a, S, "failed") : a \in attempts}
  <2>1. attempts' = {close(a) : a \in attempts}
    BY DEF RecoverExpiredJobs
  <2>2. \A a \in attempts : close(a) = Close(a, S, "failed")
    BY <1>1 DEF Inv, OpenAttemptIsLease, Finish, Close
  <2> QED  BY <2>1, <2>2
<1> HIDE DEF delay
<1> QED  BY <1>1, <1>2, <1>3, <1>4, FailingInv

(* The row r after its timers were set.                                    *)
TimerRow(r, at, until) == [r EXCEPT !.availableAt = at, !.lockedUntil = until]

(* Setting the timers of a row changes nothing else.                       *)
LEMMA TimerRowFacts ==
  ASSUME NEW r \in Row, NEW at \in Int, NEW until \in Int \cup {Null}
  PROVE  LET row == TimerRow(r, at, until)
         IN /\ row \in Row
            /\ row.status = r.status
            /\ row.attemptCount = r.attemptCount
            /\ row.maxAttempts = r.maxAttempts
            /\ row.lockedBy = r.lockedBy
            /\ row.leaseToken = r.leaseToken
            /\ row.completed = r.completed
            /\ row.deadLettered = r.deadLettered
            /\ row.hasError = r.hasError
            /\ row.lockedUntil = until
<1>1. TimerRow(r, at, until) \in Row
  BY Zenon DEF Row, TimerRow
<1> QED  BY <1>1 DEF Row, TimerRow

(* HeartbeatWorker and Tick change lockedUntil and availableAt only, so    *)
(* they keep the invariant.                                                *)
LEMMA TimersInv ==
  ASSUME Inv, attempts' = attempts, issued' = issued,
         jobs' \in [Jobs -> Row],
         \A j \in Jobs :
           \/ jobs'[j] = jobs[j]
           \/ /\ jobs[j].status # "absent"
              /\ \E at \in Int, until \in Int \cup {Null} :
                   /\ jobs'[j] = TimerRow(jobs[j], at, until)
                   /\ until = Null <=> jobs[j].lockedUntil = Null
  PROVE  JobRows' /\ AttemptRows'
<1>1. \A j \in Jobs : jobs[j] \in Row
  BY DEF Inv, TypeOK
<1>2. \A j \in Jobs :
        /\ jobs'[j].status = jobs[j].status
        /\ jobs'[j].attemptCount = jobs[j].attemptCount
        /\ jobs'[j].maxAttempts = jobs[j].maxAttempts
        /\ jobs'[j].lockedBy = jobs[j].lockedBy
        /\ jobs'[j].leaseToken = jobs[j].leaseToken
        /\ jobs'[j].completed = jobs[j].completed
        /\ jobs'[j].deadLettered = jobs[j].deadLettered
        /\ jobs'[j].hasError = jobs[j].hasError
        /\ jobs'[j].lockedUntil = Null <=> jobs[j].lockedUntil = Null
        /\ jobs[j].status = "absent" => jobs'[j] = jobs[j]
  BY <1>1, TimerRowFacts
<1>3. JobRows'
  <2>1. AbsentRows'
    BY <1>2 DEF Inv, AbsentRows
  <2>2. AttemptBudget'
    BY <1>2 DEF Inv, AttemptBudget, AttemptsLeft
  <2>3. OutcomeColumns'
    BY <1>2 DEF Inv, OutcomeColumns
  <2> QED  BY <2>1, <2>2, <2>3 DEF JobRows
<1>4. AttemptRows'
  BY <1>2, KeepingLeases
<1> QED  BY <1>3, <1>4

(* A heartbeat moves locked_until of leased rows only.                     *)
LEMMA HeartbeatWorkerInv ==
  ASSUME Inv, NEW w \in Workers, NEW status \in WorkerStatus, NEW lag \in Lags,
         HeartbeatWorker(w, status, lag)
  PROVE  JobRows' /\ AttemptRows'
<1> DEFINE until == LeaseDuration - lag
<1>1. until \in Int /\ until # Null
  BY BoundAssumption, NullAssumption DEF Lags
<1>2. ASSUME NEW j \in Jobs
      PROVE  /\ jobs'[j] \in Row
             /\ \/ jobs'[j] = jobs[j]
                \/ /\ jobs[j].status # "absent"
                   /\ \E at \in Int, u \in Int \cup {Null} :
                        /\ jobs'[j] = TimerRow(jobs[j], at, u)
                        /\ u = Null <=> jobs[j].lockedUntil = Null
  <2>1. jobs[j] \in Row /\ jobs[j].availableAt \in Int
    BY DEF Inv, TypeOK, Row
  <2>2. CASE jobs'[j] = jobs[j]
    BY <2>1, <2>2
  <2>3. CASE /\ Running(j)
             /\ jobs'[j] = [jobs[j] EXCEPT !.lockedUntil = until]
    <3>1. jobs'[j] = TimerRow(jobs[j], jobs[j].availableAt, until)
      BY <2>1, <2>3, Zenon DEF TimerRow, Row
    <3>2. jobs[j].lockedUntil # Null /\ jobs[j].status # "absent"
      BY <2>3 DEF Inv, OpenAttemptIsLease, LeaseColumns, Running
    <3>3. jobs'[j] \in Row
      BY <1>1, <2>1, <3>1, TimerRowFacts
    <3> HIDE DEF until
    <3> QED  BY <1>1, <2>1, <3>1, <3>2, <3>3
  <2> QED  BY <2>2, <2>3 DEF HeartbeatWorker, Renewed
<1>3. jobs' \in [Jobs -> Row]
  <2>1. jobs' = [j \in Jobs |-> jobs'[j]]
    BY DEF HeartbeatWorker
  <2> QED  BY <1>2, <2>1
<1>4. attempts' = attempts /\ issued' = issued
  BY DEF HeartbeatWorker
<1> QED  BY <1>2, <1>3, <1>4, TimersInv

(* The clock moves the two timestamps only.                                *)
LEMMA TickInv ==
  ASSUME Inv, Tick
  PROVE  JobRows' /\ AttemptRows'
<1>1. \A n \in Int : Down(n) \in Int
  BY BoundAssumption DEF Down
<1>2. ASSUME NEW j \in Jobs
      PROVE  /\ jobs'[j] \in Row
             /\ \/ jobs'[j] = jobs[j]
                \/ /\ jobs[j].status # "absent"
                   /\ \E at \in Int, u \in Int \cup {Null} :
                        /\ jobs'[j] = TimerRow(jobs[j], at, u)
                        /\ u = Null <=> jobs[j].lockedUntil = Null
  <2> DEFINE at == Down(jobs[j].availableAt)
             until == IF jobs[j].lockedUntil = Null THEN Null
                      ELSE Down(jobs[j].lockedUntil)
  <2>1. /\ jobs[j] \in Row
        /\ jobs[j].availableAt \in Int /\ jobs[j].lockedUntil \in Int \cup {Null}
    BY DEF Inv, TypeOK, Row
  <2>2. /\ at \in Int /\ until \in Int \cup {Null}
        /\ until = Null <=> jobs[j].lockedUntil = Null
    BY <1>1, <2>1, NullAssumption
  <2>3. CASE jobs[j].status = "absent"
    BY <2>1, <2>3 DEF Tick
  <2>4. CASE jobs[j].status # "absent"
    <3>1. jobs'[j] = TimerRow(jobs[j], at, until)
      BY <2>1, <2>4 DEF Tick, TimerRow
    <3> HIDE DEF at, until
    <3>2. jobs'[j] \in Row
      BY <2>1, <2>2, <3>1, TimerRowFacts
    <3> QED  BY <2>2, <2>4, <3>1, <3>2
  <2> QED  BY <2>3, <2>4
<1>3. jobs' \in [Jobs -> Row]
  <2>1. jobs' = [j \in Jobs |-> jobs'[j]]
    BY DEF Tick
  <2> QED  BY <1>2, <2>1
<1>4. attempts' = attempts /\ issued' = issued
  BY DEF Tick
<1> QED  BY <1>2, <1>3, <1>4, TimersInv

-----------------------------------------------------------------------------
(* The workers table and the token counter keep their types.               *)
OtherTypes ==
  workers \in [Workers -> WorkerStatus \cup {Null}] /\ issued \in Nat

(* Only a claim issues a token, and only the three worker operations write *)
(* the workers table.                                                      *)
LEMMA OtherTypesStep ==
  ASSUME Inv, [Next]_vars
  PROVE  OtherTypes'
<1>1. OtherTypes
  BY DEF Inv, TypeOK, OtherTypes
<1>2. ASSUME NEW w \in Workers, NEW s \in WorkerStatus,
             workers' = [workers EXCEPT ![w] = s], issued' = issued
      PROVE  OtherTypes'
  BY <1>1, <1>2 DEF OtherTypes
<1>3. ASSUME UNCHANGED <<workers, issued>>
      PROVE  OtherTypes'
  BY <1>1, <1>3 DEF OtherTypes
<1>4. ASSUME NEW j \in Jobs, NEW lag \in Lags, NEW q \in Queues,
             NEW w \in Workers, ClaimJob(j, q, w, lag)
      PROVE  OtherTypes'
  <2>1. issued' = issued + 1 /\ workers' = workers
    BY <1>4 DEF ClaimJob, NewToken
  <2> QED  BY <1>1, <2>1 DEF OtherTypes
<1>5. ASSUME NEW w \in Workers, RegisterWorker(w)
      PROVE  OtherTypes'
  <2>1. "running" \in WorkerStatus
    BY DEF WorkerStatus
  <2> QED  BY <1>2, <1>5, <2>1 DEF RegisterWorker
<1>6. ASSUME NEW w \in Workers, NEW s \in WorkerStatus, MarkWorkerStatus(w, s)
      PROVE  OtherTypes'
  BY <1>2, <1>6 DEF MarkWorkerStatus
<1>7. ASSUME NEW w \in Workers, NEW s \in WorkerStatus, NEW lag \in Lags,
             HeartbeatWorker(w, s, lag)
      PROVE  OtherTypes'
  <2>1. workers' = [workers EXCEPT ![w] = s] /\ issued' = issued
    BY <1>7 DEF HeartbeatWorker
  <2> QED  BY <1>2, <2>1
<1>8. ASSUME NEW j \in Jobs, NEW lag \in Lags, NEW q \in Queues,
             NEW m \in MaxAttempts, NEW d \in Delays, CreateJob(j, q, m, d, lag)
      PROVE  OtherTypes'
  BY <1>3, <1>8 DEF CreateJob
<1>9. ASSUME NEW j \in Jobs, NEW lag \in Lags, NEW t \in 1..issued,
             FailJob(j, t, lag)
      PROVE  OtherTypes'
  BY <1>3, <1>9 DEF FailJob
<1>10. ASSUME NEW j \in Jobs, NEW lag \in Lags, RetryJob(j, lag)
       PROVE  OtherTypes'
  BY <1>3, <1>10 DEF RetryJob
<1>11. ASSUME NEW j \in Jobs, NEW t \in 1..issued, CompleteJob(j, t)
       PROVE  OtherTypes'
  BY <1>3, <1>11 DEF CompleteJob
<1>12. ASSUME NEW j \in Jobs, CancelJob(j)
       PROVE  OtherTypes'
  BY <1>3, <1>12 DEF CancelJob
<1>13. ASSUME NEW S \in SUBSET Jobs, NEW lag \in Lags, RecoverExpiredJobs(S, lag)
       PROVE  OtherTypes'
  BY <1>3, <1>13 DEF RecoverExpiredJobs
<1>14. CASE Tick
  BY <1>3, <1>14 DEF Tick
<1>15. CASE UNCHANGED vars
  BY <1>3, <1>15 DEF vars
<1> QED
  BY <1>4, <1>5, <1>6, <1>7, <1>8, <1>9, <1>10, <1>11, <1>12, <1>13, <1>14, <1>15
  DEF Next

(* Inv is inductive.                                                       *)
LEMMA InvStep == Inv /\ [Next]_vars => Inv'
<1> SUFFICES ASSUME Inv, [Next]_vars
             PROVE  Inv'
  OBVIOUS
<1>1. JobRows /\ AttemptRows
  BY DEF Inv, TypeOK, JobRows, AttemptRows
<1>2. ASSUME UNCHANGED <<jobs, attempts, issued>>
      PROVE  JobRows' /\ AttemptRows'
  BY <1>1, <1>2
  DEF JobRows, AttemptRows, AbsentRows, AttemptBudget, OutcomeColumns,
      OpenAttemptIsLease, LeaseColumns, Running, AttemptsGapless, SucceededOnce
<1>3. JobRows' /\ AttemptRows'
  <2>1. ASSUME NEW j \in Jobs, NEW lag \in Lags, NEW q \in Queues,
               NEW m \in MaxAttempts, NEW d \in Delays, CreateJob(j, q, m, d, lag)
        PROVE  JobRows' /\ AttemptRows'
    BY <2>1, CreateJobInv
  <2>2. ASSUME NEW j \in Jobs, NEW lag \in Lags, NEW q \in Queues,
               NEW w \in Workers, ClaimJob(j, q, w, lag)
        PROVE  JobRows' /\ AttemptRows'
    BY <2>2, Claiming
  <2>3. ASSUME NEW j \in Jobs, NEW lag \in Lags, NEW t \in 1..issued,
               FailJob(j, t, lag)
        PROVE  JobRows' /\ AttemptRows'
    BY <2>3, FailJobInv
  <2>4. ASSUME NEW j \in Jobs, NEW lag \in Lags, RetryJob(j, lag)
        PROVE  JobRows' /\ AttemptRows'
    BY <2>4, RetryJobInv
  <2>5. ASSUME NEW j \in Jobs, NEW t \in 1..issued, CompleteJob(j, t)
        PROVE  JobRows' /\ AttemptRows'
    BY <2>5, CompleteJobInv
  <2>6. ASSUME NEW j \in Jobs, CancelJob(j)
        PROVE  JobRows' /\ AttemptRows'
    BY <2>6, CancelJobInv
  <2>7. ASSUME NEW S \in SUBSET Jobs, NEW lag \in Lags, RecoverExpiredJobs(S, lag)
        PROVE  JobRows' /\ AttemptRows'
    BY <2>7, RecoverExpiredJobsInv
  <2>8. ASSUME NEW w \in Workers, RegisterWorker(w)
        PROVE  JobRows' /\ AttemptRows'
    BY <1>2, <2>8 DEF RegisterWorker
  <2>9. ASSUME NEW w \in Workers, NEW s \in WorkerStatus, MarkWorkerStatus(w, s)
        PROVE  JobRows' /\ AttemptRows'
    BY <1>2, <2>9 DEF MarkWorkerStatus
  <2>10. ASSUME NEW w \in Workers, NEW s \in WorkerStatus, NEW lag \in Lags,
                HeartbeatWorker(w, s, lag)
         PROVE  JobRows' /\ AttemptRows'
    BY <2>10, HeartbeatWorkerInv
  <2>11. CASE Tick
    BY <2>11, TickInv
  <2>12. CASE UNCHANGED vars
    BY <1>2, <2>12 DEF vars
  <2> QED
    BY <2>1, <2>2, <2>3, <2>4, <2>5, <2>6, <2>7, <2>8, <2>9, <2>10, <2>11, <2>12
    DEF Next
<1> QED  BY <1>3, OtherTypesStep DEF Inv, TypeOK, JobRows, AttemptRows, OtherTypes

(* Empty tables satisfy the invariant.                                     *)
LEMMA InvInit == Init => Inv
<1> SUFFICES ASSUME Init
             PROVE  Inv
  OBVIOUS
<1>1. NoRow \in Row
  <2>1. 0 \in 0..AttemptBound /\ 0 \in Int
    BY BoundAssumption
  <2> QED  BY <2>1, Zenon DEF NoRow, Row
<1>2. \A j \in Jobs : jobs[j] = NoRow
  BY DEF Init
<1>3. TypeOK
  BY <1>1 DEF Init, TypeOK
<1>4. OpenAttemptIsLease
  BY <1>2 DEF Init, OpenAttemptIsLease, LeaseColumns, Running, NoRow
<1>5. AttemptsGapless
  BY <1>2 DEF Init, AttemptsGapless, NoRow
<1>6. AttemptBudget /\ SucceededOnce /\ OutcomeColumns
  BY <1>2 DEF Init, AttemptBudget, AttemptsLeft, Claimable, SucceededOnce,
              OutcomeColumns, NoRow
<1>7. AbsentRows
  BY <1>2 DEF AbsentRows
<1> QED  BY <1>3, <1>4, <1>5, <1>6, <1>7 DEF Inv

(* The inductive invariant holds in every reachable state.                 *)
THEOREM Invariance == Spec => []Inv
BY InvInit, InvStep, PTL DEF Spec

(* Type correctness, for every instance: no operation, called in any order *)
(* with any token, drives a column out of its type.                        *)
THEOREM TypeCorrect == Spec => []TypeOK
BY Invariance, PTL DEF Inv

(* The lease columns and the open attempt always agree.                    *)
THEOREM LeaseCorrect == Spec => []OpenAttemptIsLease
BY Invariance, PTL DEF Inv

(* The attempts of a job are numbered 1..attempt_count and the UNIQUE      *)
(* constraints of job_attempts never reject a claim.                       *)
THEOREM GaplessCorrect == Spec => []AttemptsGapless
BY Invariance, PTL DEF Inv

(* A job is never tried more often than max_attempts.                      *)
THEOREM BudgetCorrect == Spec => []AttemptBudget
BY Invariance, PTL DEF Inv

(* A success is final and unique.                                          *)
THEOREM SuccessCorrect == Spec => []SucceededOnce
BY Invariance, PTL DEF Inv

(* completed_at, dead_lettered_at and last_error agree with the status.    *)
THEOREM OutcomeCorrect == Spec => []OutcomeColumns
BY Invariance, PTL DEF Inv

-----------------------------------------------------------------------------
(* What a single step may do.                                              *)

(* What a step does to one row of job_attempts.                            *)
KeptOrClosed(a) ==
  \/ a \in attempts'
  \/ /\ a.status = "running"
     /\ \E b \in attempts' : b = [a EXCEPT !.status = b.status]

(* Closing an open attempt keeps all its other columns.                    *)
LEMMA FinishKeeps ==
  ASSUME NEW a \in Attempt, NEW j, NEW t, NEW outcome, Finish(a, j, t, outcome) \in attempts'
  PROVE  KeptOrClosed(a)
<1>1. CASE Finish(a, j, t, outcome) = a
  BY <1>1 DEF KeptOrClosed
<1>2. CASE a.status = "running" /\ Finish(a, j, t, outcome) = [a EXCEPT !.status = outcome]
  <2> DEFINE b == [a EXCEPT !.status = outcome]
  <2>1. b.status = outcome
    BY DEF Attempt
  <2>2. b = [a EXCEPT !.status = b.status]
    BY <2>1
  <2>3. b \in attempts'
    BY <1>2
  <2> HIDE DEF b
  <2> QED  BY <1>2, <2>2, <2>3 DEF KeptOrClosed
<1> QED  BY <1>1, <1>2 DEF Finish

(* No step deletes an attempt or reopens one that ended.                   *)
LEMMA HistoryStep ==
  ASSUME TypeOK, [Next]_vars, NEW a \in attempts
  PROVE  KeptOrClosed(a)
<1>1. a \in Attempt
  BY DEF TypeOK
<1>2. ASSUME a \in attempts'
      PROVE  KeptOrClosed(a)
  BY <1>2 DEF KeptOrClosed
<1>3. ASSUME NEW j \in Jobs, NEW lag \in Lags, NEW q \in Queues,
             NEW w \in Workers, ClaimJob(j, q, w, lag)
      PROVE  KeptOrClosed(a)
  BY <1>2, <1>3 DEF ClaimJob
<1>4. ASSUME NEW j \in Jobs, NEW t \in 1..issued, CompleteJob(j, t)
      PROVE  KeptOrClosed(a)
  <2>1. Finish(a, j, t, "succeeded") \in attempts'
    BY <1>4 DEF CompleteJob
  <2> QED  BY <1>1, <2>1, FinishKeeps
<1>5. ASSUME NEW j \in Jobs, NEW lag \in Lags, NEW t \in 1..issued, FailJob(j, t, lag)
      PROVE  KeptOrClosed(a)
  <2>1. Finish(a, j, t, "failed") \in attempts'
    BY <1>5 DEF FailJob
  <2> QED  BY <1>1, <2>1, FinishKeeps
<1>6. ASSUME NEW S \in SUBSET Jobs, NEW lag \in Lags, RecoverExpiredJobs(S, lag)
      PROVE  KeptOrClosed(a)
  <2>1. CASE a.job \in S
    <3>1. Finish(a, a.job, jobs[a.job].leaseToken, "failed") \in attempts'
      BY <1>6, <2>1 DEF RecoverExpiredJobs
    <3> QED  BY <1>1, <3>1, FinishKeeps
  <2>2. CASE a.job \notin S
    BY <1>2, <1>6, <2>2 DEF RecoverExpiredJobs
  <2> QED  BY <2>1, <2>2
<1>7. CASE attempts' = attempts
  BY <1>2, <1>7
<1> QED
  BY <1>3, <1>4, <1>5, <1>6, <1>7
  DEF Next, vars, CreateJob, RetryJob, CancelJob, RegisterWorker,
      MarkWorkerStatus, HeartbeatWorker, Tick

(* The history of a job is append-only.                                    *)
THEOREM HistoryCorrect == Spec => HistoryKept
<1>1. TypeOK /\ [Next]_vars => [\A a \in attempts : KeptOrClosed(a)]_vars
  BY HistoryStep
<1> QED  BY <1>1, TypeCorrect, PTL DEF Spec, HistoryKept, KeptOrClosed

(* A step leaves a row's token alone, clears it, or writes a fresh one.    *)
LEMMA TokenStep ==
  ASSUME Inv, [Next]_vars, NEW k \in Jobs
  PROVE  jobs'[k].leaseToken \in {jobs[k].leaseToken, Null, issued + 1}
<1> DEFINE Fine == jobs'[k].leaseToken \in {jobs[k].leaseToken, Null, issued + 1}
<1>1. jobs \in [Jobs -> Row] /\ jobs[k] \in Row
  BY DEF Inv, TypeOK
<1>2. ASSUME NEW r \in Row, NEW delay
      PROVE  AfterFailure(r, delay).leaseToken = Null /\ Unlocked(r).leaseToken = Null
  BY DEF AfterFailure, Unlocked, Row
<1>3. ASSUME NEW j \in Jobs, NEW lag \in Lags, NEW q \in Queues,
             NEW m \in MaxAttempts, NEW d \in Delays, CreateJob(j, q, m, d, lag)
      PROVE  Fine
  BY <1>1, <1>3 DEF CreateJob, NoRow
<1>4. ASSUME NEW j \in Jobs, NEW lag \in Lags, NEW q \in Queues,
             NEW w \in Workers, ClaimJob(j, q, w, lag)
      PROVE  Fine
  BY <1>1, <1>4 DEF ClaimJob, NewToken, Row
<1>5. ASSUME NEW j \in Jobs, NEW t \in 1..issued, CompleteJob(j, t)
      PROVE  Fine
  BY <1>1, <1>5 DEF CompleteJob, Unlocked, Row
<1>6. ASSUME NEW j \in Jobs, NEW lag \in Lags, NEW t \in 1..issued, FailJob(j, t, lag)
      PROVE  Fine
  BY <1>1, <1>2, <1>6 DEF FailJob
<1>7. ASSUME NEW S \in SUBSET Jobs, NEW lag \in Lags, RecoverExpiredJobs(S, lag)
      PROVE  Fine
  BY <1>1, <1>2, <1>7 DEF RecoverExpiredJobs
<1>8. ASSUME NEW j \in Jobs, NEW lag \in Lags, RetryJob(j, lag)
      PROVE  Fine
  BY <1>1, <1>8 DEF RetryJob, Reopened, Unlocked, Row
<1>9. ASSUME NEW j \in Jobs, CancelJob(j)
      PROVE  Fine
  BY <1>1, <1>9 DEF CancelJob, Unlocked, Row
<1>10. ASSUME NEW w \in Workers, NEW s \in WorkerStatus, NEW lag \in Lags,
              HeartbeatWorker(w, s, lag)
       PROVE  Fine
  BY <1>1, <1>10 DEF HeartbeatWorker, Row
<1>11. ASSUME Tick
       PROVE  Fine
  BY <1>1, <1>11 DEF Tick, Row
<1>12. CASE jobs' = jobs
  BY <1>12
<1> QED
  BY <1>3, <1>4, <1>5, <1>6, <1>7, <1>8, <1>9, <1>10, <1>11, <1>12
  DEF Next, vars, RegisterWorker, MarkWorkerStatus

(* A worker that lost its lease never holds it again: the token it would   *)
(* report with matches no row in any later state.                          *)
THEOREM LeaseLossCorrect == Spec => LeaseLossIsFinal
<1>1. ASSUME Inv, [Next]_vars, NEW t \in 1..issued,
             \A j \in Jobs : jobs[j].leaseToken # t,
             NEW k \in Jobs
      PROVE  jobs'[k].leaseToken # t
  <2>1. t # Null /\ t # issued + 1
    <3>1. issued \in Nat /\ t \in Int
      BY <1>1 DEF Inv, TypeOK
    <3>2. t # issued + 1
      BY <3>1
    <3>3. t # Null
      BY <3>1, NullAssumption, Zenon
    <3> QED  BY <3>2, <3>3
  <2> QED  BY <1>1, <2>1, TokenStep
<1>2. Inv /\ [Next]_vars =>
        [\A t \in 1..issued :
           (\A j \in Jobs : jobs[j].leaseToken # t)
             => \A j \in Jobs : jobs'[j].leaseToken # t]_vars
  BY <1>1
<1> QED  BY <1>2, Invariance, PTL DEF Spec, LeaseLossIsFinal

(* The second fencing test of CompleteJob and FailJob is redundant: when   *)
(* the row of jobs carries the token, exactly one attempt is open with it. *)
THEOREM FenceIsEnough ==
  Spec => [](\A j \in Jobs, t \in 1..issued : Fenced(j, t) => OneAttemptOf(j, t))
<1>1. ASSUME Inv, NEW j \in Jobs, NEW t \in 1..issued, Fenced(j, t)
      PROVE  OneAttemptOf(j, t)
  <2>1. PICK a \in attempts : a.job = j /\ a.status = "running"
    BY <1>1 DEF Inv, OpenAttemptIsLease, Fenced
  <2>2. a.token = t
    BY <1>1, <2>1 DEF Inv, OpenAttemptIsLease, Fenced
  <2>3. \A b \in attempts : b.token = t => b = a
    BY <1>1, <2>2 DEF Inv, AttemptsGapless
  <2> QED  BY <2>1, <2>2, <2>3 DEF OneAttemptOf, AttemptOf
<1>2. Inv => \A j \in Jobs, t \in 1..issued : Fenced(j, t) => OneAttemptOf(j, t)
  BY <1>1
<1> QED  BY <1>2, Invariance, PTL
=============================================================================
