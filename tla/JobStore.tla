------------------------------ MODULE JobStore ------------------------------
(***************************************************************************)
(* The job tables of internal/storage/storage.go: jobs, job_attempts and   *)
(* workers, and every transaction that writes them.  Each operation of     *)
(* *Store is one PostgreSQL transaction whose row locks are held to the    *)
(* commit, so it is one action here; an operation that fails rolls back    *)
(* and is no step.                                                         *)
(*                                                                         *)
(* The callers are arbitrary: an operation may be called at any time, by   *)
(* anyone, with any lease token ever issued.  A late, repeated or          *)
(* reordered call of a worker that lost its lease is such a call, so what  *)
(* holds here holds for every schedule of workers and schedulers.          *)
(*                                                                         *)
(* Time is relative.  lockedUntil and availableAt hold the number of clock *)
(* ticks between now and the stored timestamp, and Tick counts them down.  *)
(* PostgreSQL's now() is the start of the transaction, not the time of the *)
(* statement: lag is the age of the transaction when its statements run.   *)
(***************************************************************************)
EXTENDS Integers, FiniteSets

CONSTANTS
  Jobs,           \* ids of the rows that may be inserted into jobs
  Workers,        \* worker ids
  Queues,         \* queue names
  Null,           \* SQL NULL
  MaxAttempts,    \* max_attempts values that submitters ask for
  Delays,         \* delay_seconds values that submitters ask for
  AttemptBound,   \* largest value of an integer column (2^31 - 1 in SQL)
  LeaseDuration,  \* PULSEQUEUE_LEASE_DURATION
  Backoff,        \* RetryPolicy.DelayForAttempt, for attempts 1..AttemptBound
  MaxLag,         \* bound on the age of a transaction
  Batch           \* PULSEQUEUE_SCHEDULER_BATCH_SIZE

ASSUME NullAssumption ==
  /\ Null \notin Int
  /\ Null \notin Workers

ASSUME BoundAssumption ==
  /\ AttemptBound \in Nat \ {0}
  /\ MaxAttempts \subseteq 1..AttemptBound
  /\ Delays \subseteq Nat
  /\ LeaseDuration \in Nat
  /\ MaxLag \in Nat
  /\ Batch \in Nat

ASSUME BackoffAssumption == Backoff \in [1..AttemptBound -> Nat]

VARIABLES
  jobs,      \* table jobs, by id; status "absent" is a row not inserted yet
  attempts,  \* table job_attempts, a set of rows
  workers,   \* status column of table workers, by id
  issued     \* lease tokens handed out by uuid.New so far: 1..issued

vars == <<jobs, attempts, workers, issued>>

Lags == 0..MaxLag

Claimable == {"queued", "retry_scheduled"}
MutRetryable == {"failed", "dead_letter", "cancelled", "succeeded"}
Retryable == {"failed", "dead_letter", "cancelled"}
JobStatus == Claimable \cup Retryable \cup {"running", "succeeded"}

WorkerStatus == {"running", "draining", "stopped"}

(* The columns that decide a transition.  completed, deadLettered and      *)
(* hasError say whether completed_at, dead_lettered_at and last_error are  *)
(* set; payload, type and trace columns are never read by a transition.    *)
Row ==
  [ status       : JobStatus \cup {"absent"},
    queue        : Queues \cup {Null},
    maxAttempts  : 0..AttemptBound,
    attemptCount : 0..AttemptBound,
    availableAt  : Int,
    lockedBy     : Workers \cup {Null},
    lockedUntil  : Int \cup {Null},
    leaseToken   : Nat \cup {Null},
    completed    : BOOLEAN,
    deadLettered : BOOLEAN,
    hasError     : BOOLEAN ]

Attempt ==
  [ job : Jobs, number : 1..AttemptBound, worker : Workers, token : Nat,
    status : {"running", "succeeded", "failed"} ]

NoRow ==
  [ status |-> "absent", queue |-> Null, maxAttempts |-> 0,
    attemptCount |-> 0, availableAt |-> 0, lockedBy |-> Null,
    lockedUntil |-> Null, leaseToken |-> Null, completed |-> FALSE,
    deadLettered |-> FALSE, hasError |-> FALSE ]

-----------------------------------------------------------------------------
(* Rows that a statement's WHERE clause selects.                           *)

Running(j) == jobs[j].status = "running"

(* An attempt_count beyond the column's range aborts the transaction.      *)
MutFitsColumn(n) == TRUE
FitsColumn(n) == n <= AttemptBound

(* available_at <= now() *)
Due(j, lag) ==
  /\ jobs[j].status \in Claimable
  /\ jobs[j].availableAt <= -lag

(* locked_until <= now() *)
Expired(j, lag) ==
  /\ Running(j)
  /\ jobs[j].lockedUntil # Null
  /\ jobs[j].lockedUntil <= -lag

(* The fence of CompleteJob and FailJob: id, lease_token and status match. *)
Fenced(j, t) == Running(j) /\ jobs[j].leaseToken = t

AttemptOf(j, t) ==
  {a \in attempts : a.job = j /\ a.token = t /\ a.status = "running"}

(* The fencing test on job_attempts: exactly one row was updated.          *)
OneAttemptOf(j, t) == \E a \in attempts : AttemptOf(j, t) = {a}

(* UPDATE job_attempts ... WHERE job_id, lease_token, status = 'running'.  *)
Finish(a, j, t, outcome) ==
  IF a.job = j /\ a.token = t /\ a.status = "running"
  THEN [a EXCEPT !.status = outcome]
  ELSE a

MutUnlocked(r) == [r EXCEPT !.lockedBy = Null, !.lockedUntil = Null]
Unlocked(r) ==
  [r EXCEPT !.lockedBy = Null, !.lockedUntil = Null, !.leaseToken = Null]

(* job.AttemptCount < normalizedMaxAttempts(job.MaxAttempts)               *)
MutAttemptsLeft(r) == r.attemptCount <= r.maxAttempts
AttemptsLeft(r) == r.attemptCount < r.maxAttempts

(* The two outcomes of a failed attempt, shared by FailJob and             *)
(* RecoverExpiredJobs: retry while attempts are left, else dead-letter.    *)
MutAfterFailure(r, delay) ==
  IF AttemptsLeft(r)
  THEN [Unlocked(r) EXCEPT !.status = "retry_scheduled",
                           !.availableAt = delay,
                           !.hasError = TRUE]
  ELSE [Unlocked(r) EXCEPT !.status = "dead_letter",
                           !.deadLettered = TRUE,
                           !.hasError = TRUE]
AfterFailure(r, delay) ==
  IF AttemptsLeft(r)
  THEN [Unlocked(r) EXCEPT !.status = "retry_scheduled",
                           !.availableAt = delay,
                           !.completed = FALSE,
                           !.hasError = TRUE]
  ELSE [Unlocked(r) EXCEPT !.status = "dead_letter",
                           !.completed = TRUE,
                           !.deadLettered = TRUE,
                           !.hasError = TRUE]

-----------------------------------------------------------------------------
Init ==
  /\ jobs = [j \in Jobs |-> NoRow]
  /\ attempts = {}
  /\ workers = [w \in Workers |-> Null]
  /\ issued = 0

CreateJob(j, q, m, d, lag) ==
  /\ jobs[j].status = "absent"
  /\ jobs' = [jobs EXCEPT ![j] = [NoRow EXCEPT !.status = "queued",
                                               !.queue = q,
                                               !.maxAttempts = m,
                                               !.availableAt = d - lag]]
  /\ UNCHANGED <<attempts, workers, issued>>

(* uuid.New: a token that was never handed out before.                     *)
MutNewToken(j) == jobs[j].attemptCount + 1
NewToken(j) == issued + 1

(* ORDER BY ... FOR UPDATE SKIP LOCKED LIMIT 1 returns the first due row   *)
(* of the queue that no concurrent transaction has locked, hence, over all *)
(* schedules, any due row.  The INSERT aborts the transaction when a       *)
(* UNIQUE constraint of job_attempts would be broken.                      *)
ClaimJob(j, q, w, lag) ==
  LET number == jobs[j].attemptCount + 1
      token  == NewToken(j)
  IN /\ jobs[j].queue = q
     /\ Due(j, lag)
     /\ FitsColumn(number)
     /\ ~ \E a \in attempts : a.job = j /\ (a.number = number \/ a.token = token)
     /\ jobs' = [jobs EXCEPT ![j].status = "running",
                             ![j].lockedBy = w,
                             ![j].lockedUntil = LeaseDuration - lag,
                             ![j].leaseToken = token,
                             ![j].attemptCount = number]
     /\ attempts' = attempts \cup
          {[job |-> j, number |-> number, worker |-> w, token |-> token,
            status |-> "running"]}
     /\ issued' = token
     /\ UNCHANGED workers

MutCompleteJob(j, t) ==
  /\ Running(j)
  /\ jobs' = [jobs EXCEPT ![j] = [Unlocked(@) EXCEPT !.status = "succeeded",
                                                    !.completed = TRUE,
                                                    !.hasError = FALSE]]
  /\ attempts' = {IF a.job = j THEN [a EXCEPT !.status = "succeeded"] ELSE a :
                   a \in attempts}
  /\ UNCHANGED <<workers, issued>>
CompleteJob(j, t) ==
  /\ Fenced(j, t)
  /\ OneAttemptOf(j, t)
  /\ jobs' = [jobs EXCEPT ![j] = [Unlocked(@) EXCEPT !.status = "succeeded",
                                                    !.completed = TRUE,
                                                    !.hasError = FALSE]]
  /\ attempts' = {Finish(a, j, t, "succeeded") : a \in attempts}
  /\ UNCHANGED <<workers, issued>>

FailJob(j, t, lag) ==
  /\ Fenced(j, t)
  /\ OneAttemptOf(j, t)
  /\ jobs' = [jobs EXCEPT ![j] =
                AfterFailure(@, Backoff[@.attemptCount] - lag)]
  /\ attempts' = {Finish(a, j, t, "failed") : a \in attempts}
  /\ UNCHANGED <<workers, issued>>

(* One transaction recovers up to Batch rows.  SKIP LOCKED leaves out the  *)
(* rows a concurrent transaction holds: S is what is left.                 *)
RecoverExpiredJobs(S, lag) ==
  /\ S # {}
  /\ Cardinality(S) <= Batch
  /\ \A j \in S : Expired(j, lag)
  /\ jobs' = [j \in Jobs |-> IF j \in S THEN AfterFailure(jobs[j], -lag)
                                        ELSE jobs[j]]
  /\ attempts' = {IF a.job \in S
                  THEN Finish(a, a.job, jobs[a.job].leaseToken, "failed")
                  ELSE a : a \in attempts}
  /\ UNCHANGED <<workers, issued>>

(* An operator retry re-opens the row with at least one attempt left:      *)
(* max_attempts = GREATEST(max_attempts, attempt_count + 1).               *)
MutReopened(r, at) ==
  [Unlocked(r) EXCEPT !.status = "queued",
                      !.attemptCount = 0,
                      !.availableAt = at,
                      !.deadLettered = FALSE,
                      !.completed = FALSE,
                      !.hasError = FALSE]
Reopened(r, at) ==
  [Unlocked(r) EXCEPT !.status = "queued",
                      !.maxAttempts = IF AttemptsLeft(r) THEN r.maxAttempts
                                      ELSE r.attemptCount + 1,
                      !.availableAt = at,
                      !.deadLettered = FALSE,
                      !.completed = FALSE,
                      !.hasError = FALSE]

RetryJob(j, lag) ==
  /\ jobs[j].status \in Retryable
  /\ FitsColumn(jobs[j].attemptCount + 1)
  /\ jobs' = [jobs EXCEPT ![j] = Reopened(@, -lag)]
  /\ UNCHANGED <<attempts, workers, issued>>

CancelJob(j) ==
  /\ jobs[j].status \in Claimable
  /\ jobs' = [jobs EXCEPT ![j] = [Unlocked(@) EXCEPT !.status = "cancelled",
                                                    !.completed = TRUE,
                                                    !.hasError = TRUE]]
  /\ UNCHANGED <<attempts, workers, issued>>

RegisterWorker(w) ==
  /\ workers' = [workers EXCEPT ![w] = "running"]
  /\ UNCHANGED <<jobs, attempts, issued>>

(* A heartbeat extends the lease of every running row locked by w, whoever *)
(* claimed it under that id.                                               *)
MutRenewed(j, w) ==
  /\ Running(j)
  /\ jobs[j].leaseToken # Null
  /\ LeaseDuration > 0
Renewed(j, w) ==
  /\ Running(j)
  /\ jobs[j].lockedBy = w
  /\ jobs[j].leaseToken # Null
  /\ LeaseDuration > 0

HeartbeatWorker(w, status, lag) ==
  /\ workers[w] # Null
  /\ workers' = [workers EXCEPT ![w] = status]
  /\ jobs' = [j \in Jobs |->
                IF Renewed(j, w)
                THEN [jobs[j] EXCEPT !.lockedUntil = LeaseDuration - lag]
                ELSE jobs[j]]
  /\ UNCHANGED <<attempts, issued>>

MarkWorkerStatus(w, status) ==
  /\ workers[w] # Null
  /\ workers' = [workers EXCEPT ![w] = status]
  /\ UNCHANGED <<jobs, attempts, issued>>

(* The clock.  A timestamp further in the past than any transaction's      *)
(* now() is indistinguishable from one that just is, so counting stops at  *)
(* -MaxLag.                                                                *)
Down(n) == IF n > -MaxLag THEN n - 1 ELSE n

Tick ==
  /\ jobs' = [j \in Jobs |->
       IF jobs[j].status = "absent"
       THEN jobs[j]
       ELSE [jobs[j] EXCEPT !.availableAt = Down(@),
                            !.lockedUntil = IF @ = Null THEN Null
                                                        ELSE Down(@)]]
  /\ UNCHANGED <<attempts, workers, issued>>

Next ==
  \/ \E j \in Jobs, lag \in Lags :
       \/ \E q \in Queues, m \in MaxAttempts, d \in Delays :
            CreateJob(j, q, m, d, lag)
       \/ \E q \in Queues, w \in Workers : ClaimJob(j, q, w, lag)
       \/ \E t \in 1..issued : FailJob(j, t, lag)
       \/ RetryJob(j, lag)
  \/ \E j \in Jobs :
       \/ \E t \in 1..issued : CompleteJob(j, t)
       \/ CancelJob(j)
  \/ \E S \in SUBSET Jobs, lag \in Lags : RecoverExpiredJobs(S, lag)
  \/ \E w \in Workers :
       \/ RegisterWorker(w)
       \/ \E s \in WorkerStatus :
            \/ MarkWorkerStatus(w, s)
            \/ \E lag \in Lags : HeartbeatWorker(w, s, lag)
  \/ Tick

Spec == Init /\ [][Next]_vars

-----------------------------------------------------------------------------
(* Properties.                                                             *)

(* Every column keeps its type; in particular attempt_count and            *)
(* max_attempts never leave the range of their columns.                    *)
TypeOK ==
  /\ jobs \in [Jobs -> Row]
  /\ attempts \subseteq Attempt
  /\ workers \in [Workers -> WorkerStatus \cup {Null}]
  /\ issued \in Nat

(* A row carries a lease exactly while it is running.                      *)
LeaseColumns ==
  \A j \in Jobs :
    IF Running(j)
    THEN /\ jobs[j].lockedBy # Null
         /\ jobs[j].lockedUntil # Null
         /\ jobs[j].leaseToken \in 1..issued
    ELSE /\ jobs[j].lockedBy = Null
         /\ jobs[j].lockedUntil = Null
         /\ jobs[j].leaseToken = Null

(* The lease in jobs and the open row of job_attempts describe the same    *)
(* attempt: a running job has an open attempt with its token, its number   *)
(* and its worker, and no other attempt is open.  So the second fencing    *)
(* test of CompleteJob and FailJob can never reject what the first let     *)
(* through, and recovery leaves no attempt open.                           *)
OpenAttemptIsLease ==
  /\ LeaseColumns
  /\ \A a \in attempts : a.status = "running" =>
       /\ Running(a.job)
       /\ a.token = jobs[a.job].leaseToken
       /\ a.number = jobs[a.job].attemptCount
       /\ a.worker = jobs[a.job].lockedBy
  /\ \A j \in Jobs : Running(j) =>
       \E a \in attempts : a.job = j /\ a.status = "running"

(* The attempts of a job are numbered 1..attempt_count without gap or      *)
(* repetition, over all retries, recoveries and operator retries, and no   *)
(* two attempts share a token: the UNIQUE constraints of job_attempts      *)
(* never abort a claim.                                                    *)
AttemptsGapless ==
  /\ \A a \in attempts : /\ a.number <= jobs[a.job].attemptCount
                         /\ a.token \in 1..issued
  /\ \A a, b \in attempts :
       (a.job = b.job /\ a.number = b.number) \/ a.token = b.token => a = b
  /\ \A j \in Jobs : \A n \in 1..jobs[j].attemptCount :
       \E a \in attempts : a.job = j /\ a.number = n

(* No job is tried more often than max_attempts allows, and one that waits *)
(* for a worker has an attempt left.                                       *)
AttemptBudget ==
  \A j \in Jobs :
    /\ jobs[j].attemptCount <= jobs[j].maxAttempts
    /\ jobs[j].status \in Claimable => AttemptsLeft(jobs[j])

(* A job succeeds with its last attempt and with no other, and no attempt  *)
(* that succeeded is ever forgotten: a success is never followed by a      *)
(* retry, a cancellation or another attempt.                               *)
SucceededOnce ==
  /\ \A a \in attempts : a.status = "succeeded" =>
       /\ jobs[a.job].status = "succeeded"
       /\ a.number = jobs[a.job].attemptCount
  /\ \A j \in Jobs : jobs[j].status = "succeeded" =>
       \E a \in attempts : a.job = j /\ a.status = "succeeded"

(* completed_at, dead_lettered_at and last_error agree with the status     *)
(* after every sequence of failures, cancellations and operator retries.   *)
OutcomeColumns ==
  \A j \in Jobs :
    LET r == jobs[j]
    IN /\ r.completed <=> r.status \in {"succeeded", "dead_letter", "cancelled"}
       /\ r.deadLettered <=> r.status = "dead_letter"
       /\ r.status \in {"retry_scheduled", "dead_letter", "cancelled"} => r.hasError
       /\ r.status \in {"absent", "queued", "succeeded"} => ~ r.hasError

(* The history of a job is append-only: an attempt that ended keeps its    *)
(* outcome, whatever a late CompleteJob, FailJob or recovery does.         *)
HistoryKept ==
  [][\A a \in attempts :
       \/ a \in attempts'
       \/ /\ a.status = "running"
          /\ \E b \in attempts' : b = [a EXCEPT !.status = b.status]]_vars

(* A lease that was lost is lost for good: once no row holds a token, no   *)
(* row ever holds it again, so a worker that was fenced off stays so.      *)
LeaseLossIsFinal ==
  [][\A t \in 1..issued :
       (\A j \in Jobs : jobs[j].leaseToken # t)
         => \A j \in Jobs : jobs'[j].leaseToken # t]_vars
=============================================================================
