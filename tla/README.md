# A verification project for PulseQueue

PulseQueue is a distributed job queue in Go. Its state is in PostgreSQL; API
servers, schedulers and workers are processes that share nothing but the
database and the wake-up signals they send each other through NATS. This
directory holds TLA+ models of the parts that decide what happens to a job, TLC
configurations that check them on small instances, and TLAPS proofs of the
properties that matter most, for instances of any size.

## The system

| Part | State | Operations | Talks to |
| --- | --- | --- | --- |
| Job tables, `internal/storage/storage.go` | tables `jobs`, `job_attempts`, `workers` | CreateJob, ClaimJob, CompleteJob, FailJob, RecoverExpiredJobs, RetryJob, CancelJob, RegisterWorker, HeartbeatWorker, MarkWorkerStatus | one PostgreSQL transaction each |
| Retry backoff, `RetryPolicy` | none | Normalize, DelayForAttempt | called by FailJob |
| Cron store, `storage.go` | tables `cron_jobs`, `cron_runs`, and `jobs` | CreateCronJob, SetCronJobEnabled, FireDueCronJobs | cron expressions; the clock of the calling process |
| Cron expressions, `internal/cronexpr` | none | Parse, Next | called by the cron store |
| Worker, `internal/worker/worker.go` | atomic status, wake channel, one goroutine per slot, one for heartbeats | register, heartbeat, workLoop, drain, execute, fail, graceful stop | job tables, signals |
| Scheduler, `internal/scheduler/scheduler.go` | the map of queues of the tick under way | tick: fire crons, recover expired leases, list queues with due jobs, publish | job tables, cron store, signals |
| API server, `internal/api/server.go`, `newServerCommand` in `cmd/pulsequeue/main.go` | progress of start-up and stop, requests under way | migrate, listen, submit, retry, cancel, create and toggle crons, listings, graceful stop | job tables, cron store, signals, migrations |
| Signals, `internal/signals/nats.go` | messages under way in NATS | publish, queue-group subscribe | API server and scheduler to workers |
| Submission and idempotency | unique index on `idempotency_key` | the two statements of CreateJob | API server; cron fires use the same index |
| Migrations, `ApplyMigrations`, `migrations/*.sql` | `schema_migrations` and the schema | test, execute, record, file by file | every API server at start, and only those |
| Job logs, queue statistics, metrics, tracing, gRPC health, configuration, command line | logs are append-only rows; the rest keeps no state | | |

What is hard about it:

- **Leases and fencing.** A worker may be slow, cut off or dead. Recovery hands
  its job to another one, and the first may still report. Only the lease token
  separates the two attempts.
- **Leases are renewed by worker id.** One statement renews every lease held
  under the id, so what holds depends on who shares an id and on every path on
  which a slot gives a job up without the table knowing.
- **Transactions have a start time.** `now()` is the start of the transaction;
  a statement that waited for a row lock works with a clock that is late.
- **Graceful stop** runs four goroutine groups through an ordered shutdown
  while handlers, heartbeats and claims are under way.
- **Crons** are fired by several schedulers whose clocks differ, with the clock
  read before the transaction, while operators toggle them.
- **Signals** may be lost, the wake channel may be full, `SKIP LOCKED` may hide
  work: a slot must not sleep while a job waits for it.
- **A tick has four steps**, each a transaction of its own; an error of one ends
  the tick, and what it was going to signal is forgotten.
- **Submission has two statements.** Another request with the same key, or a
  cron fire, may come between them, and a client that got no answer sends its
  request again.
- **Replicas migrate at once.** The test whether a file was applied is outside
  the transaction that applies it, while other replicas already serve.

`PROJECT.json` lists the single hazards at their lines.

## Modules

| Module | Models | Checked by | Proved in |
| --- | --- | --- | --- |
| `JobStore` | the job tables and their ten transactions, called by anyone in any order | `MCJobStore` | `JobStoreProofs` |
| `JobLifecycle` | abstract: what a submitter is promised about a job | `MCJobStore` | `JobRefinementProofs` |
| `JobRefinement` (extends `JobStore`) | the mapping under which the tables implement `JobLifecycle` | `MCJobStore` | `JobRefinementProofs` |
| `JobQueue` (extends `JobStore`) | worker processes, scheduler recovery and operators around the tables | `MCJobQueue` | `JobQueueProofs` |
| `RetryPolicy` | the backoff computation, iteration by iteration | `MCRetryPolicy` | `RetryPolicyProofs` |
| `CronStore` | cron definitions, fires and the clocks they are computed from | `MCCronStore` | `CronStoreProofs` |
| `CronExpr` | the parser of cron fields and the search for the next minute | `MCCronExpr` | `CronExprProofs` |
| `Scheduler` | what fills a queue from outside: submissions with their signals, and the tick step by step | `MCDispatch` | `DispatchProofs` |
| `Dispatch` (extends `Scheduler`) | signals, wake channels, slots, crashes of workers | `MCDispatch` | `DispatchProofs` |
| `Migrations` | ApplyMigrations of several replicas over the five files | `MCApiServer` | `ApiServerProofs` |
| `Submission` | the requests that write jobs, statement by statement | `MCApiServer` | `ApiServerProofs` |
| `ApiServer` (extends `Migrations`, `Submission`) | replicas that start, serve, stop and die, with their requests and the cron fires | `MCApiServer` | `ApiServerProofs` |

### JobStore

`jobs` maps an id to a record with the columns that decide transitions:
status, queue, max_attempts, attempt_count, available_at, locked_by,
locked_until, lease_token, and for completed_at, dead_lettered_at and
last_error whether they are set. A status `"absent"` is a row not inserted yet.
`attempts` is the set of rows of `job_attempts`, `workers` the status column of
`workers`, `issued` the number of lease tokens drawn from `uuid.New`. Priority
and the ordering of a claim are left out: `SKIP LOCKED` makes any due row a
possible answer, so `ClaimJob` may take any. An idempotency conflict of CreateJob
changes no row and is no step.

Every operation of `*Store` is one transaction whose row locks last to the
commit, hence one action; an operation that fails rolls back and is a
stuttering step. The two batch operations act on a set of rows. CompleteJob and
FailJob take **any token ever issued**, so late, repeated and reordered reports
are all covered, and what holds in `JobStore` holds for every schedule of its
callers.

Time is relative: `availableAt` and `lockedUntil` count ticks from now, `Tick`
counts them down. The age of a transaction when its statement runs is the
parameter `lag`, at most `MaxLag`. A timestamp older than `MaxLag` is due for
every transaction, so counting stops there; this keeps the state space finite
and loses nothing.

### JobQueue

A process has a `phase` (the progress of `Run`), a state per slot (`workLoop`,
`drain`, `execute`), a heartbeat goroutine that loads the atomic status (`beat`)
and writes it later, and a ticker (`due`). The handler is opaque: it returns
with or without error after any time; a timeout is an error. `ran` records
handler runs and is only read by properties. `IdOf` gives a process its worker
id and need not be injective. `Faults` switches on crashes, restarts, failing
database writes, claims that commit although the caller sees an error, and a
subscription that fails, after which the process is gone and its row stays as it
was registered.
`ClaimLost` is possible without any fault while a process stops, since
`stopAccepting` cancels the context of a claim under way.

`Punctual` names the processes whose heartbeats commit in the tick they are
due: `Clock` waits for them. Without it nothing relates heartbeats and lease.

A scheduler replica keeps no state, so one action `SchedulerRecover` stands for
any number of them.

### RetryPolicy

One state per iteration of the loop of `DelayForAttempt`, with `Normalize`
applied to all pairs of configured delays, and a doubling that wraps where
int64 would.

### CronStore

`cron` has enabled, next_run_at and last_run_at; `fired` counts the rows of
`jobs` per idempotency key (cron and minute), `runs` is `cron_runs`. `read`
holds the time a scheduler has read and not used yet. A process clock is within
`Skew` of the true one. CreateCronJob reads it before its INSERT, so that it may
be older; SetCronJobEnabled reads it with the row locked. `FireMovesOn` is also
about a fire that finds its minute recorded. `DueCronFires` is about schedules
with a next match: a due cron without one makes every fire roll back. `Schedule` gives the matching minutes of a cron, and
`NextRun` the first one after a time within the search limit of cronexpr.

### CronExpr

One state per list item and value that `parseField` goes through, and one per
minute that `Next` tries. An expression is given as its items, already split; a
star without a step is told from `*/1`, because `field.all` is. The calendar is
a parameter. `Denotes` and `DueAt` say without loops what an expression means.
`Plus` wraps like int64: a step close to 2^63 adds values below the start of a
range, so `NextIsFirst` is stated for steps that do not wrap. Two assumptions
say what the code gets from Go: an expression has a non-empty list of items per
field, with numbers as Atoi returns them, and a weekday of the calendar is below
7, so the two names of Sunday are not two days.

### JobLifecycle and JobRefinement

`life[j]` has a state, a budget, the number of tries and the outcome of each of
them, and nothing of leases, workers or clocks. A job moves by `Accept`,
`Begin`, `Succeed`, `Fail`, `Cancel` or `Reopen`; a step may move several, since
recovery is a batch. `JobRefinement` reads the state off the status column, the
budget off max_attempts, and the log off `job_attempts`. `failed` and
`dead_letter` are one abstract state; a claim, a completion, a failure and a
recovery must each be exactly one move, and everything else, time included, a
stutter.

### Scheduler and Dispatch

One queue. `at` says where a job is: not submitted, waiting for its
available_at, due, busy, with an expired lease, ended. A retry by an operator
opens a new period of waiting and is a further job here. `silent` holds the jobs
whose API server has committed and not published. `step` and `signal` are the
progress of a tick and whether its map has the queue; `TickFails` ends it at any
step, which is also what a crash of a scheduler does. ListDueQueues is limited,
so other queues may crowd this one out (`crowded`). A recovery takes any of the
expired rows up to its batch, none of them if others have them locked, and the
tick goes on.

`net` counts signals under way, `pushes` the sends a `signalWake` has still to
try, for `Run` and for the NATS callback, which may be in it at once, `wake` the
length of the channel, and `slot` says whether a slot drains, waits or executes
a job. `Crash` ends a worker process: its jobs become expired
and are found by a later tick. Results that a live worker cannot write, and
leases that run out under one, are the subject of `JobQueue`. `owed` is true
while a due job was signalled and no signal or look at the table was lost since;
it is only read by `NoLostWakeup`.

### Migrations

A replica is down, tests for the next file, executes it, records its version or
serves. The test is made outside the transaction and is stale when the file
runs. The files with ALTER TABLE exclude all others and the statements of
requests until they commit; 0001 and 0003 (`CreatesOnly`) take the locks of
CREATE INDEX, which keep writers and ALTER TABLE out but not each other. The
insert into
`schema_migrations` finds a version that somebody else recorded and the process
ends, to be started again by its container runtime. `Up` says what each file
does: the tables it creates and the statuses its CHECK constraint admits, which
later files replace. A database may start at any earlier release.

### Submission and ApiServer

`table` has the committed rows of `jobs` with key, status and max_attempts. A
request goes through its statements one by one: INSERT, SELECT for a key that
exists, then the signal and the log line. `open` holds keys that a cron fire has
inserted and not committed: an INSERT with that key waits for it. `announced`
are the log lines. TrimSpace maps the key of a body to the one that is stored,
`Null` if nothing is left of it. `wellFormed` stands for the tests of the JSON,
the type and the timeout. Jobs are not executed here, since no request
waits for it: rows are queued or cancelled.

`ApiServer` adds what a replica has to do with them. Requests arrive at replicas
that listen. A statement fails when the schema lacks something it uses. A
replica that ends (crash, or a graceful stop that does not wait longer than ten
seconds) cuts off some of the requests under way, and all of them when it was
the last one that served. `MaxFaults` bounds crashes, failing statements and
lost answers together.

## What the runs check

| Run | Instance | Shows |
| --- | --- | --- |
| `job_store` | 2 jobs, 2 workers, column limit 2, lease 1, transaction age up to 1 | the six invariants and two action properties of `JobStore`, and that it implements `JobLifecycle` |
| `queue_faults` | 2 processes with **one id**, 1 job, up to 2 attempts, all faults | `AttemptRunOnce`, `SuccessWasEarned` |
| `queue_lease` | 2 punctual processes, lease 3, interval 1, transaction age up to 1, crashes | `LeaseKept`, `NoOverlap`, `StoppedIsFinal` |
| `queue_liveness` | 2 processes, one never killed, late heartbeats, crashes | `JobsSettle`, `ShutdownEnds` |
| `queue_shared_id` | 2 punctual processes with one id, one may crash | **violation** of `OwnershipEnds` |
| `queue_db_error` | 2 punctual processes, database errors | **violation** of `OwnershipEnds` |
| `queue_never_run` | 2 punctual processes, one attempt, crashes | **violation** of `ExecutedAtLeastOnce` |
| `retry_policy` | delays -1..15, attempts -1..6, overflow at 16 | `DelayInRange`, `CappedDoubling` |
| `cron` | 2 schedulers, 2 crons, batch 1, skew 1, minutes 0..2 | `OncePerMinute`, `RunsOnSchedule`, `FireMovesOn`, `DueCronFires` |
| `cron_expr` | years of five days, 1188 expressions asked after 5 minutes | `NextIsFirst`, `RejectsExactly`, `NoEmptyField` |
| `dispatch` | 2 jobs (submitted, 2 attempts; a cron's, 1 attempt), 1 scheduler with batch 1, 1 worker process with 2 slots | `TypeOK`, `NoLostWakeup`, `JobsEnd` |
| `api_server` | 2 replicas, 2 requests out of 5 bodies, 1 cron key, 1 fault, any earlier release | `TypeOK`, `SchemaIsApplied`, `OneJobPerKey`, `AnnouncedOnce`, `FailsOnlyByFault`, `ServersComeUp` |

Why the bounds are enough. Transactions on different jobs interact through a
batch and through heartbeats, which treat rows alike, so two jobs show every
pair. Two attempts let an attempt follow a recovered one, and the column limit
is met by operator retries. In `JobQueue` one job suffices for what is said of
one job, and two processes for the holder and the one that takes over. Three
minutes let a cron be fired, toggled, moved back by a skewed clock and fired
again. The small calendar has a date that never comes, a yearly match exactly at
the deadline and both names of Sunday; the search looks at one minute at a time,
so longer years only repeat this. The backoff instance reaches the cap, the overflow and the rounding of
`MaxDelay/2`. In `Dispatch` two jobs and two slots let one job be claimed or
cancelled while another is signalled, a batch of one leave an expired job for a
later tick, and both slots compete for one wake-up; more than one signal under
way counts as one. In `ApiServer` idempotency is about pairs of requests, a stale
test about two replicas, and one fault suffices to lose any one answer, commit
or process; a cron fire is the third party that uses the index. For safety the
bounds do not matter in the end: every invariant, every action property and the
refinement that a passing run checks is proved besides, without any bound. The
bounds limit what is known of liveness.

The mutants in `PROJECT.json` replace one definition by a plausible mistake (a
dropped fence, a missing reset, heartbeats bound to the accept context,
`wg.Wait` before `stopAccepting`, ...), each of which breaks the property it is
listed with.

Deadlock is checked in every run but `retry_policy` and `cron_expr`, whose loops end.

### The three violations

- `queue_shared_id`: HeartbeatWorker renews by worker id, and the id is the host
  name by default. When a process dies and another with its id runs on, the
  dead one's job is renewed for ever. PLAN.md: "Workers should not permanently
  own jobs."
- `queue_db_error`: when the write of a result fails, `execute` logs it and
  takes the next job, while the heartbeat goes on renewing the lease of the job
  it gave up. Same sentence of PLAN.md.
- `queue_never_run`: attempts are counted at the claim, and recovery
  dead-letters at the limit. A crash between claim and handler ends a
  one-attempt job unexecuted. PLAN.md: "Eligible jobs will be executed at least
  once unless cancelled."

In all three the heartbeats are punctual and the schedulers fair, so nothing
but the code is to blame.

### Fairness

- `JobQueue!Fairness`: goroutines of a live process run, an idle slot asks
  again (its poll ticker fires for ever), handlers return, a scheduler ticks
  (`for` loop and ticker), time passes. A process outside `Mortal` is started.
  No fairness on faults, operators, starts of mortal processes or `ClaimLost`.
  Weak fairness is enough: a claim stays possible until someone takes the job.
- `CronStore!Fairness`: `FireDueCronJobs` strongly fair with no row locked, since
  transactions may fail or meet locks, but not each time.
- `Dispatch!FairSpec`: slots run and handlers return; a slot that finds the rows
  locked comes back, so claims are strongly fair; schedulers tick, and not every
  recovery of them fails or finds all expired rows locked (infinitely many take a
  row if one is expired, which is strong fairness, since a tick may end before
  it). In
  addition **either** signals work now and then (some tick lists the queue and
  publishes it, NATS delivers some signals) with nothing assumed of the poll
  ticker, **or** the poll ticker fires with nothing assumed of signals. Each of
  the two suffices for `JobsEnd`. That some tick lists the queue is an
  assumption on the other queues: ListDueQueues is ordered and limited, so with
  more busy queues than the batch size only polling serves the last ones. No
  fairness on submissions, cron fires, crashes, cancellations or losses.
- `ApiServer!Fairness`: processes run, the container runtime starts a replica
  that ended (`deployments/k8s/api.yaml` is a Deployment), a stop ends, and transactions of
  schedulers end. None on requests, so nothing says that a request is answered.

## What is proved

All for any values of the constants, from the named assumptions of the modules
(types of the constants; `Null` is neither an integer, a worker nor a worker
status). Where a theorem assumes more, its statement says so.

`JobStoreProofs`, theorems `TypeCorrect`, `LeaseCorrect`, `GaplessCorrect`,
`BudgetCorrect`, `SuccessCorrect`, `OutcomeCorrect`: none of the invariants is
inductive alone. FailJob looks up the backoff of attempt_count, which is
positive only because a running row has an open attempt; a claim keeps numbers
and tokens unique only because all are bounded by attempt_count and issued;
Create overwrites nothing only because an absent row is blank. `Inv` is the
conjunction of the six invariants with `AbsentRows`, and is inductive. The proof
goes by kinds of steps: steps that keep leases (`KeepingLeases`), steps that
close open attempts (`Closing`), the claim (`Claiming`), then one lemma per
action. On top of `Inv`:

- `HistoryCorrect`, `LeaseLossCorrect`: the two action properties, from the
  invariant and a lemma on what a step does to one attempt and to one token;
- `FenceIsEnough`: whenever a row of `jobs` carries a token, exactly one attempt
  is open with it, so the second fencing test of CompleteJob and FailJob never
  rejects.

`JobRefinementProofs`, theorem `TablesImplementLifecycle`: `JobStore` implements
`JobLifecycle`. `Inv` is what makes the mapping well defined: because attempts
are gapless, the abstract log has one outcome per number, and because the open
attempt of a job is its lease, closing it writes the last entry and no other.
Then every transaction leaves the life of a job as it is or is one move of it;
for a batch this is shown row by row.

`JobQueueProofs` is about processes and tables together.

- `QueueImplementsStore`: every behaviour of the processes is one of `JobStore`,
  so the theorems about the tables hold for the composed system, and with them
  the promise to the submitter (`QueueImplementsLifecycle`). It rests on what the
  slots know: a report carries a token that was issued.
- `QTypeCorrect`, `SuccessEarnedCorrect`, `AttemptRunOnceCorrect`, with every
  fault and with worker ids shared. `QInv` adds to `Inv` what links a slot to its
  attempt (`SlotsFit`: its token is that of an attempt of its job, claimed under
  its id, held by no other slot, and with no handler run before the handler
  starts) and that handler runs belong to issued tokens, so that a fresh token
  has none. `CompleteJob` then makes a job succeeded only from a slot whose
  handler returned.
- `LeaseKeptCorrect`, `NoOverlapCorrect`, assuming that a lease is longer than
  the heartbeat interval plus the age of a transaction, and that database writes
  do not fail. That a lease is held now does not say that it is held after the
  next tick, so `LeasesLast` adds by how much: it outlasts the ticker, or a
  heartbeat has been loaded and time waits for it. The configuration guarantees
  the first assumption by its defaults only and never compares the two
  durations. The second cannot be dropped, as `queue_db_error` shows: a slot
  gives a job up that the table still leases.
- `StoppedIsFinalCorrect`, assuming that ids are not shared (another process
  would register or beat under the same row) and that writes do not fail (the
  process exits although MarkWorkerStatus failed).

`RetryPolicyProofs`. `DelayRange`: the delay stays between InitialDelay and
MaxDelay in every iteration, hence no doubling overflows. `CappedDoublingCorrect`:
the loop computes the closed form. `LoopDoubles` says what the variable is after
each iteration. The closed form uses a recursive `Power`; that such a function
exists and is unique, and that powers grow, is shown by taking a least
counterexample (`WFMin`), since the prover cannot use the induction rules.

`CronStoreProofs`, theorems `OncePerMinuteCorrect`, `RunsOnScheduleCorrect`,
`FireMovesOnCorrect`, for any number of schedulers and crons and any skew.
`CronInv` adds to the second one that `fired` and `cron_runs` agree and that
there is one run per cron and minute (`RunsMatch`): a fire whose job already
exists must find its run as well. `CronTypes` carries that next_run_at is a
matching minute, which a toggle and a fire preserve because both take it from
`NextRun`.

`CronExprProofs`, theorems `NextIsFirstCorrect`, `RejectsExactlyCorrect`,
`NoEmptyFieldCorrect`, for every expression, calendar and deadline. `ExprInv`
says what each loop has done so far: the fields that are finished hold exactly
the numbers their items denote (if no step wraps) and at least one (also if it
does); the items passed are good; the loop variable is a whole number of steps
from its start; the minutes passed by the search do not match. The rest is
modular arithmetic (`DivMod`, `ModGap`, `ModStep`: the loop skips no number that
is denoted) and that weekday 7 and 0 are one (`StoredMeans`).

`DispatchProofs`, theorems `TypeCorrect` and `WakeupCorrect`, for any number of
jobs, schedulers, processes and slots. `NoLostWakeup` alone is not inductive. A
claim keeps within max_attempts only because a job that waits has an attempt
left (`AttemptLeft`); and the end of an attempt, or a crash, would take a due job
away from those that were signalled were it not for `SlotsHoldJobs`: a job in a
slot is busy and in no other slot. With those, a slot sleeps only when nothing
is due, and a signal is used up only by making a slot look.

`ApiServerProofs`, for any number of requests, bodies, keys, cron fires,
replicas and faults:

- `SchemaCorrect`: `SchemaIsApplied` needs that a replica is about to execute
  only a file all of whose predecessors are recorded (`Behind`), since it finds
  its own version free when it records it and the set of recorded versions must
  stay an initial segment.
- `OneJobCorrect`, `AnnouncedCorrect`: both speak of requests that were answered.
  The invariant follows a request from its first statement: the row it was
  refused for is still there when it selects it, a row was inserted by one
  request, and no row has a key that an open cron fire is going to commit
  (`UniqueKeys`, `RequestFits`, `InsertedByOne`). The steps fall into those that
  keep all keys and those that add a row under a new one.
- `FailsOnlyByFaultCorrect`: a request under way has a replica that serves, and a
  replica serves only when all versions are recorded (`Served`), so by
  `SchemaIsApplied` no statement misses a table or a status; with `RequestFits` a
  SELECT finds its row. What is left is faults, counted in `FaultsCounted`.
- `ApiTypeCorrect`, which needs all of the above.

Model-checked only: liveness (`JobsSettle`, `ShutdownEnds`, `DueCronFires`,
`JobsEnd`, `ServersComeUp`), because fairness and ENABLED are beyond the prover,
and the three violations, which are counterexamples.

## What is not modelled

Handlers, payloads, priorities, traces, metrics and all log lines but that of a
submission, because no transition reads them. Listings and statistics, because
they write nothing. Routing and authentication, configuration parsing, the
client commands of the command line and the gRPC health server, which decide
nothing about a job. Splitting of cron strings. The `down` sections of the
migrations, which no code executes.

## Plan

1. `JobStore`, `JobStoreProofs`: the tables, because everything rests on them. Done.
2. `JobQueue`: workers, recovery and shutdown over `JobStore`. Done.
3. `RetryPolicy`, `CronStore`, `CronExpr`, `Dispatch` with first proofs. Done.
4. `JobLifecycle`: what a submitter is promised about one job, as an abstract
   specification that `JobStore` refines. Done, proved.
5. `Submission` and `ApiServer`: one job per key, one answer per key. Done, proved.
6. `Scheduler`: the tick as a whole, composed with `Dispatch`. Done, safety proved.
7. `Migrations`: several replicas that start at once. Done, safety proved.
8. Proofs of the remaining safety properties: the refinement of `JobLifecycle`,
   `JobQueue` over `JobStore`, `CronStore`, `CronExpr`, the closed form of the
   backoff, `FailsOnlyByFault`. Done.
9. Left: facts about pairs of modules that are only argued for above, such as
   that `CronExpr` computes the `NextRun` that `CronStore` uses.
