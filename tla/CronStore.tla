----------------------------- MODULE CronStore -----------------------------
(***************************************************************************)
(* Cron definitions and their fires: the tables cron_jobs and cron_runs,   *)
(* the jobs that a fire inserts, and the operations of                     *)
(* internal/storage/storage.go that write them, called by any number of    *)
(* scheduler replicas and by operators through API servers.                *)
(*                                                                         *)
(* These operations read the clock of their own process, and               *)
(* FireDueCronJobs reads it before its transaction begins: the value may   *)
(* be off by Skew and stale by any time when the rows are locked.  Times   *)
(* are whole minutes, which is all that next_run_at, scheduled_for and     *)
(* cronexpr.Next can tell apart.                                           *)
(***************************************************************************)
EXTENDS Integers, FiniteSets, FiniteSetsExt

CONSTANTS
  Crons,       \* ids of the rows that may be inserted into cron_jobs
  Schedulers,  \* scheduler replicas
  Null,        \* SQL NULL
  Schedule,    \* the minutes that match a cron's expression, by cron
  Search,      \* minutes that cronexpr.Next searches: five years
  Skew,        \* bound on the error of a process clock
  Batch,       \* PULSEQUEUE_SCHEDULER_BATCH_SIZE
  Toggled,     \* crons that operators enable and disable
  MaxTime      \* bound on the clock

ASSUME CronAssumption ==
  /\ Null \notin Nat
  /\ Schedule \in [Crons -> SUBSET Nat]
  /\ Search \in Nat /\ Skew \in Nat /\ Batch \in Nat \ {0} /\ MaxTime \in Nat
  /\ Toggled \subseteq Crons

VARIABLES
  now,    \* the true time
  cron,   \* cron_jobs, by id; next = Null is a row not inserted yet
  read,   \* the local now of a FireDueCronJobs under way, by scheduler
  fired,  \* number of rows of jobs with the idempotency key of cron and minute
  runs    \* cron_runs

vars == <<now, cron, read, fired, runs>>

Minutes == 0..(MaxTime + Skew + Search + 1)
Keys == Crons \X Minutes

NoCron == [enabled |-> FALSE, next |-> Null, last |-> Null]

(* time.Now() of some process.                                             *)
Clocks == Minutes \cap ((now - Skew)..(now + Skew))

(* What a process has read from its clock, now or some time ago.           *)
ReadEarlier == Minutes \cap (0..(now + Skew))

(* cronexpr.Next: the first match after the minute t, Null for the error.  *)
MutNext(c, t) ==
  LET hits == {m \in Schedule[c] : t <= m /\ m <= t + 1 + Search}
  IN IF hits = {} THEN Null ELSE Min(hits)
NextRun(c, t) ==
  LET hits == {m \in Schedule[c] : t < m /\ m <= t + 1 + Search}
  IN IF hits = {} THEN Null ELSE Min(hits)

(* enabled = true AND next_run_at <= now                                   *)
DueCrons(t) == {c \in Crons : cron[c].enabled /\ cron[c].next <= t}

(* ORDER BY next_run_at LIMIT batch, of the rows D.                        *)
Picked(D) ==
  {S \in SUBSET D :
     /\ Cardinality(S) = Min({Batch, Cardinality(D)})
     /\ \A c \in S, d \in D \ S : cron[c].next <= cron[d].next}

(* scheduledFor of a due cron, read at t.                                  *)
MutScheduledFor(c, t) == t
ScheduledFor(c, t) == cron[c].next

(* INSERT INTO jobs ... ON CONFLICT (idempotency_key): no second row.      *)
MutInsertJob(n) == n + 1
InsertJob(n) == 1

(* INSERT INTO cron_runs ... ON CONFLICT (cron_job_id, scheduled_for).     *)
InsertRuns(new) ==
  runs \cup {r \in new : \A x \in runs : x.cron # r.cron \/ x.minute # r.minute}

-----------------------------------------------------------------------------
Init ==
  /\ now = 0
  /\ cron = [c \in Crons |-> NoCron]
  /\ read = [s \in Schedulers |-> Null]
  /\ fired = [k \in Keys |-> 0]
  /\ runs = {}

(* next_run_at is computed from a clock that was read before the INSERT.   *)
CreateCronJob(c, t) ==
  /\ cron[c] = NoCron
  /\ NextRun(c, t) # Null
  /\ cron' = [cron EXCEPT ![c] = [enabled |-> TRUE, next |-> NextRun(c, t),
                                  last |-> Null]]
  /\ UNCHANGED <<now, read, fired, runs>>

(* Enabling recomputes next_run_at, disabling keeps it; the clock is read  *)
(* while the row is locked.                                                *)
SetCronJobEnabled(c, enabled, t) ==
  /\ c \in Toggled
  /\ cron[c] # NoCron
  /\ enabled => NextRun(c, t) # Null
  /\ cron' = [cron EXCEPT ![c].enabled = enabled,
                          ![c].next = IF enabled THEN NextRun(c, t) ELSE @]
  /\ UNCHANGED <<now, read, fired, runs>>

(* FireDueCronJobs, first line: now := time.Now().UTC()                    *)
ReadClock(s, t) ==
  /\ read[s] = Null
  /\ read' = [read EXCEPT ![s] = t]
  /\ UNCHANGED <<now, cron, fired, runs>>

(* The transaction.  SKIP LOCKED passes over the rows that others hold,    *)
(* locked; S are the rows it fires.                                        *)
FireDueCronJobs(s, locked, S) ==
  LET t == read[s]
      keys == {<<c, ScheduledFor(c, t)>> : c \in S}
  IN /\ t # Null
     /\ S \in Picked(DueCrons(t) \ locked)
     /\ \A c \in S : NextRun(c, t) # Null
     /\ fired' = [k \in Keys |-> IF k \in keys THEN InsertJob(fired[k]) ELSE fired[k]]
     /\ runs' = InsertRuns({[cron |-> k[1], minute |-> k[2], by |-> s] : k \in keys})
     /\ cron' = [c \in Crons |->
                   IF c \in S
                   THEN [cron[c] EXCEPT !.last = ScheduledFor(c, t),
                                        !.next = NextRun(c, t)]
                   ELSE cron[c]]
     /\ read' = [read EXCEPT ![s] = Null]
     /\ UNCHANGED now

(* The transaction rolls back: the database fails, or cronexpr.Next has no *)
(* match for one of the rows.  The scheduler starts over at its next tick. *)
FireFails(s) ==
  /\ read[s] # Null
  /\ read' = [read EXCEPT ![s] = Null]
  /\ UNCHANGED <<now, cron, fired, runs>>

Advance ==
  /\ now < MaxTime
  /\ now' = now + 1
  /\ UNCHANGED <<cron, read, fired, runs>>

Fire(s, locked) == \E S \in SUBSET Crons : FireDueCronJobs(s, locked, S)

Next ==
  \/ \E c \in Crons :
       \/ \E t \in ReadEarlier : CreateCronJob(c, t)
       \/ \E t \in Clocks, enabled \in BOOLEAN : SetCronJobEnabled(c, enabled, t)
  \/ \E s \in Schedulers :
       \/ \E t \in Clocks : ReadClock(s, t)
       \/ \E locked \in SUBSET Crons : Fire(s, locked)
       \/ FireFails(s)
  \/ Advance

Spec == Init /\ [][Next]_vars

(* A scheduler ticks for ever; its transactions fail or find rows locked   *)
(* now and then, but not always.                                           *)
Fairness ==
  /\ WF_vars(Advance)
  /\ \A s \in Schedulers :
       /\ WF_vars(\E t \in Clocks : ReadClock(s, t))
       /\ SF_vars(Fire(s, {}))

FairSpec == Spec /\ Fairness
-----------------------------------------------------------------------------
(* However many schedulers fire with stale, skewed clocks while operators  *)
(* disable and enable the cron, one minute of a cron enqueues one job and  *)
(* has one run, and never one without the other.                           *)
OncePerMinute ==
  \A k \in Keys :
    LET of == {r \in runs : r.cron = k[1] /\ r.minute = k[2]}
    IN fired[k] <= 1 /\ Cardinality(of) = fired[k]

(* A run is for a minute that matches the schedule and is not before its   *)
(* time by any clock, also when the fire was late or next_run_at moved.    *)
RunsOnSchedule ==
  \A r \in runs : r.minute \in Schedule[r.cron] /\ r.minute <= now + Skew

Fired(c) ==
  \/ \E s \in Schedulers, locked \in SUBSET Crons, S \in SUBSET Crons :
       c \in S /\ FireDueCronJobs(s, locked, S)
  \/ \E r \in runs' \ runs : r.cron = c
  \/ cron'[c].last # cron[c].last

(* A fire moves next_run_at past the minute it fired, also when that       *)
(* minute has a run already: a scheduler that was down fires once and does *)
(* not fire the same minute again and again.  Nothing else records a run   *)
(* or writes last_run_at.                                                  *)
FireMovesOn ==
  [][\A c \in Crons :
       Fired(c) => cron[c].next < cron'[c].next /\ cron'[c].last = cron[c].next]_vars

(* A cron that nobody disables or enables again is fired for every minute  *)
(* that next_run_at comes to hold.                                         *)
DueCronFires ==
  \A c \in Crons \ Toggled : \A m \in 0..(MaxTime - Skew) :
    (cron[c].next = m /\ m + Skew <= now)
      ~> \E r \in runs : r.cron = c /\ r.minute = m
=============================================================================
