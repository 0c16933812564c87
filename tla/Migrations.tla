----------------------------- MODULE Migrations -----------------------------
(***************************************************************************)
(* The start of the API servers: several replicas come up at once and each *)
(* runs ApplyMigrations of internal/storage/storage.go on one database     *)
(* before it listens (newServerCommand of cmd/pulsequeue/main.go).  The    *)
(* files are those of migrations/.                                         *)
(*                                                                         *)
(* The test whether a version is recorded is a statement of its own, so it *)
(* may be stale when the file is executed.  The file and the INSERT of its *)
(* version are one transaction.                                            *)
(***************************************************************************)
EXTENDS Integers, FiniteSetsExt

CONSTANTS
  Replicas,  \* API server processes
  MaxFaults  \* bound on crashes, database errors and lost answers

ASSUME MigrationsAssumption == MaxFaults \in Nat

VARIABLES
  phase,    \* where a replica is in ApplyMigrations, or what it does after
  version,  \* the file a replica looks at
  applied,  \* versions recorded in schema_migrations
  schema,   \* the committed schema
  faults    \* faults so far

migrationVars == <<phase, version, applied, schema, faults>>

(* Every file creates what does not exist yet; 0002 and 0004 also replace  *)
(* the CHECK constraint on jobs.status.                                    *)
Last == 5

Creates(v) ==
  CASE v = 1 -> {"jobs", "idempotency_key"}
    [] v = 2 -> {"available_at", "job_attempts"}
    [] v = 3 -> {"workers"}
    [] v = 4 -> {"job_logs", "cron_jobs", "cron_runs"}
    [] v = 5 -> {"traceparent"}

FirstStatuses == {"queued", "running", "succeeded", "failed"}
RetryStatuses == FirstStatuses \cup {"retry_scheduled", "dead_letter"}

Checks(v, statuses) ==
  CASE v = 1 -> IF statuses = {} THEN FirstStatuses ELSE statuses
    [] v = 2 -> RetryStatuses
    [] v = 4 -> RetryStatuses \cup {"cancelled"}
    [] OTHER -> statuses

(* The schema after file v has run on schema s.                            *)
Up(v, s) == [has      |-> s.has \cup Creates(v),
             statuses |-> Checks(v, s.statuses)]

NoSchema == [has |-> {}, statuses |-> {}]

(* What the files 1..n leave behind when each has run once, in order.      *)
SchemaAfter[n \in 0..Last] ==
  IF n = 0 THEN NoSchema ELSE Up(n, SchemaAfter[n - 1])

Phases == {"down", "check", "exec", "record", "serve", "closing"}

-----------------------------------------------------------------------------
(* A database of any earlier release, and no API server.                   *)
MigrationsInit ==
  /\ phase = [r \in Replicas |-> "down"]
  /\ version = [r \in Replicas |-> 1]
  /\ \E n \in 0..Last : applied = 1..n /\ schema = SchemaAfter[n]
  /\ faults = 0

Goto(r, p) == phase' = [phase EXCEPT ![r] = p]

(* An error ends the process; its transaction rolls back.                  *)
Stops(r) == Goto(r, "down") /\ version' = [version EXCEPT ![r] = 1]

(* The loop goes on with the next file.                                    *)
Returns(r) == Goto(r, "check") /\ version' = [version EXCEPT ![r] = @ + 1]

(* The container runtime starts a process; it executes CREATE TABLE IF NOT *)
(* EXISTS schema_migrations and reads the directory.                       *)
Start(r) ==
  /\ phase[r] = "down"
  /\ Goto(r, "check")
  /\ UNCHANGED <<version, applied, schema, faults>>

(* SELECT EXISTS (... WHERE version = $1), outside any transaction, file   *)
(* by file up to the first that is not recorded.  Versions are only added, *)
(* so asking for several of them is one step.  When all are there the      *)
(* process connects to NATS and listens.                                   *)
Missing(r) == (version[r]..Last) \ applied

MutCheck(r) ==
  /\ phase[r] = "check"
  /\ \/ Goto(r, "serve") /\ version' = [version EXCEPT ![r] = 1]
     \/ /\ Missing(r) # {}
        /\ Goto(r, "exec")
        /\ version' = [version EXCEPT ![r] = Min(Missing(r))]
  /\ UNCHANGED <<applied, schema, faults>>
Check(r) ==
  /\ phase[r] = "check"
  /\ IF Missing(r) = {}
     THEN Goto(r, "serve") /\ version' = [version EXCEPT ![r] = 1]
     ELSE /\ Goto(r, "exec")
          /\ version' = [version EXCEPT ![r] = Min(Missing(r))]
  /\ UNCHANGED <<applied, schema, faults>>

(* A file that ran holds its locks on the tables until the transaction     *)
(* ends.  Every file excludes the writers of jobs, by ALTER TABLE or by    *)
(* CREATE INDEX; the locks of two files without ALTER TABLE do not exclude *)
(* each other.                                                             *)
Migrating == {r \in Replicas : phase[r] = "record"}
CreatesOnly == {1, 3}

(* tx.Exec(ctx, upSQL).  A CHECK constraint that a stored row violates     *)
(* cannot be added: stored are the statuses of the rows of jobs.           *)
Exec(r, stored) ==
  /\ phase[r] = "exec"
  /\ \A s \in Migrating : {version[r], version[s]} \subseteq CreatesOnly
  /\ IF stored \subseteq Up(version[r], schema).statuses
     THEN Goto(r, "record") /\ UNCHANGED version
     ELSE Stops(r)
  /\ UNCHANGED <<applied, schema, faults>>

Committed(r) ==
  /\ applied' = applied \cup {version[r]}
  /\ schema' = Up(version[r], schema)

(* INSERT INTO schema_migrations, and the commit.  A version that somebody *)
(* recorded since the test is a duplicate key: the file's work is rolled   *)
(* back and the process ends.                                              *)
MutRecord(r) ==
  /\ phase[r] = "record"
  /\ Committed(r)
  /\ Returns(r)
  /\ UNCHANGED faults
MutRecordAgain(r) ==
  /\ phase[r] = "record"
  /\ IF version[r] \in applied
     THEN Goto(r, "exec") /\ UNCHANGED <<version, applied, schema>>
     ELSE /\ Committed(r)
          /\ Returns(r)
  /\ UNCHANGED faults
Record(r) ==
  /\ phase[r] = "record"
  /\ IF version[r] \in applied
     THEN Stops(r) /\ UNCHANGED <<applied, schema>>
     ELSE /\ Committed(r)
          /\ Returns(r)
  /\ UNCHANGED faults

Fault == faults < MaxFaults /\ faults' = faults + 1

(* The commit took place, and its answer is lost.                          *)
CommitLost(r) ==
  /\ phase[r] = "record"
  /\ version[r] \notin applied
  /\ Committed(r)
  /\ Fault
  /\ Stops(r)

(* The process dies, is told to stop while it starts, or a statement fails *)
(* (two replicas that create one table at once may make one of them fail). *)
Crash(r) ==
  /\ phase[r] # "down"
  /\ Fault
  /\ Stops(r)
  /\ UNCHANGED <<applied, schema>>

MigrationStep(r, stored) ==
  Start(r) \/ Check(r) \/ Exec(r, stored) \/ Record(r)

-----------------------------------------------------------------------------
(* However the starts of the replicas interleave with each other, with     *)
(* crashes and with lost commits, the schema is that of the recorded       *)
(* versions, each run once and in order: no file that ran twice takes the  *)
(* schema back, and none is left out.                                      *)
SchemaIsApplied ==
  \E n \in 0..Last : applied = 1..n /\ schema = SchemaAfter[n]

(* Replicas that race for a migration lose and are started again, but each *)
(* of them comes to serve in the end, again after every stop.              *)
ServersComeUp == \A r \in Replicas : []<>(phase[r] = "serve")
=============================================================================
