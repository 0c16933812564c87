------------------------------ MODULE ApiServer -----------------------------
(***************************************************************************)
(* The API servers as a whole: replicas that migrate the database, serve   *)
(* requests, stop when told to and die at any time (newServerCommand of    *)
(* cmd/pulsequeue/main.go), the requests they serve, and the cron fires of *)
(* the schedulers.  A replica that serves meets replicas that still        *)
(* migrate; what a request writes must fit the schema they leave.          *)
(***************************************************************************)
EXTENDS Migrations, Submission, FiniteSets

vars == <<migrationVars, submissionVars>>

Init ==
  /\ MigrationsInit
  /\ SubmissionInit

(* The handlers under way, and the replicas they may be running in.        *)
InFlight == {q \in Requests : req[q].at \in Working}
Serving(r) == phase[r] \in {"serve", "closing"}

(* Statements on jobs wait for a migration that holds its locks.           *)
Unlocked == Migrating = {}

(* The statements of this release use what all files together create, and  *)
(* fail otherwise.                                                         *)
Complete == schema = SchemaAfter[Last]

(* A request arrives at a replica that listens.                            *)
Arrive(q, r) ==
  /\ phase[r] = "serve"
  /\ \/ \E f \in Forms : Submit(q, f)
     \/ \E i \in Ids, op \in {"cancel", "retry"} : Operate(q, i, op)
  /\ UNCHANGED migrationVars

(* A handler executes its next statement.                                  *)
Statement(q) ==
  \/ Insert(q) \/ Select(q) \/ Cancel(q) \/ Retry(q)
  \/ \E written \in BOOLEAN : Announce(q, written)

Handle(q) ==
  /\ Unlocked
  /\ IF Complete THEN Statement(q) ELSE Fails(q)
  /\ UNCHANGED migrationVars

(* The database fails, or its answer is lost.                              *)
HandleFails(q) ==
  /\ Unlocked
  /\ Complete
  /\ InsertLost(q) \/ Fails(q)
  /\ Fault
  /\ UNCHANGED <<phase, version, applied, schema>>

(* The transaction of a scheduler, and its rollback.                       *)
CronFires(k) ==
  /\ \/ Unlocked /\ Complete /\ CronInsert(k)
     \/ CronEnds(k, TRUE)
  /\ UNCHANGED migrationVars

CronFails(k) ==
  /\ CronEnds(k, FALSE)
  /\ Fault
  /\ UNCHANGED <<phase, version, applied, schema>>

(* The handlers of a process that ends are cut off: some of those under    *)
(* way, and all of them when no other process is left.                     *)
CutOff(r) ==
  \E S \in SUBSET InFlight :
    /\ S = {} \/ Serving(r)
    /\ (\A s \in Replicas \ {r} : ~ Serving(s)) => S = InFlight
    /\ req' = [q \in Requests |->
                 IF q \in S THEN [Idle EXCEPT !.at = "cut"] ELSE req[q]]
    /\ UNCHANGED <<table, announced, open>>

Dies(r) == (Crash(r) \/ CommitLost(r)) /\ CutOff(r)

(* SIGTERM: httpServer.Shutdown closes the listener and waits for the      *)
(* handlers, at most ten seconds.                                          *)
Shutdown(r) ==
  /\ phase[r] = "serve"
  /\ Goto(r, "closing")
  /\ UNCHANGED <<version, applied, schema, faults, submissionVars>>

Exit(r) ==
  /\ phase[r] = "closing"
  /\ Stops(r)
  /\ CutOff(r)
  /\ UNCHANGED <<applied, schema, faults>>

Migrate(r) ==
  /\ open = {} \/ phase[r] # "exec"   \* every file waits for writers of jobs
  /\ MigrationStep(r, Stored)
  /\ UNCHANGED submissionVars

Next ==
  \/ \E q \in Requests :
       \/ \E r \in Replicas : Arrive(q, r)
       \/ Handle(q)
       \/ HandleFails(q)
  \/ \E k \in CronKeys : CronFires(k) \/ CronFails(k)
  \/ \E r \in Replicas : Migrate(r) \/ Dies(r) \/ Shutdown(r) \/ Exit(r)

(* Processes run and are started again, and transactions end.              *)
Fairness ==
  /\ \A r \in Replicas : WF_vars(Migrate(r)) /\ WF_vars(Exit(r))
  /\ \A k \in CronKeys : WF_vars(CronFires(k))

Spec == Init /\ [][Next]_vars /\ Fairness
-----------------------------------------------------------------------------
(* Every variable keeps its type, and the bound on faults is kept.         *)
TypeOK ==
  /\ phase \in [Replicas -> Phases]
  /\ version \in [Replicas -> 1..(Last + 1)]
  /\ applied \subseteq 1..Last
  /\ faults \in 0..MaxFaults
  /\ \A i \in Ids : table[i].maxAttempts > 0
  /\ \A q \in Requests :
       /\ req[q].at \in {"idle"} \cup Working \cup Ended
       /\ req[q].form \in Forms \cup {Null}
       /\ req[q].job \in Ids \cup {Null}
  /\ announced \subseteq Ids \X Requests
  /\ open \subseteq CronKeys

(* A request fails only when the database does: not because another        *)
(* replica is still migrating, because a constraint does not know a status *)
(* or because the row that was in the way of an INSERT cannot be found.    *)
FailsOnlyByFault ==
  Cardinality({q \in Requests : req[q].at = "failed"}) <= faults
=============================================================================
