----------------------------- MODULE Submission -----------------------------
(***************************************************************************)
(* The requests that write jobs: handleCreateJob, handleRetryJob and       *)
(* handleCancelJob of internal/api/server.go over CreateJob, RetryJob and  *)
(* CancelJob of internal/storage/storage.go, statement by statement.  Any  *)
(* number of requests is under way at once, and a client that got no       *)
(* answer sends another one: a retry is one more request with the same     *)
(* idempotency key.  A cron fire inserts into the same table under keys of *)
(* its own, which a client may use too.                                    *)
(***************************************************************************)
EXTENDS Integers, Sequences

CONSTANTS
  Requests,  \* HTTP requests
  Forms,     \* bodies that clients send to POST /jobs
  TrimSpace, \* the idempotency key of a body without its white space
  CronKeys,  \* keys that cron fires insert
  Null       \* no key, no row

(* A body has an idempotency key and asks for a delay and a number of      *)
(* attempts; it is well formed if it and its payload are JSON, it names a  *)
(* type and its timeout is not negative.                                   *)
ASSUME SubmissionAssumption ==
  /\ Forms \subseteq [key : DOMAIN TrimSpace, wellFormed : BOOLEAN, delay : Int,
                      attempts : Int]
  /\ Null \notin Nat

VARIABLES
  table,     \* rows of jobs in the order they were committed
  req,       \* the requests
  announced, \* submissions that were logged, and by which request
  open       \* keys that a cron fire has inserted and not committed

submissionVars == <<table, req, announced, open>>

Idle == [at |-> "idle", form |-> Null, job |-> Null, existing |-> FALSE]

(* What a handler does next, and how a request ends.                       *)
Working == {"insert", "select", "announce", "cancel", "retry"}
Ended == {"accepted", "refused", "failed", "done", "cut"}

Ids == 1..Len(table)
Stored == {table[i].status : i \in Ids}

SubmissionInit ==
  /\ table = <<>>
  /\ req = [q \in Requests |-> Idle]
  /\ announced = {}
  /\ open = {}

To(q, at) == req' = [req EXCEPT ![q].at = at]

(* The request ends without naming a job.                                  *)
Gone(q, at) == req' = [req EXCEPT ![q] = [Idle EXCEPT !.at = at]]

-----------------------------------------------------------------------------
(* POST /jobs.                                                             *)

(* The checks of handleCreateJob and of CreateJob before any statement.    *)
Valid(f) == f.wellFormed /\ f.delay >= 0

Submit(q, f) ==
  /\ req[q].at = "idle"
  /\ IF Valid(f)
     THEN req' = [req EXCEPT ![q].at = "insert", ![q].form = f]
     ELSE Gone(q, "refused")
  /\ UNCHANGED <<table, announced, open>>

MutKeyOf(f) == f.key
KeyOf(f) == TrimSpace[f.key]

RowsWith(k) == {i \in Ids : k # Null /\ table[i].key = k}

NewRow(k, attempts) ==
  [key |-> k, status |-> "queued",
   maxAttempts |-> IF attempts <= 0 THEN 1 ELSE attempts]

(* INSERT INTO jobs ... ON CONFLICT (idempotency_key) DO NOTHING waits for *)
(* a transaction that has inserted the key.                                *)
Inserted(q) ==
  LET k == KeyOf(req[q].form)
  IN /\ req[q].at = "insert"
     /\ k \notin open
     /\ table' = IF RowsWith(k) = {}
                 THEN Append(table, NewRow(k, req[q].form.attempts))
                 ELSE table
     /\ UNCHANGED <<announced, open>>

(* No row comes back for a key that exists: CreateJob goes on to SELECT    *)
(* it.                                                                     *)
MutInsert(q) ==
  /\ Inserted(q)
  /\ req' = [req EXCEPT
       ![q].at  = IF RowsWith(KeyOf(req[q].form)) # {} THEN "select" ELSE "announce",
       ![q].job = Len(table) + 1]
Insert(q) ==
  /\ Inserted(q)
  /\ req' = [req EXCEPT
       ![q].at  = IF RowsWith(KeyOf(req[q].form)) # {} THEN "select" ELSE "announce",
       ![q].job = IF RowsWith(KeyOf(req[q].form)) # {} THEN Null
                  ELSE Len(table) + 1]

(* The row is committed, and the handler gets an error: the connection     *)
(* broke, or the client went away and with it the context.                 *)
InsertLost(q) == Inserted(q) /\ Gone(q, "failed")

(* SELECT ... WHERE idempotency_key = $1, a statement of its own.          *)
MutSelect(q) ==
  /\ req[q].at = "select"
  /\ \E i \in RowsWith(KeyOf(req[q].form)) :
       req' = [req EXCEPT ![q].at = "announce", ![q].job = i]
  /\ UNCHANGED <<table, announced, open>>
Select(q) ==
  /\ req[q].at = "select"
  /\ LET rows == RowsWith(KeyOf(req[q].form))
     IN IF rows = {}
        THEN Gone(q, "failed")
        ELSE \E i \in rows :
               req' = [req EXCEPT ![q].at = "accepted",
                                  ![q].job = i,
                                  ![q].existing = TRUE]
  /\ UNCHANGED <<table, announced, open>>

(* A new job is signalled unless it is delayed, and AppendJobLog writes    *)
(* "job submitted"; the failure of either is only logged, and the answer   *)
(* is 201.  Dispatch has what becomes of the signal.                       *)
Announce(q, written) ==
  /\ req[q].at = "announce"
  /\ To(q, "accepted")
  /\ announced' = IF written THEN announced \cup {<<req[q].job, q>>} ELSE announced
  /\ UNCHANGED <<table, open>>

-----------------------------------------------------------------------------
(* POST /jobs/{id}/cancel and /retry.                                      *)

Operate(q, i, op) ==
  /\ req[q].at = "idle"
  /\ req' = [req EXCEPT ![q].at = op, ![q].job = i]
  /\ UNCHANGED <<table, announced, open>>

(* The transaction of CancelJob or RetryJob; another status is refused.    *)
(* handleRetryJob publishes a signal before it answers.                    *)
Transact(q, op, from, to) ==
  /\ req[q].at = op
  /\ IF table[req[q].job].status \in from
     THEN /\ table' = [table EXCEPT ![req[q].job].status = to]
          /\ Gone(q, "done")
     ELSE /\ Gone(q, "refused")
          /\ UNCHANGED table
  /\ UNCHANGED <<announced, open>>

Cancel(q) == Transact(q, "cancel", {"queued", "retry_scheduled"}, "cancelled")
Retry(q) == Transact(q, "retry", {"failed", "dead_letter", "cancelled"}, "queued")

(* A statement fails and rolls back.                                       *)
Fails(q) ==
  /\ req[q].at \in {"insert", "select", "cancel", "retry"}
  /\ Gone(q, "failed")
  /\ UNCHANGED <<table, announced, open>>

-----------------------------------------------------------------------------
(* FireDueCronJobs: the insert of a fire, and the end of its transaction.  *)
(* ON CONFLICT ... DO UPDATE returns a row that exists and leaves it as it *)
(* is, so a fire whose key exists is no step.                              *)

CronInsert(k) ==
  /\ k \notin open
  /\ RowsWith(k) = {}
  /\ open' = open \cup {k}
  /\ UNCHANGED <<table, req, announced>>

CronEnds(k, commits) ==
  /\ k \in open
  /\ open' = open \ {k}
  /\ table' = IF commits THEN Append(table, NewRow(k, 1)) ELSE table
  /\ UNCHANGED <<req, announced>>

-----------------------------------------------------------------------------
Accepted == {q \in Requests : req[q].at = "accepted"}

(* Requests with one key, whitespace aside, are all answered with one job, *)
(* which has the key; at most one of them is told that the job is new; and *)
(* no two rows share a key, whoever inserted them.                         *)
OneJobPerKey ==
  /\ \A q \in Accepted : /\ req[q].job \in Ids
                         /\ table[req[q].job].key = KeyOf(req[q].form)
  /\ \A p, q \in Accepted :
       /\ TrimSpace[req[p].form.key] = TrimSpace[req[q].form.key]
       /\ TrimSpace[req[p].form.key] # Null
       => /\ req[p].job = req[q].job
          /\ p # q => req[p].existing \/ req[q].existing
  /\ \A i, j \in Ids : table[i].key = table[j].key /\ table[i].key # Null => i = j

(* A submission without a key never shares its job with another one, and a *)
(* job is logged as submitted at most once, by the request that inserted   *)
(* it.                                                                     *)
AnnouncedOnce ==
  /\ \A a, b \in announced : a[1] = b[1] => a = b
  /\ \A a \in announced : ~ req[a[2]].existing
  /\ \A p, q \in Accepted :
       KeyOf(req[p].form) = Null /\ req[p].job = req[q].job => p = q
=============================================================================
