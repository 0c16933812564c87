----------------------------- MODULE Scheduler ------------------------------
(***************************************************************************)
(* How one queue is kept moving from outside its workers: API servers that *)
(* commit a job and then publish a signal (internal/api/server.go), and    *)
(* schedulers whose tick fires crons, recovers expired leases, lists the   *)
(* queues that have due jobs and publishes a signal for each               *)
(* (internal/scheduler/scheduler.go).  The other queues are left out: what *)
(* they do to this one is to crowd it out of a limited list.               *)
(*                                                                         *)
(* The steps of a tick are transactions of their own, and an error of any  *)
(* of them ends the tick: what it put into its map so far is not signalled.*)
(***************************************************************************)
EXTENDS Integers, FiniteSets

CONSTANTS
  Jobs,        \* jobs of the queue
  CronJobs,    \* those that a cron inserts
  Schedulers,  \* scheduler replicas
  MaxTries,    \* max_attempts, by job
  Batch,       \* PULSEQUEUE_SCHEDULER_BATCH_SIZE
  MaxSignals   \* bound on the signals under way in NATS: more count as that many

ASSUME SchedulerAssumption ==
  /\ CronJobs \subseteq Jobs
  /\ MaxTries \in [Jobs -> Nat \ {0}]
  /\ Batch \in Nat \ {0}
  /\ MaxSignals \in Nat \ {0}

VARIABLES
  at,      \* where a job is
  tries,   \* attempt_count
  silent,  \* jobs committed by an API server that has not published yet
  net,     \* signals published and not delivered
  owed,    \* jobs are due, one was signalled, and no signal was lost since
  step,    \* the next step of the tick, by scheduler
  signal   \* whether the tick has the queue in its map

jobVars == <<at, tries>>
tickVars == <<step, signal>>

(* A signal more on its way.                                               *)
OneMore(n) == IF n < MaxSignals THEN n + 1 ELSE n

JobStates == {"new", "waiting", "due", "busy", "expired", "ended"}
Steps == {"fire", "recover", "list", "publish"}

In(x) == {j \in Jobs : at[j] = x}

SchedulerInit ==
  /\ at = [j \in Jobs |-> "new"]
  /\ tries = [j \in Jobs |-> 0]
  /\ silent = {}
  /\ net = 0
  /\ owed = FALSE
  /\ step = [s \in Schedulers |-> "fire"]
  /\ signal = [s \in Schedulers |-> FALSE]

-----------------------------------------------------------------------------
(* API servers.                                                            *)

(* handleCreateJob without a delay: the row is committed, then a signal is *)
(* published.                                                              *)
Submit(j) ==
  /\ at[j] = "new"
  /\ j \notin CronJobs
  /\ at' = [at EXCEPT ![j] = "due"]
  /\ silent' = silent \cup {j}
  /\ UNCHANGED <<tries, net, owed, tickVars>>

MutPublish(j) ==
  /\ j \in silent
  /\ silent' = silent \ {j}
  /\ owed' = (owed \/ at[j] = "due")
  /\ UNCHANGED <<jobVars, net, tickVars>>
Publish(j) ==
  /\ j \in silent
  /\ silent' = silent \ {j}
  /\ net' = OneMore(net)
  /\ owed' = (owed \/ at[j] = "due")
  /\ UNCHANGED <<jobVars, tickVars>>

(* The API server stops, or its publish fails, after the commit.           *)
PublishFails(j) ==
  /\ j \in silent
  /\ silent' = silent \ {j}
  /\ UNCHANGED <<jobVars, net, owed, tickVars>>

(* A delayed submission sends no signal of its own.                        *)
Schedule(j) ==
  /\ at[j] = "new"
  /\ j \notin CronJobs
  /\ at' = [at EXCEPT ![j] = "waiting"]
  /\ UNCHANGED <<tries, silent, net, owed, tickVars>>

(* available_at <= now()                                                   *)
BecomeDue(j) ==
  /\ at[j] = "waiting"
  /\ at' = [at EXCEPT ![j] = "due"]
  /\ UNCHANGED <<tries, silent, net, owed, tickVars>>

(* CancelJob takes a job that waits away from the workers.  A job that an  *)
(* operator retries is one more job here.                                  *)
Cancel(j) ==
  /\ at[j] \in {"waiting", "due"}
  /\ at' = [at EXCEPT ![j] = "ended"]
  /\ owed' = (owed /\ In("due") # {j})
  /\ UNCHANGED <<tries, silent, net, tickVars>>

-----------------------------------------------------------------------------
(* The tick of a scheduler.                                                *)

(* tick adds the queue to its map if b, and goes on to step x.             *)
Goes(s, b, x) ==
  /\ signal' = [signal EXCEPT ![s] = @ \/ b]
  /\ step' = [step EXCEPT ![s] = x]
  /\ UNCHANGED silent

(* tick returns and the loop waits for its ticker; the next tick starts    *)
(* with an empty map.                                                      *)
Returns(s) ==
  /\ step' = [step EXCEPT ![s] = "fire"]
  /\ signal' = [signal EXCEPT ![s] = FALSE]
  /\ UNCHANGED silent

(* The error of a step ends the tick, and so does a crash of the process.  *)
TickFails(s) ==
  /\ Returns(s)
  /\ UNCHANGED <<jobVars, net, owed>>

(* FireDueCronJobs inserts the jobs F of due crons.                        *)
Fires(s, F) ==
  /\ step[s] = "fire"
  /\ F \subseteq CronJobs \cap In("new")
  /\ at' = [j \in Jobs |-> IF j \in F THEN "due" ELSE at[j]]
  /\ Goes(s, F # {}, "recover")
  /\ UNCHANGED <<tries, net, owed>>

(* RecoverExpiredJobs takes up to Batch rows and passes over those that    *)
(* others have locked, so it may take none; a job with attempts left is    *)
(* due at once, and only then is its queue signalled.                      *)
MutAfterExpiry(j) == IF tries[j] <= MaxTries[j] THEN "due" ELSE "ended"
AfterExpiry(j) == IF tries[j] < MaxTries[j] THEN "due" ELSE "ended"

Recovers(s, S) ==
  /\ step[s] = "recover"
  /\ S \subseteq In("expired")
  /\ Cardinality(S) <= Batch
  /\ at' = [j \in Jobs |-> IF j \in S THEN AfterExpiry(j) ELSE at[j]]
  /\ Goes(s, \E j \in S : AfterExpiry(j) = "due", "list")
  /\ UNCHANGED <<tries, net, owed>>

(* ListDueQueues returns the first queues by name: others may crowd this   *)
(* one out.                                                                *)
MutLists(s, crowded) ==
  /\ step[s] = "list"
  /\ Goes(s, FALSE, "publish")
  /\ UNCHANGED <<jobVars, net, owed>>
Lists(s, crowded) ==
  /\ step[s] = "list"
  /\ Goes(s, In("due") # {} /\ ~ crowded, "publish")
  /\ UNCHANGED <<jobVars, net, owed>>

(* PublishJobAvailable for the queues in the map.  Its error is logged,    *)
(* which leaves everything as TickFails does.                              *)
Publishes(s) ==
  /\ step[s] = "publish"
  /\ IF signal[s]
     THEN /\ net' = OneMore(net)
          /\ owed' = (In("due") # {})
     ELSE UNCHANGED <<net, owed>>
  /\ Returns(s)
  /\ UNCHANGED jobVars

(* A recovery that finds a row free when there is one.                     *)
RecoversSome(s) ==
  \E S \in SUBSET Jobs : (S # {} \/ In("expired") = {}) /\ Recovers(s, S)

TickStep(s) ==
  \/ TickFails(s)
  \/ \E F \in SUBSET CronJobs : Fires(s, F)
  \/ \E S \in SUBSET Jobs : Recovers(s, S)
  \/ \E crowded \in BOOLEAN : Lists(s, crowded)
  \/ Publishes(s)

SchedulerNext ==
  \/ \E j \in Jobs : \/ Submit(j) \/ Publish(j) \/ PublishFails(j)
                     \/ Schedule(j) \/ BecomeDue(j) \/ Cancel(j)
  \/ \E s \in Schedulers : TickStep(s)
=============================================================================
