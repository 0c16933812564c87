---------------------------- MODULE JobRefinement ---------------------------
(***************************************************************************)
(* The tables of JobStore implement JobLifecycle.  The status column gives *)
(* the state of a job, max_attempts its budget, and its rows of            *)
(* job_attempts its log.                                                   *)
(***************************************************************************)
EXTENDS JobStore

StateOf(status) ==
  CASE status \in Claimable -> "waiting"
    [] status \in {"failed", "dead_letter"} -> "dead"
    [] OTHER -> status

OutcomeOf(j, n) ==
  (CHOOSE a \in attempts : a.job = j /\ a.number = n).status

LifeOf(j) ==
  [ state  |-> StateOf(jobs[j].status),
    budget |-> jobs[j].maxAttempts,
    tries  |-> jobs[j].attemptCount,
    log    |-> [n \in 1..jobs[j].attemptCount |-> OutcomeOf(j, n)] ]

Lifecycle == INSTANCE JobLifecycle
  WITH Budgets <- MaxAttempts, Bound <- AttemptBound,
       life <- [j \in Jobs |-> LifeOf(j)]

(* Whatever workers, schedulers and operators do, and however late or      *)
(* often, each job goes through the lifecycle a submitter is promised: one *)
(* attempt at a time, none beyond the budget, no outcome changed           *)
(* afterwards, a job buried only when its budget is used up, and one that  *)
(* succeeded never opened again.                                           *)
ImplementsLifecycle == Lifecycle!Spec
=============================================================================
