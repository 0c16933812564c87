---------------------------- MODULE JobLifecycle ----------------------------
(***************************************************************************)
(* What a submitter is promised about a job, without tables, leases,       *)
(* workers or clocks: an accepted job is attempted, one attempt at a time, *)
(* as often as its budget allows and no more, until an attempt succeeds,   *)
(* the budget is used up or somebody cancels it; only an operator opens an *)
(* ended job again, and never one that succeeded.                          *)
(*                                                                         *)
(* The tables of JobStore are shown to implement it.                       *)
(***************************************************************************)
EXTENDS Integers

CONSTANTS
  Jobs,     \* ids of jobs
  Budgets,  \* numbers of attempts that a submitter may ask for
  Bound     \* largest number of attempts a job can ever have

VARIABLE life  \* the life of every job

(* log has the outcome of each of the tries, in the order they were made.  *)
New(b) == [state |-> "waiting", budget |-> b, tries |-> 0, log |-> <<>>]
Unborn == [New(0) EXCEPT !.state = "absent"]

HasTry(l) == l.tries < l.budget

(* The attempt under way ends, all others stay as they are.                *)
Ended(l, outcome) == [l.log EXCEPT ![l.tries] = outcome]

-----------------------------------------------------------------------------
(* The moves of one job, from l to m.                                      *)

Accept(l, m) ==
  /\ l.state = "absent"
  /\ \E b \in Budgets : m = New(b)

Begin(l, m) ==
  /\ l.state = "waiting"
  /\ HasTry(l)
  /\ m = [l EXCEPT !.state = "running",
                   !.tries = @ + 1,
                   !.log = [n \in 1..(l.tries + 1) |->
                              IF n <= l.tries THEN @[n] ELSE "running"]]

Succeed(l, m) ==
  /\ l.state = "running"
  /\ m = [l EXCEPT !.state = "succeeded", !.log = Ended(l, "succeeded")]

(* A failed attempt is followed by another one exactly while the budget    *)
(* lasts.                                                                  *)
Fail(l, m) ==
  /\ l.state = "running"
  /\ m = [l EXCEPT !.state = IF HasTry(l) THEN "waiting" ELSE "dead",
                   !.log = Ended(l, "failed")]

Cancel(l, m) ==
  /\ l.state = "waiting"
  /\ m = [l EXCEPT !.state = "cancelled"]

(* An operator gives an ended job at least one more attempt.               *)
Reopen(l, m) ==
  /\ l.state \in {"dead", "cancelled"}
  /\ l.tries < Bound
  /\ m = [l EXCEPT !.state = "waiting",
                   !.budget = IF HasTry(l) THEN @ ELSE l.tries + 1]

Move(l, m) ==
  \/ Accept(l, m) \/ Begin(l, m) \/ Succeed(l, m)
  \/ Fail(l, m) \/ Cancel(l, m) \/ Reopen(l, m)

-----------------------------------------------------------------------------
Init == life = [j \in Jobs |-> Unborn]

(* Jobs live independently: a step may move any of them.                   *)
Next ==
  /\ DOMAIN life' = Jobs
  /\ \A j \in Jobs : life'[j] = life[j] \/ Move(life[j], life'[j])

Spec == Init /\ [][Next]_life
=============================================================================
