----------------------------- MODULE MCJobStore -----------------------------
(* Two jobs, two workers, two queues would only rename a job's queue, so   *)
(* one queue; attempts up to AttemptBound, so that operator retries run    *)
(* into the bound of the column.                                           *)
EXTENDS JobRefinement, TLC

MCBackoff == [n \in 1..AttemptBound |-> n - 1]

Perms == Permutations(Jobs) \cup Permutations(Workers)
=============================================================================
