----------------------------- MODULE MCDispatch -----------------------------
(* A submitted job with two attempts and a cron's with one, a process with *)
(* two slots.                                                              *)
EXTENDS Dispatch

MCMaxTries == [j \in Jobs |-> IF j \in CronJobs THEN 1 ELSE 2]
=============================================================================
