---------------------------- MODULE MCCronStore ----------------------------
(* Cron a matches every minute, cron b every second one.                   *)
EXTENDS CronStore

CONSTANTS a, b

MCSchedule == [c \in Crons |-> IF c = a THEN 0..8 ELSE {1, 3, 5, 7}]
=============================================================================
