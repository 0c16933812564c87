--------------------------- MODULE MCRetryPolicy ---------------------------
(* Durations up to one below the bound, so that a doubling can overflow;   *)
(* zero and negative ones, which Normalize replaces.                       *)
EXTENDS RetryPolicy

MCDurations == -1..15
MCAttempts == -1..6
=============================================================================
