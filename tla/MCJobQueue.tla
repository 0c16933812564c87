----------------------------- MODULE MCJobQueue -----------------------------
(* Worker processes p1 and p2, with one goroutine each, around the jobs of *)
(* one queue.  The two processes have ids of their own, or share one.      *)
EXTENDS JobQueue, TLC

CONSTANTS p1, p2, w1, w2, q

OwnIds == (p1 :> w1) @@ (p2 :> w2)
OneId  == (p1 :> w1) @@ (p2 :> w1)
OneQueue == [p \in Procs |-> q]

MCBackoff == [n \in 1..AttemptBound |-> n]
=============================================================================
