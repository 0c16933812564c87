------------------------------ MODULE Dispatch ------------------------------
(***************************************************************************)
(* How a worker learns that a job is due: the NATS signals that Scheduler  *)
(* publishes (internal/signals/nats.go), the wake channel of a worker      *)
(* process and the loop of its slots (internal/worker/worker.go).  Signals *)
(* are lost, rows are locked by others, ticks fail and worker processes    *)
(* crash at any time.                                                      *)
(***************************************************************************)
EXTENDS Scheduler

CONSTANTS
  Procs,        \* worker processes of the queue group
  Concurrency   \* slots of a process and capacity of its wake channel

ASSUME DispatchAssumption ==
  /\ Concurrency \in Nat \ {0}
  /\ {"drain", "wait"} \cap Jobs = {}

VARIABLES
  pushes,  \* sends that signalWake has still to try, by process and caller
  wake,    \* length of the wake channel, by process
  slot     \* drain, wait or the job that it executes, by process and slot

workerVars == <<pushes, wake, slot>>
schedulerVars == <<at, tries, silent, net, owed, step, signal>>
vars == <<schedulerVars, workerVars>>

Slots == 1..Concurrency

(* Run calls signalWake once, after it has subscribed; NATS calls it for   *)
(* every signal, one after the other.                                      *)
Callers == {"run", "nats"}
AtStart == [c \in Callers |-> IF c = "run" THEN Concurrency ELSE 0]

Init ==
  /\ SchedulerInit
  /\ pushes = [p \in Procs |-> AtStart]
  /\ wake = [p \in Procs |-> 0]
  /\ slot = [p \in Procs |-> [s \in Slots |-> "drain"]]

-----------------------------------------------------------------------------
(* NATS delivers a signal to one process of the queue group, or loses it.  *)

Deliver(p) ==
  /\ net > 0
  /\ pushes[p]["nats"] = 0
  /\ net' = net - 1
  /\ pushes' = [pushes EXCEPT ![p]["nats"] = Concurrency]
  /\ UNCHANGED <<jobVars, silent, owed, tickVars, wake, slot>>

Lose ==
  /\ net > 0
  /\ net' = net - 1
  /\ owed' = FALSE
  /\ UNCHANGED <<jobVars, silent, tickVars, workerVars>>

(* One iteration of signalWake: it returns when the channel is full.       *)
Push(p, c) ==
  /\ pushes[p][c] > 0
  /\ IF wake[p] < Concurrency
     THEN /\ wake' = [wake EXCEPT ![p] = @ + 1]
          /\ pushes' = [pushes EXCEPT ![p][c] = @ - 1]
     ELSE /\ pushes' = [pushes EXCEPT ![p][c] = 0]
          /\ UNCHANGED wake
  /\ UNCHANGED <<schedulerVars, slot>>

-----------------------------------------------------------------------------
(* A slot: workLoop, drain and execute.                                    *)

Goto(p, s, x) == slot' = [slot EXCEPT ![p][s] = x]

Claim(p, s, j) ==
  /\ slot[p][s] = "drain"
  /\ at[j] = "due"
  /\ at' = [at EXCEPT ![j] = "busy"]
  /\ tries' = [tries EXCEPT ![j] = @ + 1]
  /\ owed' = (owed /\ In("due") # {j})
  /\ Goto(p, s, j)
  /\ UNCHANGED <<silent, net, tickVars, pushes, wake>>

(* ClaimJob finds no row and drain returns.                                *)
Empty(p, s) ==
  /\ slot[p][s] = "drain"
  /\ In("due") = {}
  /\ Goto(p, s, "wait")
  /\ UNCHANGED <<schedulerVars, pushes, wake>>

(* SKIP LOCKED: every due row is locked by a transaction that rolls back,  *)
(* or ClaimJob fails; drain returns although jobs are due.                 *)
SkipLocked(p, s) ==
  /\ slot[p][s] = "drain"
  /\ In("due") # {}
  /\ Goto(p, s, "wait")
  /\ owed' = FALSE
  /\ UNCHANGED <<jobVars, silent, net, tickVars, pushes, wake>>

(* execute returns and drain asks for the next job before it waits.  The   *)
(* attempt succeeded or failed for good, or is retried after a delay.      *)
Finish(p, s, j) ==
  /\ slot[p][s] = j
  /\ \/ at' = [at EXCEPT ![j] = "ended"]
     \/ /\ tries[j] < MaxTries[j]
        /\ at' = [at EXCEPT ![j] = "waiting"]
  /\ Goto(p, s, "drain")
  /\ UNCHANGED <<tries, silent, net, owed, tickVars, pushes, wake>>

Awake(p, s) ==
  /\ slot[p][s] = "wait"
  /\ wake[p] > 0
  /\ wake' = [wake EXCEPT ![p] = @ - 1]
  /\ Goto(p, s, "drain")
  /\ UNCHANGED <<schedulerVars, pushes>>

Poll(p, s) ==
  /\ slot[p][s] = "wait"
  /\ Goto(p, s, "drain")
  /\ UNCHANGED <<schedulerVars, pushes, wake>>

(* The process dies and is started again; the leases of its jobs run out.  *)
Crash(p) ==
  /\ at' = [j \in Jobs |-> IF \E s \in Slots : slot[p][s] = j THEN "expired" ELSE at[j]]
  /\ slot' = [slot EXCEPT ![p] = [s \in Slots |-> "drain"]]
  /\ wake' = [wake EXCEPT ![p] = 0]
  /\ pushes' = [pushes EXCEPT ![p] = AtStart]
  /\ UNCHANGED <<tries, silent, net, owed, tickVars>>

Next ==
  \/ SchedulerNext /\ UNCHANGED workerVars
  \/ Lose
  \/ \E p \in Procs :
       \/ Deliver(p)
       \/ \E c \in Callers : Push(p, c)
       \/ Crash(p)
       \/ \E s \in Slots :
            \/ \E j \in Jobs : Claim(p, s, j) \/ Finish(p, s, j)
            \/ Empty(p, s) \/ SkipLocked(p, s)
            \/ Awake(p, s) \/ Poll(p, s)

Spec == Init /\ [][Next]_vars

(* Slots keep running and handlers return.  Claims that found the rows     *)
(* locked again and again do find one free in the end.  Time passes.       *)
SlotFairness ==
  /\ WF_vars(\E j \in Jobs : BecomeDue(j) /\ UNCHANGED workerVars)
  /\ SF_vars(\E p \in Procs, s \in Slots, j \in Jobs : Claim(p, s, j))
  /\ \A p \in Procs :
       /\ WF_vars(\E c \in Callers : Push(p, c))
       /\ WF_vars(\E s \in Slots : Empty(p, s) \/ Awake(p, s))
       /\ WF_vars(\E s \in Slots, j \in Jobs : Finish(p, s, j))

(* Schedulers tick for ever, and not every recovery fails or finds all the *)
(* expired rows locked.  A ticking scheduler is at its recovery infinitely *)
(* often, so that this is strong fairness of RecoversSome; likewise for    *)
(* the listing below.                                                      *)
TickFairness ==
  \A s \in Schedulers :
    /\ WF_vars(TickStep(s) /\ UNCHANGED workerVars)
    /\ []<><<RecoversSome(s) /\ UNCHANGED workerVars>>_vars

(* Some ticks list the queue, some publish it, and NATS delivers some of   *)
(* the signals; no ticker is used.                                         *)
SignalFairness ==
  /\ \A s \in Schedulers :
       /\ []<><<Lists(s, FALSE) /\ UNCHANGED workerVars>>_vars
       /\ SF_vars(signal[s] /\ Publishes(s) /\ UNCHANGED workerVars)
  /\ SF_vars(\E p \in Procs : Deliver(p))

(* The poll ticker fires; nothing is assumed of signals.                   *)
PollFairness == \A p \in Procs : WF_vars(\E s \in Slots : Poll(p, s))

FairSpec ==
  /\ Spec /\ SlotFairness /\ TickFairness
  /\ SignalFairness \/ PollFairness
-----------------------------------------------------------------------------
(* The job states and counters keep their types; attempts stay within      *)
(* max_attempts, and the wake channel never holds more than its capacity.  *)
TypeOK ==
  /\ at \in [Jobs -> JobStates]
  /\ tries \in [Jobs -> Nat]
  /\ \A j \in Jobs : tries[j] <= MaxTries[j]
  /\ silent \subseteq Jobs
  /\ owed \in BOOLEAN
  /\ net \in 0..MaxSignals
  /\ step \in [Schedulers -> Steps]
  /\ signal \in [Schedulers -> BOOLEAN]
  /\ pushes \in [Procs -> [Callers -> 0..Concurrency]]
  /\ wake \in [Procs -> 0..Concurrency]
  /\ slot \in [Procs -> [Slots -> {"drain", "wait"} \cup Jobs]]

(* Something will make a slot ask for a job.                               *)
SomeoneLooks ==
  \/ net > 0
  \/ \E p \in Procs :
       \/ \E c \in Callers : pushes[p][c] > 0
       \/ wake[p] > 0
       \/ \E s \in Slots : slot[p][s] # "wait"

(* No wake-up is lost between the commit of a job, the signal, the full    *)
(* wake channel and a slot about to sleep: while jobs are due, one of them *)
(* was signalled and no signal was lost, some slot is going to look.       *)
NoLostWakeup == owed => SomeoneLooks

(* Every job that entered the queue comes to its end, by signals without   *)
(* the poll ticker and by polling without a signal, although its attempts  *)
(* fail, workers crash and ticks end early: a due job is claimed, and one  *)
(* of a crashed worker is recovered by a later tick.                       *)
JobsEnd == \A j \in Jobs : at[j] # "new" ~> at[j] = "ended"
=============================================================================
