------------------------------ MODULE JobQueue ------------------------------
(***************************************************************************)
(* The processes around the job tables: worker processes                   *)
(* (internal/worker/worker.go), scheduler replicas                         *)
(* (internal/scheduler/scheduler.go) and the operators behind the API.     *)
(*                                                                         *)
(* A worker process runs Slots copies of workLoop, a heartbeat goroutine   *)
(* and the main goroutine of Run, which waits for SIGTERM, drains and      *)
(* stops.  They share the atomic status and, with all other processes, the *)
(* tables of JobStore.  Every access to the tables is an action of         *)
(* JobStore; between two of them the processes interleave freely.          *)
(*                                                                         *)
(* Several processes may have the same worker id: IdOf need not be         *)
(* injective, since the id is the host name unless it is configured, and a *)
(* container restarted in place keeps its host name.                       *)
(***************************************************************************)
EXTENDS JobStore

CONSTANTS
  Procs,              \* worker processes
  Slots,              \* the goroutines of one process: 1..concurrency
  IdOf,               \* worker id of a process
  QueueOf,            \* queue a process serves
  HeartbeatInterval,  \* PULSEQUEUE_WORKER_HEARTBEAT_INTERVAL, in ticks
  Punctual,           \* processes whose heartbeats commit when they are due
  Mortal,             \* processes that may be stopped or killed
  Faults              \* which failures are explored, see FaultKinds

FaultKinds == {"crash", "restart", "dbError", "ackLost", "natsError"}

ASSUME ProcAssumption ==
  /\ IdOf \in [Procs -> Workers]
  /\ QueueOf \in [Procs -> Queues]
  /\ HeartbeatInterval \in Nat \ {0}
  /\ Punctual \subseteq Procs
  /\ Mortal \subseteq Procs
  /\ Faults \subseteq FaultKinds
  /\ Null \notin WorkerStatus

VARIABLES
  phase,   \* progress of Run, by process
  slot,    \* what each workLoop is doing, by process and slot
  beat,    \* status the heartbeat goroutine has loaded but not yet written
  due,     \* ticks until the heartbeat ticker fires
  ran      \* handler runs so far: job, token and how far the run got

procVars == <<phase, slot, beat, due, ran>>
qvars == <<vars, procVars>>

(* new: not started.  up: Run waits for SIGTERM.  draining: status says    *)
(* draining, slots still claim.  marked: the row says so too.  stopping:   *)
(* stopAccepting was called.  joined: wg.Wait returned and the heartbeat   *)
(* is cancelled.  exited: Run returned.  dead: the process was killed, or  *)
(* Run returned an error.                                                  *)
Phase == {"new", "up", "draining", "marked", "stopping", "joined", "exited", "dead"}
Accepting == {"up", "draining", "marked"}
Alive == {"up", "draining", "marked", "stopping"}

(* The heartbeat goroutine has a context of its own, which outlives the    *)
(* context of the accept loop: it ticks until the last slot has returned.  *)
MutTicking == Accepting
Ticking == Alive

(* idle: in drain, asking for a job.  claimed: execute was entered.        *)
(* handling: runHandler was called.  ok, err: it returned.  done: workLoop *)
(* returned.                                                               *)
Idle == [pc |-> "idle", job |-> Null, token |-> Null]
Done == [pc |-> "done", job |-> Null, token |-> Null]
Busy == {"claimed", "handling", "ok", "err"}

SlotState ==
  {Idle, Done} \cup [pc : Busy, job : Jobs, token : Nat]

HandlerRun == [job : Jobs, token : Nat, result : {"started", "ok", "err"}]

(* The slot after execute returns: drain asks for the next job unless the  *)
(* context of the accept loop is cancelled.                                *)
Released(p) == IF phase[p] = "stopping" THEN Done ELSE Idle

Put(p, s, state) == slot' = [slot EXCEPT ![p][s] = state]

-----------------------------------------------------------------------------
QInit ==
  /\ Init
  /\ phase = [p \in Procs |-> "new"]
  /\ slot = [p \in Procs |-> [s \in Slots |-> Idle]]
  /\ beat = [p \in Procs |-> Null]
  /\ due = [p \in Procs |-> 0]
  /\ ran = {}

(* Run begins with the registration of the worker.                         *)
Registers(p) ==
  /\ \/ phase[p] = "new"
     \/ phase[p] \in {"exited", "dead"} /\ "restart" \in Faults
  /\ RegisterWorker(IdOf[p])

(* It subscribes to signals and starts the heartbeat and the slots.        *)
Start(p) ==
  /\ Registers(p)
  /\ phase' = [phase EXCEPT ![p] = "up"]
  /\ slot' = [slot EXCEPT ![p] = [s \in Slots |-> Idle]]
  /\ beat' = [beat EXCEPT ![p] = Null]
  /\ due' = [due EXCEPT ![p] = 0]
  /\ UNCHANGED ran

(* The subscription fails: Run returns, and the row stays as registered.   *)
SubscribeFails(p) ==
  /\ "natsError" \in Faults
  /\ p \in Mortal
  /\ Registers(p)
  /\ phase' = [phase EXCEPT ![p] = "dead"]
  /\ slot' = [slot EXCEPT ![p] = [s \in Slots |-> Idle]]
  /\ beat' = [beat EXCEPT ![p] = Null]
  /\ UNCHANGED <<due, ran>>

(* The atomic status that the heartbeat reports.                           *)
MutStatusOf(p) == phase[p]
StatusOf(p) == IF phase[p] = "up" THEN "running" ELSE "draining"

(* The heartbeat goroutine loads the status, and later writes it.          *)
LoadStatus(p) ==
  /\ phase[p] \in Ticking
  /\ due[p] = 0 /\ beat[p] = Null
  /\ beat' = [beat EXCEPT ![p] = StatusOf(p)]
  /\ due' = [due EXCEPT ![p] = HeartbeatInterval]
  /\ UNCHANGED <<vars, phase, slot, ran>>

(* stopHeartbeat cancels a heartbeat under way unless its commit was       *)
(* already sent; the row lock it then holds makes the update to stopped    *)
(* wait, so it lands before Exit or not at all.                            *)
MutBeating == Alive \cup {"joined", "exited"}
Beating == Alive \cup {"joined"}

Heartbeat(p, lag) ==
  /\ phase[p] \in Beating
  /\ beat[p] # Null
  /\ HeartbeatWorker(IdOf[p], beat[p], lag)
  /\ beat' = [beat EXCEPT ![p] = Null]
  /\ UNCHANGED <<phase, slot, due, ran>>

HeartbeatError(p) ==
  /\ "dbError" \in Faults
  /\ phase[p] \in Ticking
  /\ beat[p] # Null
  /\ beat' = [beat EXCEPT ![p] = Null]
  /\ UNCHANGED <<vars, phase, slot, due, ran>>

-----------------------------------------------------------------------------
(* One slot.                                                               *)

Claim(p, s, j, lag) ==
  /\ phase[p] \in Accepting
  /\ slot[p][s] = Idle
  /\ ClaimJob(j, QueueOf[p], IdOf[p], lag)
  /\ Put(p, s, [pc |-> "claimed", job |-> j, token |-> issued'])
  /\ UNCHANGED <<phase, beat, due, ran>>

(* The claim commits but ClaimJob returns an error: the connection broke,  *)
(* or stopAccepting cancelled the context while the commit was under way.  *)
ClaimLost(p, s, j, lag) ==
  /\ \/ phase[p] \in Accepting /\ "ackLost" \in Faults
     \/ phase[p] = "stopping"
  /\ slot[p][s] = Idle
  /\ ClaimJob(j, QueueOf[p], IdOf[p], lag)
  /\ Put(p, s, Released(p))
  /\ UNCHANGED <<phase, beat, due, ran>>

(* workLoop sees the cancelled context.                                    *)
Leave(p, s) ==
  /\ phase[p] = "stopping"
  /\ slot[p][s] = Idle
  /\ Put(p, s, Done)
  /\ UNCHANGED <<vars, phase, beat, due, ran>>

BeginHandler(p, s) ==
  /\ phase[p] \in Alive
  /\ slot[p][s].pc = "claimed"
  /\ Put(p, s, [slot[p][s] EXCEPT !.pc = "handling"])
  /\ ran' = ran \cup {[job |-> slot[p][s].job, token |-> slot[p][s].token,
                       result |-> "started"]}
  /\ UNCHANGED <<vars, phase, beat, due>>

(* The handler returns, with an error when it fails or its timeout ends it.*)
EndHandler(p, s, result) ==
  /\ phase[p] \in Alive
  /\ slot[p][s].pc = "handling"
  /\ Put(p, s, [slot[p][s] EXCEPT !.pc = result])
  /\ ran' = ran \cup {[job |-> slot[p][s].job, token |-> slot[p][s].token,
                       result |-> result]}
  /\ UNCHANGED <<vars, phase, beat, due>>

(* execute after the handler: CompleteJob or FailJob with the lease token. *)
MutReport(p, s, lag) ==
  LET x == slot[p][s]
  IN /\ phase[p] \in Alive
     /\ \/ x.pc \in {"handling", "ok"} /\ CompleteJob(x.job, x.token)
        \/ x.pc = "err" /\ FailJob(x.job, x.token, lag)
     /\ Put(p, s, Released(p))
     /\ UNCHANGED <<phase, beat, due, ran>>
Report(p, s, lag) ==
  LET x == slot[p][s]
  IN /\ phase[p] \in Alive
     /\ \/ x.pc = "ok" /\ CompleteJob(x.job, x.token)
        \/ x.pc = "err" /\ FailJob(x.job, x.token, lag)
     /\ Put(p, s, Released(p))
     /\ UNCHANGED <<phase, beat, due, ran>>

(* The report is rejected by the fence, or the database fails: execute     *)
(* logs the error and returns all the same.                                *)
MutReportFails(p, s) ==
  LET x == slot[p][s]
  IN /\ phase[p] \in Alive
     /\ x.pc \in {"ok", "err"}
     /\ \/ ~ Fenced(x.job, x.token)
        \/ "dbError" \in Faults
     /\ Put(p, s, [x EXCEPT !.pc = "claimed"])
     /\ UNCHANGED <<vars, phase, beat, due, ran>>
ReportFails(p, s) ==
  LET x == slot[p][s]
  IN /\ phase[p] \in Alive
     /\ x.pc \in {"ok", "err"}
     /\ \/ ~ Fenced(x.job, x.token)
        \/ "dbError" \in Faults
     /\ Put(p, s, Released(p))
     /\ UNCHANGED <<vars, phase, beat, due, ran>>

-----------------------------------------------------------------------------
(* The main goroutine after SIGTERM, and the death of a process.           *)

Terminate(p) ==
  /\ p \in Mortal
  /\ phase[p] = "up"
  /\ phase' = [phase EXCEPT ![p] = "draining"]
  /\ UNCHANGED <<vars, slot, beat, due, ran>>

(* MarkWorkerStatus(draining); a failure is logged.                        *)
MarkDraining(p) ==
  /\ phase[p] = "draining"
  /\ \/ MarkWorkerStatus(IdOf[p], "draining")
     \/ "dbError" \in Faults /\ UNCHANGED vars
  /\ phase' = [phase EXCEPT ![p] = "marked"]
  /\ UNCHANGED <<slot, beat, due, ran>>

(* stopAccepting cancels the context of the slots.                         *)
MutStopAccepting(p) ==
  /\ phase[p] = "marked"
  /\ \A s \in Slots : slot[p][s] = Done
  /\ phase' = [phase EXCEPT ![p] = "stopping"]
  /\ UNCHANGED <<vars, slot, beat, due, ran>>
StopAccepting(p) ==
  /\ phase[p] = "marked"
  /\ phase' = [phase EXCEPT ![p] = "stopping"]
  /\ UNCHANGED <<vars, slot, beat, due, ran>>

(* wg.Wait returns when every slot has; then stopHeartbeat.                *)
Join(p) ==
  /\ phase[p] = "stopping"
  /\ \A s \in Slots : slot[p][s] = Done
  /\ phase' = [phase EXCEPT ![p] = "joined"]
  /\ UNCHANGED <<vars, slot, beat, due, ran>>

Exit(p) ==
  /\ phase[p] = "joined"
  /\ \/ MarkWorkerStatus(IdOf[p], "stopped")
     \/ "dbError" \in Faults /\ UNCHANGED vars
  /\ phase' = [phase EXCEPT ![p] = "exited"]
  /\ UNCHANGED <<slot, beat, due, ran>>

Crash(p) ==
  /\ "crash" \in Faults
  /\ p \in Mortal
  /\ phase[p] \in Alive \cup {"joined"}
  /\ phase' = [phase EXCEPT ![p] = "dead"]
  /\ slot' = [slot EXCEPT ![p] = [s \in Slots |-> Idle]]
  /\ beat' = [beat EXCEPT ![p] = Null]
  /\ UNCHANGED <<vars, due, ran>>

-----------------------------------------------------------------------------
(* A scheduler replica: the recovery step of tick.  Replicas share no      *)
(* state outside the tables, so any number of them is this action.         *)
SchedulerRecover ==
  /\ \E S \in SUBSET Jobs, lag \in Lags : RecoverExpiredJobs(S, lag)
  /\ UNCHANGED procVars

(* Submitters and operators, through the API.                              *)
Operate ==
  /\ \E j \in Jobs, lag \in Lags :
       \/ \E q \in Queues, m \in MaxAttempts, d \in Delays :
            CreateJob(j, q, m, d, lag)
       \/ RetryJob(j, lag)
       \/ CancelJob(j)
  /\ UNCHANGED procVars

(* The heartbeats of a punctual process commit in the tick they are due.   *)
Clock ==
  /\ \A p \in Punctual : phase[p] \in Ticking => due[p] > 0 /\ beat[p] = Null
  /\ Tick
  /\ due' = [p \in Procs |-> IF phase[p] \in Ticking /\ due[p] > 0
                             THEN due[p] - 1 ELSE due[p]]
  /\ UNCHANGED <<phase, slot, beat, ran>>

Slotted(p, s) ==
  \/ \E j \in Jobs, lag \in Lags : Claim(p, s, j, lag) \/ ClaimLost(p, s, j, lag)
  \/ Leave(p, s)
  \/ BeginHandler(p, s)
  \/ \E result \in {"ok", "err"} : EndHandler(p, s, result)
  \/ \E lag \in Lags : Report(p, s, lag)
  \/ ReportFails(p, s)

QNext ==
  \/ \E p \in Procs :
       \/ Start(p)
       \/ SubscribeFails(p)
       \/ LoadStatus(p)
       \/ \E lag \in Lags : Heartbeat(p, lag)
       \/ HeartbeatError(p)
       \/ \E s \in Slots : Slotted(p, s)
       \/ Terminate(p)
       \/ MarkDraining(p)
       \/ StopAccepting(p)
       \/ Join(p)
       \/ Exit(p)
       \/ Crash(p)
  \/ SchedulerRecover
  \/ Operate
  \/ Clock

QSpec == QInit /\ [][QNext]_qvars

(* What the scheduling of the code guarantees: a process that is started   *)
(* and not killed keeps running its goroutines, every poll of an idle slot *)
(* asks for a job again, handlers return, one scheduler replica keeps      *)
(* ticking and time passes.  Nothing forces a process to start, an         *)
(* operator to act or a fault to happen.                                   *)
ProcFairness(p) ==
  /\ WF_qvars(LoadStatus(p))
  /\ WF_qvars(\E lag \in Lags : Heartbeat(p, lag))
  /\ WF_qvars(MarkDraining(p))
  /\ WF_qvars(StopAccepting(p))
  /\ WF_qvars(Join(p))
  /\ WF_qvars(Exit(p))
  /\ \A s \in Slots :
       /\ WF_qvars(\E j \in Jobs, lag \in Lags : Claim(p, s, j, lag))
       /\ WF_qvars(Leave(p, s))
       /\ WF_qvars(BeginHandler(p, s))
       /\ WF_qvars(\E result \in {"ok", "err"} : EndHandler(p, s, result))
       /\ WF_qvars(ReportFails(p, s) \/ \E lag \in Lags : Report(p, s, lag))

Fairness ==
  /\ \A p \in Procs : ProcFairness(p)
  /\ \A p \in Procs \ Mortal : WF_qvars(Start(p))
  /\ WF_qvars(SchedulerRecover)
  /\ WF_qvars(Clock)

FairSpec == QSpec /\ Fairness
-----------------------------------------------------------------------------
(* Properties.                                                             *)

(* Every process variable keeps its type.                                  *)
QTypeOK ==
  /\ phase \in [Procs -> Phase]
  /\ slot \in [Procs -> [Slots -> SlotState]]
  /\ beat \in [Procs -> WorkerStatus \cup {Null}]
  /\ due \in [Procs -> 0..HeartbeatInterval]
  /\ ran \subseteq HandlerRun

BusySlot(p, s) == slot[p][s].pc \in Busy

(* Whatever is killed, restarted, lost or rejected, the handler of an      *)
(* attempt is started at most once, and by the worker named in             *)
(* job_attempts: no two slots execute the same attempt, and one about to   *)
(* start its handler has not started it before.                            *)
AttemptRunOnce ==
  \A p \in Procs, s \in Slots : BusySlot(p, s) =>
    /\ \E a \in attempts : /\ a.job = slot[p][s].job
                           /\ a.token = slot[p][s].token
                           /\ a.worker = IdOf[p]
    /\ slot[p][s].pc = "claimed" => \A r \in ran : r.token # slot[p][s].token
    /\ \A p2 \in Procs, s2 \in Slots :
         BusySlot(p2, s2) /\ slot[p2][s2].token = slot[p][s].token
           => p2 = p /\ s2 = s

(* A job is succeeded only if the handler of its last attempt returned     *)
(* without error: no late, duplicated or stale report makes it so.         *)
SuccessWasEarned ==
  \A j \in Jobs : jobs[j].status = "succeeded" =>
    \E a \in attempts :
      /\ a.job = j /\ a.number = jobs[j].attemptCount
      /\ [job |-> j, token |-> a.token, result |-> "ok"] \in ran

(* A worker whose heartbeats are on time keeps the lease of every job it   *)
(* executes until it reports, through its whole graceful shutdown, however *)
(* long the handler takes: only a dead or stalled worker is ever recovered *)
(* from.  It needs LeaseDuration > HeartbeatInterval + MaxLag.             *)
LeaseKept ==
  \A p \in Punctual, s \in Slots :
    phase[p] \in Alive /\ BusySlot(p, s) => Fenced(slot[p][s].job, slot[p][s].token)

(* No two slots of punctual processes execute the same job at a time.      *)
NoOverlap ==
  \A p, p2 \in Punctual, s, s2 \in Slots :
    /\ BusySlot(p, s) /\ BusySlot(p2, s2)
    /\ slot[p][s].job = slot[p2][s2].job
    => p = p2 /\ s = s2

(* A worker that stopped gracefully is recorded as stopped: no heartbeat   *)
(* of its own lands after the last MarkWorkerStatus.                       *)
StoppedIsFinal ==
  \A p \in Procs : phase[p] = "exited" => workers[IdOf[p]] = "stopped"

(* Every accepted job ends: it succeeds, is dead-lettered or is cancelled. *)
Settled == {"succeeded", "dead_letter", "cancelled"}
JobsSettle ==
  \A j \in Jobs :
    jobs[j].status \in Claimable \cup {"running"} ~> jobs[j].status \in Settled

(* Graceful shutdown ends, unless the process is killed meanwhile.         *)
ShutdownEnds ==
  \A p \in Procs : phase[p] = "draining" ~> phase[p] \in {"exited", "dead"}

(* No worker owns a job for ever: a job that is running stops running.     *)
OwnershipEnds == \A j \in Jobs : Running(j) ~> ~ Running(j)

(* A job that is dead-lettered was executed at least once.                 *)
ExecutedAtLeastOnce ==
  \A j \in Jobs : jobs[j].status = "dead_letter" => \E r \in ran : r.job = j
=============================================================================
