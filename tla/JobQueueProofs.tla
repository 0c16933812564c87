--------------------------- MODULE JobQueueProofs ---------------------------
(***************************************************************************)
(* Proofs about JobQueue for any number of processes and slots, with any   *)
(* assignment of worker ids and any faults unless a theorem says           *)
(* otherwise.                                                              *)
(*                                                                         *)
(* Every step of the processes is a step of the tables or leaves them      *)
(* alone, so what JobStoreProofs proves about the tables holds here.  On   *)
(* top of that, QInv follows an attempt through the slot that claimed it.  *)
(***************************************************************************)
EXTENDS JobQueue, JobRefinementProofs

(* The attempt that slot s of process p executes is recorded with the id   *)
(* of the process, and the run of its handler agrees with the slot.        *)
SlotFits(p, s) ==
  BusySlot(p, s) =>
    /\ phase[p] \in Alive
    /\ \E a \in attempts : /\ a.job = slot[p][s].job
                           /\ a.token = slot[p][s].token
                           /\ a.worker = IdOf[p]
    /\ slot[p][s].pc = "claimed" => \A r \in ran : r.token # slot[p][s].token
    /\ slot[p][s].pc = "ok" =>
         [job |-> slot[p][s].job, token |-> slot[p][s].token, result |-> "ok"] \in ran

(* No two slots execute one attempt.                                       *)
OneSlot(p, s, p2, s2) ==
  BusySlot(p, s) /\ BusySlot(p2, s2) /\ slot[p2][s2].token = slot[p][s].token
    => p2 = p /\ s2 = s

SlotsFit ==
  /\ \A p \in Procs, s \in Slots : SlotFits(p, s)
  /\ \A p, p2 \in Procs, s, s2 \in Slots : OneSlot(p, s, p2, s2)

(* A handler was run for an attempt that was issued.                       *)
RunsIssued == \A r \in ran : r.token \in 1..issued

QInv ==
  /\ Inv
  /\ QTypeOK
  /\ SlotsFit
  /\ RunsIssued
  /\ SuccessWasEarned

-----------------------------------------------------------------------------
(* The processes use the tables as JobStore says.                          *)

(* A busy slot has a job and a token that was issued.                      *)
LEMMA BusyFacts ==
  ASSUME QInv, NEW p \in Procs, NEW s \in Slots, BusySlot(p, s)
  PROVE  /\ slot[p][s] \in [pc : Busy, job : Jobs, token : Nat]
         /\ slot[p][s].job \in Jobs /\ slot[p][s].token \in 1..issued
         /\ slot[p][s].pc \in Busy
<1>1. slot[p][s] \in SlotState
  BY DEF QInv, QTypeOK
<1>2. Idle.pc \notin Busy /\ Done.pc \notin Busy
  BY DEF Idle, Done, Busy
<1>3. slot[p][s] \in [pc : Busy, job : Jobs, token : Nat]
  <2>1. slot[p][s].pc \in Busy
    BY DEF BusySlot
  <2>2. slot[p][s] # Idle /\ slot[p][s] # Done
    BY <1>2, <2>1, Zenon
  <2> QED  BY <1>1, <2>2, Zenon DEF SlotState
<1>4. PICK a \in attempts : a.token = slot[p][s].token
  <2>1. SlotFits(p, s)
    BY DEF QInv, SlotsFit
  <2> QED  BY <2>1 DEF SlotFits
<1>5. a.token \in 1..issued
  BY DEF QInv, Inv, AttemptsGapless
<1> QED  BY <1>3, <1>4, <1>5

LEMMA SlotTables ==
  ASSUME QInv, NEW p \in Procs, NEW s \in Slots, Slotted(p, s)
  PROVE  [Next]_vars
<1>1. IdOf[p] \in Workers /\ QueueOf[p] \in Queues
  BY ProcAssumption
<1>2. ASSUME NEW j \in Jobs, NEW lag \in Lags, ClaimJob(j, QueueOf[p], IdOf[p], lag)
      PROVE  Next
  BY <1>1, <1>2 DEF Next
<1>3. ASSUME NEW lag \in Lags, Report(p, s, lag)
      PROVE  Next
  <2>1. BusySlot(p, s)
    BY <1>3 DEF Report, BusySlot, Busy
  <2>2. slot[p][s].job \in Jobs /\ slot[p][s].token \in 1..issued
    BY <2>1, BusyFacts
  <2> QED  BY <1>3, <2>2 DEF Report, Next
<1>4. CASE UNCHANGED vars
  BY <1>4
<1> QED  BY <1>2, <1>3, <1>4 DEF Slotted, Claim, ClaimLost, Leave, BeginHandler,
                                 EndHandler, ReportFails

LEMMA TablesStep == QInv /\ [QNext]_qvars => [Next]_vars
<1> SUFFICES ASSUME QInv, [QNext]_qvars
             PROVE  [Next]_vars
  OBVIOUS
<1>1. ASSUME NEW p \in Procs
      PROVE  IdOf[p] \in Workers
  BY ProcAssumption
<1>2. {"running", "draining", "stopped"} \subseteq WorkerStatus
  BY DEF WorkerStatus
<1>3. ASSUME NEW p \in Procs, Start(p) \/ SubscribeFails(p)
      PROVE  [Next]_vars
  BY <1>1, <1>3 DEF Start, SubscribeFails, Registers, Next
<1>4. ASSUME NEW p \in Procs, NEW lag \in Lags, Heartbeat(p, lag)
      PROVE  [Next]_vars
  <2>1. beat[p] \in WorkerStatus
    BY <1>4 DEF Heartbeat, QInv, QTypeOK
  <2> QED  BY <1>1, <1>4, <2>1 DEF Heartbeat, Next
<1>5. ASSUME NEW p \in Procs, MarkDraining(p) \/ Exit(p)
      PROVE  [Next]_vars
  BY <1>1, <1>2, <1>5 DEF MarkDraining, Exit, Next
<1>6. ASSUME NEW p \in Procs, NEW s \in Slots, Slotted(p, s)
      PROVE  [Next]_vars
  BY <1>6, SlotTables
<1>7. CASE SchedulerRecover
  BY <1>7 DEF SchedulerRecover, Next
<1>8. CASE Operate
  BY <1>8 DEF Operate, Next
<1>9. CASE Clock
  BY <1>9 DEF Clock, Next
<1>10. CASE UNCHANGED vars
  BY <1>10
<1> QED
  BY <1>3, <1>4, <1>5, <1>6, <1>7, <1>8, <1>9, <1>10
  DEF QNext, LoadStatus, HeartbeatError, Terminate, StopAccepting, Join, Crash, qvars

-----------------------------------------------------------------------------
(* What a step of the tables does to what the slots know of them.          *)

LEMMA AttemptPersists ==
  ASSUME Inv, [Next]_vars, NEW a \in attempts
  PROVE  \E b \in attempts' : /\ b.job = a.job /\ b.number = a.number
                              /\ b.token = a.token /\ b.worker = a.worker
<1>1. KeptOrClosed(a) /\ a \in Attempt
  BY HistoryStep DEF Inv, TypeOK
<1>2. CASE a \in attempts'
  BY <1>2
<1>3. CASE \E b \in attempts' : b = [a EXCEPT !.status = b.status]
  <2>1. PICK b \in attempts' : b = [a EXCEPT !.status = b.status]
    BY <1>3
  <2>2. b.job = a.job /\ b.number = a.number /\ b.token = a.token /\ b.worker = a.worker
    BY <1>1, <2>1 DEF Attempt
  <2> QED  BY <2>2
<1> QED  BY <1>1, <1>2, <1>3 DEF KeptOrClosed

LEMMA IssuedGrows ==
  ASSUME Inv, [Next]_vars
  PROVE  issued \in Nat /\ issued' \in {issued, issued + 1}
<1>1. issued \in Nat
  BY DEF Inv, TypeOK
<1>2. ASSUME NEW j \in Jobs, NEW lag \in Lags, NEW q \in Queues, NEW w \in Workers,
             ClaimJob(j, q, w, lag)
      PROVE  issued' = issued + 1
  BY <1>2 DEF ClaimJob, NewToken
<1>3. ASSUME NEW j \in Jobs, NEW lag \in Lags,
             \/ \E q \in Queues, m \in MaxAttempts, d \in Delays : CreateJob(j, q, m, d, lag)
             \/ \E t \in 1..issued : FailJob(j, t, lag)
             \/ RetryJob(j, lag)
      PROVE  issued' = issued
  BY <1>3 DEF CreateJob, FailJob, RetryJob
<1>4. ASSUME NEW j \in Jobs,
             \/ \E t \in 1..issued : CompleteJob(j, t)
             \/ CancelJob(j)
      PROVE  issued' = issued
  BY <1>4 DEF CompleteJob, CancelJob
<1>5. ASSUME NEW S \in SUBSET Jobs, NEW lag \in Lags, RecoverExpiredJobs(S, lag)
      PROVE  issued' = issued
  BY <1>5 DEF RecoverExpiredJobs
<1>6. ASSUME NEW w \in Workers,
             \/ RegisterWorker(w)
             \/ \E s \in WorkerStatus : \/ MarkWorkerStatus(w, s)
                                        \/ \E lag \in Lags : HeartbeatWorker(w, s, lag)
      PROVE  issued' = issued
  BY <1>6 DEF RegisterWorker, MarkWorkerStatus, HeartbeatWorker
<1>7. ASSUME Tick
      PROVE  issued' = issued
  BY <1>7 DEF Tick
<1>8. ASSUME UNCHANGED vars
      PROVE  issued' = issued
  BY <1>8 DEF vars
<1>9. issued' = issued \/ issued' = issued + 1
  BY <1>2, <1>3, <1>4, <1>5, <1>6, <1>7, <1>8 DEF Next
<1> QED  BY <1>1, <1>9

(* A slot that stays as it is still fits when its process is alive and its *)
(* attempt was not begun by others.                                        *)
LEMMA SlotStays ==
  ASSUME QInv, [Next]_vars, NEW p \in Procs, NEW s \in Slots,
         slot'[p][s] = slot[p][s], phase[p] \in Alive => phase'[p] \in Alive,
         ran \subseteq ran',
         \A r \in ran' \ ran : r.token # slot[p][s].token
  PROVE  SlotFits(p, s)'
<1>1. SlotFits(p, s) /\ Inv
  BY DEF QInv, SlotsFit
<1> SUFFICES ASSUME BusySlot(p, s)'
             PROVE  /\ phase'[p] \in Alive
                    /\ \E a \in attempts' : /\ a.job = slot'[p][s].job
                                            /\ a.token = slot'[p][s].token
                                            /\ a.worker = IdOf[p]
                    /\ slot'[p][s].pc = "claimed" =>
                         \A r \in ran' : r.token # slot'[p][s].token
                    /\ slot'[p][s].pc = "ok" =>
                         [job |-> slot'[p][s].job, token |-> slot'[p][s].token,
                          result |-> "ok"] \in ran'
  BY DEF SlotFits
<1>2. BusySlot(p, s)
  BY DEF BusySlot
<1>3. PICK a \in attempts : /\ a.job = slot[p][s].job
                            /\ a.token = slot[p][s].token
                            /\ a.worker = IdOf[p]
  BY <1>1, <1>2 DEF SlotFits
<1>4. \E b \in attempts' : b.job = a.job /\ b.token = a.token /\ b.worker = a.worker
  BY <1>1, AttemptPersists
<1>5. phase'[p] \in Alive
  BY <1>1, <1>2 DEF SlotFits
<1>6. slot'[p][s].pc = "claimed" => \A r \in ran' : r.token # slot'[p][s].token
  BY <1>1, <1>2 DEF SlotFits
<1>7. slot'[p][s].pc = "ok" =>
        [job |-> slot'[p][s].job, token |-> slot'[p][s].token, result |-> "ok"] \in ran'
  BY <1>1, <1>2 DEF SlotFits
<1> QED  BY <1>3, <1>4, <1>5, <1>6, <1>7

(* Slots stay as they are or are released.                                 *)
LEMMA SlotsRest ==
  ASSUME QInv, [Next]_vars, ran' = ran,
         \A p \in Procs, s \in Slots :
           \/ slot'[p][s].pc \notin Busy
           \/ /\ slot'[p][s] = slot[p][s]
              /\ phase[p] \in Alive => phase'[p] \in Alive
  PROVE  SlotsFit'
<1>1. ASSUME NEW p \in Procs, NEW s \in Slots
      PROVE  SlotFits(p, s)'
  <2>1. CASE slot'[p][s].pc \notin Busy
    BY <2>1 DEF SlotFits, BusySlot
  <2>2. CASE slot'[p][s] = slot[p][s] /\ (phase[p] \in Alive => phase'[p] \in Alive)
    BY <2>2, SlotStays
  <2> QED  BY <2>1, <2>2
<1>2. ASSUME NEW p \in Procs, NEW s \in Slots, NEW p2 \in Procs, NEW s2 \in Slots
      PROVE  OneSlot(p, s, p2, s2)'
  <2>1. OneSlot(p, s, p2, s2)
    BY DEF QInv, SlotsFit
  <2> QED  BY <2>1 DEF OneSlot, BusySlot
<1> QED  BY <1>1, <1>2 DEF SlotsFit

(* One slot moves on; its token is of no other slot, and only its own      *)
(* attempt is begun.                                                       *)
LEMMA SlotMoves ==
  ASSUME QInv, [Next]_vars, phase' = phase, NEW p \in Procs, NEW s \in Slots,
         \A q \in Procs, t \in Slots : (q # p \/ t # s) => slot'[q][t] = slot[q][t],
         ran \subseteq ran',
         SlotFits(p, s)',
         \A q \in Procs, t \in Slots : (q # p \/ t # s) /\ BusySlot(q, t) =>
           /\ BusySlot(p, s)' => slot'[p][s].token # slot[q][t].token
           /\ \A r \in ran' \ ran : r.token # slot[q][t].token
  PROVE  SlotsFit'
<1>1. ASSUME NEW q \in Procs, NEW t \in Slots
      PROVE  SlotFits(q, t)'
  <2>1. CASE q # p \/ t # s
    <3>1. slot'[q][t] = slot[q][t]
      BY <2>1
    <3>2. CASE BusySlot(q, t)
      BY <2>1, <3>1, <3>2, SlotStays
    <3>3. CASE ~ BusySlot(q, t)
      BY <3>1, <3>3 DEF SlotFits, BusySlot
    <3> QED  BY <3>2, <3>3
  <2> QED  BY <2>1
<1>2. ASSUME NEW q \in Procs, NEW t \in Slots, NEW q2 \in Procs, NEW t2 \in Slots
      PROVE  OneSlot(q, t, q2, t2)'
  <2>1. OneSlot(q, t, q2, t2)
    BY DEF QInv, SlotsFit
  <2>2. CASE q = p /\ t = s /\ q2 = p /\ t2 = s
    BY <2>2 DEF OneSlot
  <2>3. CASE (q # p \/ t # s) /\ (q2 # p \/ t2 # s)
    BY <2>1, <2>3 DEF OneSlot, BusySlot
  <2>4. CASE q = p /\ t = s /\ (q2 # p \/ t2 # s)
    BY <2>4 DEF OneSlot, BusySlot
  <2>5. CASE q2 = p /\ t2 = s /\ (q # p \/ t # s)
    BY <2>5 DEF OneSlot, BusySlot
  <2> QED  BY <2>2, <2>3, <2>4, <2>5
<1> QED  BY <1>1, <1>2 DEF SlotsFit

LEMMA PutFacts ==
  ASSUME QTypeOK, NEW p \in Procs, NEW s \in Slots, NEW x \in SlotState, Put(p, s, x)
  PROVE  /\ slot' \in [Procs -> [Slots -> SlotState]]
         /\ slot'[p][s] = x
         /\ \A q \in Procs, t \in Slots : (q # p \/ t # s) => slot'[q][t] = slot[q][t]
BY DEF QTypeOK, Put

(* Only CompleteJob turns a row into a success; no step changes one.       *)
SuccessesKept ==
  \A k \in Jobs : jobs'[k].status = "succeeded" =>
    jobs[k].status = "succeeded" /\ jobs'[k].attemptCount = jobs[k].attemptCount

LEMMA NoSuccess ==
  ASSUME Inv,
         \/ jobs' = jobs
         \/ \E j \in Jobs, lag \in Lags :
              \/ \E q \in Queues, m \in MaxAttempts, d \in Delays :
                   CreateJob(j, q, m, d, lag)
              \/ \E q \in Queues, w \in Workers : ClaimJob(j, q, w, lag)
              \/ \E t \in 1..issued : FailJob(j, t, lag)
              \/ RetryJob(j, lag)
              \/ CancelJob(j)
         \/ \E S \in SUBSET Jobs, lag \in Lags : RecoverExpiredJobs(S, lag)
         \/ \E w \in Workers, s \in WorkerStatus, lag \in Lags : HeartbeatWorker(w, s, lag)
         \/ Tick
  PROVE  SuccessesKept
<1> SUFFICES ASSUME NEW k \in Jobs, jobs'[k].status = "succeeded"
             PROVE  jobs[k].status = "succeeded" /\ jobs'[k].attemptCount = jobs[k].attemptCount
  BY DEF SuccessesKept
<1> DEFINE Fine == jobs[k].status = "succeeded" /\ jobs'[k].attemptCount = jobs[k].attemptCount
<1>1. jobs \in [Jobs -> Row] /\ jobs[k] \in Row
  BY DEF Inv, TypeOK
<1>2. ASSUME NEW r \in Row, NEW delay
      PROVE  AfterFailure(r, delay).status # "succeeded"
  BY DEF AfterFailure, Unlocked, Row
<1>3. ASSUME NEW j \in Jobs, NEW lag \in Lags, NEW q \in Queues,
             NEW m \in MaxAttempts, NEW d \in Delays, CreateJob(j, q, m, d, lag)
      PROVE  Fine
  BY <1>1, <1>3 DEF CreateJob, NoRow
<1>4. ASSUME NEW j \in Jobs, NEW lag \in Lags, NEW q \in Queues,
             NEW w \in Workers, ClaimJob(j, q, w, lag)
      PROVE  Fine
  BY <1>1, <1>4 DEF ClaimJob, Row
<1>5. ASSUME NEW j \in Jobs, NEW lag \in Lags, NEW t \in 1..issued, FailJob(j, t, lag)
      PROVE  Fine
  BY <1>1, <1>2, <1>5 DEF FailJob
<1>6. ASSUME NEW S \in SUBSET Jobs, NEW lag \in Lags, RecoverExpiredJobs(S, lag)
      PROVE  Fine
  BY <1>1, <1>2, <1>6 DEF RecoverExpiredJobs
<1>7. ASSUME NEW j \in Jobs, NEW lag \in Lags, RetryJob(j, lag)
      PROVE  Fine
  BY <1>1, <1>7 DEF RetryJob, Reopened, Unlocked, Row
<1>8. ASSUME NEW j \in Jobs, CancelJob(j)
      PROVE  Fine
  BY <1>1, <1>8 DEF CancelJob, Unlocked, Row
<1>9. ASSUME NEW w \in Workers, NEW s \in WorkerStatus, NEW lag \in Lags,
             HeartbeatWorker(w, s, lag)
      PROVE  Fine
  BY <1>1, <1>9 DEF HeartbeatWorker, Row
<1>10. ASSUME Tick
       PROVE  Fine
  BY <1>1, <1>10 DEF Tick, Row
<1>11. CASE jobs' = jobs
  BY <1>11
<1> QED  BY <1>3, <1>4, <1>5, <1>6, <1>7, <1>8, <1>9, <1>10, <1>11

LEMMA SuccessStays ==
  ASSUME QInv, [Next]_vars, ran \subseteq ran', NEW j \in Jobs,
         jobs[j].status = "succeeded", jobs'[j].attemptCount = jobs[j].attemptCount
  PROVE  \E a \in attempts' :
           /\ a.job = j /\ a.number = jobs'[j].attemptCount
           /\ [job |-> j, token |-> a.token, result |-> "ok"] \in ran'
<1>1. PICK a \in attempts :
        /\ a.job = j /\ a.number = jobs[j].attemptCount
        /\ [job |-> j, token |-> a.token, result |-> "ok"] \in ran
  BY DEF QInv, SuccessWasEarned
<1>2. PICK b \in attempts' : b.job = a.job /\ b.number = a.number /\ b.token = a.token
  BY AttemptPersists DEF QInv
<1>3. [job |-> j, token |-> b.token, result |-> "ok"] \in ran'
  BY <1>1, <1>2
<1> QED  BY <1>1, <1>2, <1>3

(* A step that runs no CompleteJob keeps the rest of the invariant when it *)
(* starts no handler.                                                      *)
LEMMA RunsKept ==
  ASSUME QInv, [Next]_vars, SuccessesKept, ran \subseteq ran',
         \A r \in ran' \ ran : r.token \in 1..issued
  PROVE  RunsIssued' /\ SuccessWasEarned'
<1>1. RunsIssued'
  <2>1. issued \in Nat /\ issued' \in {issued, issued + 1}
    BY IssuedGrows DEF QInv
  <2>2. \A t \in 1..issued : t \in 1..issued'
    BY <2>1
  <2>3. \A r \in ran' : r.token \in 1..issued
    BY DEF QInv, RunsIssued
  <2> QED  BY <2>2, <2>3 DEF RunsIssued
<1>2. SuccessWasEarned'
  <2> SUFFICES ASSUME NEW j \in Jobs, jobs'[j].status = "succeeded"
               PROVE  \E a \in attempts' :
                        /\ a.job = j /\ a.number = jobs'[j].attemptCount
                        /\ [job |-> j, token |-> a.token, result |-> "ok"] \in ran'
    BY DEF SuccessWasEarned
  <2> QED  BY SuccessStays DEF SuccessesKept
<1> QED  BY <1>1, <1>2

-----------------------------------------------------------------------------
(* The steps, by what they do to the slots.                                *)

ProcParts == QTypeOK /\ SlotsFit /\ RunsIssued /\ SuccessWasEarned

(* The heartbeat goroutine.                                                *)
LEMMA LoadStatusInv ==
  ASSUME QInv, [Next]_vars, NEW p \in Procs, LoadStatus(p)
  PROVE  ProcParts'
<1>1. StatusOf(p) \in WorkerStatus
  BY DEF StatusOf, WorkerStatus
<1>2. QTypeOK'
  BY <1>1, ProcAssumption DEF QInv, QTypeOK, LoadStatus
<1>3. SlotsFit'
  BY SlotsRest DEF LoadStatus
<1>4. RunsIssued' /\ SuccessWasEarned'
  <2>1. SuccessesKept
    BY NoSuccess DEF QInv, LoadStatus, vars
  <2> QED  BY <2>1, RunsKept DEF LoadStatus
<1> QED  BY <1>2, <1>3, <1>4 DEF ProcParts

LEMMA HeartbeatInv ==
  ASSUME QInv, [Next]_vars, NEW p \in Procs, NEW lag \in Lags, Heartbeat(p, lag)
  PROVE  ProcParts'
<1>1. IdOf[p] \in Workers /\ beat[p] \in WorkerStatus
  BY ProcAssumption DEF QInv, QTypeOK, Heartbeat
<1>2. QTypeOK'
  BY DEF QInv, QTypeOK, Heartbeat
<1>3. SlotsFit'
  BY SlotsRest DEF Heartbeat
<1>4. RunsIssued' /\ SuccessWasEarned'
  <2>1. SuccessesKept
    BY <1>1, NoSuccess DEF QInv, Heartbeat
  <2> QED  BY <2>1, RunsKept DEF Heartbeat
<1> QED  BY <1>2, <1>3, <1>4 DEF ProcParts

LEMMA HeartbeatErrorInv ==
  ASSUME QInv, [Next]_vars, NEW p \in Procs, HeartbeatError(p)
  PROVE  ProcParts'
<1>1. QTypeOK'
  BY DEF QInv, QTypeOK, HeartbeatError
<1>2. SlotsFit'
  BY SlotsRest DEF HeartbeatError
<1>3. RunsIssued' /\ SuccessWasEarned'
  <2>1. SuccessesKept
    BY NoSuccess DEF QInv, HeartbeatError, vars
  <2> QED  BY <2>1, RunsKept DEF HeartbeatError
<1> QED  BY <1>1, <1>2, <1>3 DEF ProcParts

(* The main goroutine.                                                     *)
LEMMA MainInv ==
  ASSUME QInv, [Next]_vars, NEW p \in Procs,
         Terminate(p) \/ MarkDraining(p) \/ StopAccepting(p) \/ Join(p) \/ Exit(p)
  PROVE  ProcParts'
<1>1. PICK f \in Phase :
        /\ phase' = [phase EXCEPT ![p] = f]
        /\ \/ phase[p] \in Alive => f \in Alive
           \/ \A s \in Slots : slot[p][s] = Done
  BY DEF Terminate, MarkDraining, StopAccepting, Join, Exit, Phase, Alive
<1>2. slot' = slot /\ beat' = beat /\ due' = due /\ ran' = ran /\ jobs' = jobs
  BY DEF Terminate, MarkDraining, StopAccepting, Join, Exit, MarkWorkerStatus, vars
<1>3. QTypeOK'
  BY <1>1, <1>2 DEF QInv, QTypeOK
<1>4. SlotsFit'
  <2>1. Done.pc \notin Busy
    BY DEF Done, Busy
  <2>2. phase \in [Procs -> Phase]
    BY DEF QInv, QTypeOK
  <2>3. ASSUME NEW q \in Procs, NEW s \in Slots
        PROVE  \/ slot'[q][s].pc \notin Busy
               \/ /\ slot'[q][s] = slot[q][s]
                  /\ phase[q] \in Alive => phase'[q] \in Alive
    <3>1. CASE q = p
      BY <1>1, <1>2, <2>1, <2>2, <3>1
    <3>2. CASE q # p
      BY <1>1, <1>2, <2>2, <3>2
    <3> QED  BY <3>1, <3>2
  <2> QED  BY <1>2, <2>3, SlotsRest
<1>5. RunsIssued' /\ SuccessWasEarned'
  <2>1. SuccessesKept
    BY <1>2, NoSuccess DEF QInv
  <2> QED  BY <1>2, <2>1, RunsKept
<1> QED  BY <1>3, <1>4, <1>5 DEF ProcParts

(* A process starts, fails to, or is killed: its slots are idle.           *)
LEMMA StartCrashInv ==
  ASSUME QInv, [Next]_vars, NEW p \in Procs, Start(p) \/ SubscribeFails(p) \/ Crash(p)
  PROVE  ProcParts'
<1>1. PICK f \in Phase : phase' = [phase EXCEPT ![p] = f]
  BY DEF Start, SubscribeFails, Crash, Phase
<1>2. /\ slot' = [slot EXCEPT ![p] = [s \in Slots |-> Idle]]
      /\ beat' = [beat EXCEPT ![p] = Null]
      /\ due' = [due EXCEPT ![p] = 0] \/ due' = due
      /\ ran' = ran /\ jobs' = jobs
  BY DEF Start, SubscribeFails, Registers, Crash, RegisterWorker, vars
<1>3. QTypeOK'
  <2>1. [s \in Slots |-> Idle] \in [Slots -> SlotState]
    BY DEF SlotState
  <2>2. slot' \in [Procs -> [Slots -> SlotState]]
    BY <1>2, <2>1 DEF QInv, QTypeOK
  <2>3. due' \in [Procs -> 0..HeartbeatInterval]
    BY <1>2, ProcAssumption DEF QInv, QTypeOK
  <2> QED  BY <1>1, <1>2, <2>2, <2>3 DEF QInv, QTypeOK
<1>4. SlotsFit'
  <2>1. Idle.pc \notin Busy
    BY DEF Idle, Busy
  <2>2. phase \in [Procs -> Phase] /\ slot \in [Procs -> [Slots -> SlotState]]
    BY DEF QInv, QTypeOK
  <2>3. ASSUME NEW q \in Procs, NEW s \in Slots
        PROVE  \/ slot'[q][s].pc \notin Busy
               \/ /\ slot'[q][s] = slot[q][s]
                  /\ phase[q] \in Alive => phase'[q] \in Alive
    <3>1. CASE q = p
      <4>1. slot'[q][s] = Idle
        BY <1>2, <2>2, <3>1
      <4> QED  BY <2>1, <4>1
    <3>2. CASE q # p
      BY <1>1, <1>2, <2>2, <3>2
    <3> QED  BY <3>1, <3>2
  <2> QED  BY <1>2, <2>3, SlotsRest
<1>5. RunsIssued' /\ SuccessWasEarned'
  <2>1. SuccessesKept
    BY <1>2, NoSuccess DEF QInv
  <2> QED  BY <1>2, <2>1, RunsKept
<1> QED  BY <1>3, <1>4, <1>5 DEF ProcParts

(* Schedulers, operators and the clock.                                    *)
LEMMA OthersInv ==
  ASSUME QInv, [Next]_vars, SchedulerRecover \/ Operate \/ Clock
  PROVE  ProcParts'
<1>1. phase' = phase /\ slot' = slot /\ beat' = beat /\ ran' = ran
  BY DEF SchedulerRecover, Operate, Clock, procVars
<1>2. QTypeOK'
  <2>1. due \in [Procs -> 0..HeartbeatInterval]
    BY DEF QInv, QTypeOK
  <2>2. due' \in [Procs -> 0..HeartbeatInterval]
    <3>1. CASE due' = due
      BY <2>1, <3>1
    <3>2. CASE Clock
      <4>1. \A p \in Procs : due[p] > 0 => due[p] - 1 \in 0..HeartbeatInterval
        BY <2>1, ProcAssumption
      <4> QED  BY <2>1, <3>2, <4>1 DEF Clock
    <3> QED  BY <3>1, <3>2 DEF SchedulerRecover, Operate, procVars
  <2> QED  BY <1>1, <2>2 DEF QInv, QTypeOK
<1>3. SlotsFit'
  BY <1>1, SlotsRest
<1>4. RunsIssued' /\ SuccessWasEarned'
  <2>1. SuccessesKept
    BY NoSuccess DEF QInv, SchedulerRecover, Operate, Clock
  <2> QED  BY <1>1, <2>1, RunsKept
<1> QED  BY <1>2, <1>3, <1>4 DEF ProcParts

(* A slot asks for no more jobs, or its report is rejected or lost.        *)
LEMMA ReleasedState ==
  ASSUME NEW p \in Procs
  PROVE  /\ {Idle, Done, Released(p)} \subseteq SlotState
         /\ Idle.pc \notin Busy /\ Done.pc \notin Busy /\ Released(p).pc \notin Busy
BY DEF Released, SlotState, Idle, Done, Busy

LEMMA ReleaseFits ==
  ASSUME QInv, [Next]_vars, NEW p \in Procs, NEW s \in Slots,
         NEW x \in {Idle, Done, Released(p)}, Put(p, s, x),
         UNCHANGED <<phase, beat, due, ran>>
  PROVE  QTypeOK' /\ SlotsFit'
<1>1. x \in SlotState /\ x.pc \notin Busy
  BY ReleasedState
<1>2. /\ slot' \in [Procs -> [Slots -> SlotState]]
      /\ slot'[p][s] = x
      /\ \A q \in Procs, t \in Slots : (q # p \/ t # s) => slot'[q][t] = slot[q][t]
  BY <1>1, PutFacts DEF QInv
<1>3. QTypeOK'
  BY <1>2 DEF QInv, QTypeOK
<1>4. ASSUME NEW q \in Procs, NEW t \in Slots
      PROVE  \/ slot'[q][t].pc \notin Busy
             \/ /\ slot'[q][t] = slot[q][t]
                /\ phase[q] \in Alive => phase'[q] \in Alive
  BY <1>1, <1>2
<1> QED  BY <1>3, <1>4, SlotsRest

LEMMA LeaveInv ==
  ASSUME QInv, [Next]_vars, NEW p \in Procs, NEW s \in Slots,
         Leave(p, s) \/ ReportFails(p, s)
  PROVE  ProcParts'
<1>1. QTypeOK' /\ SlotsFit'
  BY ReleaseFits DEF Leave, ReportFails
<1>2. ran' = ran /\ jobs' = jobs
  BY DEF Leave, ReportFails, vars
<1>3. SuccessesKept
  BY <1>2, NoSuccess DEF QInv
<1> QED  BY <1>1, <1>2, <1>3, RunsKept DEF ProcParts

LEMMA ClaimLostInv ==
  ASSUME QInv, [Next]_vars, NEW p \in Procs, NEW s \in Slots,
         NEW j \in Jobs, NEW lag \in Lags, ClaimLost(p, s, j, lag)
  PROVE  ProcParts'
<1>1. QTypeOK' /\ SlotsFit'
  BY ReleaseFits DEF ClaimLost
<1>2. ran' = ran /\ ClaimJob(j, QueueOf[p], IdOf[p], lag)
  BY DEF ClaimLost
<1>3. SuccessesKept
  BY <1>2, NoSuccess, ProcAssumption DEF QInv
<1> QED  BY <1>1, <1>2, <1>3, RunsKept DEF ProcParts

(* A claim hands a slot an attempt that no slot has and no handler ran.    *)
LEMMA ClaimInv ==
  ASSUME QInv, [Next]_vars, NEW p \in Procs, NEW s \in Slots,
         NEW j \in Jobs, NEW lag \in Lags, Claim(p, s, j, lag)
  PROVE  ProcParts'
<1> DEFINE token == issued + 1
           x == [pc |-> "claimed", job |-> j, token |-> token]
           new == [job |-> j, number |-> jobs[j].attemptCount + 1, worker |-> IdOf[p],
                   token |-> token, status |-> "running"]
<1>1. /\ ran' = ran /\ phase' = phase /\ beat' = beat /\ due' = due
      /\ phase[p] \in Accepting
      /\ ClaimJob(j, QueueOf[p], IdOf[p], lag)
  BY DEF Claim
<1>2. issued \in Nat /\ issued' = token /\ new \in attempts' /\ Put(p, s, x)
  BY DEF Claim, ClaimJob, NewToken, QInv, Inv, TypeOK
<1>3. x \in SlotState
  BY <1>2 DEF SlotState, Busy
<1>4. /\ slot' \in [Procs -> [Slots -> SlotState]]
      /\ slot'[p][s] = x
      /\ \A q \in Procs, t \in Slots : (q # p \/ t # s) => slot'[q][t] = slot[q][t]
  BY <1>2, <1>3, PutFacts DEF QInv
<1>5. QTypeOK'
  BY <1>1, <1>4 DEF QInv, QTypeOK
<1>6. \A r \in ran : r.token # token
  BY <1>2 DEF QInv, RunsIssued
<1>7. SlotsFit'
  <2>1. /\ x.pc = "claimed" /\ x.job = j /\ x.token = token
        /\ new.job = j /\ new.token = token /\ new.worker = IdOf[p]
    OBVIOUS
  <2> HIDE DEF x, new
  <2>2. SlotFits(p, s)'
    <3>1. phase'[p] \in Alive
      BY <1>1 DEF Accepting, Alive
    <3>2. \E a \in attempts' : /\ a.job = slot'[p][s].job
                               /\ a.token = slot'[p][s].token
                               /\ a.worker = IdOf[p]
      BY <1>2, <1>4, <2>1
    <3>3. \A r \in ran' : r.token # slot'[p][s].token
      BY <1>1, <1>4, <1>6, <2>1
    <3>4. slot'[p][s].pc # "ok"
      BY <1>4, <2>1
    <3> QED  BY <3>1, <3>2, <3>3, <3>4 DEF SlotFits
  <2>3. ASSUME NEW q \in Procs, NEW t \in Slots, BusySlot(q, t)
        PROVE  slot'[p][s].token # slot[q][t].token
    <3>1. slot[q][t].token \in 1..issued
      BY <2>3, BusyFacts
    <3> QED  BY <1>2, <1>4, <2>1, <3>1
  <2> QED  BY <1>1, <1>4, <2>2, <2>3, SlotMoves
<1>8. SuccessesKept
  BY <1>1, NoSuccess, ProcAssumption DEF QInv
<1> QED  BY <1>1, <1>5, <1>7, <1>8, RunsKept DEF ProcParts

(* A handler starts or returns: the slot keeps its attempt.                *)
LEMMA HandlerInv ==
  ASSUME QInv, [Next]_vars, NEW p \in Procs, NEW s \in Slots,
         \/ BeginHandler(p, s)
         \/ \E result \in {"ok", "err"} : EndHandler(p, s, result)
  PROVE  ProcParts'
<1> DEFINE x == slot[p][s]
<1>1. /\ phase[p] \in Alive /\ x.pc \in {"claimed", "handling"}
      /\ jobs' = jobs /\ phase' = phase /\ beat' = beat /\ due' = due
  BY DEF BeginHandler, EndHandler, vars
<1>2. PICK pc \in {"handling", "ok", "err"}, result \in {"started", "ok", "err"} :
        /\ Put(p, s, [x EXCEPT !.pc = pc])
        /\ ran' = ran \cup {[job |-> x.job, token |-> x.token, result |-> result]}
        /\ pc = "ok" => result = "ok"
  <2>1. CASE BeginHandler(p, s)
    BY <2>1 DEF BeginHandler
  <2>2. ASSUME NEW result \in {"ok", "err"}, EndHandler(p, s, result)
        PROVE  /\ Put(p, s, [x EXCEPT !.pc = result])
               /\ ran' = ran \cup {[job |-> x.job, token |-> x.token, result |-> result]}
    BY <2>2 DEF EndHandler
  <2> QED  BY <2>1, <2>2
<1> DEFINE y == [x EXCEPT !.pc = pc]
           r == [job |-> x.job, token |-> x.token, result |-> result]
<1>3. BusySlot(p, s) /\ SlotFits(p, s)
  BY <1>1 DEF BusySlot, Busy, QInv, SlotsFit
<1>4. /\ x \in [pc : Busy, job : Jobs, token : Nat]
      /\ x.job \in Jobs /\ x.token \in 1..issued
  BY <1>3, BusyFacts
<1>5. /\ y \in SlotState /\ y.pc = pc /\ y.job = x.job /\ y.token = x.token
      /\ r \in HandlerRun /\ r.token = x.token
  <2>1. y \in [pc : Busy, job : Jobs, token : Nat]
    BY <1>4 DEF Busy
  <2>2. y.pc = pc /\ y.job = x.job /\ y.token = x.token
    BY <1>4
  <2>3. x.token \in Nat
    BY <1>4
  <2>4. r \in HandlerRun /\ r.token = x.token
    BY <1>4, <2>3 DEF HandlerRun
  <2> HIDE DEF y, r
  <2> QED  BY <2>1, <2>2, <2>4 DEF SlotState
<1>6. /\ slot' \in [Procs -> [Slots -> SlotState]]
      /\ slot'[p][s] = y
      /\ \A q \in Procs, t \in Slots : (q # p \/ t # s) => slot'[q][t] = slot[q][t]
  BY <1>2, <1>5, PutFacts DEF QInv
<1>7. QTypeOK'
  BY <1>1, <1>2, <1>5, <1>6 DEF QInv, QTypeOK
<1>8. SlotsFit'
  <2>1. SlotFits(p, s)'
    <3>1. PICK a \in attempts : a.job = x.job /\ a.token = x.token /\ a.worker = IdOf[p]
      BY <1>3 DEF SlotFits
    <3>2. PICK b \in attempts' : b.job = a.job /\ b.token = a.token /\ b.worker = a.worker
      BY AttemptPersists DEF QInv
    <3>3. slot'[p][s].pc # "claimed"
      BY <1>5, <1>6
    <3>4. slot'[p][s].pc = "ok" =>
            [job |-> slot'[p][s].job, token |-> slot'[p][s].token, result |-> "ok"] \in ran'
      BY <1>2, <1>5, <1>6
    <3>5. slot'[p][s].job = x.job /\ slot'[p][s].token = x.token
      BY <1>5, <1>6
    <3>6. phase'[p] \in Alive
      BY <1>1
    <3> HIDE DEF x
    <3> QED  BY <3>1, <3>2, <3>3, <3>4, <3>5, <3>6 DEF SlotFits
  <2>2. ASSUME NEW q \in Procs, NEW t \in Slots, q # p \/ t # s, BusySlot(q, t)
        PROVE  x.token # slot[q][t].token
    <3>1. OneSlot(q, t, p, s)
      BY DEF QInv, SlotsFit
    <3> QED  BY <1>3, <2>2, <3>1 DEF OneSlot
  <2>3. \A z \in ran' \ ran : z.token = x.token
    BY <1>2, <1>5
  <2>4. slot'[p][s].token = x.token
    BY <1>5, <1>6
  <2> HIDE DEF x, y, r
  <2> QED  BY <1>1, <1>2, <1>6, <2>1, <2>2, <2>3, <2>4, SlotMoves
<1>9. RunsIssued' /\ SuccessWasEarned'
  <2>1. SuccessesKept
    BY <1>1, NoSuccess DEF QInv
  <2>2. \A z \in ran' \ ran : z.token \in 1..issued
    BY <1>2, <1>4, <1>5
  <2>3. ran \subseteq ran'
    BY <1>2
  <2> QED  BY <2>1, <2>2, <2>3, RunsKept
<1> QED  BY <1>7, <1>8, <1>9 DEF ProcParts

(* A success is reported by the slot whose handler returned without error, *)
(* for the last attempt of the job: the fence lets no other token through. *)
LEMMA ReportInv ==
  ASSUME QInv, [Next]_vars, NEW p \in Procs, NEW s \in Slots, NEW lag \in Lags,
         Report(p, s, lag)
  PROVE  ProcParts'
<1> DEFINE x == slot[p][s]
<1>1. QTypeOK' /\ SlotsFit'
  BY ReleaseFits DEF Report
<1>2. ran' = ran /\ BusySlot(p, s)
  BY DEF Report, BusySlot, Busy
<1>3. x.job \in Jobs /\ x.token \in 1..issued
  BY <1>2, BusyFacts
<1>4. CASE FailJob(x.job, x.token, lag)
  <2>1. SuccessesKept
    BY <1>3, <1>4, NoSuccess DEF QInv
  <2> QED  BY <1>1, <1>2, <2>1, RunsKept DEF ProcParts
<1>5. CASE x.pc = "ok" /\ CompleteJob(x.job, x.token)
  <2>1. /\ issued' = issued
        /\ \A k \in Jobs \ {x.job} : jobs'[k] = jobs[k]
        /\ jobs'[x.job].attemptCount = jobs[x.job].attemptCount
        /\ Fenced(x.job, x.token)
    <3>1. jobs \in [Jobs -> Row]
      BY DEF QInv, Inv, TypeOK
    <3> HIDE DEF x
    <3> QED  BY <1>3, <1>5, <3>1 DEF CompleteJob, Unlocked, Row
  <2>2. RunsIssued'
    BY <1>2, <2>1 DEF QInv, RunsIssued
  <2>3. ASSUME NEW k \in Jobs, jobs'[k].status = "succeeded"
        PROVE  \E a \in attempts' :
                 /\ a.job = k /\ a.number = jobs'[k].attemptCount
                 /\ [job |-> k, token |-> a.token, result |-> "ok"] \in ran'
    <3>1. CASE k # x.job
      BY <1>2, <2>1, <2>3, <3>1, SuccessStays
    <3>2. CASE k = x.job
      <4>1. [job |-> x.job, token |-> x.token, result |-> "ok"] \in ran
        <5>1. SlotFits(p, s)
          BY DEF QInv, SlotsFit
        <5> QED  BY <1>2, <1>5, <5>1 DEF SlotFits
      <4>2. PICK a \in attempts : a.job = x.job /\ a.status = "running"
        BY <1>3, <2>1 DEF QInv, Inv, OpenAttemptIsLease, Fenced
      <4>3. a.token = x.token /\ a.number = jobs[x.job].attemptCount
        BY <2>1, <4>2 DEF QInv, Inv, OpenAttemptIsLease, Fenced
      <4>4. PICK b \in attempts' : b.job = a.job /\ b.number = a.number /\ b.token = a.token
        BY AttemptPersists DEF QInv
      <4>5. b.job = k /\ b.number = jobs'[k].attemptCount /\ b.token = x.token
        BY <2>1, <3>2, <4>2, <4>3, <4>4
      <4> HIDE DEF x
      <4>6. [job |-> k, token |-> b.token, result |-> "ok"] \in ran'
        BY <1>2, <3>2, <4>1, <4>5
      <4> QED  BY <4>5, <4>6
    <3> QED  BY <3>1, <3>2
  <2>4. SuccessWasEarned'
    BY <2>3 DEF SuccessWasEarned
  <2> QED  BY <1>1, <2>2, <2>4 DEF ProcParts
<1> QED  BY <1>4, <1>5 DEF Report

-----------------------------------------------------------------------------
LEMMA QInvInit == QInit => QInv
<1> SUFFICES ASSUME QInit
             PROVE  QInv
  OBVIOUS
<1>1. Inv
  BY InvInit DEF QInit
<1>2. \A p \in Procs, s \in Slots : slot[p][s] = Idle
  BY DEF QInit
<1>3. QTypeOK
  <2>1. Idle \in SlotState /\ 0 \in 0..HeartbeatInterval
    BY ProcAssumption DEF SlotState
  <2> QED  BY <2>1 DEF QInit, QTypeOK, Phase
<1>4. SlotsFit
  <2>1. Idle.pc \notin Busy
    BY DEF Idle, Busy
  <2>2. \A p \in Procs, s \in Slots : ~ BusySlot(p, s)
    BY <1>2, <2>1 DEF BusySlot
  <2> QED  BY <2>2 DEF SlotsFit, SlotFits, OneSlot
<1>5. RunsIssued
  BY DEF QInit, RunsIssued
<1>6. SuccessWasEarned
  <2>1. \A j \in Jobs : jobs[j].status = "absent"
    BY DEF QInit, Init, NoRow
  <2> QED  BY <2>1 DEF SuccessWasEarned
<1> QED  BY <1>1, <1>3, <1>4, <1>5, <1>6 DEF QInv

LEMMA QInvStep == QInv /\ [QNext]_qvars => QInv'
<1> SUFFICES ASSUME QInv, [QNext]_qvars
             PROVE  QInv'
  OBVIOUS
<1>1. [Next]_vars
  BY TablesStep
<1>2. Inv'
  BY <1>1, InvStep DEF QInv
<1>3. ASSUME NEW p \in Procs, NEW s \in Slots, Slotted(p, s)
      PROVE  ProcParts'
  BY <1>1, <1>3, ClaimInv, ClaimLostInv, LeaveInv, HandlerInv, ReportInv DEF Slotted
<1>4. ASSUME UNCHANGED qvars
      PROVE  ProcParts'
  <2>1. UNCHANGED <<jobs, attempts, issued, phase, slot, beat, due, ran>>
    BY <1>4 DEF qvars, procVars, vars
  <2>2. QTypeOK'
    BY <2>1 DEF QInv, QTypeOK
  <2>3. SlotsFit'
    BY <1>1, <2>1, SlotsRest
  <2>4. SuccessesKept
    BY <2>1, NoSuccess DEF QInv
  <2> QED  BY <1>1, <2>1, <2>2, <2>3, <2>4, RunsKept DEF ProcParts
<1>5. ASSUME NEW p \in Procs,
             \/ Start(p) \/ SubscribeFails(p) \/ LoadStatus(p) \/ HeartbeatError(p)
             \/ Terminate(p) \/ MarkDraining(p) \/ StopAccepting(p) \/ Join(p) \/ Exit(p) \/ Crash(p)
             \/ \E lag \in Lags : Heartbeat(p, lag)
      PROVE  ProcParts'
  BY <1>1, <1>5, LoadStatusInv, HeartbeatInv, HeartbeatErrorInv, MainInv, StartCrashInv
<1>6. ASSUME SchedulerRecover \/ Operate \/ Clock
      PROVE  ProcParts'
  BY <1>1, <1>6, OthersInv
<1>7. ProcParts'
  BY <1>3, <1>4, <1>5, <1>6 DEF QNext
<1> QED  BY <1>2, <1>7 DEF QInv, ProcParts

(* The invariant of the processes holds in every state, for any number of  *)
(* processes and slots, any worker ids and all faults.                     *)
THEOREM QInvariance == QSpec => []QInv
BY QInvInit, QInvStep, PTL DEF QSpec

(* The processes use the tables as JobStore says: every behaviour of the   *)
(* processes is one of JobStore, so each theorem about Spec, the fence,    *)
(* the gapless numbering and the append-only history, is one about QSpec.  *)
THEOREM QueueImplementsStore == QSpec => Spec
<1>1. QInit => Init
  BY DEF QInit
<1> QED  BY <1>1, TablesStep, QInvariance, PTL DEF QSpec, Spec

(* Every process variable keeps its type.                                  *)
THEOREM QTypeCorrect == QSpec => []QTypeOK
BY QInvariance, PTL DEF QInv

(* A job is succeeded only if the handler of its last attempt returned     *)
(* without error, whatever is killed, lost, late or repeated.              *)
THEOREM SuccessEarnedCorrect == QSpec => []SuccessWasEarned
BY QInvariance, PTL DEF QInv

(* The handler of an attempt is started at most once, and by the worker    *)
(* named in job_attempts, whatever is killed, restarted, lost or rejected. *)
THEOREM AttemptRunOnceCorrect == QSpec => []AttemptRunOnce
<1>1. ASSUME QInv
      PROVE  AttemptRunOnce
  <2> SUFFICES ASSUME NEW p \in Procs, NEW s \in Slots, BusySlot(p, s)
               PROVE  /\ \E a \in attempts : /\ a.job = slot[p][s].job
                                             /\ a.token = slot[p][s].token
                                             /\ a.worker = IdOf[p]
                      /\ slot[p][s].pc = "claimed" =>
                           \A r \in ran : r.token # slot[p][s].token
                      /\ \A p2 \in Procs, s2 \in Slots :
                           BusySlot(p2, s2) /\ slot[p2][s2].token = slot[p][s].token
                             => p2 = p /\ s2 = s
    BY DEF AttemptRunOnce
  <2>1. SlotFits(p, s)
    BY <1>1 DEF QInv, SlotsFit
  <2>2. \A p2 \in Procs, s2 \in Slots : OneSlot(p, s, p2, s2)
    BY <1>1 DEF QInv, SlotsFit
  <2>3. \A p2 \in Procs, s2 \in Slots :
          BusySlot(p2, s2) /\ slot[p2][s2].token = slot[p][s].token => p2 = p /\ s2 = s
    BY <2>2 DEF OneSlot
  <2> QED  BY <2>1, <2>3 DEF SlotFits
<1>2. QInv => AttemptRunOnce
  BY <1>1
<1> QED  BY <1>2, QInvariance, PTL

-----------------------------------------------------------------------------
(* Leases of processes that send their heartbeats in time.                 *)

(* A heartbeat renews for longer than the time to the next one, also when  *)
(* its transaction is as old as it may be, and no heartbeat is lost.       *)
Timely ==
  LeaseDuration > HeartbeatInterval + MaxLag /\ "dbError" \notin Faults

(* LeaseKept is not inductive: that the lease is held now does not say     *)
(* that it outlasts the next tick.  It does because it lasts longer than   *)
(* the ticker, or because a heartbeat is due before time may pass.         *)
LeaseLasts(p, s) ==
  BusySlot(p, s) =>
    /\ Fenced(slot[p][s].job, slot[p][s].token)
    /\ jobs[slot[p][s].job].lockedUntil > 0
    /\ beat[p] = Null => jobs[slot[p][s].job].lockedUntil > due[p]

LeasesLast == \A p \in Punctual, s \in Slots : LeaseLasts(p, s)

(* No step but a heartbeat, the report of its owner and the clock changes  *)
(* a row whose lease has not expired.                                      *)
LEMMA RowHeld ==
  ASSUME Inv, NEW j \in Jobs, Running(j), jobs[j].lockedUntil > 0,
         \/ jobs' = jobs
         \/ \E k \in Jobs, lag \in Lags :
              \/ \E q \in Queues, m \in MaxAttempts, d \in Delays :
                   CreateJob(k, q, m, d, lag)
              \/ \E q \in Queues, w \in Workers : ClaimJob(k, q, w, lag)
              \/ RetryJob(k, lag)
              \/ CancelJob(k)
         \/ \E k \in Jobs \ {j}, t \in 1..issued, lag \in Lags :
              CompleteJob(k, t) \/ FailJob(k, t, lag)
         \/ \E S \in SUBSET Jobs, lag \in Lags : RecoverExpiredJobs(S, lag)
  PROVE  jobs'[j] = jobs[j]
<1>1. jobs \in [Jobs -> Row] /\ jobs[j].status = "running"
  BY DEF Inv, TypeOK, Running
<1>2. ASSUME NEW k \in Jobs, NEW lag \in Lags,
             \/ \E q \in Queues, m \in MaxAttempts, d \in Delays :
                  CreateJob(k, q, m, d, lag)
             \/ \E q \in Queues, w \in Workers : ClaimJob(k, q, w, lag)
             \/ RetryJob(k, lag)
             \/ CancelJob(k)
      PROVE  jobs'[j] = jobs[j]
  <2>1. k # j
    BY <1>1, <1>2 DEF CreateJob, ClaimJob, Due, RetryJob, CancelJob, Claimable, Retryable
  <2> QED  BY <1>1, <1>2, <2>1 DEF CreateJob, ClaimJob, RetryJob, CancelJob
<1>3. ASSUME NEW k \in Jobs \ {j}, NEW t \in 1..issued, NEW lag \in Lags,
             CompleteJob(k, t) \/ FailJob(k, t, lag)
      PROVE  jobs'[j] = jobs[j]
  BY <1>1, <1>3 DEF CompleteJob, FailJob
<1>4. ASSUME NEW S \in SUBSET Jobs, NEW lag \in Lags, RecoverExpiredJobs(S, lag)
      PROVE  jobs'[j] = jobs[j]
  <2>1. jobs[j].lockedUntil \in Int
    BY <1>1 DEF Inv, TypeOK, Row, OpenAttemptIsLease, LeaseColumns, Running
  <2>2. lag \in Nat
    BY BoundAssumption DEF Lags
  <2>3. j \notin S
    BY <1>4, <2>1, <2>2 DEF RecoverExpiredJobs, Expired
  <2> QED  BY <1>4, <2>3 DEF RecoverExpiredJobs
<1>5. CASE jobs' = jobs
  BY <1>5
<1> QED  BY <1>2, <1>3, <1>4, <1>5

(* What LeaseLasts says of a busy slot, with the types.                    *)
LEMMA HeldFacts ==
  ASSUME QInv, NEW p \in Procs, NEW s \in Slots, BusySlot(p, s), LeaseLasts(p, s)
  PROVE  /\ slot[p][s].job \in Jobs /\ slot[p][s].token \in 1..issued
         /\ Running(slot[p][s].job)
         /\ jobs[slot[p][s].job].leaseToken = slot[p][s].token
         /\ jobs[slot[p][s].job].lockedBy = IdOf[p]
         /\ jobs[slot[p][s].job].lockedUntil \in Int
         /\ jobs[slot[p][s].job].lockedUntil > 0
<1> DEFINE j == slot[p][s].job
<1>1. j \in Jobs /\ slot[p][s].token \in 1..issued
  BY BusyFacts
<1>2. Fenced(j, slot[p][s].token) /\ jobs[j].lockedUntil > 0
  BY DEF LeaseLasts
<1>3. Running(j) /\ jobs[j].leaseToken = slot[p][s].token
  BY <1>2 DEF Fenced
<1>4. PICK a \in attempts : a.job = j /\ a.status = "running"
  BY <1>1, <1>3 DEF QInv, Inv, OpenAttemptIsLease
<1>5. a.token = slot[p][s].token /\ a.worker = jobs[j].lockedBy
  BY <1>3, <1>4 DEF QInv, Inv, OpenAttemptIsLease
<1>6. PICK b \in attempts : b.token = slot[p][s].token /\ b.worker = IdOf[p]
  <2>1. SlotFits(p, s)
    BY DEF QInv, SlotsFit
  <2> QED  BY <2>1 DEF SlotFits
<1>7. a = b
  BY <1>5, <1>6 DEF QInv, Inv, AttemptsGapless
<1>8. jobs[j].lockedUntil \in Int
  BY <1>1, <1>3 DEF QInv, Inv, TypeOK, Row, OpenAttemptIsLease, LeaseColumns
<1> QED  BY <1>1, <1>2, <1>3, <1>5, <1>6, <1>7, <1>8

(* A slot that keeps its attempt, whose row stays as it is or is renewed.  *)
LEMMA LeaseStays ==
  ASSUME NEW p \in Punctual, NEW s \in Slots, LeaseLasts(p, s),
         BusySlot(p, s)' =>
           /\ BusySlot(p, s)
           /\ slot'[p][s].job = slot[p][s].job
           /\ slot'[p][s].token = slot[p][s].token
           /\ jobs'[slot[p][s].job] = jobs[slot[p][s].job],
         (beat'[p] = beat[p] /\ due'[p] = due[p]) \/ beat'[p] # Null
  PROVE  LeaseLasts(p, s)'
<1> SUFFICES ASSUME BusySlot(p, s)'
             PROVE  /\ jobs'[slot'[p][s].job].status = "running"
                    /\ jobs'[slot'[p][s].job].leaseToken = slot'[p][s].token
                    /\ jobs'[slot'[p][s].job].lockedUntil > 0
                    /\ beat'[p] = Null => jobs'[slot'[p][s].job].lockedUntil > due'[p]
  BY DEF LeaseLasts, Fenced, Running
<1> QED  BY DEF LeaseLasts, Fenced, Running

(* A claim, and every heartbeat, sets locked_until past the next ticker.   *)
LEMMA RenewedLasts ==
  ASSUME QInv, Timely, NEW p \in Procs, NEW lag \in Lags
  PROVE  /\ LeaseDuration - lag \in Int /\ LeaseDuration - lag > 0
         /\ LeaseDuration - lag > due[p]
         /\ LeaseDuration > 0
<1>1. due[p] \in 0..HeartbeatInterval
  BY DEF QInv, QTypeOK
<1> QED  BY <1>1, BoundAssumption, ProcAssumption DEF Timely, Lags

LEMMA LeaseHeartbeat ==
  ASSUME QInv, Timely, NEW p \in Punctual, NEW s \in Slots, LeaseLasts(p, s),
         NEW q \in Procs, NEW lag \in Lags, Heartbeat(q, lag)
  PROVE  LeaseLasts(p, s)'
<1> DEFINE j == slot[p][s].job
<1>1. p \in Procs /\ slot' = slot /\ due' = due
  BY ProcAssumption DEF Heartbeat
<1> SUFFICES ASSUME BusySlot(p, s)
             PROVE  /\ jobs'[j].status = "running"
                    /\ jobs'[j].leaseToken = slot[p][s].token
                    /\ jobs'[j].lockedUntil > 0
                    /\ beat'[p] = Null => jobs'[j].lockedUntil > due[p]
  BY <1>1 DEF LeaseLasts, Fenced, Running, BusySlot
<1>2. /\ j \in Jobs /\ Running(j) /\ jobs[j].lockedBy = IdOf[p] /\ jobs[j].lockedUntil > 0
      /\ jobs[j].leaseToken = slot[p][s].token /\ slot[p][s].token \in 1..issued
  BY <1>1, HeldFacts
<1>3. jobs[j].leaseToken # Null /\ jobs[j] \in Row
  <2>1. slot[p][s].token \in Int
    BY <1>2 DEF QInv, Inv, TypeOK
  <2>2. slot[p][s].token # Null
    BY <2>1, NullAssumption, Zenon
  <2> QED  BY <1>2, <2>2 DEF QInv, Inv, TypeOK
<1>4. /\ LeaseDuration - lag > 0 /\ LeaseDuration - lag > due[p] /\ LeaseDuration > 0
  BY <1>1, RenewedLasts
<1>5. beat[p] = Null => jobs[j].lockedUntil > due[p]
  BY DEF LeaseLasts
<1> HIDE DEF j
<1>6. CASE Renewed(j, IdOf[q])
  <2>1. jobs'[j] = [jobs[j] EXCEPT !.lockedUntil = LeaseDuration - lag]
    BY <1>2, <1>6 DEF Heartbeat, HeartbeatWorker
  <2>2. /\ jobs'[j].status = jobs[j].status /\ jobs'[j].leaseToken = jobs[j].leaseToken
        /\ jobs'[j].lockedUntil = LeaseDuration - lag
    BY <1>3, <2>1 DEF Row
  <2> QED  BY <1>2, <1>4, <2>2 DEF Running
<1>7. CASE ~ Renewed(j, IdOf[q])
  <2>1. jobs'[j] = jobs[j]
    BY <1>2, <1>7 DEF Heartbeat, HeartbeatWorker
  <2>2. q # p
    BY <1>2, <1>3, <1>4, <1>7 DEF Renewed
  <2>3. beat'[p] = beat[p]
    BY <1>1, <2>2 DEF Heartbeat, QInv, QTypeOK
  <2> QED  BY <1>2, <1>5, <2>1, <2>3 DEF Running
<1> QED  BY <1>6, <1>7

(* Time passes for a busy slot only while its heartbeat is not due.        *)
LEMMA LeaseClock ==
  ASSUME QInv, NEW p \in Punctual, NEW s \in Slots, LeaseLasts(p, s), Clock
  PROVE  LeaseLasts(p, s)'
<1> DEFINE j == slot[p][s].job
<1>1. p \in Procs /\ slot' = slot /\ beat' = beat
  BY ProcAssumption DEF Clock
<1> SUFFICES ASSUME BusySlot(p, s)
             PROVE  /\ jobs'[j].status = "running"
                    /\ jobs'[j].leaseToken = slot[p][s].token
                    /\ jobs'[j].lockedUntil > 0
                    /\ jobs'[j].lockedUntil > due'[p]
  BY <1>1 DEF LeaseLasts, Fenced, Running, BusySlot
<1>2. /\ j \in Jobs /\ Running(j) /\ jobs[j].lockedUntil \in Int /\ jobs[j].lockedUntil > 0
      /\ jobs[j].leaseToken = slot[p][s].token
  BY <1>1, HeldFacts
<1>3. phase[p] \in Ticking
  <2>1. SlotFits(p, s)
    BY <1>1 DEF QInv, SlotsFit
  <2> QED  BY <2>1 DEF SlotFits, Ticking
<1>4. due[p] > 0 /\ beat[p] = Null /\ due[p] \in Int /\ due'[p] = due[p] - 1
  BY <1>1, <1>3 DEF Clock, QInv, QTypeOK
<1>5. jobs[j].lockedUntil > due[p]
  BY <1>4 DEF LeaseLasts
<1>6. jobs[j] \in Row /\ jobs[j].lockedUntil # Null /\ jobs[j].status = "running"
  <2>1. jobs[j].lockedUntil # Null
    BY <1>2, NullAssumption, Zenon
  <2> QED  BY <1>2, <2>1 DEF QInv, Inv, TypeOK, Running
<1> HIDE DEF j
<1>7. jobs'[j] = [jobs[j] EXCEPT !.availableAt = Down(jobs[j].availableAt),
                                 !.lockedUntil = Down(jobs[j].lockedUntil)]
  BY <1>2, <1>6 DEF Clock, Tick
<1>8. /\ jobs'[j].status = "running" /\ jobs'[j].leaseToken = jobs[j].leaseToken
      /\ jobs'[j].lockedUntil = Down(jobs[j].lockedUntil)
  BY <1>6, <1>7 DEF Row
<1>9. Down(jobs[j].lockedUntil) = jobs[j].lockedUntil - 1
  BY <1>2, BoundAssumption DEF Down
<1> QED  BY <1>2, <1>4, <1>5, <1>8, <1>9

(* The steps of a slot: q and t are the process and the slot that move.    *)
LEMMA LeaseSlotted ==
  ASSUME QInv, Timely, NEW p \in Punctual, NEW s \in Slots, LeaseLasts(p, s),
         NEW q \in Procs, NEW t \in Slots, Slotted(q, t)
  PROVE  LeaseLasts(p, s)'
<1>1. p \in Procs /\ QTypeOK /\ beat' = beat /\ due' = due
  BY ProcAssumption DEF QInv, Slotted, Claim, ClaimLost, Leave, BeginHandler, EndHandler,
                        Report, ReportFails
<1>2. ASSUME NEW x \in SlotState, Put(q, t, x)
      PROVE  /\ slot'[q][t] = x
             /\ q # p \/ t # s => slot'[p][s] = slot[p][s]
  BY <1>1, <1>2, PutFacts
<1>3. BusySlot(p, s) =>
        /\ slot[p][s].job \in Jobs
        /\ Running(slot[p][s].job)
        /\ jobs[slot[p][s].job].leaseToken = slot[p][s].token
        /\ jobs[slot[p][s].job].lockedUntil > 0
  BY <1>1, HeldFacts
<1>4. Inv /\ IdOf[q] \in Workers /\ QueueOf[q] \in Queues
  BY ProcAssumption DEF QInv
<1>5. {Idle, Done, Released(q)} \subseteq SlotState /\ Released(q).pc \notin Busy /\ Done.pc \notin Busy
  BY ReleasedState
<1>6. ASSUME NEW x \in {Done, Released(q)}, Put(q, t, x),
             q # p \/ t # s => (BusySlot(p, s) =>
                                  jobs'[slot[p][s].job] = jobs[slot[p][s].job])
      PROVE  LeaseLasts(p, s)'
  <2>1. slot'[q][t].pc \notin Busy /\ (q # p \/ t # s => slot'[p][s] = slot[p][s])
    BY <1>2, <1>5, <1>6
  <2>2. BusySlot(p, s)' => (q # p \/ t # s)
    BY <2>1 DEF BusySlot
  <2>3. BusySlot(p, s)' => BusySlot(p, s) /\ slot'[p][s] = slot[p][s]
    BY <2>1, <2>2 DEF BusySlot
  <2> QED  BY <1>1, <1>6, <2>2, <2>3, LeaseStays
<1>7. ASSUME NEW k \in Jobs, NEW lag \in Lags, ClaimLost(q, t, k, lag)
      PROVE  LeaseLasts(p, s)'
  <2>1. BusySlot(p, s) => jobs'[slot[p][s].job] = jobs[slot[p][s].job]
    BY <1>3, <1>4, <1>7, RowHeld DEF ClaimLost
  <2> QED  BY <1>6, <1>7, <2>1 DEF ClaimLost
<1>8. ASSUME Leave(q, t) \/ ReportFails(q, t)
      PROVE  LeaseLasts(p, s)'
  BY <1>6, <1>8 DEF Leave, ReportFails, vars
<1>9. ASSUME NEW lag \in Lags, Report(q, t, lag)
      PROVE  LeaseLasts(p, s)'
  <2> DEFINE k == slot[q][t].job
  <2>1. BusySlot(q, t)
    BY <1>9 DEF Report, BusySlot, Busy
  <2>2. k \in Jobs /\ slot[q][t].token \in 1..issued
    BY <2>1, BusyFacts
  <2>3. /\ CompleteJob(k, slot[q][t].token) \/ FailJob(k, slot[q][t].token, lag)
        /\ Put(q, t, Released(q))
    BY <1>9 DEF Report
  <2>4. jobs[k].leaseToken = slot[q][t].token
    BY <2>3 DEF CompleteJob, FailJob, Fenced
  <2>5. ASSUME q # p \/ t # s, BusySlot(p, s)
        PROVE  jobs'[slot[p][s].job] = jobs[slot[p][s].job]
    <3>1. OneSlot(p, s, q, t)
      BY <1>1 DEF QInv, SlotsFit
    <3>2. slot[q][t].token # slot[p][s].token
      BY <2>1, <2>5, <3>1 DEF OneSlot
    <3>3. k # slot[p][s].job
      BY <1>3, <2>4, <2>5, <3>2
    <3> HIDE DEF k
    <3> QED  BY <1>3, <1>4, <2>2, <2>3, <2>5, <3>3, RowHeld
  <2> QED  BY <1>6, <2>3, <2>5
<1>10. ASSUME \/ BeginHandler(q, t)
              \/ \E result \in {"ok", "err"} : EndHandler(q, t, result)
       PROVE  LeaseLasts(p, s)'
  <2>1. BusySlot(q, t) /\ jobs' = jobs
    BY <1>10 DEF BeginHandler, EndHandler, BusySlot, Busy, vars
  <2>2. slot[q][t] \in [pc : Busy, job : Jobs, token : Nat]
    BY <2>1, BusyFacts
  <2>3. PICK pc \in Busy : Put(q, t, [slot[q][t] EXCEPT !.pc = pc])
    BY <1>10 DEF BeginHandler, EndHandler, Busy
  <2> DEFINE x == [slot[q][t] EXCEPT !.pc = pc]
  <2>4. x \in [pc : Busy, job : Jobs, token : Nat] /\ x.job = slot[q][t].job /\ x.token = slot[q][t].token
    BY <2>2
  <2> HIDE DEF x
  <2>5. x \in SlotState
    BY <2>4 DEF SlotState
  <2>6. slot'[q][t] = x /\ (q # p \/ t # s => slot'[p][s] = slot[p][s])
    BY <1>2, <2>3, <2>5 DEF x
  <2>7. BusySlot(p, s)' => /\ BusySlot(p, s)
                           /\ slot'[p][s].job = slot[p][s].job
                           /\ slot'[p][s].token = slot[p][s].token
    <3>1. CASE q = p /\ t = s
      BY <2>1, <2>4, <2>6, <3>1
    <3>2. CASE q # p \/ t # s
      BY <2>6, <3>2 DEF BusySlot
    <3> QED  BY <3>1, <3>2
  <2> QED  BY <1>1, <2>1, <2>7, LeaseStays
<1>11. ASSUME NEW k \in Jobs, NEW lag \in Lags, Claim(q, t, k, lag)
       PROVE  LeaseLasts(p, s)'
  <2> DEFINE x == [pc |-> "claimed", job |-> k, token |-> issued']
  <2>1. Put(q, t, x) /\ ClaimJob(k, QueueOf[q], IdOf[q], lag) /\ issued' \in Nat
    BY <1>4, <1>11 DEF Claim, ClaimJob, NewToken, Inv, TypeOK
  <2>2. x \in SlotState /\ x.job = k /\ x.token = issued'
    BY <2>1 DEF SlotState, Busy
  <2> HIDE DEF x
  <2>3. slot'[q][t] = x /\ (q # p \/ t # s => slot'[p][s] = slot[p][s])
    BY <1>2, <2>1, <2>2
  <2>4. CASE q # p \/ t # s
    <3>1. BusySlot(p, s) => jobs'[slot[p][s].job] = jobs[slot[p][s].job]
      BY <1>3, <1>4, <2>1, RowHeld
    <3>2. BusySlot(p, s)' => BusySlot(p, s)
      BY <2>3, <2>4 DEF BusySlot
    <3> QED  BY <1>1, <2>3, <2>4, <3>1, <3>2, LeaseStays
  <2>5. CASE q = p /\ t = s
    <3>1. jobs[k] \in Row /\ jobs \in [Jobs -> Row]
      BY <1>4 DEF Inv, TypeOK
    <3>2. /\ jobs'[k].status = "running" /\ jobs'[k].leaseToken = issued'
          /\ jobs'[k].lockedUntil = LeaseDuration - lag
      BY <2>1, <3>1 DEF ClaimJob, Row
    <3>3. LeaseDuration - lag > 0 /\ LeaseDuration - lag > due[p]
      BY <1>1, RenewedLasts
    <3>4. slot'[p][s].job = k /\ slot'[p][s].token = issued'
      BY <2>2, <2>3, <2>5
    <3> QED  BY <1>1, <3>2, <3>3, <3>4 DEF LeaseLasts, Fenced, Running
  <2> QED  BY <2>4, <2>5
<1> QED  BY <1>7, <1>8, <1>9, <1>10, <1>11 DEF Slotted

LEMMA LeaseStep ==
  ASSUME Timely
  PROVE  QInv /\ LeasesLast /\ [QNext]_qvars => LeasesLast'
<1> SUFFICES ASSUME QInv, LeasesLast, [QNext]_qvars, NEW p \in Punctual, NEW s \in Slots
             PROVE  LeaseLasts(p, s)'
  BY DEF LeasesLast
<1>1. p \in Procs /\ LeaseLasts(p, s) /\ QTypeOK /\ Inv
  BY ProcAssumption DEF LeasesLast, QInv
<1>2. ASSUME slot' = slot, jobs' = jobs, beat' = beat, due' = due
      PROVE  LeaseLasts(p, s)'
  BY <1>1, <1>2, LeaseStays DEF BusySlot
<1>3. ASSUME NEW q \in Procs,
             Terminate(q) \/ MarkDraining(q) \/ StopAccepting(q) \/ Join(q) \/ Exit(q)
      PROVE  LeaseLasts(p, s)'
  BY <1>2, <1>3 DEF Terminate, MarkDraining, StopAccepting, Join, Exit, MarkWorkerStatus, vars
<1>4. ASSUME NEW q \in Procs, LoadStatus(q)
      PROVE  LeaseLasts(p, s)'
  <2>1. StatusOf(q) # Null
    BY ProcAssumption DEF StatusOf, WorkerStatus
  <2>2. (beat'[p] = beat[p] /\ due'[p] = due[p]) \/ beat'[p] # Null
    BY <1>1, <1>4, <2>1 DEF LoadStatus, QTypeOK
  <2>3. slot' = slot /\ jobs' = jobs
    BY <1>4 DEF LoadStatus, vars
  <2> QED  BY <1>1, <2>2, <2>3, LeaseStays DEF BusySlot
<1>5. ASSUME NEW q \in Procs, Start(q) \/ SubscribeFails(q) \/ Crash(q)
      PROVE  LeaseLasts(p, s)'
  <2>1. /\ slot' = [slot EXCEPT ![q] = [t \in Slots |-> Idle]] /\ jobs' = jobs
        /\ q # p => beat'[p] = beat[p] /\ due'[p] = due[p]
    BY <1>1, <1>5 DEF Start, SubscribeFails, Registers, Crash, RegisterWorker, vars, QTypeOK
  <2>2. CASE q = p
    <3>1. slot'[p][s] = Idle
      BY <1>1, <2>1, <2>2 DEF QTypeOK
    <3>2. ~ BusySlot(p, s)'
      BY <3>1 DEF BusySlot, Idle, Busy
    <3> QED  BY <3>2 DEF LeaseLasts
  <2>3. CASE q # p
    <3>1. slot'[p] = slot[p]
      BY <1>1, <2>1, <2>3 DEF QTypeOK
    <3> QED  BY <1>1, <2>1, <2>3, <3>1, LeaseStays DEF BusySlot
  <2> QED  BY <2>2, <2>3
<1>6. ASSUME SchedulerRecover \/ Operate
      PROVE  LeaseLasts(p, s)'
  <2>1. slot' = slot /\ beat' = beat /\ due' = due
    BY <1>6 DEF SchedulerRecover, Operate, procVars
  <2>2. ASSUME BusySlot(p, s)
        PROVE  jobs'[slot[p][s].job] = jobs[slot[p][s].job]
    <3>1. /\ slot[p][s].job \in Jobs /\ Running(slot[p][s].job)
          /\ jobs[slot[p][s].job].lockedUntil > 0
      BY <1>1, <2>2, HeldFacts
    <3> QED  BY <1>1, <1>6, <3>1, RowHeld DEF SchedulerRecover, Operate
  <2> QED  BY <1>1, <2>1, <2>2, LeaseStays DEF BusySlot
<1>7. ASSUME NEW q \in Procs, HeartbeatError(q)
      PROVE  LeaseLasts(p, s)'
  BY <1>7 DEF HeartbeatError, Timely
<1>8. ASSUME UNCHANGED qvars
      PROVE  LeaseLasts(p, s)'
  BY <1>2, <1>8 DEF qvars, procVars, vars
<1> QED
  BY <1>1, <1>3, <1>4, <1>5, <1>6, <1>7, <1>8, LeaseHeartbeat, LeaseClock, LeaseSlotted
  DEF QNext

(* When heartbeats are in time and none is lost, every job that a worker   *)
(* executes is still leased to it, for every number of processes, slots    *)
(* and jobs, whether or not worker ids are shared.                         *)
THEOREM LeasesLastCorrect ==
  ASSUME Timely
  PROVE  QSpec => []LeasesLast
<1>1. QInit => LeasesLast
  <2> SUFFICES ASSUME QInit, NEW p \in Punctual, NEW s \in Slots
               PROVE  ~ BusySlot(p, s)
    BY DEF LeasesLast, LeaseLasts
  <2>1. slot[p][s] = Idle
    BY ProcAssumption DEF QInit
  <2> QED  BY <2>1 DEF BusySlot, Idle, Busy
<1>2. QInv /\ LeasesLast /\ [QNext]_qvars => LeasesLast'
  BY LeaseStep
<1> QED  BY <1>1, <1>2, QInvariance, PTL DEF QSpec

(* A worker whose heartbeats are on time keeps the lease of every job it   *)
(* executes until it reports, however long the handler takes.              *)
THEOREM LeaseKeptCorrect ==
  ASSUME LeaseDuration > HeartbeatInterval + MaxLag, "dbError" \notin Faults
  PROVE  QSpec => []LeaseKept
<1>1. Timely
  BY DEF Timely
<1>2. LeasesLast => LeaseKept
  BY DEF LeasesLast, LeaseLasts, LeaseKept
<1>3. QSpec => []LeasesLast
  BY <1>1, LeasesLastCorrect
<1> QED  BY <1>2, <1>3, PTL

(* No two slots of punctual processes ever execute the same job: the row   *)
(* has one lease token, and two busy slots never have the same one.        *)
THEOREM NoOverlapCorrect ==
  ASSUME LeaseDuration > HeartbeatInterval + MaxLag, "dbError" \notin Faults
  PROVE  QSpec => []NoOverlap
<1>1. QInv /\ LeasesLast => NoOverlap
  <2> SUFFICES ASSUME QInv, LeasesLast,
                      NEW p \in Punctual, NEW p2 \in Punctual,
                      NEW s \in Slots, NEW s2 \in Slots,
                      BusySlot(p, s), BusySlot(p2, s2),
                      slot[p][s].job = slot[p2][s2].job
               PROVE  p = p2 /\ s = s2
    BY DEF NoOverlap
  <2>1. p \in Procs /\ p2 \in Procs /\ LeaseLasts(p, s) /\ LeaseLasts(p2, s2)
    BY ProcAssumption DEF LeasesLast
  <2>2. slot[p][s].token = slot[p2][s2].token
    BY <2>1, HeldFacts
  <2>3. OneSlot(p, s, p2, s2)
    BY <2>1 DEF QInv, SlotsFit
  <2> QED  BY <2>2, <2>3 DEF OneSlot
<1>2. Timely
  BY DEF Timely
<1>3. QSpec => []LeasesLast
  BY <1>2, LeasesLastCorrect
<1> QED  BY <1>1, <1>3, QInvariance, PTL

-----------------------------------------------------------------------------
(* The row in workers of a process that has a worker id of its own.        *)

(* Only the process itself writes its row, and it writes nothing after the *)
(* last MarkWorkerStatus.                                                  *)
LEMMA StoppedStep ==
  ASSUME \A p, q \in Procs : IdOf[p] = IdOf[q] => p = q,
         "dbError" \notin Faults
  PROVE  QInv /\ StoppedIsFinal /\ [QNext]_qvars => StoppedIsFinal'
<1> SUFFICES ASSUME QInv, StoppedIsFinal, [QNext]_qvars, NEW p \in Procs,
                    phase'[p] = "exited"
             PROVE  workers'[IdOf[p]] = "stopped"
  BY DEF StoppedIsFinal
<1>1. /\ phase \in [Procs -> Phase] /\ workers \in [Workers -> WorkerStatus \cup {Null}]
      /\ IdOf \in [Procs -> Workers]
  BY ProcAssumption DEF QInv, QTypeOK, Inv, TypeOK
<1>2. phase[p] = "exited" => workers[IdOf[p]] = "stopped"
  BY DEF StoppedIsFinal
<1>3. ASSUME phase'[p] = phase[p], workers' = workers
      PROVE  workers'[IdOf[p]] = "stopped"
  BY <1>2, <1>3
<1>4. ASSUME NEW q \in Procs, q # p, phase'[p] = phase[p],
             NEW status, workers' = [workers EXCEPT ![IdOf[q]] = status]
      PROVE  workers'[IdOf[p]] = "stopped"
  BY <1>1, <1>2, <1>4
<1>5. ASSUME NEW q \in Procs, NEW f, phase' = [phase EXCEPT ![q] = f], q # p
      PROVE  phase'[p] = phase[p]
  BY <1>5
<1>6. ASSUME NEW q \in Procs, Start(q) \/ SubscribeFails(q) \/ MarkDraining(q)
      PROVE  workers'[IdOf[p]] = "stopped"
  <2>1. q # p
    BY <1>1, <1>6 DEF Start, SubscribeFails, MarkDraining
  <2>2. phase'[p] = phase[p]
    BY <1>5, <1>6, <2>1 DEF Start, SubscribeFails, MarkDraining
  <2> QED  BY <1>4, <1>6, <2>1, <2>2 DEF Start, SubscribeFails, Registers, MarkDraining,
                                         RegisterWorker, MarkWorkerStatus
<1>7. ASSUME NEW q \in Procs, Exit(q)
      PROVE  workers'[IdOf[p]] = "stopped"
  <2>1. CASE q = p
    BY <1>1, <1>7, <2>1 DEF Exit, MarkWorkerStatus
  <2>2. CASE q # p
    <3>1. phase'[p] = phase[p]
      BY <1>5, <1>7, <2>2 DEF Exit
    <3> QED  BY <1>4, <1>7, <2>2, <3>1 DEF Exit, MarkWorkerStatus
  <2> QED  BY <2>1, <2>2
<1>8. ASSUME NEW q \in Procs, NEW lag \in Lags, Heartbeat(q, lag)
      PROVE  workers'[IdOf[p]] = "stopped"
  <2>1. phase' = phase /\ phase[q] \in Beating
    BY <1>8 DEF Heartbeat
  <2>2. q # p
    BY <2>1 DEF Beating, Alive
  <2> QED  BY <1>4, <1>8, <2>1, <2>2 DEF Heartbeat, HeartbeatWorker
<1>9. ASSUME NEW q \in Procs, Terminate(q) \/ StopAccepting(q) \/ Join(q) \/ Crash(q)
      PROVE  workers'[IdOf[p]] = "stopped"
  <2>1. q # p /\ workers' = workers
    BY <1>1, <1>9 DEF Terminate, StopAccepting, Join, Crash, vars
  <2>2. phase'[p] = phase[p]
    BY <1>5, <1>9, <2>1 DEF Terminate, StopAccepting, Join, Crash
  <2> QED  BY <1>3, <2>1, <2>2
<1>10. ASSUME NEW q \in Procs, NEW s \in Slots, Slotted(q, s)
       PROVE  workers'[IdOf[p]] = "stopped"
  <2>1. CASE \E j \in Jobs, lag \in Lags : Claim(q, s, j, lag) \/ ClaimLost(q, s, j, lag)
    BY <1>3, <2>1 DEF Claim, ClaimLost, ClaimJob
  <2>2. CASE \E lag \in Lags : Report(q, s, lag)
    BY <1>3, <2>2 DEF Report, CompleteJob, FailJob
  <2>3. CASE UNCHANGED <<phase, workers>>
    BY <1>3, <2>3
  <2> QED  BY <1>10, <2>1, <2>2, <2>3 DEF Slotted, Leave, BeginHandler, EndHandler,
                                          ReportFails, vars
<1>11. ASSUME \/ SchedulerRecover \/ Operate \/ Clock \/ UNCHANGED qvars
              \/ \E q \in Procs : LoadStatus(q) \/ HeartbeatError(q)
       PROVE  workers'[IdOf[p]] = "stopped"
  <2>1. CASE SchedulerRecover
    BY <1>3, <2>1 DEF SchedulerRecover, RecoverExpiredJobs, procVars
  <2>2. CASE Operate
    BY <1>3, <2>2 DEF Operate, CreateJob, RetryJob, CancelJob, procVars
  <2>3. CASE Clock
    BY <1>3, <2>3 DEF Clock, Tick
  <2>4. CASE UNCHANGED qvars \/ \E q \in Procs : LoadStatus(q) \/ HeartbeatError(q)
    BY <1>3, <2>4 DEF LoadStatus, HeartbeatError, qvars, procVars, vars
  <2> QED  BY <1>11, <2>1, <2>2, <2>3, <2>4
<1> QED  BY <1>6, <1>7, <1>8, <1>9, <1>10, <1>11 DEF QNext

(* A worker with an id of its own that stopped gracefully is recorded as   *)
(* stopped: no heartbeat of its own lands after the last MarkWorkerStatus. *)
THEOREM StoppedIsFinalCorrect ==
  ASSUME \A p, q \in Procs : IdOf[p] = IdOf[q] => p = q,
         "dbError" \notin Faults
  PROVE  QSpec => []StoppedIsFinal
<1>1. QInit => StoppedIsFinal
  BY DEF QInit, StoppedIsFinal
<1>2. QInv /\ StoppedIsFinal /\ [QNext]_qvars => StoppedIsFinal'
  BY StoppedStep
<1> QED  BY <1>1, <1>2, QInvariance, PTL DEF QSpec

(* The processes, too, implement the life cycle of a job: whatever the     *)
(* workers, schedulers and operators do in whatever order, each job moves  *)
(* only the way the abstract specification lets it.                        *)
THEOREM QueueImplementsLifecycle == QSpec => ImplementsLifecycle
BY QueueImplementsStore, TablesImplementLifecycle, PTL
=============================================================================
