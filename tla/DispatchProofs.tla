--------------------------- MODULE DispatchProofs ---------------------------
(***************************************************************************)
(* No wake-up is lost, for every number of jobs, schedulers, processes and *)
(* slots, with lost signals, locked rows, ticks that fail and workers that *)
(* crash.  Two strengthenings are needed.  A job that waits has an attempt *)
(* left, or a claim would exceed max_attempts.  A slot that executes a job *)
(* is the only one and its job is busy, or the end of one attempt could    *)
(* take a due job away from those that were signalled.                     *)
(***************************************************************************)
EXTENDS Dispatch, TLAPS

(* A job that can be claimed, now or later, has an attempt left.           *)
AttemptLeft ==
  \A j \in Jobs : at[j] \in {"new", "waiting", "due"} => tries[j] < MaxTries[j]

(* A job in a slot is busy, and in no other slot.                          *)
SlotsHoldJobs ==
  \A p \in Procs, s \in Slots :
    slot[p][s] \in Jobs =>
      /\ at[slot[p][s]] = "busy"
      /\ \A q \in Procs, t \in Slots : slot[q][t] = slot[p][s] => q = p /\ t = s

OwedIsDue == owed => In("due") # {}

TypeInv == TypeOK /\ AttemptLeft
Inv == TypeInv /\ SlotsHoldJobs /\ OwedIsDue /\ NoLostWakeup

USE SchedulerAssumption, DispatchAssumption

-----------------------------------------------------------------------------
(* What a step of the table does to the columns that TypeInv is about: the *)
(* job states stay job states, and a job that may be claimed after the     *)
(* step has an attempt left.                                               *)
JobsStep ==
  /\ at' \in [Jobs -> JobStates]
  /\ tries' \in [Jobs -> Nat]
  /\ \A j \in Jobs : tries'[j] <= MaxTries[j]
  /\ AttemptLeft'

LEMMA JobsUnchanged ==
  ASSUME TypeInv, UNCHANGED jobVars
  PROVE  JobsStep
BY DEF TypeInv, TypeOK, AttemptLeft, jobVars, JobsStep

(* A step that moves jobs and counts no attempt, to states that an attempt *)
(* left permits.                                                           *)
LEMMA JobsMove ==
  ASSUME TypeInv, UNCHANGED tries, at' \in [Jobs -> JobStates],
         \A j \in Jobs : at'[j] \in {"new", "waiting", "due"} =>
                           at[j] \in {"new", "waiting", "due"} \/ tries[j] < MaxTries[j]
  PROVE  JobsStep
BY DEF TypeInv, TypeOK, AttemptLeft, JobsStep

(* One more signal stays within the bound.                                 *)
LEMMA OneMoreType ==
  ASSUME NEW n \in 0..MaxSignals
  PROVE  OneMore(n) \in 0..MaxSignals /\ OneMore(n) > 0
BY DEF OneMore

(* Goes and Returns keep the types of a tick.                              *)
LEMMA TickType ==
  ASSUME TypeOK, NEW s \in Schedulers,
         Returns(s) \/ \E b \in BOOLEAN, x \in Steps : Goes(s, b, x)
  PROVE  /\ step' \in [Schedulers -> Steps]
         /\ signal' \in [Schedulers -> BOOLEAN]
         /\ silent' \subseteq Jobs
<1>1. CASE Returns(s)
  BY <1>1, Zenon DEF TypeOK, Returns, Steps
<1>2. ASSUME NEW b \in BOOLEAN, NEW x \in Steps, Goes(s, b, x)
      PROVE  /\ step' \in [Schedulers -> Steps]
             /\ signal' \in [Schedulers -> BOOLEAN]
             /\ silent' \subseteq Jobs
  <2>1. step' \in [Schedulers -> Steps] /\ silent' \subseteq Jobs
    BY <1>2 DEF TypeOK, Goes
  <2>2. (signal[s] \/ b) \in BOOLEAN
    BY Zenon DEF TypeOK
  <2>3. signal' = [signal EXCEPT ![s] = (signal[s] \/ b)]
    BY <1>2 DEF Goes
  <2>4. signal' \in [Schedulers -> BOOLEAN]
    BY <2>2, <2>3, Zenon DEF TypeOK
  <2> QED  BY <2>1, <2>4
<1> QED  BY <1>1, <1>2

(* Every step of a scheduler or an API server keeps the types.             *)
LEMMA SchedulerTypeStep ==
  ASSUME TypeInv, SchedulerNext, UNCHANGED workerVars
  PROVE  TypeInv'
<1>0. TypeOK /\ AttemptLeft
  BY DEF TypeInv
<1>a. ASSUME JobsStep, silent' \subseteq Jobs, owed' \in BOOLEAN, net' \in 0..MaxSignals,
             step' \in [Schedulers -> Steps], signal' \in [Schedulers -> BOOLEAN]
      PROVE  TypeInv'
  BY <1>0, <1>a DEF TypeInv, TypeOK, JobsStep, workerVars
<1>1. ASSUME NEW j \in Jobs, Submit(j) \/ Schedule(j) \/ BecomeDue(j) \/ Cancel(j)
      PROVE  TypeInv'
  <2>1. JobsStep
    BY <1>0, <1>1, JobsMove DEF Submit, Schedule, BecomeDue, Cancel, TypeOK, JobStates
  <2>2. owed' \in BOOLEAN
    <3>1. CASE Cancel(j)
      BY <3>1 DEF Cancel
    <3>2. CASE ~ Cancel(j)
      BY <1>0, <1>1, <3>2 DEF Submit, Schedule, BecomeDue, TypeOK
    <3> QED  BY <3>1, <3>2
  <2> QED
    BY <1>0, <1>1, <1>a, <2>1, <2>2
    DEF Submit, Schedule, BecomeDue, Cancel, TypeOK, tickVars
<1>2. ASSUME NEW j \in Jobs, Publish(j) \/ PublishFails(j)
      PROVE  TypeInv'
  <2>1. JobsStep
    BY <1>2, JobsUnchanged DEF Publish, PublishFails
  <2>2. net' \in 0..MaxSignals
    BY <1>0, <1>2, OneMoreType DEF Publish, PublishFails, TypeOK
  <2>3. owed' \in BOOLEAN
    <3>1. CASE Publish(j)
      BY <3>1 DEF Publish
    <3>2. CASE PublishFails(j)
      BY <1>0, <3>2 DEF PublishFails, TypeOK
    <3> QED  BY <1>2, <3>1, <3>2
  <2> QED  BY <1>0, <1>2, <1>a, <2>1, <2>2, <2>3 DEF Publish, PublishFails, TypeOK, tickVars
<1>3. ASSUME NEW s \in Schedulers, TickFails(s)
      PROVE  TypeInv'
  <2>1. JobsStep
    BY <1>3, JobsUnchanged DEF TickFails
  <2> QED  BY <1>0, <1>3, <1>a, <2>1, TickType DEF TickFails, TypeOK
<1>4. ASSUME NEW s \in Schedulers, NEW F \in SUBSET CronJobs, Fires(s, F)
      PROVE  TypeInv'
  <2>1. JobsStep
    BY <1>0, <1>4, JobsMove DEF Fires, In, TypeOK, JobStates
  <2>2. Goes(s, F # {}, "recover")
    BY <1>4 DEF Fires
  <2>3. \E b \in BOOLEAN, x \in Steps : Goes(s, b, x)
    BY <2>2 DEF Steps
  <2> QED  BY <1>0, <1>4, <1>a, <2>1, <2>3, TickType DEF Fires, TypeOK
<1>5. ASSUME NEW s \in Schedulers, NEW S \in SUBSET Jobs, Recovers(s, S)
      PROVE  TypeInv'
  <2>1. JobsStep
    BY <1>0, <1>5, JobsMove DEF Recovers, AfterExpiry, TypeOK, JobStates
  <2>2. Goes(s, \E j \in S : AfterExpiry(j) = "due", "list")
    BY <1>5 DEF Recovers
  <2>3. \E b \in BOOLEAN, x \in Steps : Goes(s, b, x)
    BY <2>2 DEF Steps
  <2> QED  BY <1>0, <1>5, <1>a, <2>1, <2>3, TickType DEF Recovers, TypeOK
<1>6. ASSUME NEW s \in Schedulers, NEW c \in BOOLEAN, Lists(s, c)
      PROVE  TypeInv'
  <2>1. JobsStep
    BY <1>6, JobsUnchanged DEF Lists
  <2>2. Goes(s, In("due") # {} /\ ~ c, "publish")
    BY <1>6 DEF Lists
  <2>3. \E b \in BOOLEAN, x \in Steps : Goes(s, b, x)
    BY <2>2 DEF Steps
  <2> QED  BY <1>0, <1>6, <1>a, <2>1, <2>3, TickType DEF Lists, TypeOK
<1>7. ASSUME NEW s \in Schedulers, Publishes(s)
      PROVE  TypeInv'
  <2>1. JobsStep
    BY <1>7, JobsUnchanged DEF Publishes
  <2>2. net' \in 0..MaxSignals
    BY <1>0, <1>7, OneMoreType DEF Publishes, TypeOK
  <2>3. owed' \in BOOLEAN
    BY <1>0, <1>7 DEF Publishes, TypeOK
  <2> QED  BY <1>0, <1>7, <1>a, <2>1, <2>2, <2>3, TickType DEF Publishes
<1> QED
  BY <1>1, <1>2, <1>3, <1>4, <1>5, <1>6, <1>7 DEF SchedulerNext, TickStep

(* Goto keeps the type of the slots and changes one of them.               *)
LEMMA GotoSlot ==
  ASSUME TypeOK, NEW p \in Procs, NEW s \in Slots, NEW x \in {"drain", "wait"} \cup Jobs,
         Goto(p, s, x)
  PROVE  /\ slot' \in [Procs -> [Slots -> {"drain", "wait"} \cup Jobs]]
         /\ \A q \in Procs, t \in Slots :
              slot'[q][t] = IF q = p /\ t = s THEN x ELSE slot[q][t]
BY DEF TypeOK, Goto

(* Every step of a worker or of NATS keeps the types: signalWake checks    *)
(* the capacity first, and a claim takes an attempt that is left.          *)
LEMMA WorkerTypeStep ==
  ASSUME TypeInv,
         \/ Lose
         \/ \E p \in Procs :
              \/ Deliver(p) \/ (\E c \in Callers : Push(p, c)) \/ Crash(p)
              \/ \E s \in Slots :
                   \/ \E j \in Jobs : Claim(p, s, j) \/ Finish(p, s, j)
                   \/ Empty(p, s) \/ SkipLocked(p, s) \/ Awake(p, s) \/ Poll(p, s)
  PROVE  TypeInv'
<1>0. TypeOK /\ AttemptLeft
  BY DEF TypeInv
<1>a. ASSUME JobsStep, silent' = silent, owed' \in BOOLEAN, net' \in 0..MaxSignals,
             UNCHANGED tickVars,
             pushes' \in [Procs -> [Callers -> 0..Concurrency]],
             wake' \in [Procs -> 0..Concurrency],
             slot' \in [Procs -> [Slots -> {"drain", "wait"} \cup Jobs]]
      PROVE  TypeInv'
  BY <1>0, <1>a DEF TypeInv, TypeOK, JobsStep, tickVars
<1>1. CASE Lose
  <2>1. JobsStep
    BY <1>1, JobsUnchanged DEF Lose
  <2>2. net' \in 0..MaxSignals
    BY <1>0, <1>1 DEF Lose, TypeOK
  <2>3. UNCHANGED <<silent, tickVars, pushes, wake, slot>>
    BY <1>1 DEF Lose, workerVars
  <2>4. owed' \in BOOLEAN
    BY <1>1, Zenon DEF Lose
  <2> QED  BY <1>0, <1>a, <2>1, <2>2, <2>3, <2>4 DEF TypeOK
<1>2. ASSUME NEW p \in Procs, Deliver(p)
      PROVE  TypeInv'
  <2>1. JobsStep
    BY <1>2, JobsUnchanged DEF Deliver
  <2>2. /\ pushes' \in [Procs -> [Callers -> 0..Concurrency]]
        /\ net' \in 0..MaxSignals
    <3>1. Concurrency \in 0..Concurrency /\ pushes[p] \in [Callers -> 0..Concurrency]
      BY <1>0, DispatchAssumption DEF TypeOK
    <3>2. [pushes[p] EXCEPT !["nats"] = Concurrency] \in [Callers -> 0..Concurrency]
      BY <3>1
    <3> QED  BY <1>0, <1>2, <3>2 DEF Deliver, TypeOK
  <2>3. UNCHANGED <<silent, owed, tickVars, wake, slot>>
    BY <1>2 DEF Deliver
  <2> QED  BY <1>0, <1>a, <2>1, <2>2, <2>3 DEF TypeOK
<1>3. ASSUME NEW p \in Procs, NEW c \in Callers, Push(p, c)
      PROVE  TypeInv'
  <2>1. JobsStep
    BY <1>3, JobsUnchanged DEF Push, schedulerVars, jobVars
  <2>2. wake[p] \in 0..Concurrency /\ pushes[p][c] \in 0..Concurrency
    BY <1>0 DEF TypeOK
  <2>3. /\ wake' \in [Procs -> 0..Concurrency]
        /\ pushes' \in [Procs -> [Callers -> 0..Concurrency]]
    <3>1. CASE wake[p] < Concurrency
      <4>1. /\ wake' = [wake EXCEPT ![p] = wake[p] + 1]
            /\ pushes' = [pushes EXCEPT ![p][c] = pushes[p][c] - 1]
            /\ pushes[p][c] > 0
        BY <1>3, <3>1 DEF Push
      <4>2. wake[p] + 1 \in 0..Concurrency /\ pushes[p][c] - 1 \in 0..Concurrency
        BY <2>2, <3>1, <4>1
      <4> QED  BY <1>0, <4>1, <4>2 DEF TypeOK
    <3>2. CASE ~ (wake[p] < Concurrency)
      <4>1. wake' = wake /\ pushes' = [pushes EXCEPT ![p][c] = 0]
        BY <1>3, <3>2 DEF Push
      <4>2. 0 \in 0..Concurrency
        BY DispatchAssumption
      <4> QED  BY <1>0, <4>1, <4>2 DEF TypeOK
    <3> QED  BY <3>1, <3>2
  <2> QED
    BY <1>0, <1>3, <1>a, <2>1, <2>3 DEF Push, TypeOK, schedulerVars, tickVars
<1>4. ASSUME NEW p \in Procs, Crash(p)
      PROVE  TypeInv'
  <2>1. JobsStep
    BY <1>0, <1>4, JobsMove DEF Crash, TypeOK, JobStates
  <2> QED  BY <1>0, <1>4, <1>a, <2>1 DEF Crash, TypeOK, AtStart
<1>5. ASSUME NEW p \in Procs, NEW s \in Slots, NEW j \in Jobs, Claim(p, s, j)
      PROVE  TypeInv'
  <2>1. JobsStep
    <3>1. at' \in [Jobs -> JobStates]
      BY <1>0, <1>5 DEF Claim, TypeOK, JobStates
    <3>2. at[j] = "due" /\ at'[j] = "busy" /\ \A i \in Jobs \ {j} : at'[i] = at[i]
      BY <1>0, <1>5 DEF Claim, TypeOK
    <3>3. /\ tries' \in [Jobs -> Nat]
          /\ tries'[j] = tries[j] + 1
          /\ \A i \in Jobs \ {j} : tries'[i] = tries[i]
      BY <1>0, <1>5 DEF Claim, TypeOK
    <3>4. tries[j] < MaxTries[j]
      BY <1>0, <3>2 DEF AttemptLeft
    <3>5. \A i \in Jobs : tries'[i] <= MaxTries[i]
      BY <1>0, <3>3, <3>4 DEF TypeOK
    <3>6. AttemptLeft'
      BY <1>0, <3>2, <3>3 DEF AttemptLeft
    <3> QED  BY <3>1, <3>3, <3>5, <3>6 DEF JobsStep
  <2>2. Goto(p, s, j)
    BY <1>5 DEF Claim
  <2>3. owed' \in BOOLEAN
    BY <1>5 DEF Claim
  <2> QED  BY <1>0, <1>5, <1>a, <2>1, <2>2, <2>3, GotoSlot DEF Claim, TypeOK
<1>6. ASSUME NEW p \in Procs, NEW s \in Slots, NEW j \in Jobs, Finish(p, s, j)
      PROVE  TypeInv'
  <2>1. JobsStep
    BY <1>0, <1>6, JobsMove DEF Finish, TypeOK, JobStates
  <2>2. Goto(p, s, "drain")
    BY <1>6 DEF Finish
  <2> QED  BY <1>0, <1>6, <1>a, <2>1, <2>2, GotoSlot DEF Finish, TypeOK
<1>7. ASSUME NEW p \in Procs, NEW s \in Slots, Empty(p, s) \/ Poll(p, s)
      PROVE  TypeInv'
  <2>1. JobsStep
    BY <1>7, JobsUnchanged DEF Empty, Poll, schedulerVars, jobVars
  <2>2. Goto(p, s, "wait") \/ Goto(p, s, "drain")
    BY <1>7 DEF Empty, Poll
  <2> QED
    BY <1>0, <1>7, <1>a, <2>1, <2>2, GotoSlot DEF Empty, Poll, TypeOK, schedulerVars, tickVars
<1>8. ASSUME NEW p \in Procs, NEW s \in Slots, SkipLocked(p, s)
      PROVE  TypeInv'
  <2>1. JobsStep
    BY <1>8, JobsUnchanged DEF SkipLocked
  <2>2. Goto(p, s, "wait")
    BY <1>8 DEF SkipLocked
  <2> QED  BY <1>0, <1>8, <1>a, <2>1, <2>2, GotoSlot DEF SkipLocked, TypeOK
<1>9. ASSUME NEW p \in Procs, NEW s \in Slots, Awake(p, s)
      PROVE  TypeInv'
  <2>1. JobsStep
    BY <1>9, JobsUnchanged DEF Awake, schedulerVars, jobVars
  <2>2. Goto(p, s, "drain")
    BY <1>9 DEF Awake
  <2>3. wake' \in [Procs -> 0..Concurrency]
    BY <1>0, <1>9 DEF Awake, TypeOK
  <2> QED
    BY <1>0, <1>9, <1>a, <2>1, <2>2, <2>3, GotoSlot DEF Awake, TypeOK, schedulerVars, tickVars
<1> QED
  BY <1>1, <1>2, <1>3, <1>4, <1>5, <1>6, <1>7, <1>8, <1>9

LEMMA TypeStep == TypeInv /\ [Next]_vars => TypeInv'
<1> SUFFICES ASSUME TypeInv, [Next]_vars
             PROVE  TypeInv'
  OBVIOUS
<1>1. CASE SchedulerNext /\ UNCHANGED workerVars
  BY <1>1, SchedulerTypeStep
<1>2. CASE UNCHANGED vars
  BY <1>2 DEF TypeInv, TypeOK, AttemptLeft, vars, schedulerVars, workerVars
<1> QED  BY <1>1, <1>2, WorkerTypeStep DEF Next

-----------------------------------------------------------------------------
(* A step after which no slot has got a job, no busy job has moved and no  *)
(* due job has left keeps SlotsHoldJobs and OwedIsDue, unless it makes the *)
(* queue owe a look.                                                       *)
LEMMA QuietStep ==
  ASSUME Inv, at' \in [Jobs -> JobStates],
         \A j \in Jobs : at[j] \in {"busy", "due"} => at'[j] = at[j],
         \A p \in Procs, s \in Slots :
           slot'[p][s] = slot[p][s] \/ slot'[p][s] \notin Jobs,
         owed' => owed \/ In("due") # {}
  PROVE  SlotsHoldJobs' /\ OwedIsDue'
<1>1. SlotsHoldJobs'
  BY DEF Inv, SlotsHoldJobs
<1>2. OwedIsDue'
  BY DEF Inv, OwedIsDue, In
<1> QED  BY <1>1, <1>2

(* Whoever looked still looks when nothing but the table has changed and   *)
(* signals were only added.                                                *)
LEMMA StillLooks ==
  ASSUME TypeOK, NoLostWakeup, UNCHANGED workerVars, net' \in 0..MaxSignals,
         net' >= net, owed' => owed \/ net' > 0
  PROVE  NoLostWakeup'
BY DEF TypeOK, NoLostWakeup, SomeoneLooks, workerVars

LEMMA SchedulerWakeupStep ==
  ASSUME Inv, SchedulerNext, UNCHANGED workerVars
  PROVE  SlotsHoldJobs' /\ OwedIsDue' /\ NoLostWakeup'
<1>0. TypeOK /\ TypeInv /\ NoLostWakeup /\ net \in 0..MaxSignals
  BY DEF Inv, TypeInv, TypeOK
<1>a. TypeInv' /\ at' \in [Jobs -> JobStates] /\ net' \in 0..MaxSignals
  BY <1>0, SchedulerTypeStep DEF TypeInv, TypeOK
<1>b. \A p \in Procs, s \in Slots : slot'[p][s] = slot[p][s]
  BY DEF workerVars
<1>1. ASSUME NEW j \in Jobs, Submit(j) \/ Schedule(j) \/ BecomeDue(j)
      PROVE  SlotsHoldJobs' /\ OwedIsDue' /\ NoLostWakeup'
  <2>1. \A i \in Jobs : at[i] \in {"busy", "due"} => at'[i] = at[i]
    BY <1>0, <1>1 DEF Submit, Schedule, BecomeDue, TypeOK
  <2>2. owed' = owed /\ net' = net
    BY <1>1 DEF Submit, Schedule, BecomeDue
  <2> QED  BY <1>0, <1>a, <1>b, <2>1, <2>2, QuietStep, StillLooks
<1>2. ASSUME NEW j \in Jobs, Publish(j) \/ PublishFails(j)
      PROVE  SlotsHoldJobs' /\ OwedIsDue' /\ NoLostWakeup'
  <2>1. at' = at
    BY <1>2 DEF Publish, PublishFails, jobVars
  <2>2. owed' => owed \/ (In("due") # {} /\ net' > 0)
    BY <1>0, <1>2, OneMoreType DEF Publish, PublishFails, In
  <2>3. net' >= net
    BY <1>0, <1>2 DEF Publish, PublishFails, OneMore
  <2> QED  BY <1>0, <1>a, <1>b, <2>1, <2>2, <2>3, QuietStep, StillLooks
<1>3. ASSUME NEW s \in Schedulers, TickFails(s) \/ \E c \in BOOLEAN : Lists(s, c)
      PROVE  SlotsHoldJobs' /\ OwedIsDue' /\ NoLostWakeup'
  <2>1. at' = at /\ owed' = owed /\ net' = net
    BY <1>3 DEF TickFails, Lists, jobVars
  <2> QED  BY <1>0, <1>a, <1>b, <2>1, QuietStep, StillLooks
<1>4. ASSUME NEW s \in Schedulers, NEW F \in SUBSET CronJobs, Fires(s, F)
      PROVE  SlotsHoldJobs' /\ OwedIsDue' /\ NoLostWakeup'
  <2>1. \A i \in Jobs : at[i] \in {"busy", "due"} => at'[i] = at[i]
    BY <1>4 DEF Fires, In
  <2>2. owed' = owed /\ net' = net
    BY <1>4 DEF Fires
  <2> QED  BY <1>0, <1>a, <1>b, <2>1, <2>2, QuietStep, StillLooks
<1>5. ASSUME NEW s \in Schedulers, NEW S \in SUBSET Jobs, Recovers(s, S)
      PROVE  SlotsHoldJobs' /\ OwedIsDue' /\ NoLostWakeup'
  <2>1. \A i \in Jobs : at[i] \in {"busy", "due"} => at'[i] = at[i]
    BY <1>5 DEF Recovers, In
  <2>2. owed' = owed /\ net' = net
    BY <1>5 DEF Recovers
  <2> QED  BY <1>0, <1>a, <1>b, <2>1, <2>2, QuietStep, StillLooks
<1>6. ASSUME NEW s \in Schedulers, Publishes(s)
      PROVE  SlotsHoldJobs' /\ OwedIsDue' /\ NoLostWakeup'
  <2>1. at' = at
    BY <1>6 DEF Publishes, jobVars
  <2>2. owed' => owed \/ (In("due") # {} /\ net' > 0)
    BY <1>0, <1>6, OneMoreType DEF Publishes
  <2>3. net' >= net
    BY <1>0, <1>6 DEF Publishes, OneMore
  <2> QED  BY <1>0, <1>a, <1>b, <2>1, <2>2, <2>3, QuietStep, StillLooks
<1>7. ASSUME NEW j \in Jobs, Cancel(j)
      PROVE  SlotsHoldJobs' /\ OwedIsDue' /\ NoLostWakeup'
  <2>1. /\ at[j] \in {"waiting", "due"} /\ at'[j] = "ended"
        /\ \A i \in Jobs \ {j} : at'[i] = at[i]
        /\ net' = net /\ (owed' => owed)
    BY <1>0, <1>7 DEF Cancel, TypeOK
  <2>2. SlotsHoldJobs'
    BY <1>b, <2>1 DEF Inv, SlotsHoldJobs
  <2>3. OwedIsDue'
    <3> SUFFICES ASSUME owed' PROVE In("due")' # {}
      BY DEF OwedIsDue
    <3>1. In("due") # {} /\ In("due") # {j}
      BY <1>7 DEF Cancel, Inv, OwedIsDue
    <3>2. PICK i \in In("due") : i # j
      BY <3>1
    <3> QED  BY <2>1, <3>2 DEF In
  <2>4. NoLostWakeup'
    BY <1>0, <1>a, <2>1, StillLooks
  <2> QED  BY <2>2, <2>3, <2>4
<1> QED
  BY <1>1, <1>2, <1>3, <1>4, <1>5, <1>6, <1>7 DEF SchedulerNext, TickStep

(* A slot that does not wait looks for a job, now or after its handler.    *)
LEMMA SlotLooks ==
  ASSUME TypeOK, NEW p \in Procs, NEW s \in Slots, NEW x \in {"drain"} \cup Jobs,
         Goto(p, s, x)
  PROVE  NoLostWakeup'
BY GotoSlot DEF NoLostWakeup, SomeoneLooks

(* A slot sleeps only when no job is due or rows were locked, and a signal *)
(* is used up only by waking one.                                          *)
LEMMA WorkerWakeupStep ==
  ASSUME Inv,
         \/ Lose
         \/ \E p \in Procs :
              \/ Deliver(p) \/ (\E c \in Callers : Push(p, c)) \/ Crash(p)
              \/ \E s \in Slots :
                   \/ \E j \in Jobs : Claim(p, s, j) \/ Finish(p, s, j)
                   \/ Empty(p, s) \/ SkipLocked(p, s) \/ Awake(p, s) \/ Poll(p, s)
  PROVE  SlotsHoldJobs' /\ OwedIsDue' /\ NoLostWakeup'
<1>0. /\ TypeOK /\ TypeInv /\ NoLostWakeup /\ SlotsHoldJobs /\ OwedIsDue
      /\ at \in [Jobs -> JobStates]
  BY DEF Inv, TypeInv, TypeOK
<1>a. TypeInv' /\ at' \in [Jobs -> JobStates]
  BY <1>0, WorkerTypeStep DEF TypeInv, TypeOK
<1>b. ASSUME UNCHANGED <<at, slot>>, owed' => owed
      PROVE  SlotsHoldJobs' /\ OwedIsDue'
  BY <1>0, <1>b DEF SlotsHoldJobs, OwedIsDue, In
<1>1. CASE Lose
  BY <1>1, <1>b DEF Lose, NoLostWakeup, jobVars, workerVars
<1>2. ASSUME NEW p \in Procs, Deliver(p)
      PROVE  SlotsHoldJobs' /\ OwedIsDue' /\ NoLostWakeup'
  <2>1. "nats" \in Callers /\ pushes'[p]["nats"] > 0
    BY <1>0, <1>2 DEF Deliver, TypeOK, Callers
  <2> QED  BY <1>2, <1>b, <2>1 DEF Deliver, NoLostWakeup, SomeoneLooks, jobVars
<1>3. ASSUME NEW p \in Procs, NEW c \in Callers, Push(p, c)
      PROVE  SlotsHoldJobs' /\ OwedIsDue' /\ NoLostWakeup'
  <2>1. wake[p] \in 0..Concurrency
    BY <1>0 DEF TypeOK
  <2>2. wake'[p] > 0
    <3>1. CASE wake[p] < Concurrency
      BY <1>0, <1>3, <2>1, <3>1 DEF Push, TypeOK
    <3>2. CASE ~ (wake[p] < Concurrency)
      BY <1>0, <1>3, <2>1, <3>2 DEF Push, TypeOK
    <3> QED  BY <3>1, <3>2
  <2> QED  BY <1>3, <1>b, <2>2 DEF Push, NoLostWakeup, SomeoneLooks, schedulerVars
<1>4. ASSUME NEW p \in Procs, Crash(p)
      PROVE  SlotsHoldJobs' /\ OwedIsDue' /\ NoLostWakeup'
  <2>1. /\ \A s \in Slots : slot'[p][s] = "drain"
        /\ \A q \in Procs \ {p}, s \in Slots : slot'[q][s] = slot[q][s]
    BY <1>0, <1>4 DEF Crash, TypeOK
  <2>2. \A j \in Jobs :
          \/ at'[j] = at[j]
          \/ at[j] = "busy" /\ \E s \in Slots : slot[p][s] = j
    BY <1>0, <1>4 DEF Crash, SlotsHoldJobs
  <2>3. SlotsHoldJobs'
    <3> SUFFICES ASSUME NEW q \in Procs, NEW s \in Slots, slot'[q][s] \in Jobs
                 PROVE  /\ at'[slot'[q][s]] = "busy"
                        /\ \A r \in Procs, t \in Slots :
                             slot'[r][t] = slot'[q][s] => r = q /\ t = s
      BY DEF SlotsHoldJobs
    <3>1. q # p /\ slot'[q][s] = slot[q][s]
      BY <2>1
    <3>2. at[slot[q][s]] = "busy" /\ ~ \E t \in Slots : slot[p][t] = slot[q][s]
      BY <1>0, <3>1 DEF SlotsHoldJobs
    <3>3. at'[slot'[q][s]] = "busy"
      BY <2>2, <3>1, <3>2
    <3> QED  BY <1>0, <2>1, <3>1, <3>3 DEF SlotsHoldJobs
  <2>4. OwedIsDue'
    BY <1>0, <1>4, <2>2 DEF Crash, OwedIsDue, In
  <2>5. 1 \in Slots
    BY DEF Slots
  <2>6. NoLostWakeup'
    BY <2>1, <2>5 DEF NoLostWakeup, SomeoneLooks
  <2> QED  BY <2>3, <2>4, <2>6
<1>5. ASSUME NEW p \in Procs, NEW s \in Slots, NEW j \in Jobs, Claim(p, s, j)
      PROVE  SlotsHoldJobs' /\ OwedIsDue' /\ NoLostWakeup'
  <2>1. Goto(p, s, j)
    BY <1>5 DEF Claim
  <2>2. at[j] = "due" /\ at'[j] = "busy" /\ \A i \in Jobs \ {j} : at'[i] = at[i]
    BY <1>0, <1>5 DEF Claim
  <2>3. \A q \in Procs, t \in Slots :
          slot'[q][t] = IF q = p /\ t = s THEN j ELSE slot[q][t]
    <3>1. /\ slot \in [Procs -> [Slots -> {"drain", "wait"} \cup Jobs]]
          /\ slot' = [slot EXCEPT ![p][s] = j]
      BY <1>0, <2>1 DEF TypeOK, Goto
    <3> QED  BY <3>1
  <2>4. \A q \in Procs, t \in Slots : slot[q][t] # j
    BY <1>0, <2>2 DEF SlotsHoldJobs
  <2>5. SlotsHoldJobs'
    BY <1>0, <2>2, <2>3, <2>4 DEF SlotsHoldJobs
  <2>6. OwedIsDue'
    <3> SUFFICES ASSUME owed' PROVE In("due")' # {}
      BY DEF OwedIsDue
    <3>1. In("due") # {} /\ In("due") # {j}
      BY <1>0, <1>5 DEF Claim, OwedIsDue
    <3>2. PICK i \in In("due") : i # j
      BY <3>1
    <3> QED  BY <2>2, <3>2 DEF In
  <2> QED  BY <1>0, <2>1, <2>5, <2>6, SlotLooks
<1>6. ASSUME NEW p \in Procs, NEW s \in Slots, NEW j \in Jobs, Finish(p, s, j)
      PROVE  SlotsHoldJobs' /\ OwedIsDue' /\ NoLostWakeup'
  <2>1. Goto(p, s, "drain")
    BY <1>6 DEF Finish
  <2>2. \A i \in Jobs \ {j} : at'[i] = at[i]
    BY <1>0, <1>6 DEF Finish
  <2>3. \A q \in Procs, t \in Slots :
          slot'[q][t] = IF q = p /\ t = s THEN "drain" ELSE slot[q][t]
    BY <1>0, <2>1, GotoSlot
  <2>4. /\ at[j] = "busy"
        /\ \A q \in Procs, t \in Slots : slot[q][t] = j => q = p /\ t = s
    BY <1>0, <1>6 DEF Finish, SlotsHoldJobs
  <2>5. SlotsHoldJobs'
    BY <1>0, <2>2, <2>3, <2>4 DEF SlotsHoldJobs
  <2>6. OwedIsDue'
    BY <1>0, <1>6, <2>2, <2>4 DEF Finish, OwedIsDue, In
  <2> QED  BY <1>0, <2>1, <2>5, <2>6, SlotLooks
<1>7. ASSUME NEW p \in Procs, NEW s \in Slots, NEW x \in {"drain", "wait"},
             Goto(p, s, x), at' = at, owed' => owed
      PROVE  SlotsHoldJobs' /\ OwedIsDue'
  <2>1. \A q \in Procs, t \in Slots : slot'[q][t] = slot[q][t] \/ slot'[q][t] \notin Jobs
    BY <1>0, <1>7, GotoSlot
  <2> QED  BY <1>a, <1>7, <2>1, QuietStep
<1>8. ASSUME NEW p \in Procs, NEW s \in Slots, Empty(p, s) \/ SkipLocked(p, s)
      PROVE  SlotsHoldJobs' /\ OwedIsDue' /\ NoLostWakeup'
  <2>1. Goto(p, s, "wait") /\ at' = at /\ ~ owed'
    BY <1>0, <1>8 DEF Empty, SkipLocked, OwedIsDue, schedulerVars, jobVars
  <2> QED  BY <1>7, <2>1 DEF NoLostWakeup
<1>9. ASSUME NEW p \in Procs, NEW s \in Slots, Awake(p, s) \/ Poll(p, s)
      PROVE  SlotsHoldJobs' /\ OwedIsDue' /\ NoLostWakeup'
  <2>1. Goto(p, s, "drain") /\ at' = at /\ owed' = owed
    BY <1>9 DEF Awake, Poll, schedulerVars
  <2> QED  BY <1>0, <1>7, <2>1, SlotLooks
<1> QED
  BY <1>1, <1>2, <1>3, <1>4, <1>5, <1>6, <1>8, <1>9

-----------------------------------------------------------------------------
(* The initial states have the types.                                      *)
LEMMA InitType == Init => TypeInv
<1> SUFFICES ASSUME Init
             PROVE  TypeInv
  OBVIOUS
<1>1. owed \in BOOLEAN /\ signal \in [Schedulers -> BOOLEAN] /\ silent \subseteq Jobs
  BY Zenon DEF Init, SchedulerInit
<1>2. /\ at \in [Jobs -> JobStates] /\ tries \in [Jobs -> Nat]
      /\ \A j \in Jobs : at[j] = "new" /\ tries[j] = 0
      /\ net \in 0..MaxSignals /\ step \in [Schedulers -> Steps]
  BY DEF Init, SchedulerInit, JobStates, Steps
<1>3. /\ pushes \in [Procs -> [Callers -> 0..Concurrency]] /\ wake \in [Procs -> 0..Concurrency]
      /\ slot \in [Procs -> [Slots -> {"drain", "wait"} \cup Jobs]]
  BY DEF Init, AtStart
<1> QED  BY <1>1, <1>2, <1>3 DEF TypeInv, TypeOK, AttemptLeft

(* Type correctness of the dispatch path: signalWake never overfills the   *)
(* wake channel, and no job is claimed more often than max_attempts.       *)
THEOREM TypeCorrect == Spec => []TypeOK
<1>1. TypeInv => TypeOK
  BY DEF TypeInv
<1> QED  BY <1>1, InitType, TypeStep, PTL DEF Spec

(* No wake-up is lost between the commit of a job, its signal, the wake    *)
(* channel and a slot about to sleep.                                      *)
THEOREM WakeupCorrect == Spec => []NoLostWakeup
<1>1. Init => Inv
  BY InitType DEF Init, SchedulerInit, Inv, SlotsHoldJobs, OwedIsDue, NoLostWakeup
<1>2. Inv /\ [Next]_vars => Inv'
  <2> SUFFICES ASSUME Inv, [Next]_vars
               PROVE  Inv'
    OBVIOUS
  <2>1. TypeInv'
    BY TypeStep DEF Inv
  <2>2. CASE SchedulerNext /\ UNCHANGED workerVars
    BY <2>1, <2>2, SchedulerWakeupStep DEF Inv
  <2>3. CASE UNCHANGED vars
    BY <2>1, <2>3 DEF Inv, SlotsHoldJobs, OwedIsDue, In, NoLostWakeup, SomeoneLooks,
                      vars, schedulerVars, workerVars
  <2> QED  BY <2>1, <2>2, <2>3, WorkerWakeupStep DEF Inv, Next
<1>3. Inv => NoLostWakeup
  BY DEF Inv
<1> QED  BY <1>1, <1>2, <1>3, PTL DEF Spec
=============================================================================
