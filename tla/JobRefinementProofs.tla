------------------------- MODULE JobRefinementProofs ------------------------
(***************************************************************************)
(* The proof that the tables implement the lifecycle a submitter is        *)
(* promised, for every set of jobs, workers and callers.                   *)
(*                                                                         *)
(* The invariant of JobStoreProofs is what makes the log of a job well     *)
(* defined: its attempts are numbered without gap or repetition, so each   *)
(* number has one row of job_attempts and one outcome.                     *)
(***************************************************************************)
EXTENDS JobRefinement, JobStoreProofs

(* What a step does to one job: it leaves the life of k alone, or makes    *)
(* one of the moves of the lifecycle.                                      *)
Follows(k) == LifeOf(k)' = LifeOf(k) \/ Lifecycle!Move(LifeOf(k), LifeOf(k)')

-----------------------------------------------------------------------------
(* The log.                                                                *)

LEMMA OutcomeIsStatus ==
  ASSUME Inv, NEW a \in attempts
  PROVE  OutcomeOf(a.job, a.number) = a.status
<1> DEFINE b == CHOOSE c \in attempts : c.job = a.job /\ c.number = a.number
<1>1. b \in attempts /\ b.job = a.job /\ b.number = a.number
  OBVIOUS
<1>2. b = a
  BY <1>1 DEF Inv, AttemptsGapless
<1> QED  BY <1>2 DEF OutcomeOf

LEMMA LogEntry ==
  ASSUME Inv, NEW k \in Jobs, NEW n \in 1..jobs[k].attemptCount
  PROVE  \E a \in attempts : a.job = k /\ a.number = n /\ OutcomeOf(k, n) = a.status
<1>1. PICK a \in attempts : a.job = k /\ a.number = n
  BY DEF Inv, AttemptsGapless
<1>2. OutcomeOf(a.job, a.number) = a.status
  BY OutcomeIsStatus
<1> QED  BY <1>1, <1>2

LEMMA OutcomeIsStatusNext ==
  ASSUME Inv', NEW a \in attempts'
  PROVE  (\A n : n = a.number => (OutcomeOf(a.job, n)' = a.status))
<1> SUFFICES ASSUME NEW n, n = a.number
             PROVE  OutcomeOf(a.job, n)' = a.status
  OBVIOUS
<1> DEFINE b == CHOOSE c \in attempts' : c.job = a.job /\ c.number = n
<1>1. b \in attempts' /\ b.job = a.job /\ b.number = a.number
  OBVIOUS
<1>2. b = a
  BY <1>1 DEF Inv, AttemptsGapless
<1> QED  BY <1>2 DEF OutcomeOf

(* A step that closes no attempt of k keeps its log.                       *)
LEMMA LogKept ==
  ASSUME Inv, Inv', NEW k \in Jobs,
         jobs'[k].attemptCount = jobs[k].attemptCount,
         \A a \in attempts : a.job = k => a \in attempts'
  PROVE  \A n \in 1..jobs[k].attemptCount : OutcomeOf(k, n)' = OutcomeOf(k, n)
<1> SUFFICES ASSUME NEW n \in 1..jobs[k].attemptCount
             PROVE  OutcomeOf(k, n)' = OutcomeOf(k, n)
  OBVIOUS
<1>1. PICK a \in attempts : a.job = k /\ a.number = n /\ OutcomeOf(k, n) = a.status
  BY LogEntry
<1>2. a \in attempts'
  BY <1>1
<1>3. OutcomeOf(a.job, n)' = a.status
  BY <1>1, <1>2, OutcomeIsStatusNext
<1> QED  BY <1>1, <1>3

(* A step that ends the open attempt of k changes the last entry only.     *)
LEMMA LogEnded ==
  ASSUME Inv, Inv', NEW k \in Jobs, Running(k), NEW outcome,
         jobs'[k].attemptCount = jobs[k].attemptCount,
         \A a \in attempts : a.job = k =>
           IF a.status = "running" THEN [a EXCEPT !.status = outcome] \in attempts'
                                   ELSE a \in attempts'
  PROVE  \A n \in 1..jobs[k].attemptCount :
           (OutcomeOf(k, n)') = IF n = jobs[k].attemptCount THEN outcome
                                                           ELSE OutcomeOf(k, n)
<1> SUFFICES ASSUME NEW n \in 1..jobs[k].attemptCount
             PROVE  (OutcomeOf(k, n)') = IF n = jobs[k].attemptCount THEN outcome
                                                                    ELSE OutcomeOf(k, n)
  OBVIOUS
<1>1. PICK a \in attempts : a.job = k /\ a.number = n /\ OutcomeOf(k, n) = a.status
  BY LogEntry
<1>2. PICK b \in attempts : b.job = k /\ b.status = "running"
  BY DEF Inv, OpenAttemptIsLease
<1>3. b.number = jobs[k].attemptCount /\ a \in Attempt
  BY <1>2 DEF Inv, OpenAttemptIsLease, TypeOK
<1>4. CASE a.status = "running"
  <2>1. a.number = jobs[k].attemptCount
    BY <1>1, <1>4 DEF Inv, OpenAttemptIsLease
  <2> DEFINE c == [a EXCEPT !.status = outcome]
  <2>2. c.job = k /\ c.number = n /\ c.status = outcome /\ c \in attempts'
    BY <1>1, <1>3, <1>4 DEF Attempt
  <2> HIDE DEF c
  <2>3. OutcomeOf(c.job, n)' = c.status
    BY <2>2, OutcomeIsStatusNext
  <2> QED  BY <1>1, <2>1, <2>2, <2>3
<1>5. CASE a.status # "running"
  <2>1. a.number # jobs[k].attemptCount
    <3>1. CASE a = b
      BY <1>2, <1>5, <3>1
    <3>2. CASE a # b
      BY <1>1, <1>2, <1>3, <3>2 DEF Inv, AttemptsGapless
    <3> QED  BY <3>1, <3>2
  <2>2. a \in attempts'
    BY <1>1, <1>5
  <2>3. OutcomeOf(a.job, n)' = a.status
    BY <1>1, <2>2, OutcomeIsStatusNext
  <2> QED  BY <1>1, <2>1, <2>3
<1> QED  BY <1>4, <1>5

-----------------------------------------------------------------------------
(* The life of a job, as a record.                                         *)

Life(state, budget, tries, log) ==
  [state |-> state, budget |-> budget, tries |-> tries, log |-> log]

Log(k) == [n \in 1..jobs[k].attemptCount |-> OutcomeOf(k, n)]

LEMMA LifeIs ==
  ASSUME NEW k
  PROVE  /\ LifeOf(k) = Life(StateOf(jobs[k].status), jobs[k].maxAttempts,
                             jobs[k].attemptCount, Log(k))
         /\ LifeOf(k)' = Life(StateOf(jobs'[k].status), jobs'[k].maxAttempts,
                              jobs'[k].attemptCount, Log(k)')
BY DEF LifeOf, Life, Log, StateOf

(* The fields of a life, and lives that differ in some of them.            *)
LEMMA LifeFields ==
  ASSUME NEW s, NEW b, NEW t, NEW g
  PROVE  /\ Life(s, b, t, g).state = s /\ Life(s, b, t, g).budget = b
         /\ Life(s, b, t, g).tries = t /\ Life(s, b, t, g).log = g
         /\ \A s2 : [Life(s, b, t, g) EXCEPT !.state = s2] = Life(s2, b, t, g)
BY DEF Life

(* Statuses that tell a submitter the same are one state.                  *)
LEMMA States ==
  /\ StateOf("absent") = "absent" /\ StateOf("running") = "running"
  /\ StateOf("succeeded") = "succeeded" /\ StateOf("cancelled") = "cancelled"
  /\ StateOf("queued") = "waiting" /\ StateOf("retry_scheduled") = "waiting"
  /\ StateOf("failed") = "dead" /\ StateOf("dead_letter") = "dead"
BY DEF StateOf, Claimable

LEMMA EmptyLog == ASSUME NEW k, jobs[k].attemptCount = 0 PROVE Log(k) = <<>>
BY DEF Log

LEMMA SameLife ==
  ASSUME Inv, Inv', NEW k \in Jobs,
         StateOf(jobs'[k].status) = StateOf(jobs[k].status),
         jobs'[k].maxAttempts = jobs[k].maxAttempts,
         jobs'[k].attemptCount = jobs[k].attemptCount,
         \A a \in attempts : a.job = k => a \in attempts'
  PROVE  Follows(k)
<1>1. Log(k)' = Log(k)
  BY LogKept DEF Log
<1>2. LifeOf(k)' = LifeOf(k)
  BY <1>1, LifeIs
<1> QED  BY <1>2 DEF Follows

-----------------------------------------------------------------------------
(* The moves, between lives given by their fields.                         *)

LEMMA AcceptMove ==
  ASSUME NEW b, NEW t, NEW g, NEW c \in MaxAttempts
  PROVE  Lifecycle!Move(Life("absent", b, t, g), Life("waiting", c, 0, <<>>))
<1>1. Life("absent", b, t, g).state = "absent"
  BY LifeFields
<1>2. Life("waiting", c, 0, <<>>) = Lifecycle!New(c)
  BY DEF Life, Lifecycle!New
<1>3. Lifecycle!Accept(Life("absent", b, t, g), Life("waiting", c, 0, <<>>))
  BY <1>1, <1>2 DEF Lifecycle!Accept
<1> QED  BY <1>3 DEF Lifecycle!Move

LEMMA BeginMove ==
  ASSUME NEW b, NEW t, NEW g, t < b
  PROVE  Lifecycle!Move(Life("waiting", b, t, g),
                        Life("running", b, t + 1,
                             [n \in 1..(t + 1) |-> IF n <= t THEN g[n] ELSE "running"]))
<1> DEFINE l == Life("waiting", b, t, g)
           h == [n \in 1..(t + 1) |-> IF n <= t THEN g[n] ELSE "running"]
<1>1. l.state = "waiting" /\ l.budget = b /\ l.tries = t /\ l.log = g
  BY LifeFields
<1>2. [l EXCEPT !.state = "running", !.tries = t + 1, !.log = h]
        = Life("running", b, t + 1, h)
  <2> DEFINE r == [l EXCEPT !.state = "running"]
             q == [r EXCEPT !.tries = t + 1]
  <2>1. r = Life("running", b, t, g)
    BY LifeFields
  <2> HIDE DEF r
  <2>2. q = Life("running", b, t + 1, g)
    BY <2>1 DEF Life
  <2> HIDE DEF q, h
  <2>3. [q EXCEPT !.log = h] = Life("running", b, t + 1, h)
    BY <2>2 DEF Life
  <2> QED  BY <2>3, Zenon DEF r, q
<1> HIDE DEF l
<1>3. [l EXCEPT !.state = "running", !.tries = l.tries + 1,
                !.log = [n \in 1..(l.tries + 1) |->
                           IF n <= l.tries THEN l.log[n] ELSE "running"]]
        = Life("running", b, t + 1, h)
  BY <1>1, <1>2
<1> HIDE DEF h
<1>4. Lifecycle!Begin(l, Life("running", b, t + 1, h))
  BY <1>1, <1>3 DEF Lifecycle!Begin, Lifecycle!HasTry
<1> QED  BY <1>4 DEF Lifecycle!Move, l, h

LEMMA SucceedMove ==
  ASSUME NEW b, NEW t, NEW g
  PROVE  Lifecycle!Move(Life("running", b, t, g),
                        Life("succeeded", b, t, [g EXCEPT ![t] = "succeeded"]))
<1> DEFINE l == Life("running", b, t, g)
           h == [g EXCEPT ![t] = "succeeded"]
<1>1. l.state = "running" /\ l.tries = t /\ l.log = g
  BY LifeFields
<1>2. [l EXCEPT !.state = "succeeded", !.log = h] = Life("succeeded", b, t, h)
  <2> DEFINE r == [l EXCEPT !.state = "succeeded"]
  <2>1. r = Life("succeeded", b, t, g)
    BY LifeFields
  <2> HIDE DEF r
  <2>2. [r EXCEPT !.log = h] = Life("succeeded", b, t, h)
    BY <2>1 DEF Life
  <2> QED  BY <2>2, Zenon DEF r
<1>3. Lifecycle!Ended(l, "succeeded") = h
  BY <1>1 DEF Lifecycle!Ended
<1> HIDE DEF l, h
<1>4. Lifecycle!Succeed(l, Life("succeeded", b, t, h))
  BY <1>1, <1>2, <1>3 DEF Lifecycle!Succeed
<1> QED  BY <1>4 DEF Lifecycle!Move, l, h

LEMMA FailMove ==
  ASSUME NEW b, NEW t, NEW g
  PROVE  Lifecycle!Move(Life("running", b, t, g),
                        Life(IF t < b THEN "waiting" ELSE "dead", b, t,
                             [g EXCEPT ![t] = "failed"]))
<1> DEFINE l == Life("running", b, t, g)
           h == [g EXCEPT ![t] = "failed"]
           s == IF t < b THEN "waiting" ELSE "dead"
<1>1. l.state = "running" /\ l.tries = t /\ l.log = g /\ l.budget = b
  BY LifeFields
<1>2. [l EXCEPT !.state = s, !.log = h] = Life(s, b, t, h)
  <2> DEFINE r == [l EXCEPT !.state = s]
  <2>1. r = Life(s, b, t, g)
    BY LifeFields
  <2> HIDE DEF r, s
  <2>2. [r EXCEPT !.log = h] = Life(s, b, t, h)
    BY <2>1 DEF Life
  <2> QED  BY <2>2, Zenon DEF r
<1>3. /\ Lifecycle!Ended(l, "failed") = h
      /\ (IF Lifecycle!HasTry(l) THEN "waiting" ELSE "dead") = s
  BY <1>1 DEF Lifecycle!Ended, Lifecycle!HasTry
<1> HIDE DEF l, h, s
<1>4. Lifecycle!Fail(l, Life(s, b, t, h))
  BY <1>1, <1>2, <1>3 DEF Lifecycle!Fail
<1> QED  BY <1>4 DEF Lifecycle!Move, l, h, s

LEMMA CancelMove ==
  ASSUME NEW b, NEW t, NEW g
  PROVE  Lifecycle!Move(Life("waiting", b, t, g), Life("cancelled", b, t, g))
<1>1. Lifecycle!Cancel(Life("waiting", b, t, g), Life("cancelled", b, t, g))
  BY LifeFields DEF Lifecycle!Cancel
<1> QED  BY <1>1 DEF Lifecycle!Move

LEMMA ReopenMove ==
  ASSUME NEW s \in {"dead", "cancelled"}, NEW b, NEW t, NEW g, t < AttemptBound
  PROVE  Lifecycle!Move(Life(s, b, t, g),
                        Life("waiting", IF t < b THEN b ELSE t + 1, t, g))
<1> DEFINE l == Life(s, b, t, g)
           c == IF t < b THEN b ELSE t + 1
<1>1. l.state = s /\ l.tries = t /\ l.budget = b
  BY LifeFields
<1>2. [l EXCEPT !.state = "waiting", !.budget = c] = Life("waiting", c, t, g)
  <2> DEFINE r == [l EXCEPT !.state = "waiting"]
  <2>1. r = Life("waiting", b, t, g)
    BY LifeFields
  <2> HIDE DEF r, c
  <2>2. [r EXCEPT !.budget = c] = Life("waiting", c, t, g)
    BY <2>1 DEF Life
  <2> QED  BY <2>2, Zenon DEF r
<1>3. (IF Lifecycle!HasTry(l) THEN l.budget ELSE l.tries + 1) = c
  BY <1>1 DEF Lifecycle!HasTry
<1> HIDE DEF l, c
<1>4. Lifecycle!Reopen(l, Life("waiting", c, t, g))
  BY <1>1, <1>2, <1>3 DEF Lifecycle!Reopen
<1> QED  BY <1>4 DEF Lifecycle!Move, l, c

-----------------------------------------------------------------------------
(* Every operation of the tables, seen by one job k.                       *)

LEMMA CreateJobMoves ==
  ASSUME Inv, Inv', NEW j \in Jobs, NEW q \in Queues, NEW m \in MaxAttempts,
         NEW d \in Delays, NEW lag \in Lags, CreateJob(j, q, m, d, lag), NEW k \in Jobs
  PROVE  Follows(k)
<1>1. jobs \in [Jobs -> Row] /\ attempts' = attempts
  BY DEF Inv, TypeOK, CreateJob
<1>2. CASE k = j
  <2>1. /\ jobs[k].status = "absent" /\ jobs'[k].status = "queued"
        /\ jobs'[k].maxAttempts = m /\ jobs'[k].attemptCount = 0
    BY <1>1, <1>2 DEF CreateJob, NoRow
  <2>2. Log(k)' = <<>>
    BY <2>1 DEF Log
  <2>3. LifeOf(k) = Life("absent", jobs[k].maxAttempts, jobs[k].attemptCount, Log(k))
    BY <2>1, LifeIs, States
  <2>4. LifeOf(k)' = Life("waiting", m, 0, <<>>)
    BY <2>1, <2>2, LifeIs, States
  <2> QED  BY <2>3, <2>4, AcceptMove DEF Follows
<1>3. CASE k # j
  <2>1. jobs'[k] = jobs[k]
    BY <1>1, <1>3 DEF CreateJob
  <2> QED  BY <1>1, <2>1, SameLife
<1> QED  BY <1>2, <1>3

LEMMA ClaimJobMoves ==
  ASSUME Inv, Inv', NEW j \in Jobs, NEW q \in Queues, NEW w \in Workers,
         NEW lag \in Lags, ClaimJob(j, q, w, lag), NEW k \in Jobs
  PROVE  Follows(k)
<1>1. jobs \in [Jobs -> Row] /\ attempts \subseteq attempts'
  BY DEF Inv, TypeOK, ClaimJob
<1>2. CASE k = j
  <2>0. PICK c : c = jobs[k].attemptCount
    OBVIOUS
  <2>1. jobs[k] \in Row /\ c \in Nat /\ jobs[k].status \in Claimable /\ c < jobs[k].maxAttempts
    BY <1>1, <1>2, <2>0 DEF ClaimJob, Due, Row, Inv, AttemptBudget, AttemptsLeft
  <2>2. /\ jobs'[k].status = "running" /\ jobs'[k].attemptCount = c + 1
        /\ jobs'[k].maxAttempts = jobs[k].maxAttempts
    BY <1>1, <1>2, <2>0, <2>1 DEF ClaimJob, Row
  <2>3. PICK new \in attempts' : new.job = k /\ new.number = c + 1 /\ new.status = "running"
    <3> DEFINE row == [job |-> j, number |-> jobs[j].attemptCount + 1, worker |-> w,
                       token |-> NewToken(j), status |-> "running"]
    <3>1. row \in attempts'
      BY DEF ClaimJob
    <3>2. row.job = k /\ row.number = c + 1 /\ row.status = "running"
      BY <1>2, <2>0
    <3> HIDE DEF row
    <3> QED  BY <3>1, <3>2
  <2>4. \A n : n = c + 1 => (OutcomeOf(k, n)' = "running")
    BY <2>3, OutcomeIsStatusNext
  <2>5. ASSUME NEW n \in 1..c
        PROVE  OutcomeOf(k, n)' = OutcomeOf(k, n)
    <3>1. PICK a \in attempts : a.job = k /\ a.number = n /\ OutcomeOf(k, n) = a.status
      BY <2>0, LogEntry
    <3>2. OutcomeOf(a.job, n)' = a.status
      BY <1>1, <3>1, OutcomeIsStatusNext
    <3> QED  BY <3>1, <3>2
  <2>6. Log(k)' = [n \in 1..(c + 1) |-> IF n <= c THEN Log(k)[n] ELSE "running"]
    <3>1. Log(k)' = [n \in 1..(c + 1) |-> OutcomeOf(k, n)']
      BY <2>2 DEF Log
    <3>2. ASSUME NEW n \in 1..(c + 1)
          PROVE  OutcomeOf(k, n)' = IF n <= c THEN Log(k)[n] ELSE "running"
      <4>1. CASE n <= c
        <5>1. n \in 1..c
          BY <2>1, <4>1
        <5> QED  BY <2>0, <2>5, <4>1, <5>1 DEF Log
      <4>2. CASE n = c + 1
        BY <2>1, <2>4, <4>2
      <4> QED  BY <2>1, <4>1, <4>2
    <3> QED  BY <3>1, <3>2
  <2>7. LifeOf(k) = Life("waiting", jobs[k].maxAttempts, c, Log(k))
    BY <2>0, <2>1, LifeIs, States DEF Claimable
  <2>8. LifeOf(k)' = Life("running", jobs[k].maxAttempts, c + 1, Log(k)')
    BY <2>2, LifeIs, States
  <2>9. Lifecycle!Move(Life("waiting", jobs[k].maxAttempts, c, Log(k)),
                       Life("running", jobs[k].maxAttempts, c + 1,
                            [n \in 1..(c + 1) |-> IF n <= c THEN Log(k)[n] ELSE "running"]))
    BY <2>1, BeginMove
  <2> QED  BY <2>6, <2>7, <2>8, <2>9, Zenon DEF Follows
<1>3. CASE k # j
  <2>1. jobs'[k] = jobs[k]
    BY <1>1, <1>3 DEF ClaimJob
  <2> QED  BY <1>1, <2>1, SameLife
<1> QED  BY <1>2, <1>3

(* The log after the open attempt of k ended.                              *)
LEMMA EndedLog ==
  ASSUME Inv, Inv', NEW k \in Jobs, Running(k), NEW outcome,
         jobs'[k].attemptCount = jobs[k].attemptCount,
         attempts' = {Close(a, {k}, outcome) : a \in attempts}
           \/ \E S \in SUBSET Jobs :
                k \in S /\ attempts' = {Close(a, S, outcome) : a \in attempts}
  PROVE  Log(k)' = [Log(k) EXCEPT ![jobs[k].attemptCount] = outcome]
<1>1. PICK S : k \in S /\ attempts' = {Close(a, S, outcome) : a \in attempts}
  OBVIOUS
<1>2. \A a \in attempts : a.job = k =>
        IF a.status = "running" THEN [a EXCEPT !.status = outcome] \in attempts'
                                ELSE a \in attempts'
  BY <1>1 DEF Close
<1>3. \A n \in 1..jobs[k].attemptCount :
        (OutcomeOf(k, n)') = IF n = jobs[k].attemptCount THEN outcome ELSE OutcomeOf(k, n)
  BY <1>2, LogEnded
<1>4. Log(k)' = [n \in 1..jobs[k].attemptCount |->
                   IF n = jobs[k].attemptCount THEN outcome ELSE OutcomeOf(k, n)]
  BY <1>3 DEF Log
<1> QED  BY <1>4 DEF Log

LEMMA CompleteJobMoves ==
  ASSUME Inv, Inv', NEW j \in Jobs, NEW t \in 1..issued, CompleteJob(j, t), NEW k \in Jobs
  PROVE  Follows(k)
<1>1. jobs \in [Jobs -> Row] /\ Fenced(j, t)
  BY DEF Inv, TypeOK, CompleteJob
<1>2. attempts' = {Close(a, {j}, "succeeded") : a \in attempts}
  BY <1>1, FinishIsClose DEF CompleteJob
<1>3. CASE k = j
  <2>1. jobs[k] \in Row /\ jobs[k].status = "running"
    BY <1>1, <1>3 DEF Fenced, Running
  <2>2. /\ jobs'[k].status = "succeeded" /\ jobs'[k].maxAttempts = jobs[k].maxAttempts
        /\ jobs'[k].attemptCount = jobs[k].attemptCount
    BY <1>1, <1>3, <2>1 DEF CompleteJob, Unlocked, Row
  <2>3. Log(k)' = [Log(k) EXCEPT ![jobs[k].attemptCount] = "succeeded"]
    BY <1>2, <1>3, <2>1, <2>2, EndedLog DEF Running
  <2>4. LifeOf(k) = Life("running", jobs[k].maxAttempts, jobs[k].attemptCount, Log(k))
    BY <2>1, LifeIs, States
  <2>5. LifeOf(k)' = Life("succeeded", jobs[k].maxAttempts, jobs[k].attemptCount, Log(k)')
    BY <2>2, LifeIs, States
  <2>6. Lifecycle!Move(Life("running", jobs[k].maxAttempts, jobs[k].attemptCount, Log(k)),
                       Life("succeeded", jobs[k].maxAttempts, jobs[k].attemptCount,
                            [Log(k) EXCEPT ![jobs[k].attemptCount] = "succeeded"]))
    BY SucceedMove, Zenon
  <2> QED  BY <2>3, <2>4, <2>5, <2>6, Zenon DEF Follows
<1>4. CASE k # j
  <2>1. jobs'[k] = jobs[k]
    BY <1>1, <1>4 DEF CompleteJob
  <2>2. \A a \in attempts : a.job = k => a \in attempts'
    BY <1>2, <1>4 DEF Close
  <2> QED  BY <2>1, <2>2, SameLife
<1> QED  BY <1>3, <1>4

(* FailJob and RecoverExpiredJobs end the attempts of the jobs S.          *)
LEMMA FailureMoves ==
  ASSUME Inv, Inv', NEW S \in SUBSET Jobs, \A j \in S : Running(j),
         NEW delay, \A j \in S : delay[j] \in Int,
         jobs' = [j \in Jobs |-> IF j \in S THEN AfterFailure(jobs[j], delay[j])
                                            ELSE jobs[j]],
         attempts' = {Close(a, S, "failed") : a \in attempts},
         NEW k \in Jobs
  PROVE  Follows(k)
<1>1. jobs[k] \in Row
  BY DEF Inv, TypeOK
<1>2. CASE k \in S
  <2> DEFINE b == jobs[k].maxAttempts
             c == jobs[k].attemptCount
  <2>1. jobs[k].status = "running" /\ jobs'[k] = AfterFailure(jobs[k], delay[k])
    BY <1>2 DEF Running
  <2>2. /\ jobs'[k].maxAttempts = b /\ jobs'[k].attemptCount = c
        /\ jobs'[k].status = IF c < b THEN "retry_scheduled" ELSE "dead_letter"
    BY <1>1, <2>1 DEF AfterFailure, AttemptsLeft, Unlocked, Row
  <2>3. Log(k)' = [Log(k) EXCEPT ![c] = "failed"]
    BY <1>2, <2>2, EndedLog
  <2>4. LifeOf(k) = Life("running", b, c, Log(k))
    BY <2>1, LifeIs, States
  <2>5. StateOf(jobs'[k].status) = IF c < b THEN "waiting" ELSE "dead"
    BY <2>2, States
  <2>6. LifeOf(k)' = Life(IF c < b THEN "waiting" ELSE "dead", b, c, Log(k)')
    BY <2>2, <2>5, LifeIs
  <2>7. Lifecycle!Move(Life("running", b, c, Log(k)),
                       Life(IF c < b THEN "waiting" ELSE "dead", b, c,
                            [Log(k) EXCEPT ![c] = "failed"]))
    BY FailMove, Zenon
  <2> HIDE DEF b, c
  <2> QED  BY <2>3, <2>4, <2>6, <2>7, Zenon DEF Follows
<1>3. CASE k \notin S
  <2>1. jobs'[k] = jobs[k]
    BY <1>3
  <2>2. \A a \in attempts : a.job = k => a \in attempts'
    BY <1>3 DEF Close
  <2> QED  BY <2>1, <2>2, SameLife
<1> QED  BY <1>2, <1>3

LEMMA FailJobMoves ==
  ASSUME Inv, Inv', NEW j \in Jobs, NEW t \in 1..issued, NEW lag \in Lags,
         FailJob(j, t, lag), NEW k \in Jobs
  PROVE  Follows(k)
<1> DEFINE delay == [i \in Jobs |-> Backoff[jobs[i].attemptCount] - lag]
<1>1. Fenced(j, t) /\ Running(j)
  BY DEF FailJob, Fenced
<1>2. delay[j] \in Int
  BY <1>1, RunningHasAttempt, BackoffAssumption, BoundAssumption DEF Lags
<1>3. jobs' = [i \in Jobs |-> IF i \in {j} THEN AfterFailure(jobs[i], delay[i])
                                           ELSE jobs[i]]
  BY DEF FailJob, Inv, TypeOK
<1>4. attempts' = {Close(a, {j}, "failed") : a \in attempts}
  BY <1>1, FinishIsClose DEF FailJob
<1> HIDE DEF delay
<1> QED  BY <1>1, <1>2, <1>3, <1>4, FailureMoves

LEMMA RecoverMoves ==
  ASSUME Inv, Inv', NEW S \in SUBSET Jobs, NEW lag \in Lags,
         RecoverExpiredJobs(S, lag), NEW k \in Jobs
  PROVE  Follows(k)
<1> DEFINE delay == [i \in Jobs |-> -lag]
<1>1. \A j \in S : Running(j)
  BY DEF RecoverExpiredJobs, Expired
<1>2. \A j \in S : delay[j] \in Int
  BY BoundAssumption DEF Lags
<1>3. jobs' = [i \in Jobs |-> IF i \in S THEN AfterFailure(jobs[i], delay[i])
                                         ELSE jobs[i]]
  BY DEF RecoverExpiredJobs
<1>4. attempts' = {Close(a, S, "failed") : a \in attempts}
  <2>1. ASSUME NEW a \in attempts
        PROVE  (IF a.job \in S THEN Finish(a, a.job, jobs[a.job].leaseToken, "failed")
                ELSE a) = Close(a, S, "failed")
    BY <1>1 DEF Inv, OpenAttemptIsLease, Finish, Close
  <2> QED  BY <2>1 DEF RecoverExpiredJobs
<1> HIDE DEF delay
<1> QED  BY <1>1, <1>2, <1>3, <1>4, FailureMoves

LEMMA RetryJobMoves ==
  ASSUME Inv, Inv', NEW j \in Jobs, NEW lag \in Lags, RetryJob(j, lag), NEW k \in Jobs
  PROVE  Follows(k)
<1>1. jobs \in [Jobs -> Row] /\ attempts' = attempts
  BY DEF Inv, TypeOK, RetryJob
<1>2. CASE k = j
  <2> DEFINE b == jobs[k].maxAttempts
             c == jobs[k].attemptCount
  <2>1. jobs[k] \in Row /\ jobs[k].status \in Retryable /\ c \in Nat /\ c < AttemptBound
    BY <1>1, <1>2, BoundAssumption DEF RetryJob, FitsColumn, Row
  <2>2. /\ jobs'[k].status = "queued" /\ jobs'[k].attemptCount = c
        /\ jobs'[k].maxAttempts = IF c < b THEN b ELSE c + 1
    BY <1>1, <1>2, <2>1 DEF RetryJob, Reopened, AttemptsLeft, Unlocked, Row
  <2>3. Log(k)' = Log(k)
    BY <1>1, <2>2, LogKept DEF Log
  <2>4. PICK s \in {"dead", "cancelled"} : StateOf(jobs[k].status) = s
    BY <2>1, States DEF Retryable
  <2>5. LifeOf(k) = Life(s, b, c, Log(k))
    BY <2>4, LifeIs
  <2>6. LifeOf(k)' = Life("waiting", IF c < b THEN b ELSE c + 1, c, Log(k))
    BY <2>2, <2>3, LifeIs, States
  <2> HIDE DEF b, c
  <2>7. Lifecycle!Move(Life(s, b, c, Log(k)),
                       Life("waiting", IF c < b THEN b ELSE c + 1, c, Log(k)))
    BY <2>1, ReopenMove
  <2> QED  BY <2>5, <2>6, <2>7 DEF Follows
<1>3. CASE k # j
  <2>1. jobs'[k] = jobs[k]
    BY <1>1, <1>3 DEF RetryJob
  <2> QED  BY <1>1, <2>1, SameLife
<1> QED  BY <1>2, <1>3

LEMMA CancelJobMoves ==
  ASSUME Inv, Inv', NEW j \in Jobs, CancelJob(j), NEW k \in Jobs
  PROVE  Follows(k)
<1>1. jobs \in [Jobs -> Row] /\ attempts' = attempts
  BY DEF Inv, TypeOK, CancelJob
<1>2. CASE k = j
  <2>1. jobs[k] \in Row /\ jobs[k].status \in Claimable
    BY <1>1, <1>2 DEF CancelJob
  <2>2. /\ jobs'[k].status = "cancelled" /\ jobs'[k].attemptCount = jobs[k].attemptCount
        /\ jobs'[k].maxAttempts = jobs[k].maxAttempts
    BY <1>1, <1>2, <2>1 DEF CancelJob, Unlocked, Row
  <2>3. Log(k)' = Log(k)
    BY <1>1, <2>2, LogKept DEF Log
  <2>4. LifeOf(k) = Life("waiting", jobs[k].maxAttempts, jobs[k].attemptCount, Log(k))
    BY <2>1, LifeIs, States DEF Claimable
  <2>5. LifeOf(k)' = Life("cancelled", jobs[k].maxAttempts, jobs[k].attemptCount, Log(k))
    BY <2>2, <2>3, LifeIs, States
  <2> QED  BY <2>4, <2>5, CancelMove DEF Follows
<1>3. CASE k # j
  <2>1. jobs'[k] = jobs[k]
    BY <1>1, <1>3 DEF CancelJob
  <2> QED  BY <1>1, <2>1, SameLife
<1> QED  BY <1>2, <1>3

(* Heartbeats and the clock move timestamps, which no life shows.          *)
LEMMA TimersMove ==
  ASSUME Inv, Inv', NEW k \in Jobs,
         \/ \E w \in Workers, s \in WorkerStatus, lag \in Lags : HeartbeatWorker(w, s, lag)
         \/ Tick
  PROVE  Follows(k)
<1>1. jobs[k] \in Row
  BY DEF Inv, TypeOK
<1>2. ASSUME NEW w \in Workers, NEW s \in WorkerStatus, NEW lag \in Lags,
             HeartbeatWorker(w, s, lag)
      PROVE  /\ jobs'[k].status = jobs[k].status
             /\ jobs'[k].maxAttempts = jobs[k].maxAttempts
             /\ jobs'[k].attemptCount = jobs[k].attemptCount
             /\ attempts' = attempts
  BY <1>1, <1>2 DEF HeartbeatWorker, Row
<1>3. ASSUME Tick
      PROVE  /\ jobs'[k].status = jobs[k].status
             /\ jobs'[k].maxAttempts = jobs[k].maxAttempts
             /\ jobs'[k].attemptCount = jobs[k].attemptCount
             /\ attempts' = attempts
  BY <1>1, <1>3 DEF Tick, Row
<1> QED  BY <1>2, <1>3, SameLife

-----------------------------------------------------------------------------
LEMMA LifecycleInit == Init => Lifecycle!Init
<1> SUFFICES ASSUME Init
             PROVE  Lifecycle!Init
  OBVIOUS
<1>1. ASSUME NEW j \in Jobs
      PROVE  LifeOf(j) = Lifecycle!Unborn
  <2>1. jobs[j] = NoRow
    BY DEF Init
  <2>2. /\ jobs[j].status = "absent" /\ jobs[j].maxAttempts = 0
        /\ jobs[j].attemptCount = 0
    BY <2>1 DEF NoRow
  <2>3. Log(j) = <<>>
    BY <2>2, EmptyLog
  <2>4. LifeOf(j) = Life("absent", 0, 0, <<>>)
    BY <2>2, <2>3, LifeIs, States
  <2>5. Lifecycle!Unborn = Life("absent", 0, 0, <<>>)
    BY DEF Lifecycle!Unborn, Lifecycle!New, Life
  <2> QED  BY <2>4, <2>5
<1> QED  BY <1>1 DEF Lifecycle!Init

(* One step of the tables moves every job along its lifecycle or not at    *)
(* all; a recovery moves several at once.                                  *)
LEMMA LifecycleStep ==
  ASSUME Inv, [Next]_vars
  PROVE  Lifecycle!Next
<1>1. Inv'
  BY InvStep
<1>2. ASSUME NEW k \in Jobs
      PROVE  Follows(k)
  <2>1. ASSUME jobs' = jobs, attempts' = attempts
        PROVE  Follows(k)
    BY <1>1, <2>1, SameLife
  <2>2. ASSUME NEW w \in Workers,
               \/ RegisterWorker(w)
               \/ \E s \in WorkerStatus :
                    \/ MarkWorkerStatus(w, s)
                    \/ \E lag \in Lags : HeartbeatWorker(w, s, lag)
        PROVE  Follows(k)
    BY <1>1, <2>1, <2>2, TimersMove DEF RegisterWorker, MarkWorkerStatus
  <2>3. ASSUME UNCHANGED vars
        PROVE  Follows(k)
    BY <2>1, <2>3 DEF vars
  <2>4. ASSUME NEW j \in Jobs, NEW lag \in Lags,
               \/ \E q \in Queues, m \in MaxAttempts, d \in Delays :
                    CreateJob(j, q, m, d, lag)
               \/ \E q \in Queues, w \in Workers : ClaimJob(j, q, w, lag)
               \/ \E t \in 1..issued : FailJob(j, t, lag)
               \/ RetryJob(j, lag)
        PROVE  Follows(k)
    BY <1>1, <2>4, CreateJobMoves, ClaimJobMoves, FailJobMoves, RetryJobMoves
  <2>5. ASSUME NEW j \in Jobs, (\E t \in 1..issued : CompleteJob(j, t)) \/ CancelJob(j)
        PROVE  Follows(k)
    BY <1>1, <2>5, CompleteJobMoves, CancelJobMoves
  <2> QED
    BY <1>1, <2>2, <2>3, <2>4, <2>5, RecoverMoves, TimersMove DEF Next
<1> QED  BY <1>2 DEF Lifecycle!Next, Follows

(* The tables implement the lifecycle: whatever workers, schedulers and    *)
(* operators do, and however late or often, each job is attempted one      *)
(* attempt at a time and never beyond its budget, no outcome changes       *)
(* afterwards, and a job that succeeded is never opened again.             *)
THEOREM TablesImplementLifecycle == Spec => ImplementsLifecycle
<1>1. Inv /\ [Next]_vars => [Lifecycle!Next]_([j \in Jobs |-> LifeOf(j)])
  BY LifecycleStep
<1> QED  BY <1>1, LifecycleInit, Invariance, PTL DEF Spec, ImplementsLifecycle, Lifecycle!Spec
=============================================================================
