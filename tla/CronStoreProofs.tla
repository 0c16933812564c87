--------------------------- MODULE CronStoreProofs --------------------------
(***************************************************************************)
(* Proofs about CronStore for any number of crons and schedulers, every    *)
(* schedule, clock error and batch size.                                   *)
(*                                                                         *)
(* OncePerMinute counts rows; that a fire keeps it needs that a minute has *)
(* a run exactly if it has a job, and no two runs.  RunsOnSchedule and     *)
(* FireMovesOn need what next_run_at and the clock a scheduler has read    *)
(* can be.  CronInv says both.                                             *)
(***************************************************************************)
EXTENDS CronStore, FiniteSetTheorems, WellFoundedInduction, TLAPS

Run == [cron : Crons, minute : Minutes, by : Schedulers]

(* next_run_at matches the schedule and can be reached by a search that    *)
(* starts at some clock.                                                   *)
NextFits(c) ==
  \/ cron[c].next = Null /\ ~ cron[c].enabled
  \/ cron[c].next \in Schedule[c] /\ cron[c].next \in Minutes

CronTypes ==
  /\ now \in 0..MaxTime
  /\ cron \in [Crons -> [enabled : BOOLEAN, next : Minutes \cup {Null},
                         last : Minutes \cup {Null}]]
  /\ read \in [Schedulers -> Nat \cup {Null}]
  /\ \A s \in Schedulers : read[s] = Null \/ read[s] <= now + Skew
  /\ \A c \in Crons : NextFits(c)
  /\ fired \in [Keys -> {0, 1}]
  /\ runs \subseteq Run

(* The run of cron c for minute m exists.                                  *)
HasRun(c, m) == \E r \in runs : r.cron = c /\ r.minute = m

RunsMatch ==
  /\ \A c \in Crons, m \in Minutes : fired[<<c, m>>] = 1 <=> HasRun(c, m)
  /\ \A r, x \in runs : r.cron = x.cron /\ r.minute = x.minute => r = x

CronInv == CronTypes /\ RunsMatch /\ RunsOnSchedule

-----------------------------------------------------------------------------
(* cronexpr.Next finds a match after t whenever it returns one.            *)

LEMMA MinIsMember ==
  ASSUME NEW S \in SUBSET Nat, S # {}
  PROVE  Min(S) \in S
<1>1. \E x \in S : \A y \in S : ~ (<<y, x>> \in OpToRel(<, Nat))
  BY NatLessThanWellFounded, WFMin
<1>2. PICK x \in S : \A y \in S : ~ (y < x)
  BY <1>1 DEF OpToRel
<1>3. \A y \in S : x <= y
  BY <1>2
<1> QED  BY <1>3 DEF Min

LEMMA NextRunFacts ==
  ASSUME NEW c \in Crons, NEW t \in Nat, NextRun(c, t) # Null
  PROVE  /\ NextRun(c, t) \in Schedule[c] /\ NextRun(c, t) \in Nat
         /\ t < NextRun(c, t) /\ NextRun(c, t) <= t + 1 + Search
<1> DEFINE hits == {m \in Schedule[c] : t < m /\ m <= t + 1 + Search}
<1>1. hits \in SUBSET Nat
  BY CronAssumption
<1>2. hits # {} /\ NextRun(c, t) = Min(hits)
  BY DEF NextRun
<1>3. Min(hits) \in hits
  BY <1>1, <1>2, MinIsMember
<1> QED  BY <1>1, <1>2, <1>3

(* What a process that reads its clock may find.                           *)
LEMMA ClockFacts ==
  ASSUME now \in 0..MaxTime, NEW t \in Clocks
  PROVE  t \in Nat /\ t <= now + Skew
BY CronAssumption DEF Clocks, Minutes

LEMMA EarlierFacts ==
  ASSUME now \in 0..MaxTime, NEW t \in ReadEarlier
  PROVE  t \in Nat /\ t <= now + Skew
BY CronAssumption DEF ReadEarlier, Minutes

LEMMA NextRunFits ==
  ASSUME now \in 0..MaxTime, NEW c \in Crons, NEW t \in Nat, t <= now + Skew,
         NextRun(c, t) # Null
  PROVE  /\ NextRun(c, t) \in Schedule[c] /\ NextRun(c, t) \in Minutes
         /\ t < NextRun(c, t)
<1>1. /\ NextRun(c, t) \in Schedule[c] /\ NextRun(c, t) \in Nat
      /\ t < NextRun(c, t) /\ NextRun(c, t) <= t + 1 + Search
  BY NextRunFacts
<1> QED  BY <1>1, CronAssumption DEF Minutes

-----------------------------------------------------------------------------
(* What a fire does to the rows it picked, and to the others.              *)

Fires(c) ==
  /\ cron[c].enabled
  /\ cron[c].next \in Minutes /\ cron[c].next \in Schedule[c]
  /\ cron[c].next <= now + Skew
  /\ cron'[c].last = cron[c].next
  /\ cron'[c].next \in Minutes /\ cron'[c].next \in Schedule[c]
  /\ cron[c].next < cron'[c].next
  /\ cron'[c] \in [enabled : BOOLEAN, next : Minutes \cup {Null},
                   last : Minutes \cup {Null}]

LEMMA FirePicks ==
  ASSUME CronInv, NEW s \in Schedulers, NEW locked \in SUBSET Crons,
         NEW S \in SUBSET Crons, FireDueCronJobs(s, locked, S), NEW c \in S
  PROVE  Fires(c)
<1> DEFINE t == read[s]
<1>1. /\ t \in Nat /\ t <= now + Skew /\ now \in 0..MaxTime
  BY CronAssumption DEF FireDueCronJobs, CronInv, CronTypes
<1>2. c \in DueCrons(t)
  BY DEF FireDueCronJobs, Picked
<1>3. cron[c].enabled /\ cron[c].next <= t /\ NextFits(c)
  BY <1>2 DEF DueCrons, CronInv, CronTypes
<1>4. cron[c].next \in Minutes /\ cron[c].next \in Schedule[c]
  BY <1>3 DEF NextFits
<1>5. NextRun(c, t) # Null
  BY DEF FireDueCronJobs
<1>6. /\ NextRun(c, t) \in Schedule[c] /\ NextRun(c, t) \in Minutes
      /\ t < NextRun(c, t)
  <2> HIDE DEF t
  <2> QED  BY <1>1, <1>5, NextRunFits
<1>7. cron'[c] = [cron[c] EXCEPT !.last = cron[c].next, !.next = NextRun(c, t)]
  BY DEF FireDueCronJobs, ScheduledFor
<1>8. cron[c] \in [enabled : BOOLEAN, next : Minutes \cup {Null},
                   last : Minutes \cup {Null}]
  BY DEF CronInv, CronTypes
<1> HIDE DEF t
<1> DEFINE n == NextRun(c, t)
<1> HIDE DEF n
<1>9. /\ cron'[c].last = cron[c].next /\ cron'[c].next = n
      /\ cron'[c] \in [enabled : BOOLEAN, next : Minutes \cup {Null},
                       last : Minutes \cup {Null}]
  BY <1>4, <1>6, <1>7, <1>8 DEF n
<1>10. cron[c].next \in Nat /\ n \in Nat /\ cron[c].next <= now + Skew /\ cron[c].next < n
  BY <1>1, <1>3, <1>4, <1>6, CronAssumption DEF Minutes, n
<1> QED  BY <1>3, <1>4, <1>6, <1>9, <1>10 DEF Fires, n

(* The row of cron_runs that the fire of c by s inserts.                   *)
RunOf(c, s) == [cron |-> c, minute |-> cron[c].next, by |-> s]

(* A fire inserts the run of each minute that has none.                    *)
LEMMA FireRuns ==
  ASSUME NEW s, NEW locked, NEW S, FireDueCronJobs(s, locked, S)
  PROVE  /\ runs \subseteq runs'
         /\ \A r \in runs' \ runs :
              \E c \in S : r = RunOf(c, s) /\ ~ HasRun(c, cron[c].next)
         /\ \A c \in S : HasRun(c, cron[c].next) \/ RunOf(c, s) \in runs'
<1> DEFINE keys == {<<c, cron[c].next>> : c \in S}
           new == {[cron |-> k[1], minute |-> k[2], by |-> s] : k \in keys}
<1>1. runs' = InsertRuns(new)
  BY DEF FireDueCronJobs, ScheduledFor
<1>2. \A r \in new : \E c \in S : r = RunOf(c, s)
  BY DEF RunOf
<1>3. \A c \in S : RunOf(c, s) \in new
  <2> SUFFICES ASSUME NEW c \in S
               PROVE  RunOf(c, s) \in new
    OBVIOUS
  <2>1. <<c, cron[c].next>> \in keys
    OBVIOUS
  <2>2. PICK k \in keys : k = <<c, cron[c].next>>
    BY <2>1
  <2>3. RunOf(c, s) = [cron |-> k[1], minute |-> k[2], by |-> s]
    BY <2>2 DEF RunOf
  <2> QED  BY <2>2, <2>3
<1>4. \A c : RunOf(c, s).cron = c /\ RunOf(c, s).minute = cron[c].next
  BY DEF RunOf
<1> HIDE DEF new
<1>5. runs \subseteq runs'
  BY <1>1 DEF InsertRuns
<1>6. ASSUME NEW r \in runs' \ runs
      PROVE  \E c \in S : r = RunOf(c, s) /\ ~ HasRun(c, cron[c].next)
  <2>1. r \in new /\ \A x \in runs : x.cron # r.cron \/ x.minute # r.minute
    BY <1>1 DEF InsertRuns
  <2>2. PICK c \in S : r = RunOf(c, s)
    BY <1>2, <2>1
  <2> QED  BY <1>4, <2>1, <2>2 DEF HasRun
<1>7. ASSUME NEW c \in S, ~ HasRun(c, cron[c].next)
      PROVE  RunOf(c, s) \in runs'
  BY <1>1, <1>3, <1>4, <1>7 DEF InsertRuns, HasRun
<1> QED  BY <1>5, <1>6, <1>7

(* The jobs a fire inserts: one for each minute it fires.                  *)
LEMMA FireJobs ==
  ASSUME CronInv, NEW s, NEW locked, NEW S, FireDueCronJobs(s, locked, S)
  PROVE  /\ fired' \in [Keys -> {0, 1}]
         /\ \A c \in Crons, m \in Minutes :
              fired'[<<c, m>>] = IF c \in S /\ m = cron[c].next THEN 1 ELSE fired[<<c, m>>]
<1> DEFINE keys == {<<c, cron[c].next>> : c \in S}
<1>1. fired' = [k \in Keys |-> IF k \in keys THEN 1 ELSE fired[k]]
  BY DEF FireDueCronJobs, ScheduledFor, InsertJob
<1>2. fired \in [Keys -> {0, 1}]
  BY DEF CronInv, CronTypes
<1>3. ASSUME NEW c \in Crons, NEW m \in Minutes
      PROVE  /\ <<c, m>> \in Keys
             /\ <<c, m>> \in keys <=> c \in S /\ m = cron[c].next
  BY DEF Keys
<1> HIDE DEF keys
<1>4. fired' \in [Keys -> {0, 1}]
  BY <1>1, <1>2
<1> QED  BY <1>1, <1>3, <1>4

LEMMA FireKeepsInv ==
  ASSUME CronInv, NEW s \in Schedulers, NEW locked \in SUBSET Crons,
         NEW S \in SUBSET Crons, FireDueCronJobs(s, locked, S)
  PROVE  CronInv'
<1>0. CronTypes /\ RunsMatch /\ RunsOnSchedule
  BY DEF CronInv
<1>1. \A c \in S : Fires(c)
  BY FirePicks
<1>2. /\ runs \subseteq runs'
      /\ \A r \in runs' \ runs :
           \E c \in S : r = RunOf(c, s) /\ ~ HasRun(c, cron[c].next)
      /\ \A c \in S : HasRun(c, cron[c].next) \/ RunOf(c, s) \in runs'
  BY FireRuns
<1>3. /\ fired' \in [Keys -> {0, 1}]
      /\ \A c \in Crons, m \in Minutes :
           fired'[<<c, m>>] = IF c \in S /\ m = cron[c].next THEN 1 ELSE fired[<<c, m>>]
  BY FireJobs
<1>4. ASSUME NEW c \in S
      PROVE  /\ RunOf(c, s).cron = c /\ RunOf(c, s).minute = cron[c].next
             /\ RunOf(c, s) \in Run
  BY <1>1 DEF RunOf, Run, Fires
<1>5. \A c \in Crons \ S : cron'[c] = cron[c]
  BY DEF FireDueCronJobs
<1>6. CronTypes'
  <2>1. now' = now /\ read' = [read EXCEPT ![s] = Null]
    BY DEF FireDueCronJobs
  <2>2. cron' \in [Crons -> [enabled : BOOLEAN, next : Minutes \cup {Null},
                             last : Minutes \cup {Null}]]
    <3>1. \A c \in Crons : cron'[c] \in [enabled : BOOLEAN, next : Minutes \cup {Null},
                                         last : Minutes \cup {Null}]
      BY <1>0, <1>1, <1>5 DEF CronTypes, Fires
    <3>2. cron' = [c \in Crons |-> cron'[c]]
      BY DEF FireDueCronJobs
    <3> QED  BY <3>1, <3>2, Zenon
  <2>3. ASSUME NEW c \in Crons
        PROVE  NextFits(c)'
    BY <1>0, <1>1, <1>5 DEF CronTypes, NextFits, Fires
  <2>4. runs' \subseteq Run
    BY <1>0, <1>2, <1>4 DEF CronTypes
  <2>5. /\ read' \in [Schedulers -> Nat \cup {Null}]
        /\ \A q \in Schedulers : read'[q] = Null \/ read'[q] <= now + Skew
    BY <1>0, <2>1 DEF CronTypes
  <2> QED  BY <1>0, <1>3, <2>1, <2>2, <2>3, <2>4, <2>5 DEF CronTypes, Minutes
<1>7. RunsMatch'
  <2>1. ASSUME NEW c \in Crons, NEW m \in Minutes
        PROVE  fired'[<<c, m>>] = 1 <=> HasRun(c, m)'
    <3>1. fired[<<c, m>>] = 1 <=> HasRun(c, m)
      BY <1>0 DEF RunsMatch
    <3>2. HasRun(c, m) => HasRun(c, m)'
      BY <1>2 DEF HasRun
    <3>3. ASSUME c \in S, m = cron[c].next
          PROVE  HasRun(c, m)'
      BY <1>2, <1>4, <3>2, <3>3 DEF HasRun
    <3>4. ASSUME HasRun(c, m)', ~ HasRun(c, m)
          PROVE  c \in S /\ m = cron[c].next
      <4>1. PICK r \in runs' : r.cron = c /\ r.minute = m
        BY <3>4 DEF HasRun
      <4>2. r \notin runs
        BY <3>4, <4>1 DEF HasRun
      <4> QED  BY <1>2, <1>4, <4>1, <4>2
    <3> QED  BY <1>3, <3>1, <3>2, <3>3, <3>4
  <2>2. ASSUME NEW r \in runs', NEW x \in runs', r.cron = x.cron, r.minute = x.minute
        PROVE  r = x
    <3>1. ASSUME NEW y \in runs' \ runs, NEW z \in runs'
          PROVE  y.cron = z.cron /\ y.minute = z.minute => y = z
      <4>1. PICK c \in S : y = RunOf(c, s) /\ ~ HasRun(c, cron[c].next)
        BY <1>2
      <4>2. CASE z \in runs
        BY <1>4, <4>1, <4>2 DEF HasRun
      <4>3. CASE z \notin runs
        BY <1>2, <1>4, <4>1, <4>3
      <4> QED  BY <4>2, <4>3
    <3>2. CASE r \in runs /\ x \in runs
      BY <1>0, <2>2, <3>2 DEF RunsMatch
    <3> QED  BY <2>2, <3>1, <3>2
  <2> QED  BY <2>1, <2>2 DEF RunsMatch
<1>8. RunsOnSchedule'
  <2>1. now' = now
    BY DEF FireDueCronJobs
  <2>2. ASSUME NEW r \in runs'
        PROVE  r.minute \in Schedule[r.cron] /\ r.minute <= now + Skew
    <3>1. CASE r \in runs
      BY <1>0, <3>1 DEF RunsOnSchedule
    <3>2. CASE r \notin runs
      <4>1. PICK c \in S : r = RunOf(c, s)
        BY <1>2, <3>2
      <4> QED  BY <1>1, <1>4, <4>1 DEF Fires
    <3> QED  BY <3>1, <3>2
  <2> QED  BY <2>1, <2>2 DEF RunsOnSchedule
<1> QED  BY <1>6, <1>7, <1>8 DEF CronInv

-----------------------------------------------------------------------------
(* The other operations leave the jobs and the runs alone.                 *)
LEMMA RunsKept ==
  ASSUME CronInv, UNCHANGED <<fired, runs>>, now' \in 0..MaxTime, now <= now',
         cron' \in [Crons -> [enabled : BOOLEAN, next : Minutes \cup {Null},
                              last : Minutes \cup {Null}]],
         \A c \in Crons : NextFits(c)',
         read' \in [Schedulers -> Nat \cup {Null}],
         \A s \in Schedulers : read'[s] = Null \/ read'[s] <= now' + Skew
  PROVE  CronInv'
<1>1. CronTypes'
  BY DEF CronInv, CronTypes
<1>2. RunsMatch'
  BY DEF CronInv, RunsMatch, HasRun
<1>3. RunsOnSchedule'
  <2>1. ASSUME NEW r \in runs
        PROVE  r.minute \in Schedule[r.cron] /\ r.minute <= now' + Skew
    <3>1. /\ r.minute \in Int /\ r.minute <= now + Skew /\ now \in Int
          /\ r.minute \in Schedule[r.cron]
      BY CronAssumption DEF CronInv, CronTypes, RunsOnSchedule, Run, Minutes
    <3> QED  BY <3>1, CronAssumption
  <2> QED  BY <2>1 DEF RunsOnSchedule
<1> QED  BY <1>1, <1>2, <1>3 DEF CronInv

(* Creating and toggling: one row, whose next_run_at is a match if it is   *)
(* enabled.                                                                *)
LEMMA RowChanges ==
  ASSUME CronInv, NEW c \in Crons, NEW e \in BOOLEAN, NEW n \in Minutes \cup {Null},
         NEW l \in Minutes \cup {Null},
         cron' = [cron EXCEPT ![c] = [enabled |-> e, next |-> n, last |-> l]],
         (n = Null /\ ~ e) \/ (n \in Schedule[c] /\ n \in Minutes),
         UNCHANGED <<now, read, fired, runs>>
  PROVE  CronInv'
<1> DEFINE Row == [enabled : BOOLEAN, next : Minutes \cup {Null},
                   last : Minutes \cup {Null}]
           new == [enabled |-> e, next |-> n, last |-> l]
<1>1. new \in Row /\ new.enabled = e /\ new.next = n
  OBVIOUS
<1>2. /\ now \in 0..MaxTime /\ cron \in [Crons -> Row]
      /\ read \in [Schedulers -> Nat \cup {Null}]
      /\ \A s \in Schedulers : read[s] = Null \/ read[s] <= now + Skew
      /\ \A d \in Crons : NextFits(d)
  BY DEF CronInv, CronTypes
<1> HIDE DEF Row, new
<1>3. cron' = [cron EXCEPT ![c] = new]
  BY DEF new
<1>4. cron' \in [Crons -> Row]
  BY <1>1, <1>2, <1>3
<1>5. ASSUME NEW d \in Crons
      PROVE  NextFits(d)'
  <2>1. CASE d = c
    BY <1>1, <1>2, <1>3, <2>1 DEF NextFits
  <2>2. CASE d # c
    BY <1>2, <1>3, <2>2 DEF NextFits
  <2> QED  BY <2>1, <2>2
<1>6. now <= now'
  BY <1>2, CronAssumption
<1> QED  BY <1>2, <1>4, <1>5, <1>6, RunsKept DEF Row

LEMMA CreateKeepsInv ==
  ASSUME CronInv, NEW c \in Crons, NEW t \in ReadEarlier, CreateCronJob(c, t)
  PROVE  CronInv' /\ cron'[c].last = cron[c].last /\ \A d \in Crons \ {c} : cron'[d] = cron[d]
<1>1. now \in 0..MaxTime /\ DOMAIN cron = Crons
  BY DEF CronInv, CronTypes
<1>2. t \in Nat /\ t <= now + Skew
  BY <1>1, EarlierFacts
<1>3. NextRun(c, t) \in Schedule[c] /\ NextRun(c, t) \in Minutes
  BY <1>1, <1>2, NextRunFits DEF CreateCronJob
<1>4. PICK n \in Minutes : n = NextRun(c, t)
  BY <1>3
<1>5. /\ cron' = [cron EXCEPT ![c] = [enabled |-> TRUE, next |-> n, last |-> Null]]
      /\ UNCHANGED <<now, read, fired, runs>>
      /\ cron[c] = NoCron
  BY <1>4 DEF CreateCronJob
<1>6. CronInv'
  BY <1>3, <1>4, <1>5, RowChanges
<1> QED  BY <1>1, <1>5, <1>6 DEF NoCron

LEMMA EnableKeepsInv ==
  ASSUME CronInv, NEW c \in Crons, NEW e \in BOOLEAN, NEW t \in Clocks,
         SetCronJobEnabled(c, e, t)
  PROVE  CronInv' /\ cron'[c].last = cron[c].last /\ \A d \in Crons \ {c} : cron'[d] = cron[d]
<1>1. /\ now \in 0..MaxTime /\ NextFits(c)
      /\ cron \in [Crons -> [enabled : BOOLEAN, next : Minutes \cup {Null},
                             last : Minutes \cup {Null}]]
  BY DEF CronInv, CronTypes
<1>2. t \in Nat /\ t <= now + Skew
  BY <1>1, ClockFacts
<1>3. e => NextRun(c, t) \in Schedule[c] /\ NextRun(c, t) \in Minutes
  BY <1>1, <1>2, NextRunFits DEF SetCronJobEnabled
<1>4. PICK n \in Minutes \cup {Null} : n = IF e THEN NextRun(c, t) ELSE cron[c].next
  BY <1>1, <1>3
<1>5. PICK l \in Minutes \cup {Null} : l = cron[c].last
  BY <1>1
<1>6. (n = Null /\ ~ e) \/ (n \in Schedule[c] /\ n \in Minutes)
  BY <1>1, <1>3, <1>4 DEF NextFits
<1>7. cron' = [cron EXCEPT ![c] = [enabled |-> e, next |-> n, last |-> l]]
  <2> DEFINE r0 == cron[c]
             r1 == [r0 EXCEPT !.enabled = e]
             r2 == [r1 EXCEPT !.next = n]
             c1 == [cron EXCEPT ![c] = r1]
  <2>1. cron' = [[cron EXCEPT ![c].enabled = e]
                   EXCEPT ![c].next = IF e THEN NextRun(c, t) ELSE @]
    BY DEF SetCronJobEnabled
  <2>2. r0 \in [enabled : BOOLEAN, next : Minutes \cup {Null}, last : Minutes \cup {Null}]
    BY <1>1
  <2>3. r1.next = r0.next
    BY <2>2
  <2>4. r2 = [enabled |-> e, next |-> n, last |-> l]
    <3> HIDE DEF r0
    <3>1. r0.last = l
      BY <1>5 DEF r0
    <3>2. r1 = [enabled |-> e, next |-> r0.next, last |-> l]
      BY <2>2, <3>1
    <3> HIDE DEF r1
    <3> QED  BY <3>2
  <2> HIDE DEF r1, r2
  <2>5. c1[c] = r1
    BY <1>1
  <2>6. cron' = [c1 EXCEPT ![c].next = IF e THEN NextRun(c, t) ELSE @]
    <3>1. c1 = [cron EXCEPT ![c].enabled = e]
      BY DEF r1
    <3> QED  BY <2>1, <3>1
  <2> HIDE DEF c1
  <2>7. cron' = [c1 EXCEPT ![c] = r2]
    BY <1>4, <2>3, <2>5, <2>6 DEF r2
  <2>8. cron' = [cron EXCEPT ![c] = r2]
    BY <1>1, <2>7 DEF c1
  <2> QED  BY <2>4, <2>8, Zenon
<1>8. UNCHANGED <<now, read, fired, runs>>
  BY DEF SetCronJobEnabled
<1>9. CronInv'
  BY <1>6, <1>7, <1>8, RowChanges
<1> QED  BY <1>1, <1>5, <1>7, <1>9

LEMMA ReadKeepsInv ==
  ASSUME CronInv, NEW s \in Schedulers, NEW t \in Clocks, ReadClock(s, t)
  PROVE  CronInv'
<1>1. /\ now \in 0..MaxTime /\ \A c \in Crons : NextFits(c)
      /\ cron \in [Crons -> [enabled : BOOLEAN, next : Minutes \cup {Null},
                             last : Minutes \cup {Null}]]
      /\ read \in [Schedulers -> Nat \cup {Null}]
      /\ \A q \in Schedulers : read[q] = Null \/ read[q] <= now + Skew
  BY DEF CronInv, CronTypes
<1>2. t \in Nat /\ t <= now + Skew
  BY <1>1, ClockFacts
<1>3. read' = [read EXCEPT ![s] = t] /\ UNCHANGED <<now, cron, fired, runs>>
  BY DEF ReadClock
<1>4. \A c \in Crons : NextFits(c)'
  BY <1>1, <1>3 DEF NextFits
<1>5. read' \in [Schedulers -> Nat \cup {Null}]
  BY <1>1, <1>2, <1>3
<1>6. \A q \in Schedulers : read'[q] = Null \/ read'[q] <= now' + Skew
  BY <1>1, <1>2, <1>3
<1>7. now <= now'
  BY <1>1, <1>3, CronAssumption
<1> QED  BY <1>1, <1>3, <1>4, <1>5, <1>6, <1>7, RunsKept

LEMMA FireFailsKeepsInv ==
  ASSUME CronInv, NEW s \in Schedulers, FireFails(s)
  PROVE  CronInv'
<1>1. /\ now \in 0..MaxTime /\ \A c \in Crons : NextFits(c)
      /\ cron \in [Crons -> [enabled : BOOLEAN, next : Minutes \cup {Null},
                             last : Minutes \cup {Null}]]
      /\ read \in [Schedulers -> Nat \cup {Null}]
      /\ \A q \in Schedulers : read[q] = Null \/ read[q] <= now + Skew
  BY DEF CronInv, CronTypes
<1>2. read' = [read EXCEPT ![s] = Null] /\ UNCHANGED <<now, cron, fired, runs>>
  BY DEF FireFails
<1>3. \A c \in Crons : NextFits(c)'
  BY <1>1, <1>2 DEF NextFits
<1>4. /\ read' \in [Schedulers -> Nat \cup {Null}]
      /\ \A q \in Schedulers : read'[q] = Null \/ read'[q] <= now' + Skew
  BY <1>1, <1>2
<1>5. now <= now'
  BY <1>1, <1>2, CronAssumption
<1> QED  BY <1>1, <1>2, <1>3, <1>4, <1>5, RunsKept

LEMMA AdvanceKeepsInv ==
  ASSUME CronInv, Advance
  PROVE  CronInv'
<1>1. /\ now \in 0..MaxTime /\ \A c \in Crons : NextFits(c)
      /\ cron \in [Crons -> [enabled : BOOLEAN, next : Minutes \cup {Null},
                             last : Minutes \cup {Null}]]
      /\ read \in [Schedulers -> Nat \cup {Null}]
      /\ \A q \in Schedulers : read[q] = Null \/ read[q] <= now + Skew
  BY DEF CronInv, CronTypes
<1>2. now' = now + 1 /\ now < MaxTime /\ UNCHANGED <<cron, read, fired, runs>>
  BY DEF Advance
<1>3. \A c \in Crons : NextFits(c)'
  BY <1>1, <1>2 DEF NextFits
<1>4. now' \in 0..MaxTime /\ now <= now'
  BY <1>1, <1>2, CronAssumption
<1>5. \A q \in Schedulers : read'[q] = Null \/ read'[q] <= now' + Skew
  BY <1>1, <1>2, CronAssumption
<1> QED  BY <1>1, <1>2, <1>3, <1>4, <1>5, RunsKept

(* What FireMovesOn says of one step.                                      *)
MovesOn ==
  \A c \in Crons :
    Fired(c) => cron[c].next < cron'[c].next /\ cron'[c].last = cron[c].next

InFire(c) ==
  \E s \in Schedulers, locked \in SUBSET Crons, S \in SUBSET Crons :
    c \in S /\ FireDueCronJobs(s, locked, S)

(* Every cron that is fired moves on, whatever the step leaves behind.     *)
LEMMA FiredMoves ==
  ASSUME CronInv, NEW c \in Crons, InFire(c)
  PROVE  cron[c].next < cron'[c].next /\ cron'[c].last = cron[c].next
<1>1. PICK s \in Schedulers, locked \in SUBSET Crons, S \in SUBSET Crons :
        c \in S /\ FireDueCronJobs(s, locked, S)
  BY DEF InFire
<1> QED  BY <1>1, FirePicks DEF Fires

LEMMA OthersMoveNothing ==
  ASSUME CronInv, runs' = runs, \A c \in Crons : cron'[c].last = cron[c].last
  PROVE  MovesOn
<1> SUFFICES ASSUME NEW c \in Crons, Fired(c)
             PROVE  cron[c].next < cron'[c].next /\ cron'[c].last = cron[c].next
  BY DEF MovesOn
<1>1. InFire(c)
  BY DEF Fired, InFire
<1> QED  BY <1>1, FiredMoves

LEMMA FireMoves ==
  ASSUME CronInv, NEW s \in Schedulers, NEW locked \in SUBSET Crons,
         NEW S \in SUBSET Crons, FireDueCronJobs(s, locked, S)
  PROVE  MovesOn
<1>1. ASSUME NEW c \in Crons,
             (\E r \in runs' \ runs : r.cron = c) \/ cron'[c].last # cron[c].last
      PROVE  c \in S
  <2>1. CASE \E r \in runs' \ runs : r.cron = c
    BY <2>1, FireRuns DEF RunOf
  <2>2. CASE cron'[c].last # cron[c].last
    BY <2>2 DEF FireDueCronJobs
  <2> QED  BY <1>1, <2>1, <2>2
<1>2. \A c \in S : Fires(c)
  BY FirePicks
<1>3. ASSUME NEW c \in Crons, Fired(c)
      PROVE  InFire(c) \/ c \in S
  BY <1>1, <1>3 DEF Fired, InFire
<1> QED  BY <1>2, <1>3, FiredMoves DEF Fires, MovesOn

LEMMA CronStep == CronInv /\ [Next]_vars => CronInv' /\ MovesOn
<1> SUFFICES ASSUME CronInv, [Next]_vars
             PROVE  CronInv' /\ MovesOn
  OBVIOUS
<1>1. ASSUME NEW c \in Crons, NEW t \in ReadEarlier, CreateCronJob(c, t)
      PROVE  CronInv' /\ MovesOn
  <2>1. runs' = runs
    BY <1>1 DEF CreateCronJob
  <2> QED  BY <1>1, <2>1, CreateKeepsInv, OthersMoveNothing
<1>2. ASSUME NEW c \in Crons, NEW t \in Clocks, NEW e \in BOOLEAN, SetCronJobEnabled(c, e, t)
      PROVE  CronInv' /\ MovesOn
  <2>1. runs' = runs
    BY <1>2 DEF SetCronJobEnabled
  <2> QED  BY <1>2, <2>1, EnableKeepsInv, OthersMoveNothing
<1>3. ASSUME NEW s \in Schedulers, NEW t \in Clocks, ReadClock(s, t)
      PROVE  CronInv' /\ MovesOn
  BY <1>3, ReadKeepsInv, OthersMoveNothing DEF ReadClock
<1>4. ASSUME NEW s \in Schedulers, NEW locked \in SUBSET Crons, Fire(s, locked)
      PROVE  CronInv' /\ MovesOn
  BY <1>4, FireKeepsInv, FireMoves DEF Fire
<1>5. ASSUME NEW s \in Schedulers, FireFails(s)
      PROVE  CronInv' /\ MovesOn
  BY <1>5, FireFailsKeepsInv, OthersMoveNothing DEF FireFails
<1>6. CASE Advance
  BY <1>6, AdvanceKeepsInv, OthersMoveNothing DEF Advance
<1>7. CASE UNCHANGED vars
  <2>1. /\ now' = now /\ cron' = cron /\ read' = read /\ fired' = fired /\ runs' = runs
    BY <1>7 DEF vars
  <2>2. CronInv'
    BY <2>1 DEF CronInv, CronTypes, RunsMatch, HasRun, RunsOnSchedule, NextFits
  <2> QED  BY <2>1, <2>2, OthersMoveNothing
<1> QED  BY <1>1, <1>2, <1>3, <1>4, <1>5, <1>6, <1>7 DEF Next

LEMMA CronStart == Init => CronInv
<1> SUFFICES ASSUME Init
             PROVE  CronInv
  OBVIOUS
<1>1. now = 0 /\ runs = {} /\ fired = [k \in Keys |-> 0]
  BY DEF Init
<1>2. \A c \in Crons : cron[c] = NoCron /\ cron[c].next = Null /\ cron[c].enabled = FALSE
  BY DEF Init, NoCron
<1>3. NoCron \in [enabled : BOOLEAN, next : Minutes \cup {Null}, last : Minutes \cup {Null}]
  BY DEF NoCron
<1>4. CronTypes
  <2>1. cron \in [Crons -> [enabled : BOOLEAN, next : Minutes \cup {Null},
                            last : Minutes \cup {Null}]]
    BY <1>3 DEF Init
  <2>2. /\ read \in [Schedulers -> Nat \cup {Null}]
        /\ \A s \in Schedulers : read[s] = Null
    BY DEF Init
  <2>3. \A c \in Crons : NextFits(c)
    BY <1>2 DEF NextFits
  <2> QED  BY <1>1, <2>1, <2>2, <2>3, CronAssumption DEF CronTypes
<1>5. RunsMatch
  BY <1>1 DEF RunsMatch, HasRun, Keys
<1> QED  BY <1>1, <1>4, <1>5 DEF CronInv, RunsOnSchedule

LEMMA InvGivesOncePerMinute == CronInv => OncePerMinute
<1> SUFFICES ASSUME CronInv, NEW k \in Keys
             PROVE  /\ fired[k] <= 1
                    /\ Cardinality({r \in runs : r.cron = k[1] /\ r.minute = k[2]}) = fired[k]
  BY DEF OncePerMinute
<1> DEFINE of == {r \in runs : r.cron = k[1] /\ r.minute = k[2]}
<1>1. k[1] \in Crons /\ k[2] \in Minutes /\ k = <<k[1], k[2]>>
  BY DEF Keys
<1>2. fired[k] \in {0, 1} /\ (fired[k] = 1 <=> HasRun(k[1], k[2]))
  BY <1>1 DEF CronInv, CronTypes, RunsMatch
<1>3. CASE fired[k] = 1
  <2>1. PICK r \in runs : r.cron = k[1] /\ r.minute = k[2]
    BY <1>2, <1>3 DEF HasRun
  <2>2. of = {r}
    BY <2>1 DEF CronInv, RunsMatch
  <2>3. Cardinality(of) = 1
    BY <2>2, FS_Singleton
  <2> QED  BY <1>3, <2>3
<1>4. CASE fired[k] = 0
  <2>1. of = {}
    BY <1>2, <1>4 DEF HasRun
  <2>2. Cardinality(of) = 0
    BY <2>1, FS_EmptySet
  <2> QED  BY <1>4, <2>2
<1> QED  BY <1>2, <1>3, <1>4

-----------------------------------------------------------------------------
(* However many schedulers fire at once, with clocks that are off or were  *)
(* read long ago, and however operators toggle the cron: each minute of it *)
(* enqueues at most one job, and has a run exactly when it has a job.      *)
THEOREM OncePerMinuteCorrect == Spec => []OncePerMinute
BY CronStart, CronStep, InvGivesOncePerMinute, PTL DEF Spec

(* A run is always for a minute that the expression matches, and no clock  *)
(* within the allowed error would call it early.                           *)
THEOREM RunsOnScheduleCorrect == Spec => []RunsOnSchedule
<1>1. CronInv => RunsOnSchedule
  BY DEF CronInv
<1> QED  BY <1>1, CronStart, CronStep, PTL DEF Spec

(* Whoever fires a cron moves its next_run_at past the minute it fired and *)
(* records that minute as last_run_at; nothing else writes last_run_at.    *)
THEOREM FireMovesOnCorrect == Spec => FireMovesOn
<1>1. CronInv /\ [Next]_vars => [MovesOn]_vars
  BY CronStep
<1>2. FireMovesOn <=> [][MovesOn]_vars
  BY PTL DEF FireMovesOn, MovesOn
<1> QED  BY <1>1, <1>2, CronStart, CronStep, PTL DEF Spec
=============================================================================
