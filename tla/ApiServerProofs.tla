--------------------------- MODULE ApiServerProofs --------------------------
(***************************************************************************)
(* For any number of replicas, requests, keys and faults: the schema is    *)
(* that of the recorded versions, there is one job per idempotency key,    *)
(* and requests fail only when the database does.                          *)
(*                                                                         *)
(* A replica's test whether a version is recorded may be stale, so nothing *)
(* says that the version it executes is missing.  What holds is that all   *)
(* earlier ones are recorded: with the primary key of schema_migrations,   *)
(* which refuses a version twice, a commit is then of the next one.        *)
(*                                                                         *)
(* OneJobPerKey speaks of requests that were answered.  It is not          *)
(* inductive: it needs that a request which inserted a row and has not yet *)
(* announced it is the only one that did, that the row a request was       *)
(* refused for is still there when it selects it, and that no row has a    *)
(* key that an open cron fire is going to commit.                          *)
(*                                                                         *)
(* FailsOnlyByFault counts requests that failed.  It needs what makes them *)
(* succeed: the schema is complete while a handler runs (Served), and the  *)
(* SELECT after a refused INSERT finds its row (RequestFits).              *)
(***************************************************************************)
EXTENDS ApiServer, FiniteSetTheorems, TLAPS

(* The loop of a replica has seen every version before its own recorded.   *)
Behind ==
  /\ phase \in [Replicas -> Phases]
  /\ version \in [Replicas -> 1..(Last + 1)]
  /\ \A r \in Replicas :
       /\ 1..(version[r] - 1) \subseteq applied
       /\ phase[r] \in {"exec", "record"} => version[r] \in 1..Last

SchemaInv == Behind /\ SchemaIsApplied

-----------------------------------------------------------------------------
(* The recursion of SchemaAfter, over the five files.                      *)
LEMMA SchemaAfterDef ==
  SchemaAfter = [n \in 0..Last |-> IF n = 0 THEN NoSchema ELSE Up(n, SchemaAfter[n - 1])]
<1> DEFINE s1 == Up(1, NoSchema)
           s2 == Up(2, s1)
           s3 == Up(3, s2)
           s4 == Up(4, s3)
           s5 == Up(5, s4)
           s(n) == CASE n = 0 -> NoSchema [] n = 1 -> s1 [] n = 2 -> s2
                     [] n = 3 -> s3 [] n = 4 -> s4 [] n = 5 -> s5
           g == [n \in 0..Last |-> s(n)]
           Step(f) == [n \in 0..Last |-> IF n = 0 THEN NoSchema ELSE Up(n, f[n - 1])]
<1>1. /\ g[0] = NoSchema /\ g[1] = Up(1, g[0]) /\ g[2] = Up(2, g[1])
      /\ g[3] = Up(3, g[2]) /\ g[4] = Up(4, g[3]) /\ g[5] = Up(5, g[4])
  BY DEF Last
<1>2. \A n \in 0..Last : n \in {0, 1, 2, 3, 4, 5}
  BY DEF Last
<1> HIDE DEF s1, s2, s3, s4, s5
<1>3. ASSUME NEW n \in 0..Last
      PROVE  g[n] = IF n = 0 THEN NoSchema ELSE Up(n, g[n - 1])
  <2> HIDE DEF g
  <2> QED  BY <1>1, <1>2
<1> HIDE DEF s
<1>4. g = [n \in 0..Last |-> g[n]]
  OBVIOUS
<1> HIDE DEF g
<1>5. g = Step(g)
  BY <1>3, <1>4
<1>6. \E f : f = Step(f)
  BY <1>5
<1> QED  BY <1>6 DEF SchemaAfter

(* Applying the file after the first n.                                    *)
LEMMA SchemaAfterStep ==
  ASSUME NEW n \in 0..Last, n + 1 \in 1..Last
  PROVE  SchemaAfter[n + 1] = Up(n + 1, SchemaAfter[n])
<1> DEFINE Body(m) == IF m = 0 THEN NoSchema ELSE Up(m, SchemaAfter[m - 1])
<1>1. n + 1 \in 0..Last /\ n + 1 # 0 /\ (n + 1) - 1 = n
  BY DEF Last
<1>2. SchemaAfter = [m \in 0..Last |-> Body(m)]
  BY SchemaAfterDef
<1> HIDE DEF Body
<1>3. SchemaAfter[n + 1] = Body(n + 1)
  BY <1>1, <1>2
<1> QED  BY <1>1, <1>3 DEF Body

-----------------------------------------------------------------------------
(* A step that leaves the recorded versions alone and makes no replica     *)
(* skip one.                                                               *)
LEMMA KeepsSchema ==
  ASSUME SchemaInv, UNCHANGED <<applied, schema>>,
         phase' \in [Replicas -> Phases], version' \in [Replicas -> 1..(Last + 1)],
         \A r \in Replicas :
           \/ phase'[r] = phase[r] /\ version'[r] = version[r]
           \/ /\ 1..(version'[r] - 1) \subseteq applied
              /\ phase'[r] \in {"exec", "record"} => version'[r] \in 1..Last
  PROVE  SchemaInv'
<1>1. Behind'
  BY DEF SchemaInv, Behind
<1>2. SchemaIsApplied'
  BY DEF SchemaInv, SchemaIsApplied
<1> QED  BY <1>1, <1>2 DEF SchemaInv

(* A commit is of the first version that is missing.                       *)
LEMMA CommitKeepsSchema ==
  ASSUME SchemaInv, NEW r \in Replicas, phase[r] = "record",
         version[r] \notin applied, Committed(r)
  PROVE  SchemaIsApplied' /\ applied \subseteq applied' /\ version[r] \in applied'
<1>1. PICK n \in 0..Last : applied = 1..n /\ schema = SchemaAfter[n]
  BY DEF SchemaInv, SchemaIsApplied
<1>2. version[r] \in 1..Last /\ 1..(version[r] - 1) \subseteq 1..n /\ version[r] \notin 1..n
  BY <1>1 DEF SchemaInv, Behind
<1>3. version[r] = n + 1
  <2>1. version[r] \in Int /\ n \in Int /\ n >= 0 /\ version[r] > n
    BY <1>2 DEF Last
  <2>2. n + 1 \in 1..(version[r] - 1) => n + 1 \in 1..n
    BY <1>2
  <2> QED  BY <2>1, <2>2
<1>4. n + 1 \in 1..Last /\ n + 1 \in 0..Last
  BY <1>2, <1>3 DEF Last
<1>5. applied' = 1..(n + 1)
  BY <1>1, <1>3 DEF Committed
<1>6. schema' = SchemaAfter[n + 1]
  BY <1>1, <1>3, <1>4, SchemaAfterStep DEF Committed
<1> QED  BY <1>4, <1>5, <1>6 DEF SchemaIsApplied, Committed

(* Goto and Stops, pointwise.                                              *)
LEMMA StopsFacts ==
  ASSUME Behind, NEW r \in Replicas, Stops(r)
  PROVE  /\ phase' \in [Replicas -> Phases] /\ version' \in [Replicas -> 1..(Last + 1)]
         /\ phase'[r] = "down" /\ version'[r] = 1
         /\ \A q \in Replicas \ {r} : phase'[q] = phase[q] /\ version'[q] = version[q]
BY DEF Behind, Stops, Goto, Phases, Last

LEMMA StopsKeepsSchema ==
  ASSUME SchemaInv, NEW r \in Replicas, Stops(r), UNCHANGED <<applied, schema>>
  PROVE  SchemaInv'
<1>1. Behind
  BY DEF SchemaInv
<1>2. 1..(1 - 1) = {}
  OBVIOUS
<1> QED  BY <1>1, <1>2, StopsFacts, KeepsSchema

(* The first version that is missing.                                      *)
LEMMA MissingHasMin ==
  ASSUME Behind, NEW r \in Replicas, Missing(r) # {}
  PROVE  \E v \in Missing(r) : \A w \in Missing(r) : v <= w
<1>1. Missing(r) \subseteq {1, 2, 3, 4, 5}
  BY DEF Missing, Behind, Last
<1> QED  BY <1>1

(* Every step of a replica that starts.                                    *)
LEMMA MigrationKeepsSchema ==
  ASSUME SchemaInv, NEW r \in Replicas, NEW stored, MigrationStep(r, stored)
  PROVE  SchemaInv'
<1>0. Behind /\ phase \in [Replicas -> Phases] /\ version \in [Replicas -> 1..(Last + 1)]
  BY DEF SchemaInv, Behind
<1>1. CASE Start(r)
  <2>1. /\ phase' \in [Replicas -> Phases] /\ phase'[r] = "check" /\ version' = version
        /\ \A q \in Replicas \ {r} : phase'[q] = phase[q]
        /\ UNCHANGED <<applied, schema>>
    BY <1>0, <1>1 DEF Start, Goto, Phases
  <2> QED  BY <1>0, <2>1, KeepsSchema DEF Behind
<1>2. CASE Check(r)
  <2>1. UNCHANGED <<applied, schema>> /\ 1..(version[r] - 1) \subseteq applied
    BY <1>0, <1>2 DEF Check, Behind
  <2>2. CASE Missing(r) = {}
    <3>1. /\ phase' \in [Replicas -> Phases] /\ version' \in [Replicas -> 1..(Last + 1)]
          /\ phase'[r] = "serve" /\ version'[r] = 1
          /\ \A q \in Replicas \ {r} : phase'[q] = phase[q] /\ version'[q] = version[q]
      BY <1>0, <1>2, <2>2 DEF Check, Goto, Phases, Last
    <3>2. 1..(1 - 1) = {}
      OBVIOUS
    <3> QED  BY <2>1, <3>1, <3>2, KeepsSchema
  <2>3. CASE Missing(r) # {}
    <3> DEFINE v == Min(Missing(r))
    <3>1. v \in Missing(r) /\ \A w \in Missing(r) : v <= w
      BY <1>0, <2>3, MissingHasMin DEF Min
    <3>2. v \in 1..Last /\ v \in 1..(Last + 1)
      BY <1>0, <3>1 DEF Missing, Last
    <3>3. 1..(v - 1) \subseteq applied
      BY <1>0, <2>1, <3>1, <3>2 DEF Missing, Last
    <3> HIDE DEF v
    <3>4. version' = [version EXCEPT ![r] = v] /\ Goto(r, "exec")
      BY <1>2, <2>3 DEF Check, v
    <3>5. /\ phase' \in [Replicas -> Phases] /\ version' \in [Replicas -> 1..(Last + 1)]
          /\ phase'[r] = "exec" /\ version'[r] = v
          /\ \A q \in Replicas \ {r} : phase'[q] = phase[q] /\ version'[q] = version[q]
      BY <1>0, <3>2, <3>4 DEF Goto, Phases
    <3> QED  BY <2>1, <3>2, <3>3, <3>5, KeepsSchema
  <2> QED  BY <2>2, <2>3
<1>3. CASE Exec(r, stored)
  <2>1. UNCHANGED <<applied, schema>> /\ phase[r] = "exec"
    BY <1>3 DEF Exec
  <2>2. CASE Goto(r, "record") /\ UNCHANGED version
    <3>1. /\ phase' \in [Replicas -> Phases] /\ phase'[r] = "record"
          /\ \A q \in Replicas \ {r} : phase'[q] = phase[q]
      BY <1>0, <2>2 DEF Goto, Phases
    <3> QED  BY <1>0, <2>1, <2>2, <3>1, KeepsSchema DEF Behind
  <2>3. CASE Stops(r)
    BY <2>1, <2>3, StopsKeepsSchema
  <2> QED  BY <1>3, <2>2, <2>3 DEF Exec
<1>4. CASE Record(r)
  <2>1. CASE version[r] \in applied
    BY <1>4, <2>1, StopsKeepsSchema DEF Record
  <2>2. CASE version[r] \notin applied
    <3>1. phase[r] = "record" /\ Committed(r) /\ Returns(r)
      BY <1>4, <2>2 DEF Record
    <3>2. SchemaIsApplied' /\ applied \subseteq applied' /\ version[r] \in applied'
      BY <2>2, <3>1, CommitKeepsSchema
    <3>3. version[r] \in 1..Last /\ version[r] + 1 \in 1..(Last + 1)
      BY <1>0, <3>1 DEF Behind, Last
    <3>4. /\ phase' \in [Replicas -> Phases] /\ version' \in [Replicas -> 1..(Last + 1)]
          /\ phase'[r] = "check" /\ version'[r] = version[r] + 1
          /\ \A q \in Replicas \ {r} : phase'[q] = phase[q] /\ version'[q] = version[q]
      BY <1>0, <3>1, <3>3 DEF Returns, Goto, Phases
    <3>5. 1..(version'[r] - 1) \subseteq applied'
      <4>1. \A i \in 1..(version'[r] - 1) : i \in 1..(version[r] - 1) \/ i = version[r]
        BY <3>3, <3>4 DEF Last
      <4> QED  BY <1>0, <3>2, <4>1 DEF Behind
    <3>6. Behind'
      BY <1>0, <3>2, <3>4, <3>5 DEF Behind
    <3> QED  BY <3>2, <3>6 DEF SchemaInv
  <2> QED  BY <2>1, <2>2
<1> QED  BY <1>1, <1>2, <1>3, <1>4 DEF MigrationStep

LEMMA SchemaStep == SchemaInv /\ [Next]_vars => SchemaInv'
<1> SUFFICES ASSUME SchemaInv, [Next]_vars
             PROVE  SchemaInv'
  OBVIOUS
<1>0. Behind /\ phase \in [Replicas -> Phases] /\ version \in [Replicas -> 1..(Last + 1)]
  BY DEF SchemaInv, Behind
<1>1. ASSUME UNCHANGED <<phase, version, applied, schema>>
      PROVE  SchemaInv'
  BY <1>0, <1>1, KeepsSchema
<1>2. ASSUME NEW q \in Requests,
             \/ \E r \in Replicas : Arrive(q, r)
             \/ Handle(q)
             \/ HandleFails(q)
      PROVE  SchemaInv'
  BY <1>1, <1>2 DEF Arrive, Handle, HandleFails, migrationVars
<1>3. ASSUME NEW k \in CronKeys, CronFires(k) \/ CronFails(k)
      PROVE  SchemaInv'
  BY <1>1, <1>3 DEF CronFires, CronFails, migrationVars
<1>4. ASSUME NEW r \in Replicas, Migrate(r)
      PROVE  SchemaInv'
  BY <1>4, MigrationKeepsSchema DEF Migrate
<1>5. ASSUME NEW r \in Replicas, Dies(r)
      PROVE  SchemaInv'
  <2>1. CASE Crash(r)
    BY <2>1, StopsKeepsSchema DEF Crash
  <2>2. CASE CommitLost(r)
    <3>1. SchemaIsApplied' /\ applied \subseteq applied' /\ Stops(r)
      BY <2>2, CommitKeepsSchema DEF CommitLost
    <3>2. 1..(1 - 1) = {}
      OBVIOUS
    <3>3. Behind'
      BY <1>0, <3>1, <3>2, StopsFacts DEF Behind
    <3> QED  BY <3>1, <3>3 DEF SchemaInv
  <2> QED  BY <1>5, <2>1, <2>2 DEF Dies
<1>6. ASSUME NEW r \in Replicas, Shutdown(r)
      PROVE  SchemaInv'
  <2>1. /\ phase' \in [Replicas -> Phases] /\ phase'[r] = "closing" /\ version' = version
        /\ \A q \in Replicas \ {r} : phase'[q] = phase[q]
        /\ UNCHANGED <<applied, schema>>
    BY <1>0, <1>6 DEF Shutdown, Goto, Phases
  <2> QED  BY <1>0, <2>1, KeepsSchema DEF Behind
<1>7. ASSUME NEW r \in Replicas, Exit(r)
      PROVE  SchemaInv'
  BY <1>7, StopsKeepsSchema DEF Exit
<1>8. CASE UNCHANGED vars
  BY <1>1, <1>8 DEF vars, migrationVars
<1> QED
  BY <1>2, <1>3, <1>4, <1>5, <1>6, <1>7, <1>8 DEF Next

LEMMA SchemaStart == Init => SchemaInv
<1> SUFFICES ASSUME Init
             PROVE  SchemaInv
  OBVIOUS
<1>1. SchemaIsApplied
  BY DEF Init, MigrationsInit, SchemaIsApplied
<1>2. 1..(1 - 1) = {} /\ 1 \in 1..(Last + 1)
  BY DEF Last
<1>3. Behind
  BY <1>2 DEF Init, MigrationsInit, Behind, Phases
<1> QED  BY <1>1, <1>3 DEF SchemaInv

(* However many replicas start at once, with stale tests, lost answers and *)
(* crashes: the schema is what the recorded versions leave when each of    *)
(* them has run once and in order.                                         *)
THEOREM SchemaCorrect == Spec => []SchemaIsApplied
<1>1. SchemaInv => SchemaIsApplied
  BY DEF SchemaInv
<1> QED  BY <1>1, SchemaStart, SchemaStep, PTL DEF Spec

-----------------------------------------------------------------------------
(* Requests.                                                               *)

Keys == {TrimSpace[k] : k \in DOMAIN TrimSpace} \cup CronKeys

RowType == [key : Keys, status : {"queued", "cancelled"}, maxAttempts : Nat \ {0}]

ReqType == [at : {"idle"} \cup Working \cup Ended, form : Forms \cup {Null},
            job : Nat \cup {Null}, existing : BOOLEAN]

Types ==
  /\ table \in Seq(RowType)
  /\ req \in [Requests -> ReqType]
  /\ open \subseteq CronKeys

(* No two rows share a key, and none has one that is about to be inserted. *)
UniqueKeys ==
  /\ \A i, j \in Ids : table[i].key = table[j].key /\ table[i].key # Null => i = j
  /\ \A k \in open : RowsWith(k) = {}

(* A request that has its job.                                             *)
Named(q) == req[q].at \in {"announce", "accepted"}

(* What a request knows of the table at each of its statements.            *)
RequestFits(q) ==
  /\ Named(q) => /\ req[q].form \in Forms
                 /\ req[q].job \in Ids
                 /\ table[req[q].job].key = KeyOf(req[q].form)
                 /\ req[q].existing => KeyOf(req[q].form) # Null
  /\ req[q].at \in {"insert", "select"} => req[q].form \in Forms
  /\ req[q].at = "select" => RowsWith(KeyOf(req[q].form)) # {}
  /\ req[q].at \in {"idle", "insert", "announce"} => ~ req[q].existing
  /\ req[q].at \in {"cancel", "retry"} => req[q].job \in Ids
  /\ req[q].job \in Ids \cup {Null}

(* A row was inserted by one request.                                      *)
InsertedByOne(p, q) ==
  Named(p) /\ Named(q) /\ ~ req[p].existing /\ ~ req[q].existing /\ req[p].job = req[q].job
    => p = q

AnnouncedBy(a) ==
  \E q \in Requests : /\ a = <<req[q].job, q>>
                      /\ req[q].at = "accepted"
                      /\ ~ req[q].existing

RequestsFit ==
  /\ \A q \in Requests : RequestFits(q)
  /\ \A p, q \in Requests : InsertedByOne(p, q)
  /\ \A a \in announced : AnnouncedBy(a)

SubmissionInv == Types /\ UniqueKeys /\ RequestsFit

-----------------------------------------------------------------------------
(* What the invariant says of answers.                                     *)
LEMMA InvGivesOneJob == SubmissionInv => OneJobPerKey
<1> SUFFICES ASSUME SubmissionInv
             PROVE  OneJobPerKey
  OBVIOUS
<1>1. ASSUME NEW q \in Accepted
      PROVE  /\ q \in Requests /\ Named(q)
             /\ req[q].job \in Ids
             /\ table[req[q].job].key = KeyOf(req[q].form)
  BY <1>1 DEF SubmissionInv, RequestsFit, RequestFits, Accepted, Named
<1>2. ASSUME NEW p \in Accepted, NEW q \in Accepted,
             TrimSpace[req[p].form.key] = TrimSpace[req[q].form.key],
             TrimSpace[req[p].form.key] # Null
      PROVE  /\ req[p].job = req[q].job
             /\ p # q => req[p].existing \/ req[q].existing
  <2>1. req[p].job = req[q].job
    BY <1>1, <1>2 DEF SubmissionInv, UniqueKeys, KeyOf
  <2> QED  BY <1>1, <2>1 DEF SubmissionInv, RequestsFit, InsertedByOne
<1> QED  BY <1>1, <1>2 DEF SubmissionInv, UniqueKeys, OneJobPerKey

LEMMA InvGivesAnnouncedOnce == SubmissionInv => AnnouncedOnce
<1> SUFFICES ASSUME SubmissionInv
             PROVE  AnnouncedOnce
  OBVIOUS
<1>1. ASSUME NEW a \in announced, NEW b \in announced, a[1] = b[1]
      PROVE  a = b
  <2>1. PICK p \in Requests :
          a = <<req[p].job, p>> /\ req[p].at = "accepted" /\ ~ req[p].existing
    BY <1>1 DEF SubmissionInv, RequestsFit, AnnouncedBy
  <2>2. PICK q \in Requests :
          b = <<req[q].job, q>> /\ req[q].at = "accepted" /\ ~ req[q].existing
    BY <1>1 DEF SubmissionInv, RequestsFit, AnnouncedBy
  <2>3. req[p].job = req[q].job
    BY <1>1, <2>1, <2>2
  <2>4. p = q
    BY <2>1, <2>2, <2>3 DEF SubmissionInv, RequestsFit, InsertedByOne, Named
  <2> QED  BY <2>1, <2>2, <2>4
<1>2. ASSUME NEW a \in announced
      PROVE  ~ req[a[2]].existing
  BY <1>2 DEF SubmissionInv, RequestsFit, AnnouncedBy
<1>3. ASSUME NEW p \in Accepted, NEW q \in Accepted,
             KeyOf(req[p].form) = Null, req[p].job = req[q].job
      PROVE  p = q
  <2>1. /\ p \in Requests /\ q \in Requests /\ Named(p) /\ Named(q)
        /\ RequestFits(p) /\ RequestFits(q) /\ InsertedByOne(p, q)
    BY <1>3 DEF SubmissionInv, RequestsFit, Accepted, Named
  <2>2. KeyOf(req[q].form) = Null
    BY <1>3, <2>1 DEF RequestFits
  <2>3. ~ req[p].existing /\ ~ req[q].existing
    BY <1>3, <2>1, <2>2 DEF RequestFits
  <2> QED  BY <1>3, <2>1, <2>3 DEF InsertedByOne
<1> QED  BY <1>1, <1>2, <1>3 DEF AnnouncedOnce

-----------------------------------------------------------------------------
(* The two things a step may do to the table: change a status, or insert a *)
(* row under a key that no row has.                                        *)

KeysKept ==
  /\ table' \in Seq(RowType)
  /\ Ids \subseteq Ids'
  /\ \A i \in Ids : table'[i].key = table[i].key

LEMMA SameKeys ==
  ASSUME SubmissionInv, table' \in Seq(RowType), Len(table') = Len(table),
         \A i \in Ids : table'[i].key = table[i].key,
         open' \subseteq open
  PROVE  KeysKept /\ UniqueKeys'
BY DEF SubmissionInv, UniqueKeys, KeysKept, Ids, RowsWith

LEMMA Inserting ==
  ASSUME SubmissionInv, NEW row \in RowType, table' = Append(table, row),
         RowsWith(row.key) = {}, open' \subseteq open, row.key \notin open'
  PROVE  KeysKept /\ UniqueKeys' /\ Len(table) + 1 \in Ids' /\ table'[Len(table) + 1] = row
<1>1. table \in Seq(RowType) /\ Len(table) \in Nat
  BY DEF SubmissionInv, Types
<1>2. /\ table' \in Seq(RowType) /\ Len(table') = Len(table) + 1
      /\ table'[Len(table) + 1] = row
      /\ \A i \in Ids : table'[i] = table[i]
  BY <1>1 DEF Ids
<1>3. Ids' = Ids \cup {Len(table) + 1} /\ Len(table) + 1 \notin Ids
  BY <1>1, <1>2 DEF Ids
<1>4. KeysKept
  BY <1>2, <1>3 DEF KeysKept
<1>5. \A i \in Ids : row.key # Null => table[i].key # row.key
  BY DEF RowsWith
<1>6. UniqueKeys'
  <2>1. ASSUME NEW i \in Ids', NEW j \in Ids',
               table'[i].key = table'[j].key, table'[i].key # Null
        PROVE  i = j
    BY <1>2, <1>3, <1>5, <2>1 DEF SubmissionInv, UniqueKeys
  <2>2. ASSUME NEW k \in open'
        PROVE  RowsWith(k)' = {}
    <3>1. k \in open /\ k # row.key /\ RowsWith(k) = {}
      BY <2>2 DEF SubmissionInv, UniqueKeys
    <3> QED  BY <1>2, <1>3, <3>1 DEF RowsWith
  <2> QED  BY <2>1, <2>2 DEF UniqueKeys
<1> QED  BY <1>2, <1>3, <1>4, <1>6

(* A request that does not move still fits.                                *)
LEMMA StillFits ==
  ASSUME SubmissionInv, KeysKept, NEW q \in Requests, req'[q] = req[q]
  PROVE  RequestFits(q)'
<1>1. RequestFits(q)
  BY DEF SubmissionInv, RequestsFit
<1>2. RowsWith(KeyOf(req[q].form)) \subseteq RowsWith(KeyOf(req[q].form))'
  BY DEF RowsWith, KeysKept, KeyOf
<1> QED  BY <1>1, <1>2 DEF RequestFits, KeysKept, Named, KeyOf

(* Requests that stay as they are or end without a job.                    *)
LEMMA RequestsRest ==
  ASSUME SubmissionInv, KeysKept, announced' = announced,
         req' \in [Requests -> ReqType],
         \A q \in Requests :
           \/ req'[q] = req[q]
           \/ /\ req[q].at # "accepted"
              /\ req'[q].at \in {"refused", "failed", "done", "cut"}
              /\ req'[q].job = Null
  PROVE  RequestsFit'
<1>1. ASSUME NEW q \in Requests
      PROVE  RequestFits(q)'
  <2>1. CASE req'[q] = req[q]
    BY <2>1, StillFits
  <2>2. CASE req'[q].at \in {"refused", "failed", "done", "cut"} /\ req'[q].job = Null
    BY <2>2 DEF RequestFits, Named
  <2> QED  BY <2>1, <2>2
<1>2. ASSUME NEW p \in Requests, NEW q \in Requests
      PROVE  InsertedByOne(p, q)'
  BY DEF SubmissionInv, RequestsFit, InsertedByOne, Named
<1>3. ASSUME NEW a \in announced'
      PROVE  AnnouncedBy(a)'
  BY <1>3 DEF SubmissionInv, RequestsFit, AnnouncedBy
<1> QED  BY <1>1, <1>2, <1>3 DEF RequestsFit

(* One request moves on, and is not taken for the inserter of somebody     *)
(* else's row.                                                             *)
LEMMA RequestMoves ==
  ASSUME SubmissionInv, KeysKept, NEW q \in Requests,
         req' \in [Requests -> ReqType],
         \A p \in Requests \ {q} : req'[p] = req[p],
         req[q].at # "accepted",
         RequestFits(q)',
         \A p \in Requests \ {q} :
           ~ (/\ Named(p) /\ Named(q)' /\ ~ req[p].existing /\ ~ req'[q].existing
              /\ req[p].job = req'[q].job),
         \A a \in announced' : a \in announced \/ AnnouncedBy(a)'
  PROVE  RequestsFit'
<1>1. ASSUME NEW p \in Requests
      PROVE  RequestFits(p)'
  BY StillFits
<1>2. ASSUME NEW p \in Requests, NEW r \in Requests
      PROVE  InsertedByOne(p, r)'
  <2>1. InsertedByOne(p, r)
    BY DEF SubmissionInv, RequestsFit
  <2>2. CASE p = q \/ r = q
    BY <2>2 DEF InsertedByOne, Named
  <2>3. CASE p # q /\ r # q
    BY <2>1, <2>3 DEF InsertedByOne, Named
  <2> QED  BY <2>2, <2>3
<1>3. ASSUME NEW a \in announced'
      PROVE  AnnouncedBy(a)'
  <2>1. CASE a \in announced
    BY <2>1 DEF SubmissionInv, RequestsFit, AnnouncedBy
  <2> QED  BY <1>3, <2>1
<1> QED  BY <1>1, <1>2, <1>3 DEF RequestsFit

-----------------------------------------------------------------------------
(* A request ends without naming a job.                                    *)
LEMMA EndedReq ==
  ASSUME NEW x \in Ended
  PROVE  /\ [Idle EXCEPT !.at = x] \in ReqType
         /\ [Idle EXCEPT !.at = x].at = x
         /\ [Idle EXCEPT !.at = x].job = Null
<1>1. PICK e : e = FALSE
  OBVIOUS
<1>2. Idle = [at |-> "idle", form |-> Null, job |-> Null, existing |-> e]
  BY <1>1, Zenon DEF Idle
<1> DEFINE r == [Idle EXCEPT !.at = x]
<1>3. r = [at |-> x, form |-> Null, job |-> Null, existing |-> e]
  BY <1>2
<1>4. r \in ReqType
  <2>1. Null \in Forms \cup {Null} /\ Null \in Nat \cup {Null}
        /\ x \in {"idle"} \cup Working \cup Ended
    OBVIOUS
  <2>2. e \in BOOLEAN
    BY <1>1, Zenon
  <2> QED  BY <1>3, <2>1, <2>2, Zenon DEF ReqType
<1> QED  BY <1>3, <1>4

LEMMA GoneReq ==
  ASSUME Types, NEW q \in Requests, NEW x \in Ended, Gone(q, x)
  PROVE  /\ req' \in [Requests -> ReqType]
         /\ req'[q].at = x /\ req'[q].job = Null
         /\ \A p \in Requests \ {q} : req'[p] = req[p]
<1> DEFINE r == [Idle EXCEPT !.at = x]
<1>1. r \in ReqType /\ r.at = x /\ r.job = Null
  BY EndedReq
<1>2. req' = [req EXCEPT ![q] = r]
  BY DEF Gone
<1> HIDE DEF r
<1> QED  BY <1>1, <1>2 DEF Types

(* The states that end a request without a job.                            *)
LEMMA GoneFits ==
  ASSUME SubmissionInv, KeysKept, UniqueKeys', open' \subseteq CronKeys,
         announced' = announced, NEW q \in Requests, req[q].at # "accepted",
         NEW x \in {"refused", "failed", "done"}, Gone(q, x)
  PROVE  SubmissionInv'
<1>1. Types /\ x \in Ended
  BY DEF SubmissionInv, Ended
<1>2. /\ req' \in [Requests -> ReqType]
      /\ req'[q].at = x /\ req'[q].job = Null
      /\ \A p \in Requests \ {q} : req'[p] = req[p]
  BY <1>1, GoneReq
<1>3. RequestsFit'
  BY <1>2, RequestsRest
<1> QED  BY <1>2, <1>3 DEF SubmissionInv, Types, KeysKept

(* One field after the other of a request.                                 *)
LEMMA ReqFields ==
  ASSUME Types, NEW q \in Requests, NEW at \in {"idle"} \cup Working \cup Ended,
         NEW form \in Forms \cup {Null}, NEW job \in Nat \cup {Null}, NEW e \in BOOLEAN,
         req' = [req EXCEPT ![q] = [at |-> at, form |-> form, job |-> job, existing |-> e]]
  PROVE  /\ req' \in [Requests -> ReqType]
         /\ req'[q].at = at /\ req'[q].form = form /\ req'[q].job = job
         /\ req'[q].existing = e
         /\ \A p \in Requests \ {q} : req'[p] = req[p]
<1> DEFINE r == [at |-> at, form |-> form, job |-> job, existing |-> e]
<1>1. r \in ReqType
  BY Zenon DEF ReqType
<1>2. r.at = at /\ r.form = form /\ r.job = job /\ r.existing = e
  OBVIOUS
<1> HIDE DEF r
<1>3. req' = [req EXCEPT ![q] = r]
  BY DEF r
<1> QED  BY <1>1, <1>2, <1>3 DEF Types

LEMMA ReqRecord ==
  ASSUME Types, NEW q \in Requests
  PROVE  /\ req[q] = [at |-> req[q].at, form |-> req[q].form, job |-> req[q].job,
                      existing |-> req[q].existing]
         /\ req[q].at \in {"idle"} \cup Working \cup Ended
         /\ req[q].form \in Forms \cup {Null}
         /\ req[q].job \in Nat \cup {Null}
         /\ req[q].existing \in BOOLEAN
BY DEF Types, ReqType

(* A step that leaves the table and the fires alone.                       *)
LEMMA SameTable ==
  ASSUME SubmissionInv, UNCHANGED <<table, open>>
  PROVE  KeysKept /\ UniqueKeys' /\ open' \subseteq CronKeys
BY DEF SubmissionInv, Types, UniqueKeys, KeysKept, Ids, RowsWith

-----------------------------------------------------------------------------
(* POST /jobs.                                                             *)
LEMMA SubmitKeeps ==
  ASSUME SubmissionInv, NEW q \in Requests, NEW f \in Forms, Submit(q, f)
  PROVE  SubmissionInv'
<1>1. /\ KeysKept /\ UniqueKeys' /\ open' \subseteq CronKeys /\ announced' = announced
      /\ req[q].at = "idle"
  BY SameTable DEF Submit
<1>2. CASE Valid(f)
  <2>1. Types /\ RequestFits(q)
    BY DEF SubmissionInv, RequestsFit
  <2>2. req' = [req EXCEPT ![q] = [at |-> "insert", form |-> f, job |-> req[q].job,
                                   existing |-> req[q].existing]]
    BY <1>2, <2>1, ReqRecord DEF Submit
  <2>3. "insert" \in {"idle"} \cup Working \cup Ended /\ f \in Forms \cup {Null}
    BY DEF Working
  <2>4. /\ req' \in [Requests -> ReqType]
        /\ req'[q].at = "insert" /\ req'[q].form = f /\ req'[q].existing = req[q].existing
        /\ req'[q].job = req[q].job
        /\ \A p \in Requests \ {q} : req'[p] = req[p]
    BY <2>1, <2>2, <2>3, ReqRecord, ReqFields
  <2>5. RequestFits(q)' /\ ~ Named(q)'
    BY <1>1, <2>1, <2>4 DEF RequestFits, Named, KeysKept
  <2>6. RequestsFit'
    BY <1>1, <2>4, <2>5, RequestMoves
  <2> QED  BY <1>1, <2>4, <2>6 DEF SubmissionInv, Types, KeysKept
<1>3. CASE ~ Valid(f)
  <2>1. Gone(q, "refused")
    BY <1>3 DEF Submit
  <2> QED  BY <1>1, <2>1, GoneFits
<1> QED  BY <1>2, <1>3

LEMMA NewRowType ==
  ASSUME NEW k \in Keys, NEW n \in Int
  PROVE  NewRow(k, n) \in RowType /\ NewRow(k, n).key = k
BY DEF NewRow, RowType

LEMMA InsertedTable ==
  ASSUME SubmissionInv, NEW q \in Requests, Inserted(q)
  PROVE  /\ KeysKept /\ UniqueKeys' /\ open' \subseteq CronKeys /\ announced' = announced
         /\ req[q].at = "insert" /\ req[q].form \in Forms /\ ~ req[q].existing
         /\ RowsWith(KeyOf(req[q].form)) # {} => table' = table
         /\ RowsWith(KeyOf(req[q].form)) = {} =>
              /\ Len(table) + 1 \in Ids'
              /\ table'[Len(table) + 1].key = KeyOf(req[q].form)
<1> DEFINE k == KeyOf(req[q].form)
           row == NewRow(k, req[q].form.attempts)
<1>1. req[q].at = "insert" /\ req[q].form \in Forms /\ ~ req[q].existing
  BY DEF SubmissionInv, RequestsFit, RequestFits, Inserted
<1>2. k \in Keys /\ req[q].form.attempts \in Int
  BY <1>1, SubmissionAssumption DEF Keys, KeyOf
<1>3. /\ k \notin open /\ announced' = announced /\ open' = open
      /\ table' = IF RowsWith(k) = {} THEN Append(table, row) ELSE table
  BY DEF Inserted
<1>4. open' \subseteq CronKeys
  BY <1>3 DEF SubmissionInv, Types
<1>5. row \in RowType /\ row.key = k
  BY <1>2, NewRowType
<1> HIDE DEF k, row
<1>6. CASE RowsWith(k) # {}
  <2>1. KeysKept /\ UniqueKeys' /\ table' = table
    BY <1>3, <1>6, SameTable
  <2> QED  BY <1>1, <1>3, <1>4, <1>6, <2>1 DEF k
<1>7. CASE RowsWith(k) = {}
  <2>1. /\ KeysKept /\ UniqueKeys' /\ Len(table) + 1 \in Ids'
        /\ table'[Len(table) + 1] = row
    BY <1>3, <1>5, <1>7, Inserting
  <2> QED  BY <1>1, <1>3, <1>4, <1>5, <1>7, <2>1 DEF k
<1> QED  BY <1>6, <1>7

LEMMA InsertKeeps ==
  ASSUME SubmissionInv, NEW q \in Requests, Insert(q)
  PROVE  SubmissionInv'
<1> DEFINE k == KeyOf(req[q].form)
<1>1. /\ KeysKept /\ UniqueKeys' /\ open' \subseteq CronKeys /\ announced' = announced
      /\ req[q].at = "insert" /\ req[q].form \in Forms /\ ~ req[q].existing
      /\ RowsWith(k) # {} => table' = table
      /\ RowsWith(k) = {} => /\ Len(table) + 1 \in Ids'
                             /\ table'[Len(table) + 1].key = k
  BY InsertedTable DEF Insert
<1>2. Types /\ Len(table) \in Nat
  BY DEF SubmissionInv, Types
<1>3. CASE RowsWith(k) # {}
  <2>1. req' = [req EXCEPT ![q].at = "select", ![q].job = Null]
    BY <1>3 DEF Insert
  <2>2. "select" \in {"idle"} \cup Working \cup Ended /\ Null \in Nat \cup {Null}
    BY DEF Working
  <2>3. /\ req' \in [Requests -> ReqType]
        /\ req'[q].at = "select" /\ req'[q].form = req[q].form /\ req'[q].job = Null
        /\ \A p \in Requests \ {q} : req'[p] = req[p]
    BY <1>2, <2>1, <2>2 DEF Types, ReqType
  <2>4. RowsWith(KeyOf(req[q].form))' # {}
    BY <1>1, <1>3, <2>3 DEF RowsWith, Ids, KeyOf
  <2>5. RequestFits(q)' /\ ~ Named(q)'
    BY <1>1, <2>3, <2>4 DEF RequestFits, Named
  <2>6. RequestsFit'
    BY <1>1, <2>3, <2>5, RequestMoves
  <2> QED  BY <1>1, <2>3, <2>6 DEF SubmissionInv, Types, KeysKept
<1>4. CASE RowsWith(k) = {}
  <2>1. req' = [req EXCEPT ![q].at = "announce", ![q].job = Len(table) + 1]
    BY <1>4 DEF Insert
  <2>2. /\ "announce" \in {"idle"} \cup Working \cup Ended
        /\ Len(table) + 1 \in Nat \cup {Null}
    BY <1>2 DEF Working
  <2>3. /\ req' \in [Requests -> ReqType]
        /\ req'[q].at = "announce" /\ req'[q].form = req[q].form
        /\ req'[q].job = Len(table) + 1 /\ req'[q].existing = req[q].existing
        /\ \A p \in Requests \ {q} : req'[p] = req[p]
    BY <1>2, <2>1, <2>2 DEF Types, ReqType
  <2>4. RequestFits(q)'
    BY <1>1, <1>4, <2>3 DEF RequestFits, Named, KeyOf
  <2>5. ASSUME NEW p \in Requests \ {q}, Named(p)
        PROVE  req[p].job # req'[q].job
    <3>1. req[p].job \in Ids
      BY <2>5 DEF SubmissionInv, RequestsFit, RequestFits
    <3> QED  BY <1>2, <2>3, <3>1 DEF Ids
  <2>6. RequestsFit'
    BY <1>1, <2>3, <2>4, <2>5, RequestMoves
  <2> QED  BY <1>1, <2>3, <2>6 DEF SubmissionInv, Types, KeysKept
<1> QED  BY <1>3, <1>4

LEMMA InsertLostKeeps ==
  ASSUME SubmissionInv, NEW q \in Requests, InsertLost(q)
  PROVE  SubmissionInv'
BY InsertedTable, GoneFits DEF InsertLost

LEMMA FailsKeeps ==
  ASSUME SubmissionInv, NEW q \in Requests, Fails(q)
  PROVE  SubmissionInv'
BY SameTable, GoneFits DEF Fails

LEMMA SelectKeeps ==
  ASSUME SubmissionInv, NEW q \in Requests, Select(q)
  PROVE  SubmissionInv'
<1> DEFINE rows == RowsWith(KeyOf(req[q].form))
<1>1. /\ KeysKept /\ UniqueKeys' /\ open' \subseteq CronKeys /\ announced' = announced
      /\ table' = table
      /\ Types /\ req[q].at = "select" /\ req[q].form \in Forms
  BY SameTable DEF Select, SubmissionInv, RequestsFit, RequestFits
<1>2. CASE rows = {}
  <2>1. Gone(q, "failed")
    BY <1>2 DEF Select
  <2> QED  BY <1>1, <2>1, GoneFits
<1>3. CASE rows # {}
  <2>0. PICK e : e = TRUE
    OBVIOUS
  <2>1. PICK i \in rows : req' = [req EXCEPT ![q].at = "accepted", ![q].job = i,
                                             ![q].existing = e]
    BY <1>3, <2>0, Zenon DEF Select
  <2>2. /\ i \in Ids /\ i \in Nat /\ KeyOf(req[q].form) # Null
        /\ table[i].key = KeyOf(req[q].form)
    BY <1>1 DEF RowsWith, Ids, Types
  <2>4. /\ "accepted" \in {"idle"} \cup Working \cup Ended /\ i \in Nat \cup {Null}
    BY <2>2 DEF Ended
  <2>8. e \in BOOLEAN
    BY <2>0, Zenon
  <2>5. /\ req' \in [Requests -> ReqType]
        /\ req'[q].at = "accepted" /\ req'[q].form = req[q].form /\ req'[q].job = i
        /\ req'[q].existing = e
        /\ \A p \in Requests \ {q} : req'[p] = req[p]
    BY <1>1, <2>1, <2>4, <2>8 DEF Types, ReqType
  <2>9. req'[q].existing
    BY <2>0, <2>5
  <2>6. RequestFits(q)'
    BY <1>1, <2>2, <2>5, <2>9 DEF RequestFits, Named, KeyOf, Ids
  <2>7. RequestsFit'
    BY <1>1, <2>5, <2>6, <2>9, RequestMoves
  <2> QED  BY <1>1, <2>5, <2>7 DEF SubmissionInv, Types, KeysKept
<1> QED  BY <1>2, <1>3

LEMMA AnnounceKeeps ==
  ASSUME SubmissionInv, NEW q \in Requests, NEW w \in BOOLEAN, Announce(q, w)
  PROVE  SubmissionInv'
<1>1. /\ KeysKept /\ UniqueKeys' /\ open' \subseteq CronKeys /\ table' = table
      /\ Types /\ req[q].at = "announce" /\ RequestFits(q)
      /\ req' = [req EXCEPT ![q].at = "accepted"]
      /\ announced' \subseteq announced \cup {<<req[q].job, q>>}
  BY SameTable DEF Announce, To, SubmissionInv, RequestsFit
<1>2. "accepted" \in {"idle"} \cup Working \cup Ended
  BY DEF Ended
<1>3. /\ req' \in [Requests -> ReqType]
      /\ req'[q].at = "accepted" /\ req'[q].form = req[q].form
      /\ req'[q].job = req[q].job /\ req'[q].existing = req[q].existing
      /\ \A p \in Requests \ {q} : req'[p] = req[p]
  BY <1>1, <1>2 DEF Types, ReqType
<1>4. RequestFits(q)' /\ Named(q) /\ ~ req[q].existing
  BY <1>1, <1>3 DEF RequestFits, Named, KeyOf, Ids
<1>5. ASSUME NEW p \in Requests \ {q}
      PROVE  ~ (/\ Named(p) /\ Named(q)' /\ ~ req[p].existing /\ ~ req'[q].existing
                /\ req[p].job = req'[q].job)
  <2>1. InsertedByOne(p, q) /\ p # q
    BY DEF SubmissionInv, RequestsFit
  <2> QED  BY <1>3, <1>4, <2>1 DEF InsertedByOne
<1>6. ASSUME NEW a \in announced'
      PROVE  a \in announced \/ AnnouncedBy(a)'
  <2>1. CASE a = <<req[q].job, q>>
    BY <1>3, <1>4, <2>1 DEF AnnouncedBy
  <2> QED  BY <1>1, <1>6, <2>1
<1>7. RequestsFit'
  BY <1>1, <1>3, <1>4, <1>5, <1>6, RequestMoves
<1> QED  BY <1>1, <1>3, <1>7 DEF SubmissionInv, Types, KeysKept

-----------------------------------------------------------------------------
(* Cancel and retry.                                                       *)
LEMMA OperateKeeps ==
  ASSUME SubmissionInv, NEW q \in Requests, NEW i \in Ids,
         NEW op \in {"cancel", "retry"}, Operate(q, i, op)
  PROVE  SubmissionInv'
<1>1. /\ KeysKept /\ UniqueKeys' /\ open' \subseteq CronKeys /\ table' = table
      /\ announced' = announced /\ Types /\ req[q].at = "idle"
      /\ req' = [req EXCEPT ![q].at = op, ![q].job = i]
  BY SameTable DEF Operate, SubmissionInv
<1>2. op \in {"idle"} \cup Working \cup Ended /\ i \in Nat \cup {Null}
  BY <1>1 DEF Working, Ids, Types
<1>3. /\ req' \in [Requests -> ReqType]
      /\ req'[q].at = op /\ req'[q].job = i
      /\ \A p \in Requests \ {q} : req'[p] = req[p]
  BY <1>1, <1>2 DEF Types, ReqType
<1>4. RequestFits(q)' /\ ~ Named(q)'
  BY <1>1, <1>3 DEF RequestFits, Named, Ids
<1>5. RequestsFit'
  BY <1>1, <1>3, <1>4, RequestMoves
<1> QED  BY <1>1, <1>3, <1>5 DEF SubmissionInv, Types, KeysKept

LEMMA TransactKeeps ==
  ASSUME SubmissionInv, NEW q \in Requests, NEW op \in {"cancel", "retry"}, NEW from,
         NEW to \in {"queued", "cancelled"}, Transact(q, op, from, to)
  PROVE  SubmissionInv'
<1>1. Types /\ RequestFits(q) /\ req[q].at = op
  BY DEF SubmissionInv, RequestsFit, Transact
<1>2. announced' = announced /\ open' = open /\ open' \subseteq CronKeys
  BY <1>1 DEF Transact, Types
<1>3. req[q].job \in Ids
  BY <1>1 DEF RequestFits
<1>4. CASE table[req[q].job].status \in from
  <2>1. table' = [table EXCEPT ![req[q].job].status = to] /\ Gone(q, "done")
    BY <1>4 DEF Transact
  <2>2. /\ table' \in Seq(RowType) /\ Len(table') = Len(table)
        /\ \A i \in Ids : table'[i].key = table[i].key
    <3> DEFINE j == req[q].job
               row == [table[j] EXCEPT !.status = to]
    <3>1. j \in 1..Len(table) /\ table \in Seq(RowType) /\ table[j] \in RowType
      BY <1>1, <1>3 DEF Types, Ids
    <3>2. row \in RowType /\ row.key = table[j].key
      BY <3>1 DEF RowType
    <3>3. table' = [table EXCEPT ![j] = row]
      BY <2>1, <3>1
    <3> HIDE DEF j, row
    <3> QED  BY <3>1, <3>2, <3>3 DEF Ids
  <2>3. KeysKept /\ UniqueKeys'
    BY <1>2, <2>2, SameKeys
  <2> QED  BY <1>1, <1>2, <2>1, <2>3, GoneFits
<1>5. CASE table[req[q].job].status \notin from
  <2>1. table' = table /\ Gone(q, "refused")
    BY <1>5 DEF Transact
  <2>2. KeysKept /\ UniqueKeys'
    BY <1>2, <2>1, SameTable
  <2> QED  BY <1>1, <1>2, <2>1, <2>2, GoneFits
<1> QED  BY <1>4, <1>5

-----------------------------------------------------------------------------
(* Cron fires.                                                             *)
LEMMA CronKeeps ==
  ASSUME SubmissionInv, NEW k \in CronKeys, NEW c \in BOOLEAN,
         CronInsert(k) \/ CronEnds(k, c)
  PROVE  SubmissionInv'
<1>1. Types /\ req' = req /\ announced' = announced
  BY DEF SubmissionInv, CronInsert, CronEnds
<1>2. ASSUME KeysKept, UniqueKeys', open' \subseteq CronKeys
      PROVE  SubmissionInv'
  <2>1. RequestsFit'
    BY <1>1, <1>2, RequestsRest DEF Types
  <2> QED  BY <1>1, <1>2, <2>1 DEF SubmissionInv, Types, KeysKept
<1>3. CASE CronInsert(k)
  <2>1. table' = table /\ open' = open \cup {k} /\ RowsWith(k) = {}
    BY <1>3 DEF CronInsert
  <2>2. KeysKept /\ UniqueKeys' /\ open' \subseteq CronKeys
    BY <1>1, <2>1 DEF SubmissionInv, Types, UniqueKeys, KeysKept, Ids, RowsWith
  <2> QED  BY <1>2, <2>2
<1>4. CASE CronEnds(k, c)
  <2>1. /\ k \in open /\ open' = open \ {k} /\ open' \subseteq CronKeys
        /\ RowsWith(k) = {}
        /\ table' = IF c THEN Append(table, NewRow(k, 1)) ELSE table
    BY <1>1, <1>4 DEF CronEnds, SubmissionInv, UniqueKeys, Types
  <2>2. NewRow(k, 1) \in RowType /\ NewRow(k, 1).key = k
    BY NewRowType DEF Keys
  <2>3. KeysKept /\ UniqueKeys'
    <3>1. CASE c
      BY <2>1, <2>2, <3>1, Inserting
    <3>2. CASE ~ c
      BY <1>1, <2>1, <3>2, SameKeys DEF Types
    <3> QED  BY <3>1, <3>2
  <2> QED  BY <1>2, <2>1, <2>3
<1> QED  BY <1>3, <1>4

-----------------------------------------------------------------------------
(* The end of a process.                                                   *)
LEMMA CutOffKeeps ==
  ASSUME SubmissionInv, NEW r \in Replicas, CutOff(r)
  PROVE  SubmissionInv'
<1> DEFINE gone == [Idle EXCEPT !.at = "cut"]
<1>1. gone \in ReqType /\ gone.at = "cut" /\ gone.job = Null
  BY EndedReq DEF Ended
<1>2. PICK S \in SUBSET InFlight :
        req' = [q \in Requests |-> IF q \in S THEN gone ELSE req[q]]
  BY DEF CutOff
<1>3. KeysKept /\ UniqueKeys' /\ open' \subseteq CronKeys /\ announced' = announced
  BY SameTable DEF CutOff
<1> HIDE DEF gone
<1>4. req' \in [Requests -> ReqType]
  BY <1>1, <1>2 DEF SubmissionInv, Types
<1>5. ASSUME NEW q \in Requests
      PROVE  \/ req'[q] = req[q]
             \/ /\ req[q].at # "accepted"
                /\ req'[q].at \in {"refused", "failed", "done", "cut"}
                /\ req'[q].job = Null
  BY <1>1, <1>2 DEF InFlight, Working
<1>6. RequestsFit'
  BY <1>3, <1>4, <1>5, RequestsRest
<1> QED  BY <1>3, <1>4, <1>6 DEF SubmissionInv, Types, KeysKept

-----------------------------------------------------------------------------
LEMMA SubmissionStep == SubmissionInv /\ [Next]_vars => SubmissionInv'
<1> SUFFICES ASSUME SubmissionInv, [Next]_vars
             PROVE  SubmissionInv'
  OBVIOUS
<1>1. ASSUME UNCHANGED submissionVars
      PROVE  SubmissionInv'
  BY <1>1 DEF submissionVars, SubmissionInv, Types, UniqueKeys, RequestsFit, RequestFits,
              InsertedByOne, AnnouncedBy, Named, Ids, RowsWith, KeyOf
<1>2. ASSUME NEW q \in Requests, NEW r \in Replicas, Arrive(q, r)
      PROVE  SubmissionInv'
  BY <1>2, SubmitKeeps, OperateKeeps DEF Arrive
<1>3. ASSUME NEW q \in Requests, Handle(q)
      PROVE  SubmissionInv'
  <2>1. CASE Fails(q)
    BY <2>1, FailsKeeps
  <2>2. CASE Insert(q) \/ Select(q)
    BY <2>2, InsertKeeps, SelectKeeps
  <2>3. CASE Cancel(q)
    BY <2>3, TransactKeeps DEF Cancel
  <2>4. CASE Retry(q)
    BY <2>4, TransactKeeps DEF Retry
  <2>5. CASE \E w \in BOOLEAN : Announce(q, w)
    BY <2>5, AnnounceKeeps
  <2> QED  BY <1>3, <2>1, <2>2, <2>3, <2>4, <2>5 DEF Handle, Statement
<1>4. ASSUME NEW q \in Requests, HandleFails(q)
      PROVE  SubmissionInv'
  BY <1>4, InsertLostKeeps, FailsKeeps DEF HandleFails
<1>5. ASSUME NEW k \in CronKeys, CronFires(k) \/ CronFails(k)
      PROVE  SubmissionInv'
  BY <1>5, CronKeeps DEF CronFires, CronFails
<1>6. ASSUME NEW r \in Replicas, Migrate(r) \/ Shutdown(r)
      PROVE  SubmissionInv'
  BY <1>1, <1>6 DEF Migrate, Shutdown
<1>7. ASSUME NEW r \in Replicas, Dies(r) \/ Exit(r)
      PROVE  SubmissionInv'
  BY <1>7, CutOffKeeps DEF Dies, Exit
<1>8. CASE UNCHANGED vars
  BY <1>1, <1>8 DEF vars
<1> QED
  BY <1>2, <1>3, <1>4, <1>5, <1>6, <1>7, <1>8 DEF Next

LEMMA SubmissionStart == Init => SubmissionInv
<1> SUFFICES ASSUME Init
             PROVE  SubmissionInv
  OBVIOUS
<1>1. /\ table = <<>> /\ req = [q \in Requests |-> Idle] /\ announced = {} /\ open = {}
      /\ Ids = {}
  BY DEF Init, SubmissionInit, Ids
<1>2. Idle \in ReqType /\ Idle.at = "idle" /\ ~ Idle.existing /\ Idle.job = Null
  <2>1. PICK e : e = FALSE
    OBVIOUS
  <2>2. Idle = [at |-> "idle", form |-> Null, job |-> Null, existing |-> e]
    BY <2>1, Zenon DEF Idle
  <2>3. e \in BOOLEAN
    BY <2>1, Zenon
  <2>4. Idle \in ReqType
    BY <2>2, <2>3, Zenon DEF ReqType
  <2>5. Idle.at = "idle" /\ Idle.existing = e /\ Idle.job = Null
    BY <2>2
  <2> QED  BY <2>1, <2>4, <2>5
<1>3. Types
  BY <1>1, <1>2 DEF Types
<1>4. UniqueKeys
  BY <1>1 DEF UniqueKeys
<1>5. RequestsFit
  BY <1>1, <1>2 DEF RequestsFit, RequestFits, InsertedByOne, Named
<1> QED  BY <1>3, <1>4, <1>5 DEF SubmissionInv

(* However submissions with one idempotency key, their retries, cron fires *)
(* under the same key and the ends of replicas interleave: they are all    *)
(* answered with one job, which at most one of them is told is new.        *)
THEOREM OneJobCorrect == Spec => []OneJobPerKey
BY SubmissionStart, SubmissionStep, InvGivesOneJob, PTL DEF Spec

(* A job is logged as submitted by the request that inserted it and by     *)
(* nobody else, and requests without a key never share one.                *)
THEOREM AnnouncedCorrect == Spec => []AnnouncedOnce
BY SubmissionStart, SubmissionStep, InvGivesAnnouncedOnce, PTL DEF Spec

-----------------------------------------------------------------------------
(* Why requests do not fail of themselves.  A handler runs in a replica    *)
(* that listens, and a replica listens after it saw every version          *)
(* recorded: the schema is complete for as long as anything uses it.       *)

Failed == {q \in Requests : req[q].at = "failed"}

Served ==
  /\ InFlight # {} => \E r \in Replicas : Serving(r)
  /\ \A r \in Replicas : Serving(r) => 1..Last \subseteq applied

FaultsCounted ==
  /\ faults \in 0..MaxFaults
  /\ IsFiniteSet(Failed)
  /\ Cardinality(Failed) <= faults

ServerInv == SchemaInv /\ SubmissionInv /\ Served /\ FaultsCounted

LEMMA ServedIsComplete ==
  ASSUME SchemaInv, Served, InFlight # {}
  PROVE  Complete
<1>1. 1..Last \subseteq applied
  BY DEF Served
<1>2. PICK n \in 0..Last : applied = 1..n /\ schema = SchemaAfter[n]
  BY DEF SchemaInv, SchemaIsApplied
<1>3. n = Last
  <2>1. Last \in 1..n
    BY <1>1, <1>2 DEF Last
  <2> QED  BY <1>2, <2>1 DEF Last
<1> QED  BY <1>2, <1>3 DEF Complete

(* A step that makes no request fail.                                      *)
LEMMA NoneFails ==
  ASSUME FaultsCounted, Failed' \subseteq Failed,
         faults' = faults \/ Fault
  PROVE  FaultsCounted'
<1>1. faults' \in 0..MaxFaults /\ faults <= faults'
  BY MigrationsAssumption DEF FaultsCounted, Fault
<1>2. IsFiniteSet(Failed') /\ Cardinality(Failed') <= Cardinality(Failed)
  BY FS_Subset DEF FaultsCounted
<1>3. Cardinality(Failed) \in Nat /\ Cardinality(Failed') \in Nat
  BY <1>2, FS_CardinalityType DEF FaultsCounted
<1> QED  BY <1>1, <1>2, <1>3 DEF FaultsCounted

(* A step that makes one request fail.                                     *)
LEMMA OneFails ==
  ASSUME FaultsCounted, NEW q \in Requests, Failed' \subseteq Failed \cup {q}, Fault
  PROVE  FaultsCounted'
<1>1. faults' \in 0..MaxFaults /\ faults' = faults + 1 /\ faults \in Nat
  BY MigrationsAssumption DEF FaultsCounted, Fault
<1>2. /\ IsFiniteSet(Failed \cup {q})
      /\ Cardinality(Failed \cup {q}) =
           IF q \in Failed THEN Cardinality(Failed) ELSE Cardinality(Failed) + 1
  BY FS_AddElement DEF FaultsCounted
<1>3. IsFiniteSet(Failed') /\ Cardinality(Failed') <= Cardinality(Failed \cup {q})
  BY <1>2, FS_Subset
<1>4. Cardinality(Failed) \in Nat /\ Cardinality(Failed') \in Nat
  BY <1>3, FS_CardinalityType DEF FaultsCounted
<1> QED  BY <1>1, <1>2, <1>3, <1>4 DEF FaultsCounted

(* A handler that executes a statement does not fail of itself.            *)
LEMMA StatementWorks ==
  ASSUME SubmissionInv, NEW q \in Requests, Statement(q)
  PROVE  /\ req[q].at \in Working /\ req'[q].at # "failed"
         /\ \A p \in Requests \ {q} : req'[p] = req[p]
<1>0. Types /\ req \in [Requests -> ReqType] /\ RequestFits(q)
  BY DEF SubmissionInv, Types, RequestsFit
<1>1. CASE Insert(q)
  <2>1. req[q].at = "insert"
    BY <1>1 DEF Insert, Inserted
  <2>2. \E at \in {"select", "announce"}, job \in Nat \cup {Null} :
           req' = [req EXCEPT ![q].at = at, ![q].job = job]
    <3>1. Len(table) + 1 \in Nat
      BY <1>0 DEF Types
    <3> QED  BY <1>1, <3>1 DEF Insert
  <2> QED  BY <1>0, <2>1, <2>2 DEF Working, ReqType
<1>2. CASE Select(q)
  <2>1. req[q].at = "select" /\ RowsWith(KeyOf(req[q].form)) # {}
    BY <1>0, <1>2 DEF Select, RequestFits
  <2>2. \E i, e : req' = [req EXCEPT ![q].at = "accepted", ![q].job = i, ![q].existing = e]
    BY <1>2, <2>1, Zenon DEF Select
  <2> QED  BY <1>0, <2>1, <2>2 DEF Working, ReqType
<1>3. CASE Cancel(q) \/ Retry(q)
  <2>1. /\ req[q].at \in {"cancel", "retry"}
        /\ \E x \in {"done", "refused"} : Gone(q, x)
    BY <1>3 DEF Cancel, Retry, Transact
  <2> QED  BY <1>0, <2>1, GoneReq DEF Working, Ended
<1>4. CASE \E w \in BOOLEAN : Announce(q, w)
  <2>1. req[q].at = "announce" /\ req' = [req EXCEPT ![q].at = "accepted"]
    BY <1>4 DEF Announce, To
  <2> QED  BY <1>0, <2>1 DEF Working, ReqType
<1> QED  BY <1>1, <1>2, <1>3, <1>4 DEF Statement

(* The requests of a step that moves one of them within a replica.         *)
LEMMA StaysServed ==
  ASSUME Served, phase' = phase, applied' = applied, NEW q \in Requests,
         \A p \in Requests \ {q} : req'[p] = req[p],
         req'[q].at \in Working => InFlight # {} \/ \E r \in Replicas : Serving(r)
  PROVE  Served'
BY DEF Served, InFlight, Serving

LEMMA HandleServed ==
  ASSUME ServerInv, NEW q \in Requests, Handle(q)
  PROVE  Served' /\ FaultsCounted'
<1>0. SchemaInv /\ SubmissionInv /\ Types /\ Served /\ FaultsCounted
  BY DEF ServerInv, SubmissionInv
<1>1. phase' = phase /\ applied' = applied /\ faults' = faults
  BY DEF Handle, migrationVars
<1>2. Complete
  <2>1. ASSUME Fails(q)
        PROVE  Complete
    <3>1. q \in InFlight
      BY <2>1 DEF Fails, InFlight, Working
    <3> QED  BY <1>0, <3>1, ServedIsComplete
  <2> QED  BY <2>1 DEF Handle
<1>3. Statement(q)
  BY <1>2 DEF Handle
<1>4. /\ req[q].at \in Working /\ req'[q].at # "failed"
      /\ \A p \in Requests \ {q} : req'[p] = req[p]
  BY <1>0, <1>3, StatementWorks
<1>5. q \in InFlight
  BY <1>4 DEF InFlight
<1>6. Served'
  BY <1>0, <1>1, <1>4, <1>5, StaysServed
<1>7. Failed' \subseteq Failed
  BY <1>4 DEF Failed
<1> QED  BY <1>0, <1>1, <1>6, <1>7, NoneFails

LEMMA HandleFailsServed ==
  ASSUME ServerInv, NEW q \in Requests, HandleFails(q)
  PROVE  Served' /\ FaultsCounted'
<1>0. Types /\ Served /\ FaultsCounted
  BY DEF ServerInv, SubmissionInv
<1>1. phase' = phase /\ applied' = applied /\ Fault
  BY DEF HandleFails
<1>2. req[q].at \in Working /\ Gone(q, "failed")
  BY DEF HandleFails, InsertLost, Inserted, Fails, Working
<1>3. req'[q].at = "failed" /\ \A p \in Requests \ {q} : req'[p] = req[p]
  BY <1>0, <1>2, GoneReq DEF Ended
<1>4. Served'
  BY <1>0, <1>1, <1>3, StaysServed DEF Working
<1>5. Failed' \subseteq Failed \cup {q}
  BY <1>3 DEF Failed
<1> QED  BY <1>0, <1>1, <1>4, <1>5, OneFails

LEMMA ArriveServed ==
  ASSUME ServerInv, NEW q \in Requests, NEW r \in Replicas, Arrive(q, r)
  PROVE  Served' /\ FaultsCounted'
<1>0. Types /\ req \in [Requests -> ReqType] /\ Served /\ FaultsCounted
  BY DEF ServerInv, SubmissionInv, Types
<1>1. phase' = phase /\ applied' = applied /\ faults' = faults /\ Serving(r)
  BY DEF Arrive, migrationVars, Serving
<1>2. req'[q].at # "failed" /\ \A p \in Requests \ {q} : req'[p] = req[p]
  <2>1. ASSUME NEW f \in Forms, Submit(q, f)
        PROVE  req'[q].at # "failed" /\ \A p \in Requests \ {q} : req'[p] = req[p]
    <3>1. CASE Valid(f)
      <4>1. req' = [req EXCEPT ![q].at = "insert", ![q].form = f]
        BY <2>1, <3>1 DEF Submit
      <4> QED  BY <1>0, <4>1 DEF ReqType
    <3>2. CASE ~ Valid(f)
      BY <1>0, <2>1, <3>2, GoneReq DEF Submit, Ended
    <3> QED  BY <3>1, <3>2
  <2>2. ASSUME NEW i \in Ids, NEW op \in {"cancel", "retry"}, Operate(q, i, op)
        PROVE  req'[q].at # "failed" /\ \A p \in Requests \ {q} : req'[p] = req[p]
    <3>1. req' = [req EXCEPT ![q].at = op, ![q].job = i]
      BY <2>2 DEF Operate
    <3> QED  BY <1>0, <3>1 DEF ReqType
  <2> QED  BY <2>1, <2>2 DEF Arrive
<1>3. Served'
  BY <1>0, <1>1, <1>2, StaysServed
<1>4. Failed' \subseteq Failed
  BY <1>2 DEF Failed
<1> QED  BY <1>0, <1>1, <1>3, <1>4, NoneFails

(* Versions are only added, and a replica that starts to listen has seen   *)
(* all of them.                                                            *)
LEMMA MigrateServed ==
  ASSUME ServerInv, NEW r \in Replicas, Migrate(r)
  PROVE  Served' /\ FaultsCounted'
<1>0. /\ SchemaInv /\ Behind /\ Served /\ FaultsCounted
      /\ phase \in [Replicas -> Phases] /\ version \in [Replicas -> 1..(Last + 1)]
  BY DEF ServerInv, SchemaInv, Behind
<1>1. req' = req /\ MigrationStep(r, Stored) /\ faults' = faults
  BY DEF Migrate, submissionVars, MigrationStep, Start, Check, Exec, Record
<1>2. /\ applied \subseteq applied' /\ ~ Serving(r)
      /\ \A s \in Replicas \ {r} : phase'[s] = phase[s]
  BY <1>0, <1>1 DEF MigrationStep, Start, Check, Exec, Record, Goto, Stops, Returns,
                    Committed, Serving
<1>3. ASSUME Serving(r)'
      PROVE  1..Last \subseteq applied'
  <2>1. Check(r) /\ Missing(r) = {}
    BY <1>0, <1>1, <1>3 DEF MigrationStep, Start, Check, Exec, Record, Goto, Stops, Returns,
                            Serving
  <2>2. 1..(version[r] - 1) \subseteq applied
    BY <1>0 DEF Behind
  <2>3. (version[r]..Last) \subseteq applied
    BY <2>1 DEF Missing
  <2>4. \A i \in 1..Last : i \in 1..(version[r] - 1) \/ i \in version[r]..Last
    BY <1>0 DEF Last
  <2> QED  BY <1>2, <2>2, <2>3, <2>4
<1>4. \A s \in Replicas : Serving(s) => Serving(s)'
  BY <1>2 DEF Serving
<1>5. \A s \in Replicas : Serving(s)' => 1..Last \subseteq applied'
  BY <1>0, <1>2, <1>3 DEF Served, Serving
<1>6. InFlight' = InFlight /\ Failed' = Failed
  BY <1>1 DEF InFlight, Failed
<1>7. Served'
  BY <1>0, <1>4, <1>5, <1>6 DEF Served
<1> QED  BY <1>0, <1>1, <1>6, <1>7, NoneFails

(* With the last replica that listens end all handlers.                    *)
LEMMA EndServed ==
  ASSUME ServerInv, NEW r \in Replicas, CutOff(r), Stops(r), applied \subseteq applied',
         faults' = faults \/ Fault
  PROVE  Served' /\ FaultsCounted'
<1>0. Behind /\ Types /\ Served /\ FaultsCounted
  BY DEF ServerInv, SchemaInv, SubmissionInv
<1>1. phase'[r] = "down" /\ \A s \in Replicas \ {r} : phase'[s] = phase[s]
  BY <1>0, StopsFacts
<1> DEFINE gone == [Idle EXCEPT !.at = "cut"]
<1>2. gone.at = "cut"
  BY EndedReq DEF Ended
<1>3. PICK S \in SUBSET InFlight :
        /\ (\A s \in Replicas \ {r} : ~ Serving(s)) => S = InFlight
        /\ req' = [q \in Requests |-> IF q \in S THEN gone ELSE req[q]]
  BY DEF CutOff
<1> HIDE DEF gone
<1>4. InFlight' = InFlight \ S /\ Failed' \subseteq Failed
  BY <1>2, <1>3 DEF InFlight, Failed, Working
<1>5. \A s \in Replicas : Serving(s)' => s # r /\ Serving(s)
  BY <1>1 DEF Serving
<1>6. \A s \in Replicas \ {r} : Serving(s) => Serving(s)'
  BY <1>1 DEF Serving
<1>7. InFlight' # {} => \E s \in Replicas : Serving(s)'
  BY <1>3, <1>4, <1>6
<1>8. \A s \in Replicas : Serving(s)' => 1..Last \subseteq applied'
  BY <1>0, <1>5 DEF Served
<1>9. Served'
  BY <1>7, <1>8 DEF Served
<1> QED  BY <1>0, <1>4, <1>9, NoneFails

LEMMA ServedStep == ServerInv /\ [Next]_vars => Served' /\ FaultsCounted'
<1> SUFFICES ASSUME ServerInv, [Next]_vars
             PROVE  Served' /\ FaultsCounted'
  OBVIOUS
<1>0. Behind /\ Served /\ FaultsCounted
  BY DEF ServerInv, SchemaInv
<1>1. ASSUME req' = req, phase' = phase, applied' = applied, faults' = faults \/ Fault
      PROVE  Served' /\ FaultsCounted'
  <2>1. Failed' = Failed /\ Served'
    BY <1>0, <1>1 DEF Failed, Served, InFlight, Serving
  <2> QED  BY <1>0, <1>1, <2>1, NoneFails
<1>2. ASSUME NEW q \in Requests,
             \/ \E r \in Replicas : Arrive(q, r)
             \/ Handle(q)
             \/ HandleFails(q)
      PROVE  Served' /\ FaultsCounted'
  BY <1>2, ArriveServed, HandleServed, HandleFailsServed
<1>3. ASSUME NEW k \in CronKeys, CronFires(k) \/ CronFails(k)
      PROVE  Served' /\ FaultsCounted'
  <2>1. /\ req' = req /\ phase' = phase /\ applied' = applied
        /\ faults' = faults \/ Fault
    BY <1>3 DEF CronFires, CronFails, CronInsert, CronEnds, migrationVars
  <2> QED  BY <1>1, <2>1
<1>4. ASSUME NEW r \in Replicas, Migrate(r)
      PROVE  Served' /\ FaultsCounted'
  BY <1>4, MigrateServed
<1>5. ASSUME NEW r \in Replicas, Dies(r)
      PROVE  Served' /\ FaultsCounted'
  <2>1. /\ CutOff(r) /\ Stops(r) /\ applied \subseteq applied'
        /\ faults' = faults \/ Fault
    BY <1>5 DEF Dies, Crash, CommitLost, Committed
  <2> QED  BY <2>1, EndServed
<1>6. ASSUME NEW r \in Replicas, Exit(r)
      PROVE  Served' /\ FaultsCounted'
  <2>1. /\ CutOff(r) /\ Stops(r) /\ applied \subseteq applied'
        /\ faults' = faults \/ Fault
    BY <1>6 DEF Exit
  <2> QED  BY <2>1, EndServed
<1>7. ASSUME NEW r \in Replicas, Shutdown(r)
      PROVE  Served' /\ FaultsCounted'
  <2>1. /\ Serving(r) /\ Serving(r)' /\ req' = req /\ applied' = applied /\ faults' = faults
        /\ \A s \in Replicas \ {r} : phase'[s] = phase[s]
    BY <1>0, <1>7 DEF Shutdown, Goto, Serving, submissionVars, Behind
  <2>2. Served' /\ Failed' = Failed
    BY <1>0, <2>1 DEF Served, InFlight, Serving, Failed
  <2> QED  BY <1>0, <2>1, <2>2, NoneFails
<1>8. CASE UNCHANGED vars
  BY <1>1, <1>8 DEF vars, migrationVars, submissionVars
<1> QED
  BY <1>2, <1>3, <1>4, <1>5, <1>6, <1>7, <1>8 DEF Next

LEMMA ServerStep == ServerInv /\ [Next]_vars => ServerInv'
BY SchemaStep, SubmissionStep, ServedStep DEF ServerInv

LEMMA ServerStart == Init => ServerInv
<1> SUFFICES ASSUME Init
             PROVE  ServerInv
  OBVIOUS
<1>1. /\ \A q \in Requests : req[q].at = "idle"
      /\ \A r \in Replicas : phase[r] = "down"
      /\ faults = 0
  BY DEF Init, SubmissionInit, MigrationsInit, Idle
<1>2. InFlight = {} /\ Failed = {} /\ \A r \in Replicas : ~ Serving(r)
  BY <1>1 DEF InFlight, Failed, Working, Serving
<1>3. Served
  BY <1>2 DEF Served
<1>4. FaultsCounted
  <2>1. IsFiniteSet(Failed) /\ Cardinality(Failed) = 0
    BY <1>2, FS_EmptySet
  <2> QED  BY <1>1, <2>1, MigrationsAssumption DEF FaultsCounted
<1> QED  BY <1>3, <1>4, SchemaStart, SubmissionStart DEF ServerInv

(* There are never more failed requests than faults of the database: no    *)
(* interleaving of requests, cron fires, migrations and the starts and     *)
(* ends of replicas makes a request fail.                                  *)
THEOREM FailsOnlyByFaultCorrect == Spec => []FailsOnlyByFault
<1>1. ServerInv => FailsOnlyByFault
  BY DEF ServerInv, FaultsCounted, FailsOnlyByFault, Failed
<1> QED  BY <1>1, ServerStart, ServerStep, PTL DEF Spec

(* Type correctness of the API servers: the tables, the requests and the   *)
(* replicas together, with a number of attempts that is never zero and no  *)
(* request or log line that names a job which does not exist.              *)
THEOREM ApiTypeCorrect == Spec => []TypeOK
<1>1. ServerInv => TypeOK
  <2> SUFFICES ASSUME ServerInv
               PROVE  TypeOK
    OBVIOUS
  <2>1. /\ phase \in [Replicas -> Phases] /\ version \in [Replicas -> 1..(Last + 1)]
        /\ applied \subseteq 1..Last
    BY DEF ServerInv, SchemaInv, Behind, SchemaIsApplied, Last
  <2>2. faults \in 0..MaxFaults
    BY DEF ServerInv, FaultsCounted
  <2>3. \A i \in Ids : table[i].maxAttempts > 0
    <3>1. \A i \in Ids : table[i] \in RowType
      BY DEF ServerInv, SubmissionInv, Types, Ids
    <3>2. \A i \in Ids : table[i].maxAttempts \in Nat \ {0}
      BY <3>1 DEF RowType
    <3> QED  BY <3>2
  <2>4. Types /\ open \subseteq CronKeys /\ \A q \in Requests : RequestFits(q)
    BY DEF ServerInv, SubmissionInv, Types, RequestsFit
  <2>5. \A q \in Requests :
          /\ req[q].at \in {"idle"} \cup Working \cup Ended
          /\ req[q].form \in Forms \cup {Null}
          /\ req[q].job \in Ids \cup {Null}
    BY <2>4, ReqRecord DEF RequestFits
  <2>6. announced \subseteq Ids \X Requests
    <3> SUFFICES ASSUME NEW a \in announced
                 PROVE  a \in Ids \X Requests
      OBVIOUS
    <3>1. PICK q \in Requests : a = <<req[q].job, q>> /\ req[q].at = "accepted"
      BY DEF ServerInv, SubmissionInv, RequestsFit, AnnouncedBy
    <3>2. req[q].job \in Ids
      BY <2>4, <3>1 DEF RequestFits, Named
    <3> QED  BY <3>1, <3>2
  <2> QED  BY <2>1, <2>2, <2>3, <2>4, <2>5, <2>6 DEF TypeOK
<1> QED  BY <1>1, ServerStart, ServerStep, PTL DEF Spec
=============================================================================
