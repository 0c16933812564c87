------------------------- MODULE RetryPolicyProofs -------------------------
(***************************************************************************)
(* The range of DelayForAttempt for every policy and attempt number, and   *)
(* with it the absence of overflow: the loop doubles a delay only while it *)
(* is below half of MaxDelay.  Then the value itself: the delay of         *)
(* iteration i is InitialDelay 2^(i-1), which needs what the recursive     *)
(* Power is for every number.                                              *)
(***************************************************************************)
EXTENDS RetryPolicy, WellFoundedInduction, TLAPS

TypeOK ==
  /\ initial \in 1..(DurationBound - 1)
  /\ max \in 1..(DurationBound - 1)
  /\ delay \in Int
  /\ i \in Int /\ attempt \in Int

Inv == TypeOK /\ DelayInRange

(* After Normalize, InitialDelay is positive and at most MaxDelay.         *)
LEMMA InvInit == Init => Inv
<1> SUFFICES ASSUME Init
             PROVE  Inv
  OBVIOUS
<1>1. PICK a \in Durations, b \in Durations :
        initial = NormalInitial(a) /\ max = NormalMax(a, b)
  BY DEF Init
<1>2. a \in Int /\ a < DurationBound /\ b \in Int /\ b < DurationBound
  BY DurationAssumption
<1>3. initial \in 1..(DurationBound - 1)
  BY <1>1, <1>2, DurationAssumption DEF NormalInitial
<1>4. max \in 1..(DurationBound - 1) /\ initial <= max
  BY <1>1, <1>2, <1>3, DurationAssumption DEF NormalMax, NormalInitial
<1>5. delay = initial /\ i = 1 /\ attempt \in Int
  BY DurationAssumption DEF Init
<1> QED  BY <1>3, <1>4, <1>5, DurationAssumption DEF Inv, TypeOK, DelayInRange

(* A delay below MaxDelay / 2 doubles to at most MaxDelay.                 *)
LEMMA InvStep == Inv /\ [Next]_vars => Inv'
<1> SUFFICES ASSUME Inv, [Next]_vars
             PROVE  Inv'
  OBVIOUS
<1>1. CASE Iterate
  <2>1. CASE AtCap(delay)
    BY <1>1, <2>1, DurationAssumption DEF Iterate, Inv, TypeOK, DelayInRange
  <2>2. CASE ~ AtCap(delay)
    <3>1. delay < max \div 2 /\ delay' = Doubled(delay)
      BY <1>1, <2>2, DurationAssumption DEF Iterate, AtCap, Inv, TypeOK
    <3>2. 2 * delay <= max /\ 2 * delay >= delay
      BY <3>1, DurationAssumption DEF Inv, TypeOK, DelayInRange
    <3>3. Doubled(delay) = 2 * delay
      BY <3>2, DurationAssumption DEF Doubled, Inv, TypeOK
    <3> QED
      BY <1>1, <2>2, <3>1, <3>2, <3>3, DurationAssumption
      DEF Iterate, Inv, TypeOK, DelayInRange
  <2> QED  BY <2>1, <2>2
<1>2. CASE LoopEnds
  BY <1>2, DurationAssumption DEF LoopEnds, Inv, TypeOK, DelayInRange
<1>3. CASE UNCHANGED vars
  BY <1>3 DEF vars, Inv, TypeOK, DelayInRange
<1> QED  BY <1>1, <1>2, <1>3 DEF Next

(* For every configuration and attempt number the delay stays between      *)
(* InitialDelay and MaxDelay, in every iteration.                          *)
THEOREM DelayRange == Spec => []DelayInRange
<1>1. Inv => DelayInRange
  BY DEF Inv
<1> QED  BY <1>1, InvInit, InvStep, PTL DEF Spec

-----------------------------------------------------------------------------
(* Power is defined by recursion.  That there is such a function is shown  *)
(* here from its finite parts, each induction as a least counterexample.   *)

LEMMA LeastNat ==
  ASSUME NEW S \in SUBSET Nat, S # {}
  PROVE  \E n \in S : \A m \in S : n <= m
<1>1. \E x \in S : \A y \in S : ~ (<<y, x>> \in OpToRel(<, Nat))
  BY NatLessThanWellFounded, WFMin
<1>2. PICK x \in S : \A y \in S : ~ (y < x)
  BY <1>1 DEF OpToRel
<1> QED  BY <1>2

(* g holds the powers of two up to n.                                      *)
PowersUpTo(g, n) ==
  /\ g \in [0..n -> Nat]
  /\ g[0] = 1
  /\ \A m \in 1..n : g[m] = 2 * g[m - 1]

LEMMA PowersExist ==
  ASSUME NEW n \in Nat
  PROVE  \E g : PowersUpTo(g, n)
<1> DEFINE Bad == {k \in Nat : ~ \E g : PowersUpTo(g, k)}
<1> SUFFICES ASSUME Bad # {}
             PROVE  FALSE
  OBVIOUS
<1>1. PICK k \in Bad : \A m \in Bad : k <= m
  BY LeastNat
<1>2. CASE k = 0
  <2>1. PowersUpTo([m \in 0..0 |-> 1], 0)
    BY DEF PowersUpTo
  <2> QED  BY <1>2, <2>1
<1>3. CASE k # 0
  <2>1. k - 1 \in Nat /\ k - 1 \notin Bad
    BY <1>1, <1>3
  <2>2. PICK g : PowersUpTo(g, k - 1)
    BY <2>1
  <2> DEFINE h == [m \in 0..k |-> IF m = k THEN 2 * g[k - 1] ELSE g[m]]
  <2>3. /\ \A m \in 0..(k - 1) : g[m] \in Nat /\ h[m] = g[m]
        /\ h[k] = 2 * g[k - 1] /\ k - 1 \in 0..(k - 1)
    BY <2>1, <2>2 DEF PowersUpTo
  <2>4. h \in [0..k -> Nat]
    <3>1. \A m \in 0..k : m = k \/ m \in 0..(k - 1)
      OBVIOUS
    <3>2. \A m \in 0..k : h[m] \in Nat
      <4> HIDE DEF h
      <4> QED  BY <2>3, <3>1
    <3>3. h = [m \in 0..k |-> h[m]]
      OBVIOUS
    <3> HIDE DEF h
    <3> QED  BY <3>2, <3>3
  <2>5. h[0] = 1
    BY <2>1, <2>2, <2>3 DEF PowersUpTo
  <2>6. ASSUME NEW m \in 1..k
        PROVE  h[m] = 2 * h[m - 1]
    <3> HIDE DEF h
    <3>1. CASE m = k
      BY <2>3, <3>1
    <3>2. CASE m # k
      <4>1. m \in 1..(k - 1) /\ m \in 0..(k - 1) /\ m - 1 \in 0..(k - 1)
        BY <3>2
      <4> QED  BY <2>2, <2>3, <4>1 DEF PowersUpTo
    <3> QED  BY <3>1, <3>2
  <2>7. PowersUpTo(h, k)
    <3> HIDE DEF h
    <3> QED  BY <2>4, <2>5, <2>6 DEF PowersUpTo
  <2> QED  BY <2>7
<1> QED  BY <1>2, <1>3

(* Two of them agree where both are defined.                               *)
LEMMA PowersAgree ==
  ASSUME NEW n \in Nat, NEW g, PowersUpTo(g, n), NEW k \in Nat, NEW h, PowersUpTo(h, k),
         NEW m \in Nat, m <= n, m <= k
  PROVE  g[m] = h[m]
<1> DEFINE Bad == {j \in Nat : j <= m /\ g[j] # h[j]}
<1> SUFFICES ASSUME Bad # {}
             PROVE  FALSE
  OBVIOUS
<1>1. PICK j \in Bad : \A l \in Bad : j <= l
  BY LeastNat
<1>2. CASE j = 0
  BY <1>2 DEF PowersUpTo
<1>3. CASE j # 0
  <2>1. j - 1 \in Nat /\ j - 1 <= m /\ j - 1 \notin Bad
    BY <1>1, <1>3
  <2>2. j \in 1..n /\ j \in 1..k
    BY <1>3
  <2>3. g[j] = 2 * g[j - 1] /\ h[j] = 2 * h[j - 1]
    BY <2>2 DEF PowersUpTo
  <2> QED  BY <2>1, <2>3
<1> QED  BY <1>2, <1>3

LEMMA PowerDef == Power = [n \in Nat |-> IF n = 0 THEN 1 ELSE 2 * Power[n - 1]]
<1> DEFINE Part(n) == CHOOSE g : PowersUpTo(g, n)
           p == [n \in Nat |-> Part(n)[n]]
           Step(f) == [n \in Nat |-> IF n = 0 THEN 1 ELSE 2 * f[n - 1]]
<1>1. ASSUME NEW n \in Nat
      PROVE  PowersUpTo(Part(n), n)
  BY PowersExist
<1> HIDE DEF Part
<1>2. ASSUME NEW n \in Nat
      PROVE  p[n] = IF n = 0 THEN 1 ELSE 2 * p[n - 1]
  <2>1. CASE n = 0
    BY <1>1, <2>1 DEF PowersUpTo
  <2>2. CASE n # 0
    <3>1. n - 1 \in Nat /\ n - 1 <= n /\ n \in 1..n
      BY <2>2
    <3>2. PowersUpTo(Part(n), n) /\ PowersUpTo(Part(n - 1), n - 1)
      BY <1>1, <3>1
    <3>3. Part(n)[n - 1] = Part(n - 1)[n - 1]
      BY <3>1, <3>2, PowersAgree
    <3>4. Part(n)[n] = 2 * Part(n)[n - 1]
      BY <3>1, <3>2 DEF PowersUpTo
    <3> QED  BY <2>2, <3>1, <3>3, <3>4
  <2> QED  BY <2>1, <2>2
<1>3. p = [n \in Nat |-> p[n]]
  OBVIOUS
<1> HIDE DEF p
<1>4. p = Step(p)
  BY <1>2, <1>3
<1>5. \E f : f = Step(f)
  BY <1>4
<1> QED  BY <1>5 DEF Power

LEMMA PowerSteps ==
  /\ Power[0] = 1
  /\ \A n \in Nat : n # 0 => Power[n] = 2 * Power[n - 1]
<1> DEFINE Body(n) == IF n = 0 THEN 1 ELSE 2 * Power[n - 1]
<1>1. Power = [n \in Nat |-> Body(n)]
  BY PowerDef
<1> HIDE DEF Body
<1>2. \A n \in Nat : Power[n] = Body(n)
  BY <1>1
<1> QED  BY <1>2 DEF Body

(* Powers are positive, and the next one is at least twice as large.       *)
LEMMA PowerType == \A n \in Nat : Power[n] \in Nat \ {0}
<1> DEFINE Bad == {n \in Nat : Power[n] \notin Nat \ {0}}
<1> SUFFICES ASSUME Bad # {}
             PROVE  FALSE
  OBVIOUS
<1>1. PICK n \in Bad : \A m \in Bad : n <= m
  BY LeastNat
<1>2. n # 0
  BY PowerSteps
<1>3. n - 1 \in Nat /\ n - 1 \notin Bad
  BY <1>1, <1>2
<1> QED  BY <1>2, <1>3, PowerSteps

LEMMA PowerGrows ==
  ASSUME NEW n \in Nat, NEW m \in Nat, n < m
  PROVE  Power[m] >= 2 * Power[n]
<1> DEFINE Bad == {k \in Nat : n < k /\ ~ (Power[k] >= 2 * Power[n])}
<1> SUFFICES ASSUME Bad # {}
             PROVE  FALSE
  OBVIOUS
<1>1. PICK k \in Bad : \A j \in Bad : k <= j
  BY LeastNat
<1>2. k \in Nat /\ n < k /\ k # 0 /\ k - 1 \in Nat /\ Power[k] = 2 * Power[k - 1]
  BY <1>1, PowerSteps
<1>3. Power[k] \in Nat /\ Power[k - 1] \in Nat /\ Power[n] \in Nat
  BY <1>2, PowerType
<1>4. CASE k - 1 = n
  BY <1>2, <1>3, <1>4
<1>5. CASE k - 1 # n
  <2>1. n < k - 1 /\ k - 1 \notin Bad
    BY <1>1, <1>2, <1>5
  <2> QED  BY <1>2, <1>3, <2>1
<1> QED  BY <1>4, <1>5

-----------------------------------------------------------------------------
(* The delay of iteration i is InitialDelay 2^(i-1), exactly: it is below  *)
(* the cap.  What the loop knows when it returns follows.                  *)
LoopDoubles ==
  /\ pc \in {"loop", "return"}
  /\ pc = "loop" => /\ 1 <= i /\ i <= attempt
                    /\ delay = initial * Power[i - 1]

(* Doubling again reaches at least twice the delay.                        *)
LEMMA ScaledGrows ==
  ASSUME NEW x \in Nat, NEW p \in Nat, NEW q \in Nat, q >= 2 * p
  PROVE  x * p \in Nat /\ x * q \in Nat /\ x * q >= 2 * (x * p)
<1>1. PICK d \in Nat : q = 2 * p + d
  BY q - 2 * p \in Nat
<1>2. x * d \in Nat /\ x * p \in Nat
  OBVIOUS
<1>3. x * (2 * p + d) = 2 * (x * p) + x * d
  OBVIOUS
<1> QED  BY <1>1, <1>2, <1>3

LEMMA CappedInit == Init => LoopDoubles /\ CappedDoubling
<1> SUFFICES ASSUME Init
             PROVE  LoopDoubles /\ CappedDoubling
  OBVIOUS
<1>1. Inv
  BY InvInit
<1>2. /\ i = 1 /\ delay = initial /\ attempt \in Int /\ initial \in Int
      /\ initial <= max /\ max \in Int
      /\ pc = IF attempt <= 1 THEN "return" ELSE "loop"
  BY <1>1 DEF Init, Inv, TypeOK, DelayInRange
<1>3. initial * Power[0] = initial /\ i - 1 = 0
  BY <1>2, PowerSteps
<1>4. LoopDoubles
  BY <1>2, <1>3 DEF LoopDoubles
<1>5. CappedDoubling
  <2>1. CASE pc = "return"
    <3>1. attempt <= 1
      BY <1>2, <2>1
    <3> QED  BY <1>2, <1>3, <3>1 DEF CappedDoubling
  <2> QED  BY <2>1 DEF CappedDoubling
<1> QED  BY <1>4, <1>5

LEMMA CappedStep ==
  Inv /\ LoopDoubles /\ CappedDoubling /\ [Next]_vars => LoopDoubles' /\ CappedDoubling'
<1> SUFFICES ASSUME Inv, LoopDoubles, CappedDoubling, [Next]_vars
             PROVE  LoopDoubles' /\ CappedDoubling'
  OBVIOUS
<1>0. /\ initial \in Nat /\ max \in Nat /\ delay \in Int /\ i \in Int /\ attempt \in Int
      /\ initial <= delay /\ delay <= max
  BY DurationAssumption DEF Inv, TypeOK, DelayInRange
<1>1. CASE Iterate
  <2>1. /\ pc = "loop" /\ i < attempt /\ 1 <= i /\ delay = initial * Power[i - 1]
        /\ UNCHANGED <<initial, max, attempt>>
    BY <1>1 DEF Iterate, LoopDoubles
  <2>2. i - 1 \in Nat /\ i \in Nat /\ i # 0 /\ attempt - 1 \in Nat /\ i - 1 < attempt - 1
    BY <1>0, <2>1
  <2>3. CASE AtCap(delay)
    <3>1. delay' = max /\ pc' = "return"
      BY <1>1, <2>3 DEF Iterate
    <3> DEFINE exact == initial * Power[attempt - 1]
    <3>2. exact \in Nat /\ exact >= 2 * delay
      <4>1. Power[attempt - 1] >= 2 * Power[i - 1]
        BY <2>2, PowerGrows
      <4>2. Power[attempt - 1] \in Nat /\ Power[i - 1] \in Nat
        BY <2>2, PowerType
      <4> QED  BY <1>0, <2>1, <4>1, <4>2, ScaledGrows
    <3>3. 2 * delay >= max - 1
      BY <1>0, <2>3 DEF AtCap
    <3> HIDE DEF exact
    <3>4. exact >= max \/ exact = max - 1
      BY <1>0, <3>2, <3>3
    <3>5. \/ delay' = IF exact < max THEN exact ELSE max
          \/ exact = max - 1 /\ delay' = max
      BY <1>0, <3>1, <3>2, <3>4
    <3>6. ~ (attempt <= 1)
      BY <1>0, <2>1
    <3>7. CappedDoubling'
      BY <2>1, <3>5, <3>6 DEF CappedDoubling, exact
    <3> QED  BY <3>1, <3>7 DEF LoopDoubles
  <2>4. CASE ~ AtCap(delay)
    <3>1. pc' = pc /\ delay' = Doubled(delay) /\ i' = i + 1
      BY <1>1, <2>4 DEF Iterate
    <3>2. delay < max \div 2
      BY <1>0, <2>4 DEF AtCap
    <3>3. Doubled(delay) = 2 * delay
      BY <1>0, <3>2, DurationAssumption DEF Doubled, Inv, TypeOK
    <3>4. Power[i] = 2 * Power[i - 1] /\ Power[i - 1] \in Nat
      BY <2>2, PowerSteps, PowerType
    <3> DEFINE p == Power[i - 1]
    <3>5. initial * (2 * p) = 2 * (initial * p)
      <4> HIDE DEF p
      <4>1. p \in Nat
        BY <3>4 DEF p
      <4> QED  BY <1>0, <4>1
    <3>6. delay' = initial' * Power[i' - 1]
      <4>1. i' - 1 = i
        BY <1>0, <3>1
      <4> QED  BY <2>1, <3>1, <3>3, <3>4, <3>5, <4>1
    <3>7. 1 <= i' /\ i' <= attempt'
      BY <1>0, <2>1, <3>1
    <3>8. pc' = "loop"
      BY <2>1, <3>1
    <3> QED  BY <3>6, <3>7, <3>8 DEF LoopDoubles, CappedDoubling
  <2> QED  BY <2>3, <2>4
<1>2. CASE LoopEnds
  <2>1. /\ pc = "loop" /\ i = attempt /\ 1 <= i /\ delay = initial * Power[i - 1]
        /\ pc' = "return" /\ UNCHANGED <<initial, max, attempt>>
    BY <1>0, <1>2 DEF LoopEnds, LoopDoubles
  <2>2. delay' = delay
    BY <1>0, <1>2 DEF LoopEnds
  <2>3. initial * Power[IF attempt <= 1 THEN 0 ELSE attempt - 1] = delay
    <3>1. (IF attempt <= 1 THEN 0 ELSE attempt - 1) = i - 1
      BY <1>0, <2>1
    <3> QED  BY <2>1, <3>1
  <2>4. delay = IF delay < max THEN delay ELSE max
    BY <1>0
  <2>5. CappedDoubling'
    BY <2>1, <2>2, <2>3, <2>4 DEF CappedDoubling
  <2> QED  BY <2>1, <2>5 DEF LoopDoubles
<1>3. CASE UNCHANGED vars
  BY <1>3 DEF vars, LoopDoubles, CappedDoubling
<1> QED  BY <1>1, <1>2, <1>3 DEF Next

(* For every policy and attempt number: the delay before attempt n + 1 is  *)
(* min(MaxDelay, InitialDelay 2^(n-1)), but for the unit that the rounding *)
(* of MaxDelay/2 adds.                                                     *)
THEOREM CappedDoublingCorrect == Spec => []CappedDoubling
BY InvInit, InvStep, CappedInit, CappedStep, PTL DEF Spec
=============================================================================
