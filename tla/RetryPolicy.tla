---------------------------- MODULE RetryPolicy ----------------------------
(***************************************************************************)
(* RetryPolicy.DelayForAttempt of internal/storage/storage.go, iteration   *)
(* by iteration: the delay before attempt n + 1 starts at InitialDelay and *)
(* doubles with every attempt up to MaxDelay.  A time.Duration is an       *)
(* int64; the doubling wraps at DurationBound.                             *)
(***************************************************************************)
EXTENDS Integers

CONSTANTS
  Durations,       \* values a configured delay may have, negative ones too
  Attempts,        \* attempt numbers that are asked about
  DefaultInitial,  \* 2s, when InitialDelay is not positive
  DefaultMax,      \* 30s, when MaxDelay is not positive
  DurationBound    \* 2^63: a time.Duration is below it

ASSUME DurationAssumption ==
  /\ DurationBound \in Nat
  /\ Durations \subseteq Int
  /\ \A d \in Durations : d < DurationBound
  /\ Attempts \subseteq Int
  /\ DefaultInitial \in 1..(DurationBound - 1)
  /\ DefaultMax \in 1..(DurationBound - 1)

VARIABLES
  initial, max,  \* the policy after Normalize
  attempt,       \* attemptNumber
  i,             \* loop variable
  delay,         \* the local delay
  pc             \* "loop" or "return"

vars == <<initial, max, attempt, i, delay, pc>>

(* Normalize, on the configured pair.                                      *)
NormalInitial(a) == IF a <= 0 THEN DefaultInitial ELSE a
MutNormalMax(a, b) == IF b <= 0 THEN DefaultMax ELSE b
NormalMax(a, b) ==
  LET m == IF b <= 0 THEN DefaultMax ELSE b
  IN IF m < NormalInitial(a) THEN NormalInitial(a) ELSE m

(* delay *= 2, as int64: past the bound it wraps to a negative duration.   *)
Doubled(d) ==
  IF 2 * d >= DurationBound THEN 2 * d - 2 * DurationBound ELSE 2 * d

MutAtCap(d) == d > max
AtCap(d) == d >= max \div 2

Init ==
  /\ \E a, b \in Durations : initial = NormalInitial(a) /\ max = NormalMax(a, b)
  /\ attempt \in Attempts
  /\ i = 1
  /\ delay = initial
  /\ pc = IF attempt <= 1 THEN "return" ELSE "loop"

Iterate ==
  /\ pc = "loop" /\ i < attempt
  /\ IF AtCap(delay)
     THEN /\ delay' = max
          /\ pc' = "return"
          /\ UNCHANGED i
     ELSE /\ delay' = Doubled(delay)
          /\ i' = i + 1
          /\ UNCHANGED pc
  /\ UNCHANGED <<initial, max, attempt>>

LoopEnds ==
  /\ pc = "loop" /\ i >= attempt
  /\ delay' = IF delay > max THEN max ELSE delay
  /\ pc' = "return"
  /\ UNCHANGED <<initial, max, attempt, i>>

Next == Iterate \/ LoopEnds

Spec == Init /\ [][Next]_vars
-----------------------------------------------------------------------------
(* Whatever the configuration (zero, negative, MaxDelay below              *)
(* InitialDelay) and however many attempts, the delay stays between        *)
(* InitialDelay and MaxDelay at every point of the loop: the doubling      *)
(* never overflows and FailJob never schedules a retry in the past.        *)
DelayInRange == initial <= delay /\ delay <= max

Power[n \in Nat] == IF n = 0 THEN 1 ELSE 2 * Power[n - 1]

(* The delay returned for attempt n is min(MaxDelay, InitialDelay          *)
(* 2^(n-1)).  The cap is reached one unit early when the doubling would    *)
(* give MaxDelay - 1, since MaxDelay/2 is rounded down.                    *)
CappedDoubling ==
  pc = "return" =>
    LET exact == initial * Power[IF attempt <= 1 THEN 0 ELSE attempt - 1]
    IN \/ delay = IF exact < max THEN exact ELSE max
       \/ exact = max - 1 /\ delay = max
=============================================================================
