SPECIFICATION FairSpec
CONSTANTS
  a = a
  b = b
  Crons = {a, b}
  Schedulers = {s1, s2}
  Null = Null
  Schedule <- MCSchedule
  Search = 2
  Skew = 1
  Batch = 1
  Toggled = {a}
  MaxTime = 2
INVARIANTS
  OncePerMinute
  RunsOnSchedule
PROPERTY
  FireMovesOn
  DueCronFires
