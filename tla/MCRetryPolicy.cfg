SPECIFICATION Spec
CONSTANTS
  Durations <- MCDurations
  Attempts <- MCAttempts
  DefaultInitial = 2
  DefaultMax = 9
  DurationBound = 16
INVARIANTS
  DelayInRange
  CappedDoubling
CHECK_DEADLOCK FALSE
