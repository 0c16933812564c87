SPECIFICATION Spec
CONSTANTS
  Null = Null
  Expressions <- MCExpressions
  Times = {0, 3, 11, 12, 19}
  Low <- MCLow
  High <- MCHigh
  Calendar <- MCCalendar
  Search = 19
  IntBound = 64
INVARIANTS
  NextIsFirst
  RejectsExactly
  NoEmptyField
CHECK_DEADLOCK FALSE
