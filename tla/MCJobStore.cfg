SPECIFICATION Spec
CONSTANTS
  Jobs = {j1, j2}
  Workers = {w1, w2}
  Queues = {q}
  Null = Null
  MaxAttempts = {1, 2}
  Delays = {1}
  AttemptBound = 2
  LeaseDuration = 1
  Backoff <- MCBackoff
  MaxLag = 1
  Batch = 2
SYMMETRY Perms
INVARIANTS
  TypeOK
  OpenAttemptIsLease
  AttemptsGapless
  AttemptBudget
  SucceededOnce
  OutcomeColumns
PROPERTIES
  HistoryKept
  LeaseLossIsFinal
  ImplementsLifecycle
