SPECIFICATION QSpec
CONSTANTS
  p1 = p1
  p2 = p2
  w1 = w1
  w2 = w2
  q = q
  Jobs = {j1}
  Workers = {w1, w2}
  Queues = {q}
  Null = Null
  MaxAttempts = {1}
  Delays = {0}
  AttemptBound = 1
  LeaseDuration = 3
  Backoff <- MCBackoff
  MaxLag = 0
  Batch = 1
  Procs = {p1, p2}
  Slots = {1}
  IdOf <- OwnIds
  QueueOf <- OneQueue
  HeartbeatInterval = 1
  Punctual = {p1, p2}
  Mortal = {p1, p2}
  Faults = {"crash"}
INVARIANT
  ExecutedAtLeastOnce
