SPECIFICATION FairSpec
CONSTANTS
  p1 = p1
  p2 = p2
  w1 = w1
  w2 = w2
  q = q
  Jobs = {j1}
  Workers = {w1, w2}
  Queues = {q}
  Null = Null
  MaxAttempts = {1, 2}
  Delays = {0}
  AttemptBound = 2
  LeaseDuration = 1
  Backoff <- MCBackoff
  MaxLag = 0
  Batch = 1
  Procs = {p1, p2}
  Slots = {1}
  IdOf <- OwnIds
  QueueOf <- OneQueue
  HeartbeatInterval = 1
  Punctual = {}
  Mortal = {p1}
  Faults = {"crash"}
PROPERTIES
  JobsSettle
  ShutdownEnds
