SPECIFICATION FairSpec
CONSTANTS
  Jobs = {j1, j2}
  CronJobs = {j2}
  Schedulers = {s1}
  MaxTries <- MCMaxTries
  Batch = 1
  MaxSignals = 1
  Procs = {p1}
  Concurrency = 2
INVARIANTS
  TypeOK
  NoLostWakeup
PROPERTIES
  JobsEnd
