SPECIFICATION Spec
CONSTANTS
  Replicas = {r1, r2}
  MaxFaults = 1
  Requests = {q1, q2}
  Forms <- MCForms
  TrimSpace <- MCTrimSpace
  CronKeys = {"cron"}
  Null = Null
INVARIANTS
  TypeOK
  SchemaIsApplied
  OneJobPerKey
  AnnouncedOnce
  FailsOnlyByFault
PROPERTIES
  ServersComeUp
