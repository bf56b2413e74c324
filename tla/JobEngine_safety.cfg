\* Two jobs, a worker and a scheduler that may die at any point, a canceller.
CONSTANTS
  MaxJobs = 2
  Worker = {w1}
  Caller = {c1}
  MaxAttempts = 1
  BatchLimit = 2
  Poison = {}
  WorkerMayFail = TRUE
  SchedulerMayFail = TRUE
SPECIFICATION Spec
INVARIANTS
  TypeOK
  ExecutedAtMostOnce
  RunningIsLeased
  ExhaustionAuditedOnce
  TokenMeansOwnership
  OnlyCancelInterferes
  RecordIsTruthful
PROPERTIES
  ZombiesDoNotWrite
  Lifecycle
