\* A worker that may die, a canceller, and a poison job ahead of a sound one.
CONSTANTS
  MaxJobs = 2
  Worker = {w1}
  Caller = {c1}
  MaxAttempts = 2
  BatchLimit = 2
  Poison = {1}
  WorkerMayFail = TRUE
  SchedulerMayFail = FALSE
SPECIFICATION FairSpec
INVARIANT VerificationHasAnOwner
PROPERTY EveryJobSettles
