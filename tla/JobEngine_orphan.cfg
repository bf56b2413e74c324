\* A scheduler that may die while it verifies; nothing else goes wrong.
CONSTANTS
  MaxJobs = 1
  Worker = {w1}
  Caller = {}
  MaxAttempts = 2
  BatchLimit = 1
  Poison = {}
  WorkerMayFail = FALSE
  SchedulerMayFail = TRUE
SPECIFICATION Spec
INVARIANT VerificationHasAnOwner
