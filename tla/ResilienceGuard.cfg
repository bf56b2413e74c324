\* Four concurrent calls, two slots, a deadline shorter than the recovery time
\* (the shipped defaults are 10 s and 30 s); time, timeouts and arrivals are fair.
CONSTANTS
  Call = {c1, c2, c3, c4}
  MaxConcurrency = 2
  Burst = 2
  Rate = 1
  FailureThreshold = 2
  Recovery = 3
  Deadline = 2
SPECIFICATION FairSpec
INVARIANTS
  TypeOK
  SlotsConserved
  HalfOpenHasAProbe
  CircuitMatchesCount
  OneProbe
PROPERTY OpenIsRetried
