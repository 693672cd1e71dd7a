SPECIFICATION FairSpec
CONSTANTS
  Deliveries = {d1}
  Schedulers = {s1, s2}
  Requests = {q1, q2}
  RetryLimits = {0, 2}
  HighestLimit = 2
  Threshold = 2
  MaxAsks = 2
  MaxFaults = 1
  None = None
INVARIANTS
  AttemptsAreLimited
  DeliveredIsAccepted
  CountedAttemptsWereMade
PROPERTIES
  OnlyOperatorsReopen
  RetriesComeToRest
\* A delivery that is delivered or given up is a legitimate end.
CHECK_DEADLOCK FALSE
