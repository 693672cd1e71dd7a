\* Three executions of one window, and two workers.
SPECIFICATION FairSpec
CONSTANTS
  Windows = {w1}
  Requests = {r1, r2, r3}
  Workers = {k1, k2}
  Nobody = Nobody
  NoWindow = NoWindow
  Limit = 1
INVARIANTS
  OnlyOutcomesDeadlock
  AdmittedIsAttended
PROPERTIES
  TransactionsAreAtomic
  TransactionsEnd
\* A settled window and idle clients are a legitimate end.
CHECK_DEADLOCK FALSE
