\* Every provable quarantine is resolved when a batch holds the whole backlog.
SPECIFICATION FairSpec
CONSTANTS
  Windows = {w1, w2}
  Requests = {r1}
  Workers = {k1, k2}
  Nobody = Nobody
  NoWindow = NoWindow
  Limit = 2
  LeaseCoversWork = TRUE
PROPERTY
  QuarantineDrains
\* Settled windows, revoked keys and idle processes are a legitimate end.
CHECK_DEADLOCK FALSE
