\* Two concurrent executions and two workers on one window.
SPECIFICATION Spec
CONSTANTS
  Windows = {w1}
  Requests = {r1, r2}
  Workers = {k1, k2}
  Nobody = Nobody
  NoWindow = NoWindow
  Limit = 1
  LeaseCoversWork = FALSE
SYMMETRY Symmetry
INVARIANTS
  FinalityIsBacked
  StoresAgree
  QuarantineHasCase
  IntentPrecedesMoney
  EventsMatchOutcome
PROPERTIES
  FinalIsImmutable
  QuarantineNeedsProof
  LiveClaimIsExclusive
  KeepsPromise
\* Settled windows, revoked keys and idle processes are a legitimate end.
CHECK_DEADLOCK FALSE
