\* One poll at a time, two transfers in one batch, each released up to twice.
SPECIFICATION Spec
CONSTANTS
  Transfers = {t1, t2}
  Polls = {p1}
  BatchLimit = 2
  MaxReleases = 2
  MaxFaults = 1
  MaxCount = 4
  None = None
SYMMETRY Symmetry
INVARIANTS
  RepeatsAreCharged
PROPERTIES
  StoppedStays
\* Transfers that are completed, failed or held are a legitimate end.
CHECK_DEADLOCK FALSE
