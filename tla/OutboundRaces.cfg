\* Two overlapping polls of one transfer: safety, refinement, and coming to rest.
SPECIFICATION FairSpec
CONSTANTS
  Transfers = {t1}
  Polls = {p1, p2}
  BatchLimit = 1
  MaxReleases = 1
  MaxFaults = 0
  MaxCount = 1
  None = None
INVARIANTS
  PaymentIsBacked
  RowIsBacked
  EventsAreTruthful
PROPERTIES
  ImplementsMilestones
  PendingTransfersStop
\* Transfers that are completed, failed or held are a legitimate end.
CHECK_DEADLOCK FALSE
