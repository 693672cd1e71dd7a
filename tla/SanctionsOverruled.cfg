\* A blocked transfer is cleared by a second screening after a fault.
SPECIFICATION Spec
CONSTANTS
  Transfers = {t1}
  Polls = {p1}
  BatchLimit = 1
  MaxReleases = 0
  MaxFaults = 1
  MaxCount = 1
  None = None
INVARIANT
  SanctionsDecisionStands
CHECK_DEADLOCK FALSE
