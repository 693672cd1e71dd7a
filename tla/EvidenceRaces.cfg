\* A lookup against two ingestions with different keys.
SPECIFICATION HistorySpec
CONSTANTS
  Transfers = {t1}
  Keys = {k1, k2}
  Lookups = {l1}
  Ingests = {i1, i2}
  None = None
SYMMETRY Symmetry
INVARIANTS
  ConfirmationWasVerified
  AnswersWereTrue
PROPERTY
  ImplementsRailProof
\* Answered lookups, revoked keys and expired validity are a legitimate end.
CHECK_DEADLOCK FALSE
