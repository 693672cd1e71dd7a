SPECIFICATION FairSpec
CONSTANTS
  Uploads = {u1, u2}
  Workers = {w1, w2}
  MaxAttempts = 2
  None = None
INVARIANTS
  RowsTellTheTruth
PROPERTIES
  UploadsInProgressAreLeftAlone
  UnclaimedCompletionIsFinal
  ExpiredUploadsAreReclaimed
\* Uploads that are completed, aborted or given up are a legitimate end.
CHECK_DEADLOCK FALSE
