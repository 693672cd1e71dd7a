SPECIFICATION FairSpec
CONSTANTS
  Transfers = {t1, t2}
  Requests = {r1, r2}
  Fsps = {payer, payee}
  Connections = {c1}
  MaxUnread = 1
  Again = {}
  Ids = {i1, i2}
  Wide = {}
  Remaining <- SomeRemaining
  None = None
INVARIANTS
  RowsAreBacked
PROPERTIES
  HoldsEnd
\* Identifiers run out and the rows stay RESERVED: the instance may stop.
CHECK_DEADLOCK FALSE
