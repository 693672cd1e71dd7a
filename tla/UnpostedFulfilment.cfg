SPECIFICATION Spec
CONSTANTS
  Transfers = {t1}
  Requests = {r1, r2}
  Fsps = {payer, payee}
  Connections = {c1}
  MaxUnread = 1
  Again = {}
  Ids = {i1, i2, i3}
  Wide = {i3}
  Remaining <- SomeRemaining
  None = None
INVARIANT ValidFulfilmentPosts
\* Identifiers run out and the rows stay RESERVED: the instance may stop.
CHECK_DEADLOCK FALSE
