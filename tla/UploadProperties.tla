---------------------------- MODULE UploadProperties ----------------------------
(***************************************************************************)
(* Properties of MultipartUpload.                                          *)
(***************************************************************************)
EXTENDS MultipartUpload

\* Every variable keeps its type, and the attempts stay within their limit.
TypeOK ==
  /\ parts \in [Uploads -> {"none", "stored", "assembled", "released"}]
  /\ status \in [Uploads -> Statuses] /\ expired \subseteq Uploads
  /\ attempts \in [Uploads -> 0..MaxAttempts]
  /\ claim \in [Uploads -> {"none", "fresh", "stale"}]
  /\ pending \in [Uploads -> SUBSET {"active", "completed", "aborted"}]
  /\ held \in [Workers -> SUBSET Uploads]
  /\ attempt \in [Workers -> [Uploads -> 0..MaxAttempts]]
  /\ current \in [Workers -> Uploads \union {None}]
  /\ result \in [Workers -> {"none", "ok", "error"}]

\* A row that says completed has its object, and a row that says aborted has
\* given its parts back, whatever client, worker and lost answer came between the
\* call to the store and the write of the row.
RowsTellTheTruth ==
  \A u \in Uploads :
    /\ status[u] = "completed" => parts[u] = "assembled"
    /\ status[u] = "aborted" => parts[u] = "released"

\* A worker never gives back the parts of an upload whose 30 minutes have not
\* passed: until then only the client's own abort does.
UploadsInProgressAreLeftAlone ==
  [][\A u \in Uploads : parts[u] = "stored" /\ parts'[u] = "released" =>
       u \in expired \/ "aborted" \in pending'[u]]_vars

\* Once a session was written completed before any worker claimed it, no worker
\* and no late procedure changes it again.
UnclaimedCompletionIsFinal ==
  [][\A u \in Uploads : status[u] = "completed" /\ attempts[u] = 0 =>
       status'[u] = "completed" /\ attempts'[u] = 0]_vars

\* The parts of every session that expires are put together, given back, or have
\* had all their attempts, even when every batch may die.
ExpiredUploadsAreReclaimed ==
  \A u \in Uploads :
    status[u] # "absent" ~> parts[u] # "stored" \/ attempts[u] = MaxAttempts
=============================================================================
