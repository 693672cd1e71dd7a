---------------------------- MODULE MultipartUpload ----------------------------
(***************************************************************************)
(* Multipart uploads of onboarding documents: the client's procedures      *)
(* (onboarding/technicalOnboardingRouter.ts), the object store they call   *)
(* (storageMultipart.ts) and the cleanup workers that give the parts of    *)
(* expired uploads back (jobs/cleanupJob.ts, multipartCleanupRunner.ts).   *)
(*                                                                         *)
(* A procedure first changes the object store and then the session row,    *)
(* and may die in between; the row is written whatever it holds by then.   *)
(* Workers are the server processes and the CronJob: each runs one batch   *)
(* at a time and nothing but the row's claim keeps them apart.             *)
(***************************************************************************)
EXTENDS Integers, FiniteSets

CONSTANTS Uploads, Workers, MaxAttempts, None

ASSUME UploadAssumption == MaxAttempts \in Nat \ {0} /\ None \notin Uploads

VARIABLES
  parts,     \* object store: "none", then "stored", then "assembled" or "released"
  status,    \* multipart_upload_sessions.status, "absent" before the INSERT
  expired,   \* rows whose expires_at has passed
  attempts,  \* cleanup_attempts
  claim,     \* cleanup_claimed_at: "none", "fresh", or "stale" after 15 minutes
  pending,   \* per upload, the row writes of procedures that have called the store
  held,      \* per worker, the claimed rows it has still to handle ...
  attempt,   \* ... with the cleanup_attempts each was returned with
  current,   \* the row a worker is at
  result     \* what became of it: "none" yet, "ok" or "error"

session == <<status, expired, attempts, claim>>
worker == <<held, attempt, current, result>>
vars == <<parts, session, pending, worker>>

Statuses == {"absent", "active", "completed", "aborted", "abandoned", "cleanup_failed"}

Init ==
  /\ parts = [u \in Uploads |-> "none"] /\ status = [u \in Uploads |-> "absent"]
  /\ expired = {} /\ attempts = [u \in Uploads |-> 0]
  /\ claim = [u \in Uploads |-> "none"] /\ pending = [u \in Uploads |-> {}]
  /\ held = [w \in Workers |-> {}]
  /\ attempt = [w \in Workers |-> [u \in Uploads |-> 0]]
  /\ current = [w \in Workers |-> None] /\ result = [w \in Workers |-> "none"]

(***************************************************************************)
(* The procedures, split where they await.                                 *)
(***************************************************************************)
\* The store changes, and the procedure still has the row to write.
Store(u, from, to, write) ==
  /\ parts[u] = from /\ parts' = [parts EXCEPT ![u] = to]
  /\ pending' = [pending EXCEPT ![u] = @ \union {write}]
  /\ UNCHANGED <<session, worker>>

initiateMultipartUpload(u) == Store(u, "none", "stored", "active")

\* The client learns the upload id from the answer, so the row exists.  The
\* store refuses both calls once the upload is assembled or released.
completeMultipartUpload(u) ==
  status[u] # "absent" /\ Store(u, "stored", "assembled", "completed")
abortMultipartUpload(u) ==
  status[u] # "absent" /\ Store(u, "stored", "released", "aborted")

\* The INSERT of initiate or the unconditional UPDATE of complete or abort.
WriteRow(u, write) ==
  /\ write \in pending[u]
  /\ pending' = [pending EXCEPT ![u] = @ \ {write}]
  /\ status' = [status EXCEPT ![u] = write]
  /\ UNCHANGED <<parts, expired, attempts, claim, worker>>

\* The process dies, the database refuses, or the store's answer is lost.
LoseWrite(u, write) ==
  /\ write \in pending[u]
  /\ pending' = [pending EXCEPT ![u] = @ \ {write}]
  /\ UNCHANGED <<parts, session, worker>>

(***************************************************************************)
(* runMultipartCleanupOnce.                                                *)
(***************************************************************************)
\* Mutants of the WHERE clause: completed uploads too; uploads that may still be
\* in progress; claims that never time out.
ClaimableCompleted(u) ==
  /\ \/ status[u] \in {"active", "completed"} /\ u \in expired
     \/ status[u] \in {"abandoned", "cleanup_failed"} /\ claim[u] # "fresh"
  /\ attempts[u] < MaxAttempts
ClaimableEarly(u) ==
  /\ \/ status[u] = "active"
     \/ status[u] \in {"abandoned", "cleanup_failed"} /\ claim[u] # "fresh"
  /\ attempts[u] < MaxAttempts
ClaimableOnce(u) ==
  /\ \/ status[u] = "active" /\ u \in expired
     \/ status[u] \in {"abandoned", "cleanup_failed"} /\ claim[u] = "none"
  /\ attempts[u] < MaxAttempts

Claimable(u) ==
  /\ \/ status[u] = "active" /\ u \in expired
     \/ status[u] \in {"abandoned", "cleanup_failed"} /\ claim[u] # "fresh"
  /\ attempts[u] < MaxAttempts

\* One transaction.  SKIP LOCKED and the batch limit may leave some out.
Claim(w, rows) ==
  /\ held[w] = {} /\ rows # {} /\ \A u \in rows : Claimable(u)
  /\ status' = [u \in Uploads |-> IF u \in rows THEN "abandoned" ELSE status[u]]
  /\ attempts' = [u \in Uploads |-> IF u \in rows THEN attempts[u] + 1 ELSE attempts[u]]
  /\ claim' = [u \in Uploads |-> IF u \in rows THEN "fresh" ELSE claim[u]]
  /\ held' = [held EXCEPT ![w] = rows]
  /\ attempt' = [attempt EXCEPT ![w] = [u \in Uploads |-> IF u \in rows THEN attempts'[u] ELSE 0]]
  /\ UNCHANGED <<parts, expired, pending, current, result>>

\* The store gives the parts back; its error may hide that it did.  An upload
\* that is assembled or released already is an error (NoSuchUpload).
\* Mutant: such an upload counts as aborted.
AnswersForgiving(u) ==
  IF parts[u] = "stored" THEN {<<"released", "ok">>, <<"released", "error">>, <<"stored", "error">>}
  ELSE {<<parts[u], "ok">>}
Answers(u) ==
  IF parts[u] = "stored" THEN {<<"released", "ok">>, <<"released", "error">>, <<"stored", "error">>}
  ELSE {<<parts[u], "error">>}

CleanUp(w, u) ==
  /\ u \in held[w] /\ current[w] = None
  /\ \E answer \in Answers(u) :
       /\ parts' = [parts EXCEPT ![u] = answer[1]]
       /\ result' = [result EXCEPT ![w] = answer[2]]
  /\ current' = [current EXCEPT ![w] = u]
  /\ UNCHANGED <<session, pending, held, attempt>>

\* What the worker writes, with the attempt it remembers.
Verdict(w, u) ==
  IF result[w] = "ok" THEN "aborted"
  ELSE IF result[w] = "error" /\ attempt[w][u] >= MaxAttempts THEN "cleanup_failed"
  ELSE "abandoned"

WriteVerdict(w) ==
  LET u == current[w]
  IN /\ u # None
     /\ status' = [status EXCEPT ![u] = Verdict(w, u)]
     /\ held' = [held EXCEPT ![w] = @ \ {u}]
     /\ attempt' = [attempt EXCEPT ![w] = [@ EXCEPT ![u] = 0]]
     /\ current' = [current EXCEPT ![w] = None] /\ result' = [result EXCEPT ![w] = "none"]
     /\ UNCHANGED <<parts, expired, attempts, claim, pending>>

\* The batch ends early: the process dies or passes its deadline, or the UPDATE
\* in the catch block fails.  What was claimed stays claimed.
BatchDies(w) ==
  /\ held[w] # {}
  /\ held' = [held EXCEPT ![w] = {}] /\ attempt' = [attempt EXCEPT ![w] = [u \in Uploads |-> 0]]
  /\ current' = [current EXCEPT ![w] = None] /\ result' = [result EXCEPT ![w] = "none"]
  /\ UNCHANGED <<parts, session, pending>>

\* The UPDATE to "aborted" fails: the catch block takes it for a failed abort.
WriteFails(w) ==
  /\ result[w] = "ok" /\ result' = [result EXCEPT ![w] = "error"]
  /\ UNCHANGED <<parts, session, pending, held, attempt, current>>

(***************************************************************************)
(* Time.                                                                   *)
(***************************************************************************)
Expire(u) ==
  /\ status[u] # "absent" /\ u \notin expired /\ expired' = expired \union {u}
  /\ UNCHANGED <<parts, status, attempts, claim, pending, worker>>

ClaimTimesOut(u) ==
  /\ claim[u] = "fresh" /\ claim' = [claim EXCEPT ![u] = "stale"]
  /\ UNCHANGED <<parts, status, expired, attempts, pending, worker>>

Procedures(u) ==
  \/ initiateMultipartUpload(u) \/ completeMultipartUpload(u) \/ abortMultipartUpload(u)
  \/ \E write \in Statuses : WriteRow(u, write) \/ LoseWrite(u, write)

WorkerStep(w) ==
  \/ \E rows \in SUBSET Uploads : Claim(w, rows)
  \/ \E u \in Uploads : CleanUp(w, u)
  \/ WriteVerdict(w)

Next ==
  \/ \E u \in Uploads : Procedures(u) \/ Expire(u) \/ ClaimTimesOut(u)
  \/ \E w \in Workers : WorkerStep(w) \/ BatchDies(w) \/ WriteFails(w)

Spec == Init /\ [][Next]_vars

\* The CronJob comes round every 15 minutes and time passes.  Nothing is assumed
\* about clients, and batches may die.
Fairness ==
  /\ \A u \in Uploads : WF_vars(Expire(u)) /\ WF_vars(ClaimTimesOut(u))
  /\ \A w \in Workers : WF_vars(WorkerStep(w))

FairSpec == Spec /\ Fairness
=============================================================================
