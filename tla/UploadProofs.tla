------------------------------ MODULE UploadProofs ------------------------------
(***************************************************************************)
(* Proofs about MultipartUpload, for any uploads, workers and number of    *)
(* attempts.  The argument: what the store did to an upload is final, so a *)
(* row write that waits for its turn stays true however long it waits, and *)
(* a worker only holds rows that expired and whose attempts it counted.    *)
(***************************************************************************)
EXTENDS UploadProperties, TLAPS

(***************************************************************************)
(* The inductive invariant.                                                *)
(***************************************************************************)
\* The row writes still to come tell the truth as well.
WritesTellTheTruth(u) ==
  /\ "active" \in pending[u] => status[u] = "absent" /\ parts[u] # "none"
  /\ "completed" \in pending[u] => parts[u] = "assembled" /\ status[u] # "absent"
  /\ "aborted" \in pending[u] => parts[u] = "released" /\ status[u] # "absent"
  /\ status[u] # "absent" => parts[u] # "none"

\* What was claimed has expired and keeps the count of its claims.
ClaimsAreCounted(u) ==
  /\ status[u] \in {"abandoned", "cleanup_failed"} => u \in expired /\ attempts[u] > 0
  /\ \A w \in Workers : u \in held[w] => u \in expired /\ attempts[u] > 0 /\ status[u] # "absent"

WorkerKnows(w) ==
  /\ current[w] # None => current[w] \in held[w]
  /\ result[w] = "ok" => current[w] # None /\ parts[current[w]] = "released"

IInv ==
  /\ TypeOK /\ RowsTellTheTruth
  /\ \A u \in Uploads : WritesTellTheTruth(u) /\ ClaimsAreCounted(u)
  /\ \A w \in Workers : WorkerKnows(w)

\* What no step takes back.
Final ==
  /\ \A u \in Uploads : parts[u] \in {"assembled", "released"} => parts'[u] = parts[u]
  /\ \A u \in Uploads : parts[u] # "none" => parts'[u] # "none"

(***************************************************************************)
(* Type correctness.                                                       *)
(***************************************************************************)

\* Every step keeps every variable within its type.
LEMMA TypeStep == TypeOK /\ [Next]_vars => TypeOK'
<1> SUFFICES ASSUME TypeOK, [Next]_vars PROVE TypeOK'
  OBVIOUS
<1> USE UploadAssumption DEF TypeOK, Statuses, session, worker
<1>1. ASSUME NEW u \in Uploads, Procedures(u) PROVE TypeOK'
  <2>1. CASE initiateMultipartUpload(u) \/ completeMultipartUpload(u) \/ abortMultipartUpload(u)
    <3>1. PICK to \in {"stored", "assembled", "released"}, write \in {"active", "completed", "aborted"} :
            /\ parts' = [parts EXCEPT ![u] = to]
            /\ pending' = [pending EXCEPT ![u] = @ \union {write}]
            /\ UNCHANGED <<status, expired, attempts, claim, held, attempt, current, result>>
      BY <2>1 DEF initiateMultipartUpload, completeMultipartUpload, abortMultipartUpload, Store
    <3>2. pending[u] \union {write} \in SUBSET {"active", "completed", "aborted"}
      OBVIOUS
    <3> QED
      BY <3>1, <3>2
  <2>2. CASE \E write \in Statuses : WriteRow(u, write) \/ LoseWrite(u, write)
    <3>1. PICK write \in Statuses :
            /\ pending' = [pending EXCEPT ![u] = @ \ {write}]
            /\ status' = [status EXCEPT ![u] = write] \/ status' = status
            /\ UNCHANGED <<parts, expired, attempts, claim, held, attempt, current, result>>
      BY <2>2 DEF WriteRow, LoseWrite
    <3>2. pending[u] \ {write} \in SUBSET {"active", "completed", "aborted"}
      OBVIOUS
    <3> QED
      BY <3>1, <3>2
  <2> QED
    BY <1>1, <2>1, <2>2 DEF Procedures
<1>2. ASSUME NEW u \in Uploads, Expire(u) \/ ClaimTimesOut(u) PROVE TypeOK'
  BY <1>2 DEF Expire, ClaimTimesOut
<1>3. ASSUME NEW w \in Workers, NEW rows \in SUBSET Uploads, Claim(w, rows) PROVE TypeOK'
  <2>1. attempts' \in [Uploads -> 0..MaxAttempts]
    BY <1>3 DEF Claim, Claimable
  <2>2. [u \in Uploads |-> IF u \in rows THEN attempts'[u] ELSE 0] \in [Uploads -> 0..MaxAttempts]
    BY <2>1
  <2> QED
    BY <1>3, <2>1, <2>2 DEF Claim
<1>4. ASSUME NEW w \in Workers, NEW u \in Uploads, CleanUp(w, u) PROVE TypeOK'
  BY <1>4 DEF CleanUp, Answers
<1>5. ASSUME NEW w \in Workers, WriteVerdict(w) PROVE TypeOK'
  <2>1. current[w] \in Uploads /\ Verdict(w, current[w]) \in Statuses
    BY <1>5 DEF WriteVerdict, Verdict
  <2>2. [attempt EXCEPT ![w] = [@ EXCEPT ![current[w]] = 0]] \in [Workers -> [Uploads -> 0..MaxAttempts]]
    BY <2>1
  <2> QED
    BY <1>5, <2>1, <2>2 DEF WriteVerdict
<1>6. ASSUME NEW w \in Workers, BatchDies(w) \/ WriteFails(w) PROVE TypeOK'
  <2>1. CASE BatchDies(w)
    <3>1. [u \in Uploads |-> 0] \in [Uploads -> 0..MaxAttempts]
      OBVIOUS
    <3> QED
      BY <2>1, <3>1 DEF BatchDies
  <2>2. CASE WriteFails(w)
    BY <2>2 DEF WriteFails
  <2> QED
    BY <1>6, <2>1, <2>2
<1>7. CASE UNCHANGED vars
  BY <1>7 DEF vars
<1> QED
  BY <1>1, <1>2, <1>3, <1>4, <1>5, <1>6, <1>7 DEF Next, WorkerStep

(***************************************************************************)
(* The rows and what lies in the store.                                    *)
(***************************************************************************)

\* An upload that is assembled or released stays so.
LEMMA FinalStep == TypeOK /\ [Next]_vars => Final
<1> SUFFICES ASSUME TypeOK, [Next]_vars PROVE Final
  OBVIOUS
<1>1. ASSUME NEW u \in Uploads,
             initiateMultipartUpload(u) \/ completeMultipartUpload(u) \/ abortMultipartUpload(u)
      PROVE  Final
  BY <1>1 DEF initiateMultipartUpload, completeMultipartUpload, abortMultipartUpload, Store, Final, TypeOK
<1>2. ASSUME NEW w \in Workers, NEW u \in Uploads, CleanUp(w, u) PROVE Final
  BY <1>2 DEF CleanUp, Answers, Final, TypeOK
<1>3. CASE UNCHANGED parts
  BY <1>3 DEF Final
<1> QED
  BY <1>1, <1>2, <1>3 DEF Next, vars, Procedures, WorkerStep, WriteRow, LoseWrite, Expire, ClaimTimesOut,
     Claim, WriteVerdict, BatchDies, WriteFails

\* A worker keeps knowing what it has just done.
LEMMA WorkerStepKnows == IInv /\ [Next]_vars => \A w \in Workers : WorkerKnows(w)'
<1> SUFFICES ASSUME IInv, [Next]_vars, NEW v \in Workers PROVE WorkerKnows(v)'
  OBVIOUS
<1>0. TypeOK /\ WorkerKnows(v) /\ Final
  BY FinalStep DEF IInv
<1>1. CASE current'[v] = current[v] /\ result'[v] = result[v] /\ held'[v] = held[v]
  BY <1>0, <1>1 DEF WorkerKnows, Final, TypeOK
<1>2. CASE current'[v] = None /\ result'[v] = "none"
  BY <1>2 DEF WorkerKnows
<1>3. ASSUME NEW w \in Workers, NEW rows \in SUBSET Uploads, Claim(w, rows) PROVE WorkerKnows(v)'
  <2>1. CASE v = w
    BY <1>0, <1>3, <2>1 DEF Claim, WorkerKnows, TypeOK
  <2> QED
    BY <1>0, <1>1, <1>3, <2>1 DEF Claim, TypeOK
<1>4. ASSUME NEW w \in Workers, NEW u \in Uploads, CleanUp(w, u) PROVE WorkerKnows(v)'
  <2>1. CASE v = w
    BY <1>0, <1>4, <2>1, UploadAssumption DEF CleanUp, Answers, WorkerKnows, TypeOK
  <2> QED
    BY <1>0, <1>1, <1>4, <2>1 DEF CleanUp, TypeOK
<1>5. ASSUME NEW w \in Workers, WriteVerdict(w) \/ BatchDies(w) PROVE WorkerKnows(v)'
  BY <1>0, <1>1, <1>2, <1>5 DEF WriteVerdict, BatchDies, TypeOK
<1>6. ASSUME NEW w \in Workers, WriteFails(w) PROVE WorkerKnows(v)'
  BY <1>0, <1>6 DEF WriteFails, WorkerKnows, TypeOK
<1>7. CASE UNCHANGED worker
  BY <1>1, <1>7 DEF worker
<1> QED
  BY <1>3, <1>4, <1>5, <1>6, <1>7 DEF Next, vars, Procedures, WorkerStep, initiateMultipartUpload,
     completeMultipartUpload, abortMultipartUpload, Store, WriteRow, LoseWrite, Expire, ClaimTimesOut

\* The rows stay true, those still to be written as well.
LEMMA TruthStep ==
  IInv /\ [Next]_vars => RowsTellTheTruth' /\ \A u \in Uploads : WritesTellTheTruth(u)'
<1> SUFFICES ASSUME IInv, [Next]_vars, NEW u \in Uploads
             PROVE  /\ status'[u] = "completed" => parts'[u] = "assembled"
                    /\ status'[u] = "aborted" => parts'[u] = "released"
                    /\ WritesTellTheTruth(u)'
  BY DEF RowsTellTheTruth
<1> DEFINE Goal == /\ status'[u] = "completed" => parts'[u] = "assembled"
                   /\ status'[u] = "aborted" => parts'[u] = "released"
                   /\ WritesTellTheTruth(u)'
<1>0. /\ TypeOK /\ Final /\ WritesTellTheTruth(u)
      /\ status[u] = "completed" => parts[u] = "assembled"
      /\ status[u] = "aborted" => parts[u] = "released"
  BY FinalStep DEF IInv, RowsTellTheTruth
<1>1. CASE status'[u] = status[u] /\ pending'[u] \subseteq pending[u]
  BY <1>0, <1>1 DEF WritesTellTheTruth, Final
<1>2. ASSUME NEW v \in Uploads, NEW from \in {"none", "stored"},
             NEW to \in {"stored", "assembled", "released"}, NEW write,
             Store(v, from, to, write),
             write = "active" => from = "none" /\ to = "stored",
             write = "completed" => to = "assembled" /\ status[v] # "absent",
             write = "aborted" => to = "released" /\ status[v] # "absent"
      PROVE  Goal
  <2>1. CASE v = u
    BY <1>0, <1>2, <2>1 DEF Store, session, WritesTellTheTruth, TypeOK, Statuses
  <2> QED
    BY <1>0, <1>1, <1>2, <2>1 DEF Store, session, TypeOK
<1>3. ASSUME NEW v \in Uploads, NEW write \in Statuses, WriteRow(v, write) PROVE Goal
  <2>1. CASE v = u
    <3>1. /\ write \in {"active", "completed", "aborted"} /\ write \in pending[u]
          /\ status'[u] = write /\ parts'[u] = parts[u] /\ pending'[u] = pending[u] \ {write}
      BY <1>0, <1>3, <2>1 DEF WriteRow, TypeOK
    <3>2. "active" \in pending[u] => write = "active"
      BY <1>0, <3>1 DEF WritesTellTheTruth
    <3> QED
      BY <1>0, <3>1, <3>2 DEF WritesTellTheTruth
  <2> QED
    BY <1>0, <1>1, <1>3, <2>1 DEF WriteRow, TypeOK
<1>4. ASSUME NEW w \in Workers, NEW rows \in SUBSET Uploads, Claim(w, rows) PROVE Goal
  <2>1. CASE u \in rows
    BY <1>0, <1>4, <2>1 DEF Claim, Claimable, WritesTellTheTruth, Final, TypeOK
  <2> QED
    BY <1>0, <1>1, <1>4, <2>1 DEF Claim, TypeOK
<1>5. ASSUME NEW w \in Workers, WriteVerdict(w) PROVE Goal
  <2>1. /\ WorkerKnows(w) /\ current[w] # None /\ current[w] \in Uploads
        /\ status[current[w]] # "absent"
    BY <1>0, <1>5 DEF WriteVerdict, IInv, TypeOK, WorkerKnows, ClaimsAreCounted
  <2>2. CASE current[w] = u
    <3>1. status'[u] = Verdict(w, u) /\ UNCHANGED <<parts, pending>>
      BY <1>0, <1>5, <2>2 DEF WriteVerdict, TypeOK
    <3>2. /\ Verdict(w, u) \in {"aborted", "cleanup_failed", "abandoned"}
          /\ Verdict(w, u) = "aborted" => result[w] = "ok"
      BY <1>0 DEF Verdict, TypeOK
    <3> QED
      BY <1>0, <2>1, <2>2, <3>1, <3>2 DEF WorkerKnows, WritesTellTheTruth
  <2> QED
    BY <1>0, <1>1, <1>5, <2>2 DEF WriteVerdict, TypeOK
<1>6. ASSUME NEW v \in Uploads, NEW write \in Statuses, LoseWrite(v, write) PROVE Goal
  BY <1>0, <1>1, <1>6 DEF LoseWrite, session, TypeOK
<1>7. CASE UNCHANGED <<status, pending>>
  BY <1>1, <1>7
<1>8. ASSUME NEW v \in Uploads,
             initiateMultipartUpload(v) \/ completeMultipartUpload(v) \/ abortMultipartUpload(v)
      PROVE  Goal
  BY <1>2, <1>8 DEF initiateMultipartUpload, completeMultipartUpload, abortMultipartUpload
<1> QED
  BY <1>3, <1>4, <1>5, <1>6, <1>7, <1>8 DEF Next, vars, session, Procedures, WorkerStep, Expire,
     ClaimTimesOut, CleanUp, BatchDies, WriteFails

\* What is claimed stays counted.
LEMMA ClaimStep == IInv /\ [Next]_vars => \A u \in Uploads : ClaimsAreCounted(u)'
<1> SUFFICES ASSUME IInv, [Next]_vars, NEW u \in Uploads PROVE ClaimsAreCounted(u)'
  OBVIOUS
<1>0. TypeOK /\ ClaimsAreCounted(u)
  BY DEF IInv
<1>1. CASE /\ status'[u] = status[u] /\ attempts'[u] = attempts[u] /\ expired \subseteq expired'
           /\ \A w \in Workers : u \in held'[w] => u \in held[w]
  BY <1>0, <1>1 DEF ClaimsAreCounted
<1>2. ASSUME NEW v \in Uploads, NEW write \in Statuses, WriteRow(v, write)
      PROVE  ClaimsAreCounted(u)'
  <2>1. write \in {"active", "completed", "aborted"}
    BY <1>0, <1>2 DEF WriteRow, TypeOK
  <2> QED
    BY <1>0, <1>2, <2>1 DEF WriteRow, worker, ClaimsAreCounted, TypeOK
<1>3. ASSUME NEW w \in Workers, NEW rows \in SUBSET Uploads, Claim(w, rows)
      PROVE  ClaimsAreCounted(u)'
  <2>1. CASE u \in rows
    <3>1. u \in expired /\ status'[u] = "abandoned" /\ attempts'[u] = attempts[u] + 1 /\ expired' = expired
      BY <1>0, <1>3, <2>1 DEF Claim, Claimable, ClaimsAreCounted, TypeOK
    <3>2. attempts'[u] > 0
      BY <1>0, <3>1 DEF TypeOK
    <3> QED
      BY <3>1, <3>2 DEF ClaimsAreCounted
  <2>2. CASE u \notin rows
    BY <1>0, <1>1, <1>3, <2>2 DEF Claim, TypeOK
  <2> QED
    BY <2>1, <2>2
<1>4. ASSUME NEW w \in Workers, WriteVerdict(w) PROVE ClaimsAreCounted(u)'
  <2>1. current[w] \in held[w] /\ current[w] \in Uploads
    BY <1>0, <1>4 DEF WriteVerdict, IInv, WorkerKnows, TypeOK
  <2>2. Verdict(w, current[w]) # "absent"
    BY DEF Verdict
  <2> QED
    BY <1>0, <1>4, <2>1, <2>2 DEF WriteVerdict, ClaimsAreCounted, TypeOK
<1>5. ASSUME NEW w \in Workers, BatchDies(w) PROVE ClaimsAreCounted(u)'
  BY <1>0, <1>1, <1>5 DEF BatchDies, session, TypeOK
<1>6. ASSUME NEW v \in Uploads, Expire(v) PROVE ClaimsAreCounted(u)'
  BY <1>0, <1>1, <1>6 DEF Expire, worker
<1>7. CASE UNCHANGED <<status, expired, attempts, held>>
  BY <1>1, <1>7
<1> QED
  BY <1>2, <1>3, <1>4, <1>5, <1>6, <1>7 DEF Next, vars, session, worker, Procedures, WorkerStep,
     initiateMultipartUpload, completeMultipartUpload, abortMultipartUpload, Store, LoseWrite,
     ClaimTimesOut, CleanUp, WriteFails

\* The invariant holds in every reachable state.
LEMMA Invariance == Spec => []IInv
<1>1. Init => IInv
  BY UploadAssumption
  DEF Init, IInv, TypeOK, Statuses, RowsTellTheTruth, WritesTellTheTruth, ClaimsAreCounted, WorkerKnows
<1>2. IInv /\ [Next]_vars => IInv'
  BY TypeStep, WorkerStepKnows, TruthStep, ClaimStep DEF IInv
<1> QED
  BY <1>1, <1>2, PTL DEF Spec

(***************************************************************************)
(* The theorems.                                                           *)
(***************************************************************************)

\* Every variable keeps its type; no row is claimed more than MaxAttempts times.
THEOREM TypeCorrect == Spec => []TypeOK
BY Invariance, PTL DEF IInv

\* A row that says completed has its object, one that says aborted has given its
\* parts back, whatever is lost or comes late.
THEOREM Truthful == Spec => []RowsTellTheTruth
BY Invariance, PTL DEF IInv

\* No worker gives back the parts of an upload that has not expired.
THEOREM LeftAlone == Spec => UploadsInProgressAreLeftAlone
<1> DEFINE A == \A u \in Uploads : parts[u] = "stored" /\ parts'[u] = "released" =>
                  u \in expired \/ "aborted" \in pending'[u]
<1>1. IInv /\ [Next]_vars => [A]_vars
  <2> SUFFICES ASSUME IInv, [Next]_vars, NEW u \in Uploads, parts[u] = "stored", parts'[u] = "released"
               PROVE  u \in expired \/ "aborted" \in pending'[u]
    OBVIOUS
  <2>0. TypeOK /\ ClaimsAreCounted(u)
    BY DEF IInv
  <2>1. ASSUME NEW v \in Uploads,
               initiateMultipartUpload(v) \/ completeMultipartUpload(v) \/ abortMultipartUpload(v)
        PROVE  "aborted" \in pending'[u]
    <3>1. PICK from, to, write :
            /\ Store(v, from, to, write) /\ to \in {"stored", "assembled", "released"}
            /\ to = "released" => write = "aborted"
      BY <2>1 DEF initiateMultipartUpload, completeMultipartUpload, abortMultipartUpload
    <3>2. v = u /\ to = "released"
      BY <2>0, <3>1 DEF Store, TypeOK
    <3> QED
      BY <2>0, <3>1, <3>2 DEF Store, TypeOK
  <2>2. ASSUME NEW w \in Workers, NEW v \in Uploads, CleanUp(w, v) PROVE u \in expired
    BY <2>0, <2>2 DEF CleanUp, ClaimsAreCounted, TypeOK
  <2>3. parts' # parts
    OBVIOUS
  <2> QED
    BY <2>1, <2>2, <2>3 DEF Next, vars, Procedures, WorkerStep, WriteRow, LoseWrite, Expire,
       ClaimTimesOut, Claim, WriteVerdict, BatchDies, WriteFails
<1> QED
  BY Invariance, <1>1, PTL DEF Spec, UploadsInProgressAreLeftAlone

\* A completion written before any worker claimed the row is never undone.
THEOREM CompletionFinal == Spec => UnclaimedCompletionIsFinal
<1> DEFINE A == \A u \in Uploads : status[u] = "completed" /\ attempts[u] = 0 =>
                  status'[u] = "completed" /\ attempts'[u] = 0
<1>1. IInv /\ [Next]_vars => [A]_vars
  <2> SUFFICES ASSUME IInv, [Next]_vars, NEW u \in Uploads, status[u] = "completed", attempts[u] = 0
               PROVE  status'[u] = "completed" /\ attempts'[u] = 0
    OBVIOUS
  <2>0. /\ TypeOK /\ WritesTellTheTruth(u) /\ ClaimsAreCounted(u)
        /\ parts[u] = "assembled" /\ \A w \in Workers : u \notin held[w]
    BY DEF IInv, RowsTellTheTruth, ClaimsAreCounted
  <2>1. ASSUME NEW v \in Uploads, NEW write \in Statuses, WriteRow(v, write)
        PROVE  status'[u] = "completed" /\ attempts'[u] = 0
    <3>1. v = u => write = "completed"
      BY <2>0, <2>1 DEF WriteRow, WritesTellTheTruth, TypeOK
    <3> QED
      BY <2>0, <2>1, <3>1 DEF WriteRow, TypeOK
  <2>2. ASSUME NEW w \in Workers, NEW rows \in SUBSET Uploads, Claim(w, rows)
        PROVE  status'[u] = "completed" /\ attempts'[u] = 0
    BY <2>0, <2>2 DEF Claim, Claimable, TypeOK
  <2>3. ASSUME NEW w \in Workers, WriteVerdict(w)
        PROVE  status'[u] = "completed" /\ attempts'[u] = 0
    <3>1. current[w] # u
      BY <2>0, <2>3 DEF WriteVerdict, IInv, WorkerKnows
    <3> QED
      BY <2>0, <2>3, <3>1 DEF WriteVerdict, TypeOK
  <2>4. CASE UNCHANGED <<status, attempts>>
    BY <2>4
  <2> QED
    BY <2>1, <2>2, <2>3, <2>4 DEF Next, vars, session, Procedures, WorkerStep, initiateMultipartUpload,
       completeMultipartUpload, abortMultipartUpload, Store, LoseWrite, Expire, ClaimTimesOut,
       CleanUp, BatchDies, WriteFails
<1> QED
  BY Invariance, <1>1, PTL DEF Spec, UnclaimedCompletionIsFinal

(***************************************************************************)
(* What ExpiredUploadsAreReclaimed needs in every state.                   *)
(***************************************************************************)

\* What a worker remembers, and what giving up means.
AttemptsAreRemembered ==
  /\ \A u \in Uploads : u \in expired => status[u] # "absent"
  /\ \A w \in Workers, u \in Uploads : attempt[w][u] <= attempts[u]
  /\ \A u \in Uploads : status[u] = "cleanup_failed" => attempts[u] = MaxAttempts

\* Nobody's count of a row runs ahead of the row, and a row is given up only when
\* its own count has reached the limit.
LEMMA RememberedStep ==
  IInv /\ AttemptsAreRemembered /\ [Next]_vars => AttemptsAreRemembered'
<1> SUFFICES ASSUME IInv, AttemptsAreRemembered, [Next]_vars PROVE AttemptsAreRemembered'
  OBVIOUS
<1> USE UploadAssumption DEF session, worker
<1>0. TypeOK
  BY DEF IInv
<1>1. ASSUME NEW u \in Uploads, Procedures(u) PROVE AttemptsAreRemembered'
  <2>1. ASSUME NEW write \in Statuses, WriteRow(u, write) PROVE AttemptsAreRemembered'
    <3>1. write \in {"active", "completed", "aborted"} /\ UNCHANGED <<expired, attempts, attempt>>
      BY <1>0, <2>1 DEF WriteRow, TypeOK
    <3> QED
      BY <1>0, <2>1, <3>1 DEF WriteRow, TypeOK, AttemptsAreRemembered
  <2> QED
    BY <1>1, <2>1 DEF Procedures, initiateMultipartUpload, completeMultipartUpload,
                      abortMultipartUpload, Store, LoseWrite, AttemptsAreRemembered
<1>2. ASSUME NEW u \in Uploads, Expire(u) \/ ClaimTimesOut(u) PROVE AttemptsAreRemembered'
  BY <1>2 DEF Expire, ClaimTimesOut, AttemptsAreRemembered
<1>3. ASSUME NEW w \in Workers, NEW rows \in SUBSET Uploads, Claim(w, rows)
      PROVE  AttemptsAreRemembered'
  <2>1. \A u \in Uploads :
          /\ attempts'[u] \in Nat /\ attempts[u] \in Nat /\ attempts'[u] >= attempts[u]
          /\ u \in rows => status'[u] = "abandoned"
          /\ u \notin rows => status'[u] = status[u] /\ attempts'[u] = attempts[u]
    BY <1>0, <1>3 DEF Claim, TypeOK
  <2>2. ASSUME NEW v \in Workers, NEW u \in Uploads PROVE attempt'[v][u] <= attempts'[u]
    <3>1. CASE v = w
      BY <1>0, <1>3, <2>1, <3>1 DEF Claim, TypeOK
    <3>2. CASE v # w
      <4>1. attempt'[v][u] = attempt[v][u] /\ attempt[v][u] \in Nat
        BY <1>0, <1>3, <3>2 DEF Claim, TypeOK
      <4> QED
        BY <2>1, <4>1 DEF AttemptsAreRemembered
    <3> QED
      BY <3>1, <3>2
  <2>3. expired' = expired
    BY <1>3 DEF Claim
  <2> QED
    BY <2>1, <2>2, <2>3 DEF AttemptsAreRemembered
<1>4. ASSUME NEW w \in Workers, WriteVerdict(w) PROVE AttemptsAreRemembered'
  <2> DEFINE u == current[w]
  <2>1. /\ u \in Uploads /\ status' = [status EXCEPT ![u] = Verdict(w, u)]
        /\ attempt' = [attempt EXCEPT ![w] = [@ EXCEPT ![u] = 0]]
        /\ UNCHANGED <<expired, attempts>>
    BY <1>0, <1>4 DEF WriteVerdict, TypeOK
  <2>2. Verdict(w, u) # "absent"
        /\ (Verdict(w, u) = "cleanup_failed" => attempts[u] = MaxAttempts)
    <3>1. attempt[w][u] <= attempts[u]
      BY <2>1 DEF AttemptsAreRemembered
    <3>2. attempts[u] \in 0..MaxAttempts /\ attempt[w][u] \in 0..MaxAttempts
      BY <1>0, <2>1 DEF TypeOK
    <3>3. attempt[w][u] >= MaxAttempts => attempts[u] = MaxAttempts
      BY <3>1, <3>2
    <3> QED
      BY <3>3 DEF Verdict
  <2>3. \A v \in Workers, x \in Uploads : attempt'[v][x] = attempt[v][x] \/ attempt'[v][x] = 0
    BY <1>0, <2>1 DEF TypeOK
  <2> QED
    BY <1>0, <2>1, <2>2, <2>3 DEF AttemptsAreRemembered, TypeOK
<1>5. ASSUME NEW w \in Workers, BatchDies(w) PROVE AttemptsAreRemembered'
  <2>1. UNCHANGED <<status, expired, attempts>>
        /\ attempt' = [attempt EXCEPT ![w] = [u \in Uploads |-> 0]]
    BY <1>5 DEF BatchDies
  <2>2. \A v \in Workers, x \in Uploads : attempt'[v][x] = attempt[v][x] \/ attempt'[v][x] = 0
    BY <1>0, <2>1 DEF TypeOK
  <2> QED
    BY <1>0, <2>1, <2>2 DEF AttemptsAreRemembered, TypeOK
<1>6. ASSUME NEW w \in Workers, WriteFails(w) \/ \E u \in Uploads : CleanUp(w, u)
      PROVE  AttemptsAreRemembered'
  BY <1>6 DEF WriteFails, CleanUp, AttemptsAreRemembered
<1>7. CASE UNCHANGED vars
  BY <1>7 DEF vars, AttemptsAreRemembered
<1> QED
  BY <1>1, <1>2, <1>3, <1>4, <1>5, <1>6, <1>7 DEF Next, WorkerStep

\* An expired upload that still has its parts, and attempts left, can be claimed, at
\* the latest when the claim of a batch that died has timed out; none is given up
\* before its last attempt.
THEOREM StillReclaimable ==
  Spec => [](\A u \in Uploads :
               /\ parts[u] = "stored" /\ u \in expired /\ attempts[u] < MaxAttempts
                    => Claimable(u) \/ claim[u] = "fresh"
               /\ status[u] = "cleanup_failed" => attempts[u] = MaxAttempts)
<1> DEFINE Within == \A u \in Uploads :
             /\ parts[u] = "stored" /\ u \in expired /\ attempts[u] < MaxAttempts
                  => Claimable(u) \/ claim[u] = "fresh"
             /\ status[u] = "cleanup_failed" => attempts[u] = MaxAttempts
<1>1. Init => AttemptsAreRemembered
  BY DEF Init, AttemptsAreRemembered
<1>2. IInv /\ AttemptsAreRemembered => Within
  BY DEF IInv, TypeOK, RowsTellTheTruth, AttemptsAreRemembered, Claimable, Statuses
<1> QED
  BY <1>1, <1>2, RememberedStep, Invariance, PTL DEF Spec
=============================================================================
