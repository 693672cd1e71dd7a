--------------------------- MODULE SettlementProofs --------------------------
(***************************************************************************)
(* Proofs about SettlementSaga for any number of windows, requests and     *)
(* workers and any batch limit.                                            *)
(***************************************************************************)
EXTENDS SettlementProperties, TLAPS

(***************************************************************************)
(* The inductive invariant.                                                *)
(***************************************************************************)

\* A request that runs and a worker that has an answer are about some window.
Targeted ==
  /\ \A r \in Requests : pc[r] # "idle" => target[r] \in Windows
  /\ \A k \in Workers : verdict[k] # "none" => handling[k] \in Windows

\* The rows of one window, as every committed transaction leaves them.
RowsAgree(w) ==
  /\ saga[w] = "none" <=> idem[w] = "none"
  /\ idem[w] = "in_progress" <=> saga[w] = "ADMITTED"
  /\ idem[w] = "completed" => saga[w] = "SETTLED"
  /\ saga[w] = "ADMITTED" => window[w] = "PROCESSING"
  /\ saga[w] = "SETTLED" <=> window[w] = "SETTLED"
  /\ saga[w] = "RECONCILIATION_REQUIRED" <=> window[w] = "RECONCILIATION_REQUIRED"
  /\ certificate[w] # "none" <=> window[w] = "SETTLED"
  /\ rcase[w] \in {"OPEN", "PROCESSING"} <=> window[w] = "RECONCILIATION_REQUIRED"
  /\ rcase[w] = "RESOLVED" <=> certificate[w] = "rail"

\* The events of one window.
EventsAgree(w) ==
  /\ saga[w] # "none" => <<"saga.admitted", w>> \in outbox
  /\ <<"saga.settled", w>> \in outbox <=> certificate[w] = "ledger"
  /\ <<"reconciliation.resolved", w>> \in outbox <=> certificate[w] = "rail"
  /\ <<"reconciliation.required", w>> \in outbox <=> rcase[w] # "none"

\* The ledger and the evidence against the rows.
EvidenceAgrees(w) ==
  /\ w \in posted => saga[w] # "none"
  /\ window[w] = "SETTLED" => w \in posted
  /\ certificate[w] = "rail" => w \in expected /\ railProof[w] # "none"
  /\ \A r \in Requests : <<r, w>> \in calls => saga[w] # "none"

\* What a request knows of its window although its read is stale.
RequestKnows(r) ==
  /\ pc[r] # "idle" => window[target[r]] \notin {"none", "PENDING"}
  /\ pc[r] \in {"dispatching", "awaiting", "answered", "failed"} => saga[target[r]] # "none"
  /\ pc[r] = "answered" => target[r] \in posted

\* What a worker knows of its case although its claim may be lost.
WorkerKnows(k) ==
  verdict[k] = "settled" =>
    handling[k] \in posted /\ handling[k] \in expected /\ railProof[handling[k]] # "none"

\* All of it for every window, request and worker.
Agreement ==
  /\ \A w \in Windows : RowsAgree(w) /\ EventsAgree(w) /\ EvidenceAgrees(w)
  /\ \A r \in Requests : RequestKnows(r)
  /\ \A k \in Workers : WorkerKnows(k)

IInv == TypeOK /\ Targeted /\ Agreement

(***************************************************************************)
(* Type correctness.                                                       *)
(***************************************************************************)

\* Every step keeps every row, program counter and worker within its type.
LEMMA TypeStep == TypeOK /\ Targeted /\ [Next]_vars => TypeOK' /\ Targeted'
<1> SUFFICES ASSUME TypeOK, Targeted, [Next]_vars PROVE TypeOK' /\ Targeted'
  OBVIOUS
<1> USE StoreAssumption, SagaAssumption
    DEF Targeted, TypeOK, StoreTypeOK, WindowStatus, SagaState, KeyStatus, CaseState, EventType,
        Stage
<1>1. ASSUME NEW w \in Windows, WindowStep(w) PROVE TypeOK' /\ Targeted'
  <2>1. CASE CreateWindow(w) /\ UNCHANGED <<requestVars, evidenceVars, workerVars>>
    BY <2>1 DEF CreateWindow, requestVars, evidenceVars, workerVars
  <2>2. CASE CloseWindow(w) /\ UNCHANGED <<requestVars, evidenceVars, workerVars>>
    BY <2>2 DEF CloseWindow, requestVars, evidenceVars, workerVars
  <2>3. CASE RecordExpectation(w)
    BY <2>3 DEF RecordExpectation, Evidence!Record, storeVars, requestVars, workerVars
  <2>4. CASE IngestConfirmation(w)
    BY <2>4 DEF IngestConfirmation, Evidence!Confirm, storeVars, requestVars, workerVars
  <2>5. CASE LeaseRunsOut(w)
    BY <2>5 DEF LeaseRunsOut, ExpireLease, requestVars, evidenceVars, workerVars
  <2> QED
    BY <1>1, <2>1, <2>2, <2>3, <2>4, <2>5 DEF WindowStep
<1>2. ASSUME NEW r \in Requests, RequestStep(r) \/ CrashRequest(r) PROVE TypeOK' /\ Targeted'
  <2> USE DEF Goto
  <2>1. CASE Admit(r)
    BY <2>1 DEF Admit, AdmitSettlementSaga, Emit, evidenceVars, workerVars
  <2>2. CASE AdmitFails(r) \/ DispatchFails(r) \/ AnswerFails(r) \/ CompleteFails(r)
               \/ QuarantineFails(r) \/ CrashRequest(r)
    BY <2>2 DEF AdmitFails, DispatchFails, AnswerFails, CompleteFails, QuarantineFails,
                CrashRequest, storeVars, evidenceVars, workerVars
  <2>3. CASE Dispatch(r)
    BY <2>3 DEF Dispatch, storeVars, evidenceVars, workerVars
  <2>4. CASE Complete(r)
    BY <2>4 DEF Complete, CompleteSettlementSaga, UpdateSaga, UpdateKey, MoveWindow, Emit,
                evidenceVars, workerVars
  <2>5. CASE Quarantine(r)
    BY <2>5 DEF Quarantine, MarkReconciliationRequired, UpdateSaga, UpdateKey, MoveWindow,
                Emit, evidenceVars, workerVars
  <2> QED
    BY <1>2, <2>1, <2>2, <2>3, <2>4, <2>5 DEF RequestStep
<1>3. ASSUME NEW r \in Requests, NEW w \in Windows,
             StartExecute(r, w) \/ LedgerExecutes(r, w) \/ LedgerDrops(r, w)
      PROVE  TypeOK' /\ Targeted'
  BY <1>3 DEF StartExecute, LedgerExecutes, LedgerDrops, storeVars, evidenceVars, workerVars
<1>4. ASSUME NEW k \in Workers, WorkerStep(k) \/ CrashWorker(k) PROVE TypeOK' /\ Targeted'
  <2> USE DEF requestVars, evidenceVars
  <2>1. CASE Claim(k)
    BY <2>1 DEF Claim, ClaimCases, OldestFirst, Claimable
  <2>2. CASE LookupSettled(k) \/ LookupUnsettled(k)
    <3>1. PICK w \in Windows, answer \in {"settled", "unsettled"} : Lookup(k, w, answer)
      BY <2>2 DEF LookupSettled, LookupUnsettled
    <3> QED
      BY <3>1 DEF Lookup, storeVars
  <2>3. CASE Resolve(k)
    <3>1. handling[k] \in Windows
      BY <2>3 DEF Resolve
    <3>2. StoreTypeOK'
      BY <2>3, <3>1 DEF Resolve, ResolveCase, UpdateSaga, UpdateKey, MoveWindow, Emit
    <3> QED
      BY <2>3, <3>1, <3>2 DEF Resolve, CaseDone, Excepted
  <2>4. CASE ResolveFails(k)
    BY <2>4 DEF ResolveFails, Excepted, storeVars
  <2>5. CASE Reopen(k)
    BY <2>5 DEF Reopen, ReopenCase, CaseDone, Excepted, Holds
  <2>6. CASE CrashWorker(k)
    BY <2>6 DEF CrashWorker, storeVars
  <2> QED
    BY <1>4, <2>1, <2>2, <2>3, <2>4, <2>5, <2>6 DEF WorkerStep
<1>5. ASSUME NEW signed \in SUBSET Windows, RevokeSigningKey(signed) PROVE TypeOK' /\ Targeted'
  BY <1>5 DEF RevokeSigningKey, Evidence!Void, storeVars, requestVars, workerVars
<1>6. CASE UNCHANGED vars
  BY <1>6 DEF vars, storeVars, requestVars, evidenceVars, workerVars
<1> QED
  BY <1>1, <1>2, <1>3, <1>4, <1>5, <1>6 DEF Next

\* The type invariant of the settlement system, for every instance.
THEOREM TypeCorrect == Spec => []TypeOK
<1>1. Init => TypeOK /\ Targeted
  BY StoreAssumption, SagaAssumption
  DEF Init, StoreInit, Targeted, TypeOK, StoreTypeOK, WindowStatus, SagaState, KeyStatus, CaseState,
      EventType, Stage
<1> QED
  BY <1>1, TypeStep, PTL DEF Spec

(***************************************************************************)
(* The inductive step, one lemma for each kind of step.  A step that only  *)
(* moves requests, messages, evidence or workers cannot break the rows; a  *)
(* transaction is examined row by row.                                     *)
(***************************************************************************)

\* A confirmation that appears or becomes void takes no proof from anyone:
\* what was confirmed once stays on file.
LEMMA ProofStepAgrees ==
  ASSUME TypeOK, Targeted, Agreement,
         \A w \in Windows : railProof[w] # "none" => railProof'[w] # "none",
         UNCHANGED <<storeVars, requestVars, posted, expected, workerVars>>
  PROVE  Agreement'
<1> USE DEF TypeOK, StoreTypeOK, Targeted, storeVars, requestVars, workerVars
<1>1. ASSUME NEW v \in Windows PROVE RowsAgree(v)' /\ EventsAgree(v)' /\ EvidenceAgrees(v)'
  <2>1. RowsAgree(v) /\ EventsAgree(v) /\ EvidenceAgrees(v)
    BY DEF Agreement
  <2>2. RowsAgree(v)'
    BY <2>1 DEF RowsAgree
  <2>3. EventsAgree(v)'
    BY <2>1 DEF EventsAgree
  <2>4. EvidenceAgrees(v)'
    BY <2>1 DEF EvidenceAgrees
  <2> QED
    BY <2>2, <2>3, <2>4
<1>2. ASSUME NEW r \in Requests PROVE RequestKnows(r)'
  <2>1. RequestKnows(r)
    BY DEF Agreement
  <2> QED
    BY <2>1 DEF RequestKnows
<1>3. ASSUME NEW k \in Workers PROVE WorkerKnows(k)'
  <2>1. WorkerKnows(k)
    BY DEF Agreement
  <2> QED
    BY <2>1 DEF WorkerKnows
<1> QED
  BY <1>1, <1>2, <1>3 DEF Agreement

\* Creating or closing a window, recording its evidence, and an
\* expiring lease keep the rows, the events and the knowledge in agreement.
LEMMA WindowStepAgrees ==
  ASSUME TypeOK, Targeted, Agreement, NEW w \in Windows, WindowStep(w)
  PROVE  Agreement'
<1> USE DEF TypeOK, StoreTypeOK, Targeted
<1>1. CASE CreateWindow(w) /\ UNCHANGED <<requestVars, evidenceVars, workerVars>>
  <2> USE <1>1 DEF CreateWindow, requestVars, evidenceVars, workerVars
  <2>1. ASSUME NEW v \in Windows PROVE RowsAgree(v)' /\ EventsAgree(v)' /\ EvidenceAgrees(v)'
    <3>1. RowsAgree(v) /\ EventsAgree(v) /\ EvidenceAgrees(v)
      BY DEF Agreement
    <3>2. RowsAgree(v)'
      BY <3>1 DEF RowsAgree
    <3>3. EventsAgree(v)'
      BY <3>1 DEF EventsAgree
    <3>4. EvidenceAgrees(v)'
      BY <3>1 DEF EvidenceAgrees
    <3> QED
      BY <3>2, <3>3, <3>4
  <2>2. ASSUME NEW r \in Requests PROVE RequestKnows(r)'
    <3>1. RequestKnows(r)
      BY DEF Agreement
    <3> QED
      BY <3>1 DEF RequestKnows
  <2>3. ASSUME NEW k \in Workers PROVE WorkerKnows(k)'
    <3>1. WorkerKnows(k)
      BY DEF Agreement
    <3> QED
      BY <3>1 DEF WorkerKnows
  <2> QED
    BY <2>1, <2>2, <2>3 DEF Agreement
<1>2. CASE CloseWindow(w) /\ UNCHANGED <<requestVars, evidenceVars, workerVars>>
  <2> USE <1>2 DEF CloseWindow, WindowTransitionAllowed, requestVars, evidenceVars, workerVars
  <2>1. ASSUME NEW v \in Windows PROVE RowsAgree(v)' /\ EventsAgree(v)' /\ EvidenceAgrees(v)'
    <3>1. RowsAgree(v) /\ EventsAgree(v) /\ EvidenceAgrees(v)
      BY DEF Agreement
    <3>2. RowsAgree(v)'
      BY <3>1 DEF RowsAgree, WindowStatus
    <3>3. EventsAgree(v)'
      BY <3>1 DEF EventsAgree
    <3>4. EvidenceAgrees(v)'
      BY <3>1 DEF EvidenceAgrees
    <3> QED
      BY <3>2, <3>3, <3>4
  <2>2. ASSUME NEW r \in Requests PROVE RequestKnows(r)'
    <3>1. RequestKnows(r)
      BY DEF Agreement
    <3> QED
      BY <3>1 DEF RequestKnows
  <2>3. ASSUME NEW k \in Workers PROVE WorkerKnows(k)'
    <3>1. WorkerKnows(k)
      BY DEF Agreement
    <3> QED
      BY <3>1 DEF WorkerKnows
  <2> QED
    BY <2>1, <2>2, <2>3 DEF Agreement
<1>3. CASE RecordExpectation(w)
  <2> USE <1>3 DEF RecordExpectation, Evidence!Record, storeVars, requestVars, workerVars
  <2>1. ASSUME NEW v \in Windows PROVE RowsAgree(v)' /\ EventsAgree(v)' /\ EvidenceAgrees(v)'
    <3>1. RowsAgree(v) /\ EventsAgree(v) /\ EvidenceAgrees(v)
      BY DEF Agreement
    <3>2. RowsAgree(v)'
      BY <3>1 DEF RowsAgree
    <3>3. EventsAgree(v)'
      BY <3>1 DEF EventsAgree
    <3>4. EvidenceAgrees(v)'
      BY <3>1 DEF EvidenceAgrees
    <3> QED
      BY <3>2, <3>3, <3>4
  <2>2. ASSUME NEW r \in Requests PROVE RequestKnows(r)'
    <3>1. RequestKnows(r)
      BY DEF Agreement
    <3> QED
      BY <3>1 DEF RequestKnows
  <2>3. ASSUME NEW k \in Workers PROVE WorkerKnows(k)'
    <3>1. WorkerKnows(k)
      BY DEF Agreement
    <3> QED
      BY <3>1 DEF WorkerKnows
  <2> QED
    BY <2>1, <2>2, <2>3 DEF Agreement
<1>4. CASE IngestConfirmation(w)
  BY <1>4, ProofStepAgrees DEF IngestConfirmation, Evidence!Confirm, TypeOK
<1>5. CASE LeaseRunsOut(w)
  BY <1>5 DEF LeaseRunsOut, ExpireLease, requestVars, evidenceVars, workerVars, RowsAgree,
              EventsAgree, EvidenceAgrees, RequestKnows, WorkerKnows, Agreement
<1> QED
  BY <1>1, <1>2, <1>3, <1>4, <1>5 DEF WindowStep

\* A step that touches neither the store nor the evidence, and sends no call,
\* leaves the rows of every window in agreement.
LEMMA RowsKept ==
  ASSUME Agreement, UNCHANGED <<storeVars, evidenceVars>>, calls' \subseteq calls
  PROVE  \A w \in Windows : RowsAgree(w)' /\ EventsAgree(w)' /\ EvidenceAgrees(w)'
BY DEF Agreement, RowsAgree, EventsAgree, EvidenceAgrees, storeVars, evidenceVars

\* An execute request keeps the agreement: its admission, its dispatch, its
\* completion, its quarantine, and every way each of them can fail.
LEMMA RequestStepAgrees ==
  ASSUME TypeOK, Targeted, Agreement, NEW r \in Requests, RequestStep(r) \/ CrashRequest(r)
  PROVE  Agreement'
<1> USE DEF TypeOK, StoreTypeOK, Targeted, Goto
<1>1. CASE Admit(r)
  <2> USE <1>1 DEF Admit, AdmitSettlementSaga, Emit, SagaUpdateAllowed, evidenceVars, workerVars
  <2>0. /\ target[r] \in Windows
        /\ RequestKnows(r)
        /\ RowsAgree(target[r])
    BY DEF Agreement
  <2>1. ASSUME NEW v \in Windows PROVE RowsAgree(v)' /\ EventsAgree(v)' /\ EvidenceAgrees(v)'
    <3>1. RowsAgree(v) /\ EventsAgree(v) /\ EvidenceAgrees(v)
      BY DEF Agreement
    <3>2. RowsAgree(v)'
      BY <2>0, <3>1 DEF RowsAgree, RequestKnows, WindowStatus, SagaState
    <3>3. EventsAgree(v)'
      BY <2>0, <3>1 DEF EventsAgree
    <3>4. EvidenceAgrees(v)'
      BY <2>0, <3>1 DEF EvidenceAgrees
    <3> QED
      BY <3>2, <3>3, <3>4
  <2>2. ASSUME NEW q \in Requests PROVE RequestKnows(q)'
    <3>1. RequestKnows(q)
      BY DEF Agreement
    <3> QED
      BY <3>1 DEF RequestKnows
  <2>3. ASSUME NEW j \in Workers PROVE WorkerKnows(j)'
    <3>1. WorkerKnows(j)
      BY DEF Agreement
    <3> QED
      BY <3>1 DEF WorkerKnows
  <2> QED
    BY <2>1, <2>2, <2>3 DEF Agreement
<1>2. CASE \/ AdmitFails(r) \/ DispatchFails(r) \/ AnswerFails(r)
          \/ CompleteFails(r) \/ QuarantineFails(r) \/ CrashRequest(r)
  <2> USE <1>2 DEF AdmitFails, DispatchFails, AnswerFails, CompleteFails, QuarantineFails,
                   CrashRequest, storeVars, evidenceVars, workerVars
  <2>1. \A v \in Windows : RowsAgree(v)' /\ EventsAgree(v)' /\ EvidenceAgrees(v)'
    BY RowsKept
  <2>2. ASSUME NEW q \in Requests PROVE RequestKnows(q)'
    <3>1. RequestKnows(q)
      BY DEF Agreement
    <3> QED
      BY <3>1 DEF RequestKnows
  <2>3. ASSUME NEW j \in Workers PROVE WorkerKnows(j)'
    <3>1. WorkerKnows(j)
      BY DEF Agreement
    <3> QED
      BY <3>1 DEF WorkerKnows
  <2> QED
    BY <2>1, <2>2, <2>3 DEF Agreement
<1>3. CASE Dispatch(r)
  <2> USE <1>3 DEF Dispatch, storeVars, evidenceVars, workerVars
  <2>0. saga[target[r]] # "none"
    BY DEF Agreement, RequestKnows
  <2>1. ASSUME NEW v \in Windows PROVE RowsAgree(v)' /\ EventsAgree(v)' /\ EvidenceAgrees(v)'
    <3>1. RowsAgree(v) /\ EventsAgree(v) /\ EvidenceAgrees(v)
      BY DEF Agreement
    <3>2. RowsAgree(v)'
      BY <2>0, <3>1 DEF RowsAgree
    <3>3. EventsAgree(v)'
      BY <2>0, <3>1 DEF EventsAgree
    <3>4. EvidenceAgrees(v)'
      BY <2>0, <3>1 DEF EvidenceAgrees
    <3> QED
      BY <3>2, <3>3, <3>4
  <2>2. ASSUME NEW q \in Requests PROVE RequestKnows(q)'
    <3>1. RequestKnows(q)
      BY DEF Agreement
    <3> QED
      BY <3>1 DEF RequestKnows
  <2>3. ASSUME NEW j \in Workers PROVE WorkerKnows(j)'
    <3>1. WorkerKnows(j)
      BY DEF Agreement
    <3> QED
      BY <3>1 DEF WorkerKnows
  <2> QED
    BY <2>1, <2>2, <2>3 DEF Agreement
<1>4. CASE Complete(r)
  <2> USE <1>4 DEF Complete, CompleteSettlementSaga, UpdateSaga, UpdateKey, MoveWindow, Emit,
                   evidenceVars, workerVars
  <2>0. /\ target[r] \in Windows
        /\ target[r] \in posted
        /\ saga[target[r]] # "none"
        /\ RowsAgree(target[r])
    BY DEF Agreement, RequestKnows
  <2>1. ASSUME NEW v \in Windows PROVE RowsAgree(v)' /\ EventsAgree(v)' /\ EvidenceAgrees(v)'
    <3>1. RowsAgree(v) /\ EventsAgree(v) /\ EvidenceAgrees(v)
      BY DEF Agreement
    <3>2. RowsAgree(v)'
      BY <2>0, <3>1 DEF RowsAgree, WindowStatus, SagaState, CaseState
    <3>3. EventsAgree(v)'
      BY <2>0, <3>1 DEF EventsAgree, RowsAgree
    <3>4. EvidenceAgrees(v)'
      BY <2>0, <3>1 DEF EvidenceAgrees
    <3> QED
      BY <3>2, <3>3, <3>4
  <2>2. ASSUME NEW q \in Requests PROVE RequestKnows(q)'
    <3>1. RequestKnows(q)
      BY DEF Agreement
    <3> QED
      BY <3>1 DEF RequestKnows
  <2>3. ASSUME NEW j \in Workers PROVE WorkerKnows(j)'
    <3>1. WorkerKnows(j)
      BY DEF Agreement
    <3> QED
      BY <3>1 DEF WorkerKnows
  <2> QED
    BY <2>1, <2>2, <2>3 DEF Agreement
<1>5. CASE Quarantine(r)
  <2> USE <1>5 DEF Quarantine, MarkReconciliationRequired, UpdateSaga, UpdateKey, MoveWindow,
                   Emit, evidenceVars, workerVars
  <2>0. /\ target[r] \in Windows
        /\ saga[target[r]] # "none"
        /\ RowsAgree(target[r])
    BY DEF Agreement, RequestKnows
  <2>1. ASSUME NEW v \in Windows PROVE RowsAgree(v)' /\ EventsAgree(v)' /\ EvidenceAgrees(v)'
    <3>1. RowsAgree(v) /\ EventsAgree(v) /\ EvidenceAgrees(v)
      BY DEF Agreement
    <3>2. RowsAgree(v)'
      BY <2>0, <3>1 DEF RowsAgree, WindowStatus, SagaState, CaseState
    <3>3. EventsAgree(v)'
      BY <2>0, <3>1 DEF EventsAgree, RowsAgree
    <3>4. EvidenceAgrees(v)'
      BY <2>0, <3>1 DEF EvidenceAgrees
    <3> QED
      BY <3>2, <3>3, <3>4
  <2>2. ASSUME NEW q \in Requests PROVE RequestKnows(q)'
    <3>1. RequestKnows(q)
      BY DEF Agreement
    <3> QED
      BY <3>1 DEF RequestKnows
  <2>3. ASSUME NEW j \in Workers PROVE WorkerKnows(j)'
    <3>1. WorkerKnows(j)
      BY DEF Agreement
    <3> QED
      BY <3>1 DEF WorkerKnows
  <2> QED
    BY <2>1, <2>2, <2>3 DEF Agreement
<1> QED
  BY <1>1, <1>2, <1>3, <1>4, <1>5 DEF RequestStep

\* A new execution, and the ledger's execution or loss of a call however
\* late, keep the agreement.
LEMMA CallStepAgrees ==
  ASSUME TypeOK, Targeted, Agreement, NEW r \in Requests, NEW w \in Windows,
         StartExecute(r, w) \/ LedgerExecutes(r, w) \/ LedgerDrops(r, w)
  PROVE  Agreement'
<1> USE DEF TypeOK, StoreTypeOK, Targeted
<1>1. CASE StartExecute(r, w)
  <2> USE <1>1 DEF StartExecute, storeVars, evidenceVars, workerVars
  <2>1. \A v \in Windows : RowsAgree(v)' /\ EventsAgree(v)' /\ EvidenceAgrees(v)'
    BY RowsKept
  <2>2. ASSUME NEW q \in Requests PROVE RequestKnows(q)'
    <3>1. RequestKnows(q)
      BY DEF Agreement
    <3> QED
      BY <3>1 DEF RequestKnows
  <2>3. ASSUME NEW j \in Workers PROVE WorkerKnows(j)'
    <3>1. WorkerKnows(j)
      BY DEF Agreement
    <3> QED
      BY <3>1 DEF WorkerKnows
  <2> QED
    BY <2>1, <2>2, <2>3 DEF Agreement
<1>2. CASE LedgerExecutes(r, w)
  <2> USE <1>2 DEF LedgerExecutes, storeVars, workerVars
  <2>1. ASSUME NEW v \in Windows PROVE RowsAgree(v)' /\ EventsAgree(v)' /\ EvidenceAgrees(v)'
    <3>1. RowsAgree(v) /\ EventsAgree(v) /\ EvidenceAgrees(v)
      BY DEF Agreement
    <3>2. RowsAgree(v)'
      BY <3>1 DEF RowsAgree
    <3>3. EventsAgree(v)'
      BY <3>1 DEF EventsAgree
    <3>4. EvidenceAgrees(v)'
      BY <3>1 DEF EvidenceAgrees
    <3> QED
      BY <3>2, <3>3, <3>4
  <2>2. ASSUME NEW q \in Requests PROVE RequestKnows(q)'
    <3>1. RequestKnows(q)
      BY DEF Agreement
    <3> QED
      BY <3>1 DEF RequestKnows
  <2>3. ASSUME NEW j \in Workers PROVE WorkerKnows(j)'
    <3>1. WorkerKnows(j)
      BY DEF Agreement
    <3> QED
      BY <3>1 DEF WorkerKnows
  <2> QED
    BY <2>1, <2>2, <2>3 DEF Agreement
<1>3. CASE LedgerDrops(r, w)
  <2> USE <1>3 DEF LedgerDrops, storeVars, evidenceVars, workerVars
  <2>1. \A v \in Windows : RowsAgree(v)' /\ EventsAgree(v)' /\ EvidenceAgrees(v)'
    BY RowsKept
  <2>2. ASSUME NEW q \in Requests PROVE RequestKnows(q)'
    <3>1. RequestKnows(q)
      BY DEF Agreement
    <3> QED
      BY <3>1 DEF RequestKnows
  <2>3. ASSUME NEW j \in Workers PROVE WorkerKnows(j)'
    <3>1. WorkerKnows(j)
      BY DEF Agreement
    <3> QED
      BY <3>1 DEF WorkerKnows
  <2> QED
    BY <2>1, <2>2, <2>3 DEF Agreement
<1> QED
  BY <1>1, <1>2, <1>3

\* A worker keeps the agreement, whether its claim still stands or not.
LEMMA WorkerStepAgrees ==
  ASSUME TypeOK, Targeted, Agreement, NEW k \in Workers, WorkerStep(k) \/ CrashWorker(k)
  PROVE  Agreement'
<1> USE DEF TypeOK, StoreTypeOK, Targeted, requestVars, evidenceVars
<1>1. CASE Claim(k)
  <2>0. PICK cases \in SUBSET Windows, locked \in SUBSET Windows : ClaimCases(k, cases, locked)
    BY <1>1 DEF Claim
  <2> USE <1>1, <2>0 DEF Claim, ClaimCases, OldestFirst, Claimable
  <2>1. ASSUME NEW v \in Windows PROVE RowsAgree(v)' /\ EventsAgree(v)' /\ EvidenceAgrees(v)'
    <3>1. RowsAgree(v) /\ EventsAgree(v) /\ EvidenceAgrees(v)
      BY DEF Agreement
    <3>2. RowsAgree(v)'
      BY <3>1 DEF RowsAgree
    <3>3. EventsAgree(v)'
      BY <3>1 DEF EventsAgree
    <3>4. EvidenceAgrees(v)'
      BY <3>1 DEF EvidenceAgrees
    <3> QED
      BY <3>2, <3>3, <3>4
  <2>2. ASSUME NEW q \in Requests PROVE RequestKnows(q)'
    <3>1. RequestKnows(q)
      BY DEF Agreement
    <3> QED
      BY <3>1 DEF RequestKnows
  <2>3. ASSUME NEW j \in Workers PROVE WorkerKnows(j)'
    <3>1. WorkerKnows(j)
      BY DEF Agreement
    <3> QED
      BY <3>1 DEF WorkerKnows
  <2> QED
    BY <2>1, <2>2, <2>3 DEF Agreement
<1>2. CASE LookupSettled(k) \/ LookupUnsettled(k)
  <2>0. PICK w \in Windows, answer \in {"settled", "unsettled"} :
          Lookup(k, w, answer) /\ (answer = "settled" => Provable(w))
    BY <1>2 DEF LookupSettled, LookupUnsettled
  <2> USE <2>0 DEF Lookup, Provable, storeVars
  <2>1. \A v \in Windows : RowsAgree(v)' /\ EventsAgree(v)' /\ EvidenceAgrees(v)'
    BY RowsKept
  <2>2. ASSUME NEW q \in Requests PROVE RequestKnows(q)'
    <3>1. RequestKnows(q)
      BY DEF Agreement
    <3> QED
      BY <3>1 DEF RequestKnows
  <2>3. ASSUME NEW j \in Workers PROVE WorkerKnows(j)'
    <3>1. WorkerKnows(j)
      BY DEF Agreement
    <3> QED
      BY <3>1 DEF WorkerKnows
  <2> QED
    BY <2>1, <2>2, <2>3 DEF Agreement
<1>3. CASE Resolve(k)
  <2> USE <1>3 DEF Resolve, ResolveCase, CaseDone, Excepted, UpdateSaga, UpdateKey, MoveWindow,
                   Emit, Holds
  <2>0. /\ handling[k] \in Windows
        /\ WorkerKnows(k)
        /\ RowsAgree(handling[k])
    BY DEF Agreement
  <2>1. ASSUME NEW v \in Windows PROVE RowsAgree(v)' /\ EventsAgree(v)' /\ EvidenceAgrees(v)'
    <3>1. RowsAgree(v) /\ EventsAgree(v) /\ EvidenceAgrees(v)
      BY DEF Agreement
    <3>2. RowsAgree(v)'
      BY <2>0, <3>1 DEF RowsAgree
    <3>3. EventsAgree(v)'
      BY <2>0, <3>1 DEF EventsAgree, RowsAgree
    <3>4. EvidenceAgrees(v)'
      BY <2>0, <3>1 DEF EvidenceAgrees, WorkerKnows
    <3> QED
      BY <3>2, <3>3, <3>4
  <2>2. ASSUME NEW q \in Requests PROVE RequestKnows(q)'
    <3>1. RequestKnows(q)
      BY DEF Agreement
    <3> QED
      BY <3>1 DEF RequestKnows
  <2>3. ASSUME NEW j \in Workers PROVE WorkerKnows(j)'
    <3>1. WorkerKnows(j)
      BY DEF Agreement
    <3> QED
      BY <3>1 DEF WorkerKnows
  <2> QED
    BY <2>1, <2>2, <2>3 DEF Agreement
<1>4. CASE ResolveFails(k) \/ CrashWorker(k)
  <2> USE <1>4 DEF ResolveFails, Excepted, CrashWorker, storeVars
  <2>1. \A v \in Windows : RowsAgree(v)' /\ EventsAgree(v)' /\ EvidenceAgrees(v)'
    BY RowsKept
  <2>2. ASSUME NEW q \in Requests PROVE RequestKnows(q)'
    <3>1. RequestKnows(q)
      BY DEF Agreement
    <3> QED
      BY <3>1 DEF RequestKnows
  <2>3. ASSUME NEW j \in Workers PROVE WorkerKnows(j)'
    <3>1. WorkerKnows(j)
      BY DEF Agreement
    <3> QED
      BY <3>1 DEF WorkerKnows
  <2> QED
    BY <2>1, <2>2, <2>3 DEF Agreement
<1>5. CASE Reopen(k)
  <2> USE <1>5 DEF Reopen, ReopenCase, CaseDone, Excepted, Holds
  <2>0. handling[k] \in Windows
    OBVIOUS
  <2>1. ASSUME NEW v \in Windows PROVE RowsAgree(v)' /\ EventsAgree(v)' /\ EvidenceAgrees(v)'
    <3>1. RowsAgree(v) /\ EventsAgree(v) /\ EvidenceAgrees(v)
      BY DEF Agreement
    <3>2. RowsAgree(v)'
      BY <2>0, <3>1 DEF RowsAgree
    <3>3. EventsAgree(v)'
      BY <2>0, <3>1 DEF EventsAgree
    <3>4. EvidenceAgrees(v)'
      BY <2>0, <3>1 DEF EvidenceAgrees
    <3> QED
      BY <3>2, <3>3, <3>4
  <2>2. ASSUME NEW q \in Requests PROVE RequestKnows(q)'
    <3>1. RequestKnows(q)
      BY DEF Agreement
    <3> QED
      BY <3>1 DEF RequestKnows
  <2>3. ASSUME NEW j \in Workers PROVE WorkerKnows(j)'
    <3>1. WorkerKnows(j)
      BY DEF Agreement
    <3> QED
      BY <3>1 DEF WorkerKnows
  <2> QED
    BY <2>1, <2>2, <2>3 DEF Agreement
<1> QED
  BY <1>1, <1>2, <1>3, <1>4, <1>5 DEF WorkerStep

\* The inductive invariant holds in every reachable state.
THEOREM Inductive == Spec => []IInv
<1>1. Init => IInv
  BY StoreAssumption, SagaAssumption
  DEF Init, StoreInit, IInv, TypeOK, StoreTypeOK, Targeted, Agreement, RowsAgree, EventsAgree,
      EvidenceAgrees, RequestKnows, WorkerKnows, WindowStatus, SagaState, KeyStatus, CaseState,
      EventType, Stage
<1>2. IInv /\ [Next]_vars => IInv'
  <2> SUFFICES ASSUME TypeOK, Targeted, Agreement, [Next]_vars PROVE Agreement'
    BY TypeStep DEF IInv
  <2>1. CASE UNCHANGED vars
    BY <2>1 DEF vars, storeVars, requestVars, evidenceVars, workerVars, Agreement, RowsAgree,
                EventsAgree, EvidenceAgrees, RequestKnows, WorkerKnows
  <2>2. ASSUME NEW signed \in SUBSET Windows, RevokeSigningKey(signed) PROVE Agreement'
    BY <2>2, ProofStepAgrees DEF RevokeSigningKey, Evidence!Void, TypeOK
  <2> QED
    BY <2>1, <2>2, WindowStepAgrees, RequestStepAgrees, CallStepAgrees, WorkerStepAgrees DEF Next
<1> QED
  BY <1>1, <1>2, PTL DEF Spec

(***************************************************************************)
(* What follows from the inductive invariant in every state.               *)
(***************************************************************************)

\* Finality is backed by the ledger's posting and, when reconciliation
\* decided it, by the expectation and a rail confirmation.
THEOREM FinalityBacked == Spec => []FinalityIsBacked
<1>1. IInv => FinalityIsBacked
  BY DEF IInv, Agreement, EvidenceAgrees, FinalityIsBacked
<1> QED
  BY <1>1, Inductive, PTL

\* The window, the saga, the key and the certificate agree after every transaction.
THEOREM StoresInAgreement == Spec => []StoresAgree
<1>1. IInv => StoresAgree
  BY DEF IInv, Agreement, RowsAgree, StoresAgree
<1> QED
  BY <1>1, Inductive, PTL

\* A quarantined window and an unresolved case always come together.
THEOREM QuarantineCase == Spec => []QuarantineHasCase
<1>1. IInv => QuarantineHasCase
  BY DEF IInv, Agreement, RowsAgree, QuarantineHasCase
<1> QED
  BY <1>1, Inductive, PTL

\* No call in flight and no posting lacks its durable saga and its event.
THEOREM IntentFirst == Spec => []IntentPrecedesMoney
<1>1. IInv => IntentPrecedesMoney
  BY DEF IInv, Agreement, EvidenceAgrees, EventsAgree, IntentPrecedesMoney
<1> QED
  BY <1>1, Inductive, PTL

\* The outbox tells the outcome that happened.
THEOREM EventsTruthful == Spec => []EventsMatchOutcome
<1>1. IInv => EventsMatchOutcome
  BY DEF IInv, Agreement, EventsAgree, EventsMatchOutcome
<1> QED
  BY <1>1, Inductive, PTL

(***************************************************************************)
(* What a step may never do.                                               *)
(***************************************************************************)

\* Only six transactions write a window, its certificate or its saga.
LEMMA RowsChangeBy ==
  ASSUME [Next]_vars
  PROVE  \/ UNCHANGED <<window, certificate, saga>>
         \/ \E w \in Windows : CreateWindow(w) \/ CloseWindow(w)
         \/ \E r \in Requests : Admit(r) \/ Complete(r) \/ Quarantine(r)
         \/ \E k \in Workers : Resolve(k)
<1>1. ASSUME NEW w \in Windows, WindowStep(w)
      PROVE  CreateWindow(w) \/ CloseWindow(w) \/ UNCHANGED <<window, certificate, saga>>
  BY <1>1 DEF WindowStep, RecordExpectation, IngestConfirmation, LeaseRunsOut, ExpireLease,
              storeVars
<1>2. ASSUME NEW r \in Requests, RequestStep(r) \/ CrashRequest(r)
      PROVE  Admit(r) \/ Complete(r) \/ Quarantine(r) \/ UNCHANGED <<window, certificate, saga>>
  BY <1>2 DEF RequestStep, AdmitFails, Dispatch, DispatchFails, AnswerFails, CompleteFails,
              QuarantineFails, CrashRequest, storeVars
<1>3. ASSUME NEW r \in Requests, NEW w \in Windows,
             StartExecute(r, w) \/ LedgerExecutes(r, w) \/ LedgerDrops(r, w)
      PROVE  UNCHANGED <<window, certificate, saga>>
  BY <1>3 DEF StartExecute, LedgerExecutes, LedgerDrops, storeVars
<1>4. ASSUME NEW k \in Workers, WorkerStep(k) \/ CrashWorker(k)
      PROVE  Resolve(k) \/ UNCHANGED <<window, certificate, saga>>
  BY <1>4 DEF WorkerStep, Claim, ClaimCases, LookupSettled, LookupUnsettled, Lookup, ResolveFails,
              Excepted, Reopen, ReopenCase, CrashWorker, storeVars
<1>5. CASE \/ UNCHANGED vars
           \/ \E signed \in SUBSET Windows : RevokeSigningKey(signed)
  BY <1>5 DEF vars, RevokeSigningKey, storeVars
<1> QED
  BY <1>1, <1>2, <1>3, <1>4, <1>5 DEF Next

\* A settled window, its certificate and its saga never change again.
THEOREM FinalForever == Spec => FinalIsImmutable
<1> DEFINE Immutable ==
      \A w \in Windows : window[w] = "SETTLED" =>
        /\ window'[w] = "SETTLED"
        /\ certificate'[w] = certificate[w]
        /\ saga'[w] = saga[w]
<1>1. ASSUME IInv, [Next]_vars PROVE Immutable
  <2> SUFFICES ASSUME NEW v \in Windows, window[v] = "SETTLED"
               PROVE  /\ window'[v] = "SETTLED"
                      /\ certificate'[v] = certificate[v]
                      /\ saga'[v] = saga[v]
    OBVIOUS
  <2> USE <1>1 DEF IInv, TypeOK, StoreTypeOK, Targeted
  <2>1. saga[v] = "SETTLED"
    BY DEF Agreement, RowsAgree
  <2>2. CASE UNCHANGED <<window, certificate, saga>>
    BY <2>2
  <2>3. ASSUME NEW w \in Windows, CreateWindow(w) \/ CloseWindow(w)
        PROVE  window'[v] = "SETTLED" /\ UNCHANGED <<certificate, saga>>
    BY <2>3 DEF CreateWindow, CloseWindow, WindowTransitionAllowed
  <2>4. ASSUME NEW r \in Requests, Admit(r) \/ Complete(r) \/ Quarantine(r)
        PROVE  /\ window'[v] = "SETTLED"
               /\ certificate'[v] = certificate[v]
               /\ saga'[v] = saga[v]
    BY <2>1, <2>4
    DEF Admit, AdmitSettlementSaga, Complete, CompleteSettlementSaga, Quarantine,
        MarkReconciliationRequired, MoveWindow, UpdateSaga, Goto
  <2>5. ASSUME NEW k \in Workers, Resolve(k)
        PROVE  /\ window'[v] = "SETTLED"
               /\ certificate'[v] = certificate[v]
               /\ saga'[v] = saga[v]
    BY <2>1, <2>5 DEF Resolve, ResolveCase, MoveWindow, UpdateSaga
  <2> QED
    BY <2>2, <2>3, <2>4, <2>5, RowsChangeBy
<1>2. IInv /\ [Next]_vars => [Immutable]_storeVars
  BY <1>1
<1> QED
  BY <1>2, Inductive, PTL DEF Spec, FinalIsImmutable

\* A window leaves quarantine only by a worker's proof: a late answer, a
\* repeated execution and a forced close cannot move it.
THEOREM QuarantineProof == Spec => QuarantineNeedsProof
<1> DEFINE Proven ==
      \A w \in Windows :
        window[w] = "RECONCILIATION_REQUIRED" /\ window'[w] # window[w] =>
          /\ window'[w] = "SETTLED"
          /\ certificate'[w] = "rail"
          /\ w \in posted /\ w \in expected /\ railProof[w] # "none"
<1>1. ASSUME IInv, [Next]_vars PROVE Proven
  <2> SUFFICES ASSUME NEW v \in Windows,
                      window[v] = "RECONCILIATION_REQUIRED", window'[v] # window[v]
               PROVE  /\ window'[v] = "SETTLED"
                      /\ certificate'[v] = "rail"
                      /\ v \in posted /\ v \in expected /\ railProof[v] # "none"
    OBVIOUS
  <2> USE <1>1 DEF IInv, TypeOK, StoreTypeOK, Targeted
  <2>1. ASSUME NEW w \in Windows, CreateWindow(w) \/ CloseWindow(w) PROVE FALSE
    BY <2>1 DEF CreateWindow, CloseWindow, WindowTransitionAllowed
  <2>2. ASSUME NEW r \in Requests, Admit(r) \/ Complete(r) \/ Quarantine(r) PROVE FALSE
    BY <2>2 DEF Admit, AdmitSettlementSaga, Complete, CompleteSettlementSaga, Quarantine,
                MarkReconciliationRequired, MoveWindow, Goto
  <2>3. PICK k \in Workers : Resolve(k)
    BY <2>1, <2>2, RowsChangeBy
  <2>4. handling[k] = v /\ window'[v] = "SETTLED" /\ certificate'[v] = "rail"
    BY <2>3 DEF Resolve, ResolveCase, MoveWindow
  <2>5. v \in posted /\ v \in expected /\ railProof[v] # "none"
    BY <2>3, <2>4 DEF Resolve, Agreement, WorkerKnows
  <2> QED
    BY <2>4, <2>5
<1>2. IInv /\ [Next]_vars => [Proven]_vars
  BY <1>1
<1> QED
  BY <1>2, Inductive, PTL DEF Spec, QuarantineNeedsProof

\* Only these steps change a case, its claim or its age.
LEMMA ClaimChangeBy ==
  ASSUME [Next]_vars
  PROVE  \/ UNCHANGED <<rcase, holder, lease, older>>
         \/ \E w \in Windows : ExpireLease(w)
         \/ \E r \in Requests : Quarantine(r)
         \/ \E k \in Workers : Claim(k) \/ Resolve(k) \/ Reopen(k)
<1>1. ASSUME NEW w \in Windows, WindowStep(w)
      PROVE  ExpireLease(w) \/ UNCHANGED <<rcase, holder, lease, older>>
  BY <1>1 DEF WindowStep, CreateWindow, CloseWindow, RecordExpectation, IngestConfirmation,
              LeaseRunsOut, storeVars
<1>2. ASSUME NEW r \in Requests, RequestStep(r) \/ CrashRequest(r)
      PROVE  Quarantine(r) \/ UNCHANGED <<rcase, holder, lease, older>>
  BY <1>2 DEF RequestStep, Admit, AdmitSettlementSaga, AdmitFails, Dispatch, DispatchFails,
              AnswerFails, Complete, CompleteSettlementSaga, CompleteFails, QuarantineFails,
              CrashRequest, storeVars
<1>3. ASSUME NEW r \in Requests, NEW w \in Windows,
             StartExecute(r, w) \/ LedgerExecutes(r, w) \/ LedgerDrops(r, w)
      PROVE  UNCHANGED <<rcase, holder, lease, older>>
  BY <1>3 DEF StartExecute, LedgerExecutes, LedgerDrops, storeVars
<1>4. ASSUME NEW k \in Workers, WorkerStep(k) \/ CrashWorker(k)
      PROVE  Claim(k) \/ Resolve(k) \/ Reopen(k) \/ UNCHANGED <<rcase, holder, lease, older>>
  BY <1>4 DEF WorkerStep, LookupSettled, LookupUnsettled, Lookup, ResolveFails, Excepted,
              CrashWorker, storeVars
<1>5. CASE \/ UNCHANGED vars
           \/ \E signed \in SUBSET Windows : RevokeSigningKey(signed)
  BY <1>5 DEF vars, RevokeSigningKey, storeVars
<1> QED
  BY <1>1, <1>2, <1>3, <1>4, <1>5 DEF Next

\* A worker that lost its claim cannot end the claim of the one that has it.
THEOREM ClaimExclusive == Spec => LiveClaimIsExclusive
<1> DEFINE Exclusive ==
      \A w \in Windows, k \in Workers :
        Holds(k, w) /\ lease[w] = "live" /\ ~Holds(k, w)' =>
          handling[k] = w /\ verdict[k] # "none"
<1>1. ASSUME IInv, [Next]_vars PROVE Exclusive
  <2> SUFFICES ASSUME NEW w \in Windows, NEW k \in Workers,
                      Holds(k, w), lease[w] = "live", ~Holds(k, w)'
               PROVE  handling[k] = w /\ verdict[k] # "none"
    OBVIOUS
  <2> USE <1>1 DEF IInv, TypeOK, StoreTypeOK, Targeted, Holds
  <2>1. ASSUME NEW r \in Requests, Quarantine(r) PROVE FALSE
    BY <2>1 DEF Quarantine, MarkReconciliationRequired
  <2>2. ASSUME NEW j \in Workers, Claim(j) PROVE FALSE
    <3>1. PICK cases \in SUBSET Windows, locked \in SUBSET Windows : ClaimCases(j, cases, locked)
      BY <2>2 DEF Claim
    <3>2. w \notin cases
      BY <3>1 DEF ClaimCases, OldestFirst, Claimable
    <3> QED
      BY <3>1, <3>2 DEF ClaimCases
  <2>3. ASSUME NEW j \in Workers, Resolve(j) \/ Reopen(j)
        PROVE  handling[k] = w /\ verdict[k] # "none"
    BY <2>3 DEF Resolve, ResolveCase, Reopen, ReopenCase, CaseDone, Excepted
  <2>4. ASSUME NEW v \in Windows, ExpireLease(v) PROVE FALSE
    BY <2>4 DEF ExpireLease
  <2> QED
    BY <2>1, <2>2, <2>3, <2>4, ClaimChangeBy
<1>2. IInv /\ [Next]_vars => [Exclusive]_vars
  BY <1>1
<1> QED
  BY <1>2, Inductive, PTL DEF Spec, LiveClaimIsExclusive

(***************************************************************************)
(* Cases can be resolved: what QuarantineDrains needs in every state.      *)
(***************************************************************************)

\* A claim has a holder and a lease, so that it ends with one of them; and nothing
\* in the window's rows stands against the resolution of a case.
Resolvable(w) ==
  /\ rcase[w] = "PROCESSING" <=> holder[w] # Nobody
  /\ rcase[w] = "PROCESSING" <=> lease[w] # "none"
  /\ rcase[w] \in {"OPEN", "PROCESSING"} =>
       /\ window[w] = "RECONCILIATION_REQUIRED" /\ WindowTransitionAllowed(window[w], "SETTLED")
       /\ saga[w] = "RECONCILIATION_REQUIRED" /\ SagaUpdateAllowed(saga[w])
       /\ idem[w] # "in_progress"

Claims == \A w \in Windows : /\ rcase[w] = "PROCESSING" <=> holder[w] # Nobody
                             /\ rcase[w] = "PROCESSING" <=> lease[w] # "none"

\* What a quarantine does to the cases.
LEMMA QuarantineOpens ==
  ASSUME IInv, NEW r \in Requests, Quarantine(r)
  PROVE  LET w == target[r] IN
         /\ w \in Windows /\ rcase[w] = "none"
         /\ rcase' = [rcase EXCEPT ![w] = "OPEN"]
         /\ UNCHANGED <<holder, lease>>
<1>1. target[r] \in Windows /\ window[target[r]] = "PROCESSING"
  BY DEF Quarantine, MarkReconciliationRequired, MoveWindow, IInv, Targeted
<1>2. rcase[target[r]] = "none"
  BY <1>1 DEF IInv, Agreement, RowsAgree, TypeOK, StoreTypeOK, CaseState
<1> QED
  BY <1>1, <1>2 DEF Quarantine, MarkReconciliationRequired

\* In the other steps too a claim comes and goes with its holder and its lease.
LEMMA ClaimsMove ==
  ASSUME IInv, Claims, [Next]_vars, ~(\E r \in Requests : Quarantine(r))
  PROVE  Claims'
<1> USE StoreAssumption DEF IInv, TypeOK, StoreTypeOK
<1>1. ASSUME NEW k \in Workers, Claim(k) PROVE Claims'
  <2>1. PICK cases \in SUBSET Windows, locked \in SUBSET Windows : ClaimCases(k, cases, locked)
    BY <1>1 DEF Claim
  <2> QED
    BY <2>1 DEF ClaimCases, OldestFirst, Claimable, Claims
<1>2. ASSUME NEW k \in Workers, Resolve(k) PROVE Claims'
  BY <1>2 DEF Resolve, ResolveCase, Holds, Claims, Targeted
<1>3. ASSUME NEW k \in Workers, Reopen(k) PROVE Claims'
  BY <1>3 DEF Reopen, ReopenCase, Holds, Claims, Targeted
<1>4. ASSUME NEW w \in Windows, ExpireLease(w) PROVE Claims'
  BY <1>4 DEF ExpireLease, Claims
<1>5. CASE UNCHANGED <<rcase, holder, lease>>
  BY <1>5 DEF Claims
<1> QED
  BY <1>1, <1>2, <1>3, <1>4, <1>5, ClaimChangeBy

\* No case is stuck: a claim that a dead worker left runs out, and a worker that
\* holds a case is refused its resolution by no row and no trigger.
THEOREM CasesCanBeResolved == Spec => [](\A w \in Windows : Resolvable(w))
<1>1. Init => Claims
  BY DEF Init, StoreInit, Claims
<1>2. IInv /\ Claims /\ [Next]_vars => Claims'
  <2>1. ASSUME IInv, Claims, NEW r \in Requests, Quarantine(r) PROVE Claims'
    BY <2>1, QuarantineOpens DEF Claims, IInv, TypeOK, StoreTypeOK
  <2> QED
    BY <2>1, ClaimsMove
<1>3. IInv /\ Claims => \A w \in Windows : Resolvable(w)
  BY DEF IInv, Agreement, RowsAgree, Claims, Resolvable, WindowTransitionAllowed, SagaUpdateAllowed
<1> QED
  BY <1>1, <1>2, <1>3, Inductive, PTL DEF Spec

(***************************************************************************)
(* The settlement system implements the promise.                           *)
(***************************************************************************)

\* A transaction that moves one saga from one state to another is a step of
\* the promise that moves its outcome accordingly.
LEMMA OutcomeMoves ==
  ASSUME saga \in [Windows -> SagaState], NEW w \in Windows, NEW state \in SagaState,
         saga' = [saga EXCEPT ![w] = state]
  PROVE  [v \in Windows |-> OutcomeOf(saga[v])]'
           = [[v \in Windows |-> OutcomeOf(saga[v])] EXCEPT ![w] = OutcomeOf(state)]
OBVIOUS

\* Only these steps change what the promise speaks of.
LEMMA OutcomeChangeBy ==
  ASSUME [Next]_vars
  PROVE  \/ UNCHANGED <<saga, posted>>
         \/ \E r \in Requests, w \in Windows : LedgerExecutes(r, w)
         \/ \E r \in Requests : Admit(r) \/ Complete(r) \/ Quarantine(r)
         \/ \E k \in Workers : Resolve(k)
<1>1. UNCHANGED posted \/ \E r \in Requests, w \in Windows : LedgerExecutes(r, w)
  <2>1. ASSUME NEW w \in Windows, WindowStep(w) PROVE UNCHANGED posted
    BY <2>1 DEF WindowStep, RecordExpectation, IngestConfirmation, LeaseRunsOut, evidenceVars
  <2>2. ASSUME NEW r \in Requests, RequestStep(r) \/ CrashRequest(r) PROVE UNCHANGED posted
    BY <2>2 DEF RequestStep, Admit, AdmitFails, Dispatch, DispatchFails, AnswerFails, Complete,
                CompleteFails, Quarantine, QuarantineFails, CrashRequest, evidenceVars
  <2>3. ASSUME NEW r \in Requests, NEW w \in Windows, StartExecute(r, w) \/ LedgerDrops(r, w)
        PROVE  UNCHANGED posted
    BY <2>3 DEF StartExecute, LedgerDrops, evidenceVars
  <2>4. ASSUME NEW k \in Workers, WorkerStep(k) \/ CrashWorker(k) PROVE UNCHANGED posted
    BY <2>4 DEF WorkerStep, Claim, LookupSettled, LookupUnsettled, Lookup, Resolve, ResolveFails,
                Reopen, CrashWorker, evidenceVars
  <2>5. CASE \/ UNCHANGED vars
             \/ \E signed \in SUBSET Windows : RevokeSigningKey(signed)
    BY <2>5 DEF vars, RevokeSigningKey, evidenceVars
  <2> QED
    BY <2>1, <2>2, <2>3, <2>4, <2>5 DEF Next
<1>2. ASSUME NEW w \in Windows, CreateWindow(w) \/ CloseWindow(w) PROVE UNCHANGED saga
  BY <1>2 DEF CreateWindow, CloseWindow
<1> QED
  BY <1>1, <1>2, RowsChangeBy

\* The ledger's posting is the promise's move of money; every other step is
\* an intent, a doubt, a finalization or nothing to it.
THEOREM Implements == Spec => KeepsPromise
<1>1. Init => Promise!Init
  BY DEF Init, StoreInit, Promise!Init, OutcomeOf
<1>2. ASSUME IInv, [Next]_vars PROVE [Promise!Next]_(Promise!vars)
  <2> USE <1>2 DEF IInv, TypeOK, StoreTypeOK
  <2>1. CASE UNCHANGED <<saga, posted>>
    BY <2>1 DEF Promise!vars
  <2>2. ASSUME NEW r \in Requests, NEW w \in Windows, LedgerExecutes(r, w)
        PROVE  Promise!Move(w) \/ UNCHANGED <<saga, posted>>
    BY <2>2 DEF LedgerExecutes, Promise!Move, Agreement, EvidenceAgrees, OutcomeOf, SagaState,
                storeVars
  <2>3. ASSUME NEW r \in Requests, Admit(r)
        PROVE  Promise!Intend(target[r]) \/ UNCHANGED <<saga, posted>>
    <3>1. target[r] \in Windows /\ UNCHANGED posted
      BY <2>3 DEF Admit, Targeted, evidenceVars
    <3>2. CASE saga[target[r]] = "none"
      <4>1. saga' = [saga EXCEPT ![target[r]] = "ADMITTED"]
        BY <2>3, <3>2 DEF Admit, AdmitSettlementSaga
      <4> QED
        BY <3>1, <3>2, <4>1, OutcomeMoves DEF Promise!Intend, Promise!Record, OutcomeOf, SagaState
    <3>3. CASE saga[target[r]] # "none"
      BY <2>3, <3>1, <3>3 DEF Admit, AdmitSettlementSaga
    <3> QED
      BY <3>2, <3>3
  <2>4. ASSUME NEW r \in Requests, Complete(r)
        PROVE  Promise!Finalize(target[r])
    <3>1. target[r] \in Windows /\ target[r] \in posted /\ UNCHANGED posted
      BY <2>4 DEF Complete, Targeted, Agreement, RequestKnows, evidenceVars
    <3>2. saga[target[r]] = "ADMITTED"
      BY <2>4, <3>1
      DEF Complete, CompleteSettlementSaga, MoveWindow, Agreement, RequestKnows, RowsAgree,
          SagaState
    <3>3. saga' = [saga EXCEPT ![target[r]] = "SETTLED"]
      BY <2>4, <3>2 DEF Complete, CompleteSettlementSaga, UpdateSaga
    <3> QED
      BY <3>1, <3>2, <3>3, OutcomeMoves
      DEF Promise!Finalize, Promise!Record, OutcomeOf, SagaState
  <2>5. ASSUME NEW r \in Requests, Quarantine(r)
        PROVE  Promise!Doubt(target[r])
    <3>1. target[r] \in Windows /\ UNCHANGED posted
      BY <2>5 DEF Quarantine, Targeted, evidenceVars
    <3>2. saga[target[r]] = "ADMITTED"
      BY <2>5, <3>1
      DEF Quarantine, MarkReconciliationRequired, MoveWindow, Agreement, RequestKnows, RowsAgree,
          SagaState
    <3>3. saga' = [saga EXCEPT ![target[r]] = "RECONCILIATION_REQUIRED"]
      BY <2>5, <3>2 DEF Quarantine, MarkReconciliationRequired, UpdateSaga
    <3> QED
      BY <3>1, <3>2, <3>3, OutcomeMoves DEF Promise!Doubt, Promise!Record, OutcomeOf, SagaState
  <2>6. ASSUME NEW k \in Workers, Resolve(k)
        PROVE  Promise!Finalize(handling[k])
    <3>1. handling[k] \in Windows /\ handling[k] \in posted /\ UNCHANGED posted
      BY <2>6 DEF Resolve, Targeted, Agreement, WorkerKnows, evidenceVars
    <3>2. saga[handling[k]] = "RECONCILIATION_REQUIRED"
      BY <2>6, <3>1 DEF Resolve, ResolveCase, MoveWindow, Agreement, RowsAgree
    <3>3. saga' = [saga EXCEPT ![handling[k]] = "SETTLED"]
      BY <2>6, <3>2 DEF Resolve, ResolveCase, UpdateSaga
    <3> QED
      BY <3>1, <3>2, <3>3, OutcomeMoves
      DEF Promise!Finalize, Promise!Record, OutcomeOf, SagaState
  <2>7. \A w \in Windows : Promise!Move(w) \/ Promise!Intend(w) \/ Promise!Doubt(w)
                           \/ Promise!Finalize(w) => Promise!Next
    BY DEF Promise!Next
  <2>8. ASSUME NEW r \in Requests, Admit(r) \/ Complete(r) \/ Quarantine(r)
        PROVE  target[r] \in Windows
    BY <2>8 DEF Admit, Complete, Quarantine, Targeted
  <2>9. ASSUME NEW k \in Workers, Resolve(k) PROVE handling[k] \in Windows
    BY <2>9 DEF Resolve, Targeted
  <2> QED
    BY <2>1, <2>2, <2>3, <2>4, <2>5, <2>6, <2>7, <2>8, <2>9, OutcomeChangeBy
<1> QED
  BY <1>1, <1>2, Inductive, PTL DEF Spec, KeepsPromise, Promise!Spec
=============================================================================
