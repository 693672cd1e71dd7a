--------------------------- MODULE SettlementSaga ----------------------------
(***************************************************************************)
(* Execution and recovery of settlement windows: concurrent /execute       *)
(* requests of the Python settlement service, the external authoritative   *)
(* ledger they call, the evidence the Go reconciliation projection reads,  *)
(* and the leased workers that resolve quarantined windows.  Transactions  *)
(* are those of SettlementStore; every other step is one await of the      *)
(* handlers, so requests and workers interleave between any two of them.   *)
(***************************************************************************)
EXTENDS SettlementStore

CONSTANTS
  Requests,        \* concurrent invocations of execute_settlement
  NoWindow,        \* not handling a window
  LeaseCoversWork  \* TRUE: a lease outlives the work of a live holder

ASSUME SagaAssumption == /\ NoWindow \notin Windows
                         /\ LeaseCoversWork \in BOOLEAN

VARIABLES
  pc,         \* where each execute request is
  target,     \* the window it executes
  calls,      \* /v1/settlements/execute messages in flight
  posted,     \* settlements the ledger has posted, by canonical transfer ID
  expected,   \* payment_posting_expectations that match the posting
  railProof,  \* signed rail confirmation: "valid" while its key is active
  alive,      \* workers that have not crashed
  batch,      \* cases a worker claimed and has not processed yet
  handling,   \* the case a worker is processing
  verdict     \* what its lookup answered

requestVars  == <<pc, target, calls>>
evidenceVars == <<posted, expected, railProof>>
workerVars   == <<alive, batch, handling, verdict>>
vars == <<storeVars, requestVars, evidenceVars, workerVars>>

Stage == {"idle", "admitting", "dispatching", "awaiting", "answered", "failed"}

TypeOK ==
  /\ StoreTypeOK
  /\ pc        \in [Requests -> Stage]
  /\ target    \in [Requests -> Windows \union {NoWindow}]
  /\ calls     \subseteq Requests \X Windows
  /\ posted    \subseteq Windows
  /\ expected  \subseteq Windows
  /\ railProof \in [Windows -> {"none", "valid", "void"}]
  /\ alive     \subseteq Workers
  /\ batch     \in [Workers -> SUBSET Windows]
  /\ handling  \in [Workers -> Windows \union {NoWindow}]
  /\ verdict   \in [Workers -> {"none", "settled", "unsettled"}]

Init ==
  /\ StoreInit
  /\ pc        = [r \in Requests |-> "idle"]
  /\ target    = [r \in Requests |-> NoWindow]
  /\ calls     = {}
  /\ posted    = {}
  /\ expected  = {}
  /\ railProof = [w \in Windows |-> "none"]
  /\ alive     = Workers
  /\ batch     = [k \in Workers |-> {}]
  /\ handling  = [k \in Workers |-> NoWindow]
  /\ verdict   = [k \in Workers |-> "none"]

(***************************************************************************)
(* execute_settlement, one invocation r.                                   *)
(***************************************************************************)
Goto(r, stage) ==
  /\ pc' = [pc EXCEPT ![r] = stage]
  /\ target' = IF stage = "idle" THEN [target EXCEPT ![r] = NoWindow] ELSE target

\* get_window and the status checks; the answer is stale from here on.
\* A window in any other status is refused and nothing changes.
StartExecute(r, w) ==
  /\ pc[r] = "idle"
  /\ window[w] = "PROCESSING"
  /\ pc' = [pc EXCEPT ![r] = "admitting"]
  /\ target' = [target EXCEPT ![r] = w]
  /\ UNCHANGED <<storeVars, calls, evidenceVars, workerVars>>

\* The admission commits; its acknowledgement may be lost, and an exception
\* before dispatch_started only answers 500.
Admit(r) ==
  /\ pc[r] = "admitting"
  /\ AdmitSettlementSaga(target[r])
  /\ \E stage \in {"dispatching", "idle"} : Goto(r, stage)
  /\ UNCHANGED <<calls, evidenceVars, workerVars>>

\* Mutant: an exception of the admission does not stop the handler.
AdmitFailsUnnoticed(r) ==
  /\ pc[r] = "admitting"
  /\ Goto(r, "dispatching")
  /\ UNCHANGED <<storeVars, calls, evidenceVars, workerVars>>

\* Missing participant positions, a trigger's veto or a database error.
AdmitFails(r) ==
  /\ pc[r] = "admitting"
  /\ Goto(r, "idle")
  /\ UNCHANGED <<storeVars, calls, evidenceVars, workerVars>>

\* _ledger_request: the message leaves, or it never does.
Dispatch(r) ==
  /\ pc[r] = "dispatching"
  /\ Goto(r, "awaiting")
  /\ calls' = calls \union {<<r, target[r]>>}
  /\ UNCHANGED <<storeVars, evidenceVars, workerVars>>

DispatchFails(r) ==
  /\ pc[r] = "dispatching"
  /\ Goto(r, "failed")
  /\ UNCHANGED <<storeVars, calls, evidenceVars, workerVars>>

\* Mutant: any answer counts as finality evidence.
AnswerTrusted(r) ==
  /\ pc[r] = "awaiting"
  /\ Goto(r, "answered")
  /\ UNCHANGED <<storeVars, calls, evidenceVars, workerVars>>

\* Timeout, transport error, non-2xx status or no finality evidence.
AnswerFails(r) ==
  /\ pc[r] = "awaiting"
  /\ Goto(r, "failed")
  /\ UNCHANGED <<storeVars, calls, evidenceVars, workerVars>>

\* The completion commits; if its acknowledgement is lost the handler takes
\* the exception path although the window is settled.
Complete(r) ==
  /\ pc[r] = "answered"
  /\ CompleteSettlementSaga(target[r])
  /\ \E stage \in {"idle", "failed"} : Goto(r, stage)
  /\ UNCHANGED <<calls, evidenceVars, workerVars>>

CompleteFails(r) ==
  /\ pc[r] = "answered"
  /\ Goto(r, "failed")
  /\ UNCHANGED <<storeVars, calls, evidenceVars, workerVars>>

\* The exception handler: dispatch_started, so quarantine the window.
Quarantine(r) ==
  /\ pc[r] = "failed"
  /\ MarkReconciliationRequired(target[r])
  /\ Goto(r, "idle")
  /\ UNCHANGED <<calls, evidenceVars, workerVars>>

\* "Unable to quarantine ambiguous settlement window": logged, then 503.
QuarantineFails(r) ==
  /\ pc[r] = "failed"
  /\ Goto(r, "idle")
  /\ UNCHANGED <<storeVars, calls, evidenceVars, workerVars>>

CrashRequest(r) ==
  /\ pc[r] # "idle"
  /\ Goto(r, "idle")
  /\ UNCHANGED <<storeVars, calls, evidenceVars, workerVars>>

(***************************************************************************)
(* The authoritative ledger (external).  It posts a canonical transfer ID  *)
(* at most once and may do so long after the caller stopped waiting; an    *)
(* answer with finality evidence is given only for a posted settlement.    *)
(***************************************************************************)
LedgerExecutes(r, w) ==
  /\ <<r, w>> \in calls
  /\ calls' = calls \ {<<r, w>>}
  /\ posted' = posted \union {w}
  /\ \/ pc' = pc
     \/ /\ pc[r] = "awaiting" /\ target[r] = w
        /\ pc' = [pc EXCEPT ![r] = "answered"]
  /\ UNCHANGED <<storeVars, target, expected, railProof, workerVars>>

\* The call is lost, or the ledger rejects it.
LedgerDrops(r, w) ==
  /\ <<r, w>> \in calls
  /\ calls' = calls \ {<<r, w>>}
  /\ UNCHANGED <<storeVars, pc, target, evidenceVars, workerVars>>

(***************************************************************************)
(* Evidence the projection reads, whose steps are those of RailProof.      *)
(* InsertPostingExpectation has no caller in the program: some operator's  *)
(* tool may or may not use it.                                             *)
(***************************************************************************)
Evidence == INSTANCE RailProof WITH Transfers <- Windows, proof <- railProof

RecordExpectation(w) ==
  /\ Evidence!Record(w)
  /\ UNCHANGED <<storeVars, requestVars, posted, workerVars>>

IngestConfirmation(w) ==
  /\ Evidence!Confirm(w)
  /\ UNCHANGED <<storeVars, requestVars, posted, workerVars>>

RevokeSigningKey(signed) ==
  /\ Evidence!Void(signed)
  /\ UNCHANGED <<storeVars, requestVars, posted, workerVars>>

\* Mutant: a rail confirmation is proof without the ledger's posting.
ProvableByRail(w) ==
  /\ saga[w] # "none"
  /\ w \in expected
  /\ railProof[w] = "valid"

\* Projection.lookup answers "settled" only if all of these hold.
Provable(w) ==
  /\ w \in posted
  /\ saga[w] # "none"
  /\ w \in expected
  /\ railProof[w] = "valid"

(***************************************************************************)
(* SettlementReconciliationWorker, one process k: run_once claims a batch  *)
(* and processes its cases one after the other.                            *)
(***************************************************************************)

\* A case that another worker is resolving or reopening may be locked.
Claim(k) ==
  /\ k \in alive
  /\ batch[k] = {}
  /\ \E cases \in SUBSET Windows,
        locked \in SUBSET {w \in Windows : \E j \in alive \ {k} : handling[j] = w} :
       /\ ClaimCases(k, cases, locked)
       /\ batch' = [batch EXCEPT ![k] = cases]
  /\ UNCHANGED <<requestVars, evidenceVars, alive, handling, verdict>>

\* process_case on the next case of the batch: lookup_settlement answers.
Lookup(k, w, answer) ==
  /\ k \in alive
  /\ handling[k] = NoWindow
  /\ w \in batch[k]
  /\ older[w] \intersect batch[k] = {}
  /\ handling' = [handling EXCEPT ![k] = w]
  /\ verdict' = [verdict EXCEPT ![k] = answer]
  /\ UNCHANGED <<storeVars, requestVars, evidenceVars, alive, batch>>

LookupSettled(k) ==
  \E w \in Windows : Provable(w) /\ Lookup(k, w, "settled")

\* pending, missing, or an error, which can hit any lookup.
LookupUnsettled(k) ==
  \E w \in Windows : Lookup(k, w, "unsettled")

CaseDone(k) ==
  /\ batch' = [batch EXCEPT ![k] = @ \ {handling[k]}]
  /\ handling' = [handling EXCEPT ![k] = NoWindow]
  /\ verdict' = [verdict EXCEPT ![k] = "none"]

\* process_case caught an exception: it reopens the case next.
Excepted(k) ==
  /\ verdict' = [verdict EXCEPT ![k] = "unsettled"]
  /\ UNCHANGED <<batch, handling>>

\* The resolution commits; its acknowledgement may be lost.
Resolve(k) ==
  /\ k \in alive
  /\ verdict[k] = "settled"
  /\ ResolveCase(k, handling[k])
  /\ CaseDone(k) \/ Excepted(k)
  /\ UNCHANGED <<requestVars, evidenceVars, alive>>

\* The claim was lost, the window is not quarantined, or the database failed.
ResolveFails(k) ==
  /\ k \in alive
  /\ verdict[k] = "settled"
  /\ Excepted(k)
  /\ UNCHANGED <<storeVars, requestVars, evidenceVars, alive>>

Reopen(k) ==
  /\ k \in alive
  /\ verdict[k] = "unsettled"
  /\ ReopenCase(k, handling[k])
  /\ CaseDone(k)
  /\ UNCHANGED <<requestVars, evidenceVars, alive>>

\* A worker dies with its claims; a restarted process has a new identity.
\* The deployment keeps one replica running.
CrashWorker(k) ==
  /\ k \in alive
  /\ alive # {k}
  /\ alive' = alive \ {k}
  /\ batch' = [batch EXCEPT ![k] = {}]
  /\ handling' = [handling EXCEPT ![k] = NoWindow]
  /\ verdict' = [verdict EXCEPT ![k] = "none"]
  /\ UNCHANGED <<storeVars, requestVars, evidenceVars>>

LeaseRunsOut(w) ==
  /\ LeaseCoversWork => holder[w] \notin alive
  /\ ExpireLease(w)
  /\ UNCHANGED <<requestVars, evidenceVars, workerVars>>

(***************************************************************************)
(* Specification.                                                          *)
(***************************************************************************)
RequestStep(r) ==
  \/ Admit(r) \/ AdmitFails(r)
  \/ Dispatch(r) \/ DispatchFails(r) \/ AnswerFails(r)
  \/ Complete(r) \/ CompleteFails(r)
  \/ Quarantine(r) \/ QuarantineFails(r)

WorkerStep(k) ==
  \/ Claim(k)
  \/ LookupSettled(k) \/ LookupUnsettled(k)
  \/ Resolve(k) \/ ResolveFails(k) \/ Reopen(k)

WindowStep(w) ==
  \/ CreateWindow(w) /\ UNCHANGED <<requestVars, evidenceVars, workerVars>>
  \/ CloseWindow(w) /\ UNCHANGED <<requestVars, evidenceVars, workerVars>>
  \/ RecordExpectation(w) \/ IngestConfirmation(w)
  \/ LeaseRunsOut(w)

Next ==
  \/ \E w \in Windows : WindowStep(w)
  \/ \E signed \in SUBSET Windows : RevokeSigningKey(signed)
  \/ \E r \in Requests : RequestStep(r) \/ CrashRequest(r)
  \/ \E r \in Requests, w \in Windows :
       StartExecute(r, w) \/ LedgerExecutes(r, w) \/ LedgerDrops(r, w)
  \/ \E k \in Workers : WorkerStep(k) \/ CrashWorker(k)

Spec == Init /\ [][Next]_vars

(***************************************************************************)
(* A handler that runs is scheduled until it ends, and a call in flight    *)
(* arrives or is dropped.  The worker's loop is scheduled; lookups and     *)
(* resolutions succeed infinitely often when they are infinitely often     *)
(* possible, since the projection and the database recover from outages.   *)
(* Callers, operators, key holders and crashes owe nothing.                *)
(***************************************************************************)
Fairness ==
  /\ \A r \in Requests : WF_vars(RequestStep(r))
  /\ \A r \in Requests, w \in Windows : WF_vars(LedgerExecutes(r, w) \/ LedgerDrops(r, w))
  /\ \A w \in Windows : WF_vars(LeaseRunsOut(w))
  /\ \A k \in Workers : /\ WF_vars(WorkerStep(k))
                        /\ SF_vars(LookupSettled(k))
                        /\ SF_vars(Resolve(k))

FairSpec == Spec /\ Fairness
=============================================================================
