--------------------------- MODULE SettlementStore ---------------------------
(***************************************************************************)
(* The PostgreSQL control plane of the settlement service: the rows the    *)
(* Python service and the reconciliation worker write, the row triggers of *)
(* migrations 0051 to 0053 that veto an update, and one action per         *)
(* transaction.  A transaction commits or has no effect.                   *)
(*                                                                         *)
(* The settlement identity, the idempotency key, the saga and the          *)
(* reconciliation case are all derived from the window                     *)
(* (settlement_id = "settlement-" + windowId), so every row is a function  *)
(* of the window.                                                          *)
(***************************************************************************)
EXTENDS Naturals, FiniteSets

CONSTANTS
  Windows,   \* settlement windows
  Workers,   \* identities of reconciliation worker processes
  Nobody,    \* claimed_by IS NULL
  Limit      \* claim_cases(limit): cases leased by one claim

ASSUME StoreAssumption == /\ Nobody \notin Workers
                          /\ Limit \in Nat \ {0}

VARIABLES
  window,       \* settlement_windows.status
  certificate,  \* settlement_windows.finality_certificate, by its origin
  saga,         \* payment_sagas.state
  idem,         \* idempotency_keys.status
  rcase,        \* settlement_reconciliation_cases.state
  holder,       \* settlement_reconciliation_cases.claimed_by
  lease,        \* settlement_reconciliation_cases.claim_expires_at
  older,        \* the cases that already existed when this one was created
  outbox        \* outbox_events, by deduplication key

storeVars == <<window, certificate, saga, idem, rcase, holder, lease, older, outbox>>

(***************************************************************************)
(* Types.  "none" is the absence of the row or a NULL column.              *)
(***************************************************************************)
WindowStatus == {"none", "PENDING", "PROCESSING", "SETTLED", "RECONCILIATION_REQUIRED"}
SagaState    == {"none", "ADMITTED", "RECONCILIATION_REQUIRED", "SETTLED"}
KeyStatus    == {"none", "in_progress", "completed", "reconciliation_required"}
CaseState    == {"none", "OPEN", "PROCESSING", "RESOLVED"}
EventType    == {"saga.admitted", "saga.settled",
                 "reconciliation.required", "reconciliation.resolved"}

StoreTypeOK ==
  /\ window      \in [Windows -> WindowStatus]
  /\ certificate \in [Windows -> {"none", "ledger", "rail"}]
  /\ saga        \in [Windows -> SagaState]
  /\ idem        \in [Windows -> KeyStatus]
  /\ rcase       \in [Windows -> CaseState]
  /\ holder      \in [Windows -> Workers \union {Nobody}]
  /\ lease       \in [Windows -> {"none", "live", "expired"}]
  /\ older       \in [Windows -> SUBSET Windows]
  /\ outbox      \subseteq EventType \X Windows

StoreInit ==
  /\ window      = [w \in Windows |-> "none"]
  /\ certificate = [w \in Windows |-> "none"]
  /\ saga        = [w \in Windows |-> "none"]
  /\ idem        = [w \in Windows |-> "none"]
  /\ rcase       = [w \in Windows |-> "none"]
  /\ holder      = [w \in Windows |-> Nobody]
  /\ lease       = [w \in Windows |-> "none"]
  /\ older       = [w \in Windows |-> {}]
  /\ outbox      = {}

(***************************************************************************)
(* Row triggers: BEFORE UPDATE functions that raise an exception, and so   *)
(* abort the transaction, unless the transition is allowed.                *)
(***************************************************************************)

\* Mutants of the trigger: migration 0051's, which does not know quarantine,
\* and one that forgets that SETTLED is final.
WindowTransitionOf0051(old, new) ==
  /\ old # "SETTLED"
  /\ old = "PENDING" => new \in {"PENDING", "PROCESSING", "CANCELLED"}
  /\ old = "PROCESSING" => new \in {"PROCESSING", "SETTLED", "RECONCILIATION_REQUIRED"}

WindowTransitionNotFinal(old, new) ==
  /\ old = "PENDING" => new \in {"PENDING", "PROCESSING", "CANCELLED"}
  /\ old = "PROCESSING" => new \in {"PROCESSING", "SETTLED", "RECONCILIATION_REQUIRED"}
  /\ old = "RECONCILIATION_REQUIRED" => new \in {"RECONCILIATION_REQUIRED", "SETTLED"}

\* enforce_settlement_window_transition (its version of migration 0052).
WindowTransitionAllowed(old, new) ==
  /\ old # "SETTLED"
  /\ old = "PENDING" => new \in {"PENDING", "PROCESSING", "CANCELLED"}
  /\ old = "PROCESSING" => new \in {"PROCESSING", "SETTLED", "RECONCILIATION_REQUIRED"}
  /\ old = "RECONCILIATION_REQUIRED" => new \in {"RECONCILIATION_REQUIRED", "SETTLED"}

\* enforce_cross_store_saga_transition: a final saga row admits no update.
SagaUpdateAllowed(old) == old \notin {"SETTLED", "REVERSED"}

\* enforce_idempotency_key_transition (its version of migration 0053).
KeyTransitionAllowed(old, new) ==
  /\ old \notin {"completed", "rejected"}
  /\ old = "in_progress" =>
       new \in {"in_progress", "completed", "rejected", "reconciliation_required"}
  /\ old = "reconciliation_required" => new \in {"reconciliation_required", "completed"}

(***************************************************************************)
(* UPDATE statements.  Each has the WHERE clause of the code: rows it does *)
(* not match are left alone and fire no trigger.                           *)
(***************************************************************************)

\* UPDATE payment_sagas ... WHERE state NOT IN ('SETTLED', 'REVERSED')
UpdateSaga(w, state) ==
  LET matches == saga[w] \notin {"none", "SETTLED", "REVERSED"} IN
  /\ matches => SagaUpdateAllowed(saga[w])
  /\ saga' = IF matches THEN [saga EXCEPT ![w] = state] ELSE saga

\* UPDATE idempotency_keys ... WHERE status = 'in_progress'
UpdateKey(w, status) ==
  LET matches == idem[w] = "in_progress" IN
  /\ matches => KeyTransitionAllowed(idem[w], status)
  /\ idem' = IF matches THEN [idem EXCEPT ![w] = status] ELSE idem

\* Mutant: the WHERE clause does not ask for the status.
MoveAnyWindow(w, from, to) ==
  /\ WindowTransitionAllowed(window[w], to)
  /\ window' = [window EXCEPT ![w] = to]

\* UPDATE settlement_windows ... WHERE status = from RETURNING: no row is an error.
MoveWindow(w, from, to) ==
  /\ window[w] = from
  /\ WindowTransitionAllowed(window[w], to)
  /\ window' = [window EXCEPT ![w] = to]

\* INSERT INTO outbox_events ... ON CONFLICT (deduplication_key) DO NOTHING
Emit(type, w) == outbox' = outbox \union {<<type, w>>}

(***************************************************************************)
(* Transactions of persistence.py.                                         *)
(***************************************************************************)

CreateWindow(w) ==
  /\ window[w] = "none"
  /\ window' = [window EXCEPT ![w] = "PENDING"]
  /\ UNCHANGED <<certificate, saga, idem, rcase, holder, lease, older, outbox>>

(***************************************************************************)
(* close_settlement_window reads the status, refuses anything but PENDING  *)
(* unless the caller forces it, and then updates the row whatever it holds *)
(* by now.  A forced close, or one whose read is stale, therefore issues   *)
(* the update at any time; only the trigger can refuse it.                 *)
(***************************************************************************)
CloseWindow(w) ==
  /\ window[w] # "none"
  /\ WindowTransitionAllowed(window[w], "PROCESSING")
  /\ window' = [window EXCEPT ![w] = "PROCESSING"]
  /\ UNCHANGED <<certificate, saga, idem, rcase, holder, lease, older, outbox>>

\* admit_settlement_saga: the conflict clause on the saga row is an UPDATE,
\* so a settled saga makes the trigger abort the whole admission.
AdmitSettlementSaga(w) ==
  /\ saga[w] # "none" => SagaUpdateAllowed(saga[w])
  /\ idem' = IF idem[w] = "none" THEN [idem EXCEPT ![w] = "in_progress"] ELSE idem
  /\ saga' = IF saga[w] = "none" THEN [saga EXCEPT ![w] = "ADMITTED"] ELSE saga
  /\ Emit("saga.admitted", w)
  /\ UNCHANGED <<window, certificate, rcase, holder, lease, older>>

\* Mutant: a window row that was not updated is not an error.
CompleteWithoutRowCheck(w) ==
  /\ UpdateSaga(w, "SETTLED")
  /\ UpdateKey(w, "completed")
  /\ IF window[w] = "PROCESSING" THEN MoveWindow(w, "PROCESSING", "SETTLED") ELSE UNCHANGED window
  /\ certificate' = [certificate EXCEPT ![w] = "ledger"]
  /\ Emit("saga.settled", w)
  /\ UNCHANGED <<rcase, holder, lease, older>>

CompleteSettlementSaga(w) ==
  /\ UpdateSaga(w, "SETTLED")
  /\ UpdateKey(w, "completed")
  /\ MoveWindow(w, "PROCESSING", "SETTLED")
  /\ certificate' = [certificate EXCEPT ![w] = "ledger"]
  /\ Emit("saga.settled", w)
  /\ UNCHANGED <<rcase, holder, lease, older>>

\* The case row is inserted once; a conflict only rewrites its reason, so a
\* case that exists keeps its state, its lease and its age.
MarkReconciliationRequired(w) ==
  /\ MoveWindow(w, "PROCESSING", "RECONCILIATION_REQUIRED")
  /\ UpdateSaga(w, "RECONCILIATION_REQUIRED")
  /\ UpdateKey(w, "reconciliation_required")
  /\ IF rcase[w] = "none"
       THEN /\ rcase' = [rcase EXCEPT ![w] = "OPEN"]
            /\ older' = [older EXCEPT ![w] = {v \in Windows : rcase[v] # "none"}]
       ELSE UNCHANGED <<rcase, older>>
  /\ Emit("reconciliation.required", w)
  /\ UNCHANGED <<certificate, holder, lease>>

(***************************************************************************)
(* Transactions of reconciliation_worker.py.                               *)
(***************************************************************************)

\* Mutant: expired claims are not taken over.
OnlyOpen == {w \in Windows : rcase[w] = "OPEN"}

Claimable == {w \in Windows : \/ rcase[w] = "OPEN"
                              \/ rcase[w] = "PROCESSING" /\ lease[w] = "expired"}

\* The rows a claim selects: ORDER BY created_at FOR UPDATE SKIP LOCKED LIMIT $1.
OldestFirst(batch, free) ==
  /\ batch \subseteq free
  /\ \A w \in batch : older[w] \intersect free \subseteq batch
  /\ \/ batch = free /\ Cardinality(batch) <= Limit
     \/ Cardinality(batch) = Limit

ClaimCases(k, batch, locked) ==
  /\ batch # {}
  /\ OldestFirst(batch, Claimable \ locked)
  /\ rcase'  = [w \in Windows |-> IF w \in batch THEN "PROCESSING" ELSE rcase[w]]
  /\ holder' = [w \in Windows |-> IF w \in batch THEN k ELSE holder[w]]
  /\ lease'  = [w \in Windows |-> IF w \in batch THEN "live" ELSE lease[w]]
  /\ UNCHANGED <<window, certificate, saga, idem, older, outbox>>

Holds(k, w) == rcase[w] = "PROCESSING" /\ holder[w] = k

\* Mutant: the outbox event of the other way to finality.
ResolveWithWrongEvent(k, w) ==
  /\ Holds(k, w)
  /\ UpdateSaga(w, "SETTLED")
  /\ UpdateKey(w, "completed")
  /\ MoveWindow(w, "RECONCILIATION_REQUIRED", "SETTLED")
  /\ certificate' = [certificate EXCEPT ![w] = "rail"]
  /\ rcase'  = [rcase EXCEPT ![w] = "RESOLVED"]
  /\ holder' = [holder EXCEPT ![w] = Nobody]
  /\ lease'  = [lease EXCEPT ![w] = "none"]
  /\ Emit("saga.settled", w)
  /\ UNCHANGED older

\* resolve_case: the claim is checked by identity, not by expiry time.
ResolveCase(k, w) ==
  /\ Holds(k, w)
  /\ UpdateSaga(w, "SETTLED")
  /\ UpdateKey(w, "completed")
  /\ MoveWindow(w, "RECONCILIATION_REQUIRED", "SETTLED")
  /\ certificate' = [certificate EXCEPT ![w] = "rail"]
  /\ rcase'  = [rcase EXCEPT ![w] = "RESOLVED"]
  /\ holder' = [holder EXCEPT ![w] = Nobody]
  /\ lease'  = [lease EXCEPT ![w] = "none"]
  /\ Emit("reconciliation.resolved", w)
  /\ UNCHANGED older

\* Mutant: WHERE case_id=$1 AND status='PROCESSING', without claimed_by.
ReopenAnyClaim(k, w) ==
  /\ IF rcase[w] = "PROCESSING"
       THEN /\ rcase'  = [rcase EXCEPT ![w] = "OPEN"]
            /\ holder' = [holder EXCEPT ![w] = Nobody]
            /\ lease'  = [lease EXCEPT ![w] = "none"]
       ELSE UNCHANGED <<rcase, holder, lease>>
  /\ UNCHANGED <<window, certificate, saga, idem, older, outbox>>

\* reopen_case: a claim that was lost makes it a logged no-op.
ReopenCase(k, w) ==
  /\ IF Holds(k, w)
       THEN /\ rcase'  = [rcase EXCEPT ![w] = "OPEN"]
            /\ holder' = [holder EXCEPT ![w] = Nobody]
            /\ lease'  = [lease EXCEPT ![w] = "none"]
       ELSE UNCHANGED <<rcase, holder, lease>>
  /\ UNCHANGED <<window, certificate, saga, idem, older, outbox>>

\* claim_expires_at < NOW(): the clock passes a lease while it is held.
ExpireLease(w) ==
  /\ rcase[w] = "PROCESSING"
  /\ lease[w] = "live"
  /\ lease' = [lease EXCEPT ![w] = "expired"]
  /\ UNCHANGED <<window, certificate, saga, idem, rcase, holder, older, outbox>>
=============================================================================
