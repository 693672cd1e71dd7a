------------------------ MODULE SettlementProperties -------------------------
(***************************************************************************)
(* What must hold of SettlementSaga.                                       *)
(***************************************************************************)
EXTENDS SettlementSaga

(***************************************************************************)
(* Safety invariants.                                                      *)
(***************************************************************************)

\* A window is SETTLED only if the ledger has posted it, and a window that
\* reconciliation settled has its posting expectation and a confirmation on
\* file (complete_settlement_saga, resolve_case, Projection.lookup).
FinalityIsBacked ==
  \A w \in Windows :
    /\ window[w] = "SETTLED" => w \in posted
    /\ certificate[w] = "rail" => w \in expected /\ railProof[w] # "none"

\* Window, saga and idempotency key, written by five transactions in different
\* combinations, agree on finality, doubt and progress: the key reports no
\* completion of what is not final, and progress only of what was not quarantined.
StoresAgree ==
  \A w \in Windows :
    /\ window[w] = "SETTLED" <=> saga[w] = "SETTLED"
    /\ window[w] = "RECONCILIATION_REQUIRED" <=> saga[w] = "RECONCILIATION_REQUIRED"
    /\ window[w] = "SETTLED" <=> certificate[w] # "none"
    /\ idem[w] = "completed" => window[w] = "SETTLED"
    /\ idem[w] = "in_progress" <=> saga[w] = "ADMITTED"

\* A quarantined window has an unresolved case a worker can find, and an
\* unresolved case belongs to a quarantined window, so its resolution can
\* succeed ("settlement window is not quarantined for reconciliation").
QuarantineHasCase ==
  \A w \in Windows :
    window[w] = "RECONCILIATION_REQUIRED" <=> rcase[w] \in {"OPEN", "PROCESSING"}

\* admit_settlement_saga persists intent and outbox event before dispatch:
\* no message in flight and no posting lacks them, whatever crashed since.
IntentPrecedesMoney ==
  \A w \in Windows :
    (w \in posted \/ \E r \in Requests : <<r, w>> \in calls)
      => saga[w] # "none" /\ <<"saga.admitted", w>> \in outbox

\* Consumers of the outbox learn the outcome that happened: one of "settled"
\* and "resolved", never both, and "required" whenever a case was opened.
EventsMatchOutcome ==
  \A w \in Windows :
    /\ <<"saga.settled", w>> \in outbox <=> certificate[w] = "ledger"
    /\ <<"reconciliation.resolved", w>> \in outbox <=> certificate[w] = "rail"
    /\ <<"reconciliation.required", w>> \in outbox <=> rcase[w] # "none"

(***************************************************************************)
(* Action properties.                                                      *)
(***************************************************************************)

\* A settled window, its certificate and its saga never change again, even
\* under a forced close, a late answer or a second worker.
FinalIsImmutable ==
  [][\A w \in Windows : window[w] = "SETTLED" =>
       /\ window'[w] = "SETTLED"
       /\ certificate'[w] = certificate[w]
       /\ saga'[w] = saga[w]]_storeVars

\* A quarantined window leaves quarantine only by a worker's proof: not by a
\* late ledger answer, a repeated execution, or a forced close.
QuarantineNeedsProof ==
  [][\A w \in Windows :
       window[w] = "RECONCILIATION_REQUIRED" /\ window'[w] # window[w] =>
         /\ window'[w] = "SETTLED"
         /\ certificate'[w] = "rail"
         /\ w \in posted /\ w \in expected /\ railProof[w] # "none"]_vars

\* While a worker's lease is live, only that worker, with its own answer to
\* its own lookup, can end its claim: a slower worker that lost it cannot.
LiveClaimIsExclusive ==
  [][\A w \in Windows, k \in Workers :
       Holds(k, w) /\ lease[w] = "live" /\ ~Holds(k, w)' =>
         handling[k] = w /\ verdict[k] # "none"]_vars

(***************************************************************************)
(* Refinement: the saga rows and the ledger implement the promise.         *)
(***************************************************************************)
OutcomeOf(state) ==
  CASE state = "none"     -> "unrecorded"
    [] state = "ADMITTED" -> "intended"
    [] state = "RECONCILIATION_REQUIRED" -> "in doubt"
    [] state = "SETTLED"  -> "final"

Promise == INSTANCE SettlementPromise WITH
  Settlements <- Windows,
  outcome <- [w \in Windows |-> OutcomeOf(saga[w])],
  moved <- posted

\* Every step of the service, the workers and the ledger is a step of the
\* promise or changes nothing it speaks of.
KeepsPromise == Promise!Spec

(***************************************************************************)
(* Liveness, under FairSpec.                                               *)
(***************************************************************************)

\* A quarantined window whose outcome the projection can prove is resolved,
\* unless its proof is revoked first (run_forever, lease takeover).
QuarantineDrains ==
  \A w \in Windows :
    rcase[w] \in {"OPEN", "PROCESSING"} /\ Provable(w)
      ~> rcase[w] = "RESOLVED" \/ ~Provable(w)
=============================================================================
