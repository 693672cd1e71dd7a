-------------------------- MODULE OutboundProperties --------------------------
(***************************************************************************)
(* Properties of OutboundLifecycle.  The first group holds however many    *)
(* polls overlap; the second only when one poll runs at a time; the third  *)
(* is what the repository says and the code does not do.                   *)
(***************************************************************************)
EXTENDS OutboundLifecycle

\* Every variable keeps its type (the columns, counters and locals of the code).
TypeOK ==
  /\ status \in [Transfers -> Status]
  /\ lifecycleStep \in [Transfers -> Steps \union {"completed"}]
  /\ complianceResult \in [Transfers -> {"none", "clear", "blocked", "escalated"}]
  /\ fxRate \subseteq Transfers /\ provider \subseteq Transfers
  /\ completedAt \subseteq Transfers
  /\ screenings \in [Transfers -> SUBSET {Screening(answer) : answer \in Answers}]
  /\ events \in [Transfers -> SUBSET (Steps \union {"submitted"})]
  /\ notices \in [Transfers -> Nat] /\ debits \in [Transfers -> Nat]
  /\ approval \in [Transfers -> {"absent", "pending", "approved", "rejected"}]
  /\ releasing \subseteq Transfers /\ releases \in [Transfers -> Nat]
  /\ confirms \subseteq Transfers
  /\ pc \in [Polls -> Phases \union {"idle"}]
  /\ batch \in [Polls -> [Transfers -> Steps \union {None}]]
  /\ current \in [Polls -> Transfers \union {None}]
  /\ verdict \in [Polls -> Answers]
  /\ faults \in Nat

\* Released, screened clear, or screened with an answer that is none of the
\* decisions the worker knows, which it records as escalated and lets pass.
Cleared(t) ==
  \/ releases[t] > 0
  \/ \E screening \in screenings[t] :
       screening.decision = "clear" \/ screening.answer = "other"

\* What must have happened before a transfer is at a step.
Ready(t, step) ==
  /\ step \in {"Pricing", "Routing", "Settlement", "Audit", "completed"} => Cleared(t)
  /\ step \in {"Routing", "Settlement", "Audit", "completed"} => t \in fxRate
  /\ step \in {"Settlement", "Audit", "completed"} => t \in provider /\ debits[t] > 0
  /\ step \in {"Audit", "completed"} => t \in confirms
  /\ step = "completed" => t \in completedAt

(***************************************************************************)
(* However many polls overlap.                                             *)
(***************************************************************************)

\* The prefund of a participant is debited, or asked to be, only for a
\* transfer that was released or screened with an answer that neither blocked
\* nor escalated it, and priced and routed; the confirmation follows the debit
\* and the completion notice follows both, although the polls that do these
\* steps work on stale snapshots.
PaymentIsBacked ==
  \A t \in Transfers :
    /\ debits[t] > 0 => Cleared(t) /\ t \in fxRate /\ t \in provider
    /\ t \in confirms => debits[t] > 0
    /\ notices[t] > 0 => t \in completedAt /\ t \in confirms

\* The step a transfer's row shows was earned, even when a late poll moved
\* the row back or an administrator released it after it had gone on; and a
\* row marked clear without a release has a screening recorded clear, or one
\* whose answer was none of the three decisions.
RowIsBacked ==
  \A t \in Transfers :
    /\ Ready(t, lifecycleStep[t])
    /\ complianceResult[t] = "clear" => Cleared(t)

\* An event of the audit trail is written after the effects it reports: a
\* crash may lose an event, nothing makes up one.
EventsAreTruthful ==
  \A t \in Transfers : \A step \in events[t] \ {"submitted"} : Ready(t, NextStep[step])

\* The milestone of OutboundMilestones a transfer has reached.
Reached(t, m) ==
  \/ m = "cleared" /\ Cleared(t)
  \/ m = "priced" /\ t \in fxRate
  \/ m = "routed" /\ t \in provider
  \/ m = "debited" /\ debits[t] > 0
  \/ m = "confirmed" /\ t \in confirms
  \/ m = "completed" /\ t \in completedAt
  \/ m = "told" /\ notices[t] > 0

AllMilestones ==
  {"cleared", "priced", "routed", "debited", "confirmed", "completed", "told"}

Promise == INSTANCE OutboundMilestones WITH
  achieved <- [t \in Transfers |-> {m \in AllMilestones : Reached(t, m)}]

\* Every step of the worker, the administrators and the faults achieves the
\* next milestone of one transfer or none, and takes none back.
ImplementsMilestones == Promise!Spec

(***************************************************************************)
(* One poll at a time.                                                     *)
(***************************************************************************)
Row(t) ==
  <<status[t], lifecycleStep[t], complianceResult[t], t \in fxRate, t \in provider,
    t \in completedAt>>

\* A transfer that is completed, failed or held for review is left as it is
\* until an administrator releases it.
StoppedStays ==
  [][\A t \in Transfers :
       status[t] \in StoppedStatus /\ Row(t)' # Row(t) => t \in releasing]_vars

\* A second debit call, and a second completion notice, is the doing of a
\* fault or of a second release: the worker itself repeats neither.
RepeatsAreCharged ==
  \A t \in Transfers :
    LET allowance == (IF releases[t] > 1 THEN releases[t] ELSE 1) + faults
    IN  debits[t] <= allowance /\ notices[t] <= allowance

\* Every pending transfer is completed, failed or held for review in the end,
\* although a batch takes rows in any order and faults skip turns.
PendingTransfersStop ==
  \A t \in Transfers :
    status[t] \in PendingStatus ~> status[t] \in StoppedStatus

(***************************************************************************)
(* Said and not done.                                                      *)
(***************************************************************************)

\* A transfer the sanctions service blocked is not debited unless released.
SanctionsDecisionStands ==
  \A t \in Transfers :
    /\ \E screening \in screenings[t] : screening.decision = "blocked"
    /\ releases[t] = 0
    => debits[t] = 0
=============================================================================
