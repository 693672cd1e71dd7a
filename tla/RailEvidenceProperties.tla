------------------------ MODULE RailEvidenceProperties ------------------------
(***************************************************************************)
(* What must hold of RailEvidence.  Two history variables remember, for    *)
(* every lookup that runs, whether its settlement was provable, or was     *)
(* not, at some instant since the call began.                              *)
(***************************************************************************)
EXTENDS RailEvidence

VARIABLES
  proved,  \* lookups that ran in a state with a complete, valid proof
  doubted  \* lookups that ran in a state without one

InForce(k) == status[k] = "ACTIVE" /\ term[k] = "within"

ProofOf(t) ==
  IF confirmation[t] = None THEN "none"
  ELSE IF InForce(confirmation[t]) THEN "valid" ELSE "void"

Provable(t) ==
  t \in posted /\ t \in sagas /\ t \in expectations /\ ProofOf(t) = "valid"

Running(l) == pc[l] \in Asking

Observe ==
  /\ proved' = {l \in Lookups : \/ pc'[l] # "idle" /\ l \in proved
                                \/ Running(l)' /\ Provable(transfer[l])'}
  /\ doubted' = {l \in Lookups : \/ pc'[l] # "idle" /\ l \in doubted
                                 \/ Running(l)' /\ ~Provable(transfer[l])'}

HistoryInit == Init /\ proved = {} /\ doubted = {}
HistoryNext == Next /\ Observe
HistorySpec == HistoryInit /\ [][HistoryNext]_<<vars, proved, doubted>>

(***************************************************************************)
(* Safety.                                                                 *)
(***************************************************************************)

\* A stored confirmation was verified against its expectation by a key that
\* had come into force (RailConfirmationIngestHandler), whatever was revoked
\* or expired between the handler's reads and its insert.
ConfirmationWasVerified ==
  \A t \in Transfers : confirmation[t] # None =>
    /\ t \in expectations
    /\ status[confirmation[t]] # "absent"
    /\ term[confirmation[t]] # "before"

\* "settled" is answered only if posting, saga, expectation, confirmation and
\* a key in force existed together at one instant of the call, although
\* Projection.lookup reads them at five different instants.
\* "pending" and "missing" are answered only if at one instant of the call
\* the proof was incomplete: a settlement provable throughout is not missed.
AnswersWereTrue ==
  \A l \in Lookups :
    /\ pc[l] = "settled" => l \in proved
    /\ pc[l] = "unsettled" => l \in doubted

(***************************************************************************)
(* Refinement: what the rest of the switch sees of these rows.             *)
(***************************************************************************)
Seen == INSTANCE RailProof WITH
  expected <- expectations,
  proof <- [t \in Transfers |-> ProofOf(t)]

\* Keys, clocks, ingestions and lookups change the evidence of a transfer
\* only as RailProof allows: one confirmation, and never valid again.
ImplementsRailProof == Seen!Spec
=============================================================================
