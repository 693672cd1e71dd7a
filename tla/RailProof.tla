------------------------------ MODULE RailProof ------------------------------
(***************************************************************************)
(* The evidence of a rail settlement as the rest of the switch sees it:    *)
(* an expectation is recorded once, one confirmation may follow it, and a  *)
(* confirmation that stops verifying never verifies again.  SettlementSaga *)
(* takes its evidence steps from here and RailEvidence implements them.    *)
(***************************************************************************)
CONSTANT Transfers

VARIABLES
  expected,  \* transfers with a posting expectation that matches the posting
  proof      \* of their confirmation: "none", "valid" or "void"

proofVars == <<expected, proof>>

Init ==
  /\ expected = {}
  /\ proof = [t \in Transfers |-> "none"]

Record(t) ==
  /\ t \notin expected
  /\ expected' = expected \union {t}
  /\ UNCHANGED proof

\* The signing key may leave force between verification and storing.
Confirm(t) ==
  /\ t \in expected
  /\ proof[t] = "none"
  /\ \E verifies \in {"valid", "void"} : proof' = [proof EXCEPT ![t] = verifies]
  /\ UNCHANGED expected

\* One key may have signed several confirmations; it leaves force for all.
Void(signed) ==
  /\ signed # {}
  /\ \A t \in signed : proof[t] = "valid"
  /\ proof' = [t \in Transfers |-> IF t \in signed THEN "void" ELSE proof[t]]
  /\ UNCHANGED expected

Next == \/ \E t \in Transfers : Record(t) \/ Confirm(t)
        \/ \E signed \in SUBSET Transfers : Void(signed)

Spec == Init /\ [][Next]_proofVars
=============================================================================
