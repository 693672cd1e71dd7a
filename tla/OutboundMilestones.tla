-------------------------- MODULE OutboundMilestones --------------------------
(***************************************************************************)
(* What the switch promises about an outbound transfer, without polls,     *)
(* snapshots, rows, approvals or faults: it is cleared before it is        *)
(* priced, priced before it is routed, routed before its prefund debit is  *)
(* called, debited before its settlement is confirmed, confirmed before it *)
(* is completed, completed before the participant is told, and nothing     *)
(* achieved is taken back.                                                 *)
(***************************************************************************)
CONSTANT Transfers

VARIABLE achieved  \* the milestones each transfer has reached

Milestones ==
  {"cleared", "priced", "routed", "debited", "confirmed", "completed", "told"}

\* The milestone that comes just before each one.
Before ==
  [cleared |-> {}, priced |-> {"cleared"}, routed |-> {"priced"},
   debited |-> {"routed"}, confirmed |-> {"debited"},
   completed |-> {"confirmed"}, told |-> {"completed"}]

Init == achieved = [t \in Transfers |-> {}]

Achieve(t, m) ==
  /\ Before[m] \subseteq achieved[t]
  /\ achieved' = [achieved EXCEPT ![t] = @ \union {m}]

Next == \E t \in Transfers, m \in Milestones : Achieve(t, m)

Spec == Init /\ [][Next]_achieved
=============================================================================
