-------------------------- MODULE SettlementPromise --------------------------
(***************************************************************************)
(* What the switch promises about the money of a settlement, without       *)
(* windows, keys, cases, leases, requests or workers: money moves only     *)
(* after a durable intent, a settlement is declared final only after the   *)
(* money moved, doubt is resolved only into finality, and finality lasts.  *)
(***************************************************************************)
CONSTANT Settlements

VARIABLES
  outcome,  \* what the switch has durably recorded
  moved     \* settlements whose money moved

vars == <<outcome, moved>>

TypeOK ==
  /\ outcome \in [Settlements -> {"unrecorded", "intended", "in doubt", "final"}]
  /\ moved \subseteq Settlements

Init ==
  /\ outcome = [s \in Settlements |-> "unrecorded"]
  /\ moved = {}

Record(s, from, to) ==
  /\ outcome[s] \in from
  /\ outcome' = [outcome EXCEPT ![s] = to]
  /\ UNCHANGED moved

Intend(s) == Record(s, {"unrecorded"}, "intended")

Doubt(s) == Record(s, {"intended"}, "in doubt")

Finalize(s) == s \in moved /\ Record(s, {"intended", "in doubt"}, "final")

Move(s) ==
  /\ outcome[s] # "unrecorded"
  /\ s \notin moved
  /\ moved' = moved \union {s}
  /\ UNCHANGED outcome

Next == \E s \in Settlements : Intend(s) \/ Doubt(s) \/ Finalize(s) \/ Move(s)

Spec == Init /\ [][Next]_vars
=============================================================================
