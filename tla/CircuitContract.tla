--------------------------- MODULE CircuitContract ---------------------------
(***************************************************************************)
(* What a circuit breaker promises, without processes, leases or Redis:    *)
(* calls flow until enough of them failed, then none flows until the reset *)
(* time has passed, then a few probes decide whether calls flow again.     *)
(***************************************************************************)
VARIABLES gate, rested  \* the breaker's state, and whether the reset time has passed

Init == gate = "CLOSED" /\ rested = FALSE

Trip == gate \in {"CLOSED", "HALF_OPEN"} /\ gate' = "OPEN" /\ rested' = FALSE
Rest == gate = "OPEN" /\ rested' = TRUE /\ UNCHANGED gate
Probe == gate = "OPEN" /\ rested /\ gate' = "HALF_OPEN" /\ UNCHANGED rested
Recover == gate = "HALF_OPEN" /\ gate' = "CLOSED" /\ UNCHANGED rested

Next == Trip \/ Rest \/ Probe \/ Recover

Spec == Init /\ [][Next]_<<gate, rested>>
=============================================================================
