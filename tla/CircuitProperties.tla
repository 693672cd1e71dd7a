--------------------------- MODULE CircuitProperties ---------------------------
(***************************************************************************)
(* Properties of CircuitBreaker: who may change the breaker's state, how   *)
(* many probes a recovering service gets, and that it does recover.        *)
(***************************************************************************)
EXTENDS CircuitBreaker

\* Every variable keeps its type (the hash, the lease set, the objects, the calls).
TypeOK ==
  /\ distributed \in BOOLEAN /\ home \in Placements
  /\ shared \in [state : GateState, failures : 0..FailureThreshold,
                 successes : 0..SuccessThreshold, cooled : BOOLEAN]
  /\ leases \subseteq Tokens /\ alive \subseteq leases
  /\ local \in [Procs -> [state : GateState, failures : 0..FailureThreshold,
                          successes : 0..SuccessThreshold, cooled : BOOLEAN,
                          inFlight : Int]]
  /\ calls \in [Calls -> [phase : {"idle", "asked", "running", "recording", "recorded"},
                          seen : GateState, token : Tokens \union {None},
                          probe : BOOLEAN, outcome : {"success", "failure", "neutral"}]]

\* With shared state, no more than MaxProbes calls of all processes together
\* probe a half-open service on leases of the present half-open period that have
\* not run out, whatever answers and processes are lost in between.
ProbesWithinLimit ==
  Cardinality({c \in Calls : calls[c].token \in alive}) <= MaxProbes

\* "Its late result must not count as a half-open probe result": with shared
\* state a half-open breaker opens or closes only on the answer of a call that
\* was granted a lease.
OnlyProbesDecide ==
  [][shared.state = "HALF_OPEN" /\ shared'.state # "HALF_OPEN" =>
       \E c \in Calls : calls[c].phase = "recording" /\ calls[c].token # None]_vars

\* The shared breaker goes round as the contract says: in particular it never
\* closes without a half-open period and never probes before the reset time
\* that began when it last opened, however the processes' scripts interleave.
Shared == INSTANCE CircuitContract WITH gate <- shared.state, rested <- shared.cooled
KeepsContract == Shared!Spec

\* So does the object of each process that decides alone, until it restarts.
Object(p) == INSTANCE CircuitContract
               WITH gate <- local[p].state, rested <- local[p].cooled
ObjectsKeepContract ==
  [][\A p \in Procs : distributed \/ local'[p] = FreshLocal \/ Object(p)!Next
                        \/ UNCHANGED <<local[p].state, local[p].cooled>>]_vars

\* Once every step is one that needs neither a fault nor an error of the service,
\* the breaker closes and stays closed: no lease of a dead process, no lost
\* answer and no counter left over keeps it shut.
Recovers ==
  <>[][Steps({"ok"})]_vars =>
    <>[](IF distributed THEN shared.state = "CLOSED"
         ELSE \A p \in Procs : local[p].state = "CLOSED")
=============================================================================
