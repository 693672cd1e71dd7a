---------------------------- MODULE CircuitBreaker ----------------------------
(***************************************************************************)
(* The circuit breaker in front of a gRPC service (middleware/             *)
(* circuitBreaker.ts), its state shared through Redis                      *)
(* (redisCircuitBreakerState.ts) and the client that classifies answers    *)
(* (lib/grpcClient.ts).                                                    *)
(*                                                                         *)
(* Each server process has a breaker object of its own.  With              *)
(* CIRCUIT_BREAKER_DISTRIBUTED the two Lua scripts decide, each in one     *)
(* atomic step, and a call awaits them before and after the request;       *)
(* without it the object decides alone.  Calls may outlast the reset time  *)
(* and their lease: fraudClient resets after 15 s, calls time out at 30 s. *)
(***************************************************************************)
EXTENDS Integers, FiniteSets

CONSTANTS
  Procs, Calls,
  Placements,        \* which processes the calls may run in, as functions
  Tokens,            \* randomUUID() values, enough for every lease and call
  FailureThreshold, SuccessThreshold, MaxProbes,
  None

ASSUME BreakerAssumption ==
  /\ Placements \subseteq [Calls -> Procs] /\ None \notin Tokens
  /\ FailureThreshold \in Nat \ {0} /\ SuccessThreshold \in Nat \ {0}
  /\ MaxProbes \in Nat \ {0}
  /\ IsFiniteSet(Calls) /\ IsFiniteSet(Tokens)
  /\ Cardinality(Tokens) >= MaxProbes + Cardinality(Calls)

VARIABLES
  distributed,  \* CIRCUIT_BREAKER_DISTRIBUTED, fixed for the deployment
  home,         \* the process of each call, fixed as well
  shared,       \* the Redis hash of the breaker
  leases,       \* the Redis set of lease tokens
  alive,        \* tokens whose lease key has not expired
  local,        \* the CircuitBreaker object of each process
  calls         \* execute(): one record per call

redis == <<shared, leases, alive>>
fixed == <<distributed, home>>
vars == <<fixed, redis, local, calls>>

GateState == {"CLOSED", "OPEN", "HALF_OPEN"}

\* What the service does with a request, and what grpcCallWithRetry and
\* isFailure make of it: a 4xx is thrown inside the try, caught and thrown again
\* as retryable; the breaker's own timeout is no GrpcClientError.
OutcomeOf ==
  [ok |-> "success", unavailable |-> "failure", rejected |-> "failure",
   hangs |-> "neutral"]

\* Counters are only compared with their threshold: more is not remembered.
UpTo(n, limit) == IF n > limit THEN limit ELSE n

Fresh == [state |-> "CLOSED", failures |-> 0, successes |-> 0, cooled |-> FALSE]
FreshLocal == [state |-> "CLOSED", failures |-> 0, successes |-> 0,
               cooled |-> FALSE, inFlight |-> 0]
Idle == [phase |-> "idle", seen |-> "CLOSED", token |-> None, probe |-> FALSE,
         outcome |-> "neutral"]

Init ==
  /\ distributed \in BOOLEAN /\ home \in Placements
  /\ shared = Fresh /\ leases = {} /\ alive = {}
  /\ local = [p \in Procs |-> FreshLocal]
  /\ calls = [c \in Calls |-> Idle]

(***************************************************************************)
(* The breaker object.                                                     *)
(***************************************************************************)
\* Mutant: the reset time of an opened breaker is not started again.
TransitionToStale(b, s) ==
  IF b.state = s THEN b
  ELSE [b EXCEPT !.state = s,
                 !.inFlight = IF s = "CLOSED" THEN @ ELSE 0,
                 !.failures = IF s = "CLOSED" THEN 0 ELSE @,
                 !.successes = IF s = "CLOSED" THEN 0 ELSE @]

TransitionTo(b, s) ==
  IF b.state = s THEN b
  ELSE [b EXCEPT !.state = s,
                 !.cooled = IF s = "OPEN" THEN FALSE ELSE @,
                 !.inFlight = IF s = "CLOSED" THEN @ ELSE 0,
                 !.failures = IF s = "CLOSED" THEN 0 ELSE @,
                 !.successes = IF s = "CLOSED" THEN 0 ELSE @]

RecordSuccess(b) ==
  LET counted == [b EXCEPT !.successes = UpTo(@ + 1, SuccessThreshold), !.failures = 0]
  IN IF counted.state = "HALF_OPEN" /\ counted.successes >= SuccessThreshold
     THEN TransitionTo(counted, "CLOSED") ELSE counted

RecordFailure(b) ==
  LET counted == [b EXCEPT !.failures = UpTo(@ + 1, FailureThreshold), !.successes = 0]
  IN IF \/ counted.state = "HALF_OPEN"
        \/ counted.state = "CLOSED" /\ counted.failures >= FailureThreshold
     THEN TransitionTo(counted, "OPEN") ELSE counted

\* The finally block: a probe gives its place back.  Mutant: it does not.
KeepsPlace(c, b) == b
Ended(c, b) == [b EXCEPT !.inFlight = IF calls[c].probe THEN @ - 1 ELSE @]

\* The part of execute() that runs without an await: b is the object as the
\* code before it left it, token what Redis granted.  A refusal here drops the
\* token without giving its lease back.
Enter(c, b, token) ==
  LET opened == IF b.state = "OPEN" /\ b.cooled THEN TransitionTo(b, "HALF_OPEN") ELSE b
      refused == \/ opened.state = "OPEN"
                 \/ opened.state = "HALF_OPEN" /\ opened.inFlight >= MaxProbes
      probe == ~refused /\ opened.state = "HALF_OPEN"
  IN /\ local' = [local EXCEPT ![home[c]] =
                    [opened EXCEPT !.inFlight = IF probe THEN @ + 1 ELSE @]]
     /\ calls' = [calls EXCEPT ![c] =
                    IF refused THEN Idle
                    ELSE [Idle EXCEPT !.phase = "running", !.token = token, !.probe = probe]]

CallLocally(c) ==
  /\ ~distributed /\ calls[c].phase = "idle"
  /\ Enter(c, local[home[c]], None)
  /\ UNCHANGED <<fixed, redis>>

(***************************************************************************)
(* The Lua scripts.                                                        *)
(***************************************************************************)
\* Mutants: expired leases are not pruned; one probe too many is granted; the
\* reset time is not waited for.
HeldUnpruned == leases
RoomForOneMore == Cardinality(leases \intersect alive) <= MaxProbes
DueAtOnce == shared.state = "OPEN"

Held == leases \intersect alive
HasRoom == Cardinality(Held) < MaxProbes
Due == shared.state = "OPEN" /\ shared.cooled
NewToken == CHOOSE t \in Tokens : t \notin leases \union {calls[c].token : c \in Calls}
AliveWithout(tokens) == alive \ tokens

\* The script assigns `state` without declaring it local, which a stock Redis
\* refuses: the call then throws, and nothing has changed.
ACQUIRE(c) ==
  LET state == IF Due THEN "HALF_OPEN" ELSE shared.state
      granted == IF state = "HALF_OPEN" /\ HasRoom THEN {NewToken} ELSE {}
  IN /\ shared' = [state |-> state, failures |-> shared.failures,
                    successes |-> shared.successes, cooled |-> shared.cooled]
     /\ leases' = Held \union granted
     /\ alive' = alive \union granted
     /\ calls' = [calls EXCEPT ![c] =
                    [Idle EXCEPT !.phase = "asked", !.seen = state,
                                 !.token = IF granted = {} THEN None ELSE NewToken]]

\* What the outcome of a call without a token does to a half-open breaker.
\* Mutant: it counts like a probe's.
CountsAnyway(state, token) == TRUE
Counts(state, token) == state # "HALF_OPEN" \/ token # None

RECORD(outcome, token) ==
  LET counts == Counts(shared.state, token)
      failures == IF outcome = "failure" THEN UpTo(shared.failures + 1, FailureThreshold) ELSE 0
      successes == IF outcome = "success" THEN UpTo(shared.successes + 1, SuccessThreshold) ELSE 0
      trips == /\ counts /\ outcome = "failure"
               /\ \/ shared.state = "HALF_OPEN"
                  \/ shared.state = "CLOSED" /\ failures >= FailureThreshold
      closes == /\ counts /\ outcome = "success"
                /\ shared.state = "HALF_OPEN" /\ successes >= SuccessThreshold
      freed == IF trips \/ closes THEN leases ELSE leases \intersect {token}
  IN /\ shared' = IF counts /\ outcome # "neutral"
                  THEN [state |-> IF trips THEN "OPEN" ELSE IF closes THEN "CLOSED" ELSE shared.state,
                        failures |-> failures, successes |-> successes,
                        cooled |-> IF trips THEN FALSE ELSE shared.cooled]
                  ELSE shared
     /\ leases' = leases \ freed
     /\ alive' = AliveWithout(freed)

(***************************************************************************)
(* A call under distributed state, an await at a time.                     *)
(***************************************************************************)
Ask(c) ==
  /\ distributed /\ calls[c].phase = "idle"
  /\ ACQUIRE(c)
  /\ UNCHANGED <<fixed, local>>

Refuse(c, b) ==
  /\ local' = [local EXCEPT ![home[c]] = b]
  /\ calls' = [calls EXCEPT ![c] = Idle]

\* The answer of beforeCall overwrites the object's state, then execute goes on.
Admit(c) ==
  LET b == local[home[c]]
  IN /\ calls[c].phase = "asked"
     /\ CASE calls[c].seen = "OPEN" -> Refuse(c, [b EXCEPT !.state = "OPEN"])
          [] calls[c].seen = "HALF_OPEN" /\ calls[c].token = None -> Refuse(c, b)
          [] calls[c].seen = "HALF_OPEN" /\ calls[c].token # None ->
               Enter(c, [b EXCEPT !.state = "HALF_OPEN"], calls[c].token)
          [] calls[c].seen = "CLOSED" ->
               Enter(c, [b EXCEPT !.state = "CLOSED", !.failures = 0, !.successes = 0], None)
     /\ UNCHANGED <<fixed, redis>>

\* Redis ran the script but its answer is lost: beforeCall throws.
LoseAnswer(c) ==
  /\ calls[c].phase = "asked"
  /\ calls' = [calls EXCEPT ![c] = Idle]
  /\ UNCHANGED <<fixed, redis, local>>

\* The request ends: the object counts it, and Redis is asked to as well.
Answer(c, reply) ==
  LET b == local[home[c]]
      outcome == OutcomeOf[reply]
      counted == CASE outcome = "success" -> RecordSuccess(b)
                   [] outcome = "failure" -> RecordFailure(b)
                   [] outcome = "neutral" -> b
  IN /\ calls[c].phase = "running"
     /\ local' = [local EXCEPT ![home[c]] =
                    IF distributed THEN counted ELSE Ended(c, counted)]
     /\ calls' = [calls EXCEPT ![c] =
                    IF distributed THEN [@ EXCEPT !.phase = "recording", !.outcome = outcome]
                    ELSE Idle]
     /\ UNCHANGED <<fixed, redis>>

Record(c) ==
  /\ calls[c].phase = "recording"
  /\ RECORD(calls[c].outcome, calls[c].token)
  /\ calls' = [calls EXCEPT ![c].phase = "recorded"]
  /\ UNCHANGED <<fixed, local>>

Finish(c) == Refuse(c, Ended(c, local[home[c]]))

Leave(c) ==
  /\ calls[c].phase = "recorded"
  /\ Finish(c)
  /\ UNCHANGED <<fixed, redis>>

\* recordOutcome throws, whether or not Redis ran the script.  After a success
\* the catch block records the call once more, as neutral; otherwise the call
\* ends and nobody gives its lease back.
RecordFails(c) ==
  /\ calls[c].phase \in {"recording", "recorded"}
  /\ IF calls[c].outcome = "success"
     THEN /\ calls' = [calls EXCEPT ![c].phase = "recording", ![c].outcome = "neutral"]
          /\ UNCHANGED local
     ELSE Finish(c)
  /\ UNCHANGED <<fixed, redis>>

(***************************************************************************)
(* Time and faults.                                                        *)
(***************************************************************************)
ResetTimePasses ==
  /\ shared.state = "OPEN" /\ ~shared.cooled
  /\ shared' = [state |-> "OPEN", failures |-> shared.failures,
                successes |-> shared.successes, cooled |-> TRUE]
  /\ UNCHANGED <<fixed, leases, alive, local, calls>>

LocalResetTimePasses(p) ==
  /\ ~distributed /\ local[p].state = "OPEN" /\ ~local[p].cooled
  /\ local' = [local EXCEPT ![p].cooled = TRUE]
  /\ UNCHANGED <<fixed, redis, calls>>

LeaseExpires(t) ==
  /\ t \in alive
  /\ alive' = alive \ {t}
  /\ UNCHANGED <<fixed, shared, leases, local, calls>>

\* A process dies and starts again with a new object; its leases stay.
Restart(p) ==
  /\ local' = [local EXCEPT ![p] = FreshLocal]
  /\ calls' = [c \in Calls |-> IF home[c] = p THEN Idle ELSE calls[c]]
  /\ UNCHANGED <<fixed, redis>>

CallStep(c, replies) ==
  \/ CallLocally(c) \/ Ask(c) \/ Admit(c) \/ Record(c) \/ Leave(c)
  \/ \E reply \in replies : Answer(c, reply)

TimeStep ==
  \/ ResetTimePasses
  \/ \E p \in Procs : LocalResetTimePasses(p)
  \/ \E t \in Tokens : LeaseExpires(t)

Faults ==
  \/ \E c \in Calls : LoseAnswer(c) \/ RecordFails(c)
  \/ \E p \in Procs : Restart(p)

Steps(replies) == (\E c \in Calls : CallStep(c, replies)) \/ TimeStep

Next == Steps(DOMAIN OutcomeOf) \/ Faults

Spec == Init /\ [][Next]_vars

\* Callers keep calling, timeouts end every request, timers and leases run out.
\* Nothing is assumed about faults.
Fairness ==
  /\ \A c \in Calls : WF_vars(CallStep(c, DOMAIN OutcomeOf))
  /\ WF_vars(ResetTimePasses)
  /\ \A p \in Procs : WF_vars(LocalResetTimePasses(p))
  /\ \A t \in Tokens : WF_vars(LeaseExpires(t))

FairSpec == Spec /\ Fairness
=============================================================================
