----------------------------- MODULE CircuitProofs -----------------------------
(***************************************************************************)
(* Proofs about CircuitBreaker, for any processes, calls, tokens and       *)
(* thresholds.  The argument: whatever a call has seen or remembers, the   *)
(* two scripts decide on the hash alone, and each is a step of the         *)
(* contract or leaves its two variables as they are.                       *)
(***************************************************************************)
EXTENDS CircuitProperties, FiniteSetTheorems, TLAPS

\* What the two scripts may do to the breaker.
AcquireEffect ==
  \/ UNCHANGED <<shared.state, shared.cooled>>
  \/ /\ shared.state = "OPEN" /\ shared.cooled
     /\ shared'.state = "HALF_OPEN" /\ shared'.cooled = shared.cooled

RecordEffect(token) ==
  \/ UNCHANGED <<shared.state, shared.cooled>>
  \/ /\ shared.state \in {"CLOSED", "HALF_OPEN"} /\ (shared.state = "HALF_OPEN" => token # None)
     /\ shared'.state = "OPEN" /\ shared'.cooled = FALSE
  \/ /\ shared.state = "HALF_OPEN" /\ token # None
     /\ shared'.state = "CLOSED" /\ shared'.cooled = shared.cooled

\* beforeCall opens the gate only to probes, and only after the reset time.
LEMMA AcquireLemma == ASSUME NEW c \in Calls, ACQUIRE(c) PROVE AcquireEffect
BY DEF ACQUIRE, Due, AcquireEffect

\* recordOutcome trips the breaker or closes it from half-open, there only for
\* the holder of a token.
LEMMA RecordLemma ==
  ASSUME NEW outcome, NEW token, RECORD(outcome, token) PROVE RecordEffect(token)
<1> DEFINE counts == Counts(shared.state, token)
           failures == IF outcome = "failure" THEN UpTo(shared.failures + 1, FailureThreshold) ELSE 0
           successes == IF outcome = "success" THEN UpTo(shared.successes + 1, SuccessThreshold) ELSE 0
           trips == /\ counts /\ outcome = "failure"
                    /\ \/ shared.state = "HALF_OPEN"
                       \/ shared.state = "CLOSED" /\ failures >= FailureThreshold
           closes == /\ counts /\ outcome = "success"
                     /\ shared.state = "HALF_OPEN" /\ successes >= SuccessThreshold
<1>1. shared' = IF counts /\ outcome # "neutral"
                THEN [state |-> IF trips THEN "OPEN" ELSE IF closes THEN "CLOSED" ELSE shared.state,
                      failures |-> failures, successes |-> successes,
                      cooled |-> IF trips THEN FALSE ELSE shared.cooled]
                ELSE shared
  BY DEF RECORD
<1>2. shared.state = "HALF_OPEN" /\ counts => token # None
  BY DEF Counts
<1>3. trips => shared.state \in {"CLOSED", "HALF_OPEN"} /\ counts
  OBVIOUS
<1>4. closes => shared.state = "HALF_OPEN" /\ counts /\ ~trips
  OBVIOUS
<1> HIDE DEF counts, failures, successes, trips, closes
<1>5. CASE trips
  <2>1. counts /\ outcome # "neutral"
    BY <1>5 DEF trips
  <2> QED
    BY <1>1, <1>2, <1>3, <1>5, <2>1 DEF RecordEffect
<1>6. CASE ~trips /\ closes
  <2>1. counts /\ outcome # "neutral"
    BY <1>6 DEF closes
  <2> QED
    BY <1>1, <1>2, <1>4, <1>6, <2>1 DEF RecordEffect
<1>7. CASE ~trips /\ ~closes
  BY <1>1, <1>7 DEF RecordEffect
<1> QED
  BY <1>5, <1>6, <1>7

\* Every step of the system is one of the scripts', of the clock, or leaves the
\* shared breaker alone.
LEMMA SharedStep ==
  ASSUME [Next]_vars
  PROVE  \/ AcquireEffect
         \/ \E c \in Calls : calls[c].phase = "recording" /\ RecordEffect(calls[c].token)
         \/ shared.state = "OPEN" /\ shared'.state = "OPEN" /\ shared'.cooled = TRUE
<1>1. ASSUME NEW c \in Calls, Ask(c) PROVE AcquireEffect
  BY <1>1, AcquireLemma DEF Ask
<1>2. ASSUME NEW c \in Calls, Record(c)
      PROVE  calls[c].phase = "recording" /\ RecordEffect(calls[c].token)
  BY <1>2, RecordLemma DEF Record
<1>3. CASE ResetTimePasses
  BY <1>3 DEF ResetTimePasses
<1>4. CASE UNCHANGED shared
  BY <1>4 DEF AcquireEffect
<1> QED
  BY <1>1, <1>2, <1>3, <1>4 DEF Next, Steps, CallStep, TimeStep, Faults, vars, redis, CallLocally,
     Admit, Answer, Leave, LoseAnswer, RecordFails, LocalResetTimePasses, LeaseExpires, Restart

\* The distributed breaker implements the contract: it closes only out of a
\* half-open period, and half-opens only after the reset time since it opened.
THEOREM Refinement == Spec => KeepsContract
<1>1. Init => Shared!Init
  BY DEF Init, Fresh, Shared!Init
<1>2. [Next]_vars => [Shared!Next]_<<shared.state, shared.cooled>>
  <2> SUFFICES ASSUME [Next]_vars PROVE [Shared!Next]_<<shared.state, shared.cooled>>
    OBVIOUS
  <2> USE DEF Shared!Next, Shared!Trip, Shared!Rest, Shared!Probe, Shared!Recover
  <2>1. CASE AcquireEffect
    BY <2>1 DEF AcquireEffect
  <2>2. ASSUME NEW c \in Calls, RecordEffect(calls[c].token)
        PROVE  [Shared!Next]_<<shared.state, shared.cooled>>
    BY <2>2 DEF RecordEffect
  <2>3. CASE shared.state = "OPEN" /\ shared'.state = "OPEN" /\ shared'.cooled = TRUE
    BY <2>3
  <2> QED
    BY <2>1, <2>2, <2>3, SharedStep
<1> QED
  BY <1>1, <1>2, PTL DEF Spec, KeepsContract, Shared!Spec

\* A half-open breaker changes its state only on the answer of a call that was
\* granted a lease: a call from before the half-open period decides nothing.
THEOREM ProbesDecide == Spec => OnlyProbesDecide
<1> DEFINE A == shared.state = "HALF_OPEN" /\ shared'.state # "HALF_OPEN" =>
                  \E c \in Calls : calls[c].phase = "recording" /\ calls[c].token # None
<1>1. [Next]_vars => [A]_vars
  BY SharedStep DEF AcquireEffect, RecordEffect
<1> QED
  BY <1>1, PTL DEF Spec, OnlyProbesDecide

(***************************************************************************)
(* Types.  Tokens are the delicate part: a lease needs one that no lease   *)
(* and no call has, and the invariant below says why there is one.         *)
(***************************************************************************)
Objects == [state : GateState, failures : 0..FailureThreshold,
            successes : 0..SuccessThreshold, cooled : BOOLEAN, inFlight : Int]
CallRecords == [phase : {"idle", "asked", "running", "recording", "recorded"},
                seen : GateState, token : Tokens \union {None},
                probe : BOOLEAN, outcome : {"success", "failure", "neutral"}]

\* A call that is not under way has no token, and without shared state no call
\* waits for Redis.
CallsKnow ==
  \A c \in Calls :
    /\ calls[c].phase = "idle" => calls[c].token = None
    /\ ~distributed => calls[c].phase \in {"idle", "running"}

\* There are never more leases than probes allowed, expired ones included, and no
\* two calls hold the same one.
LeasesBounded == Cardinality(leases) <= MaxProbes
TokensDiffer ==
  \A c, d \in Calls : c # d /\ calls[c].token = calls[d].token => calls[c].token = None

IInv == TypeOK /\ CallsKnow /\ LeasesBounded /\ TokensDiffer

LEMMA UpToTyped ==
  ASSUME NEW n \in Nat, NEW limit \in Nat PROVE UpTo(n, limit) \in 0..limit
BY DEF UpTo

\* The object's methods keep its type.
LEMMA TransitionTyped ==
  ASSUME NEW b \in Objects, NEW s \in GateState PROVE TransitionTo(b, s) \in Objects
<1> DEFINE cooled == IF s = "OPEN" THEN FALSE ELSE b.cooled
           inFlight == IF s = "CLOSED" THEN b.inFlight ELSE 0
           failures == IF s = "CLOSED" THEN 0 ELSE b.failures
           successes == IF s = "CLOSED" THEN 0 ELSE b.successes
           next == [b EXCEPT !.state = s, !.cooled = cooled, !.inFlight = inFlight,
                             !.failures = failures, !.successes = successes]
<1>1. TransitionTo(b, s) = IF b.state = s THEN b ELSE next
  BY DEF TransitionTo
<1>2. cooled \in BOOLEAN
  <2>1. b.cooled \in BOOLEAN
    BY DEF Objects
  <2> QED
    BY <2>1, Zenon
<1>3. /\ inFlight \in Int /\ failures \in 0..FailureThreshold
      /\ successes \in 0..SuccessThreshold
  BY BreakerAssumption DEF Objects
<1> HIDE DEF cooled, inFlight, failures, successes
<1>4. next \in Objects
  BY <1>2, <1>3 DEF Objects
<1> QED
  BY <1>1, <1>4

LEMMA RecordSuccessTyped == ASSUME NEW b \in Objects PROVE RecordSuccess(b) \in Objects
<1> DEFINE counted == [b EXCEPT !.successes = UpTo(@ + 1, SuccessThreshold), !.failures = 0]
<1> DEFINE n == UpTo(b.successes + 1, SuccessThreshold)
<1>1. n \in 0..SuccessThreshold
  <2>1. b.successes + 1 \in Nat /\ SuccessThreshold \in Nat
    BY BreakerAssumption DEF Objects
  <2> QED
    BY <2>1, UpToTyped
<1>2. counted \in Objects
  <2>1. counted = [b EXCEPT !.successes = n, !.failures = 0]
    OBVIOUS
  <2>2. 0 \in 0..FailureThreshold /\ 0 \in 0..SuccessThreshold
    BY BreakerAssumption
  <2> HIDE DEF counted, n
  <2> QED
    BY <1>1, <2>1, <2>2 DEF Objects
<1>3. TransitionTo(counted, "CLOSED") \in Objects
  BY <1>2, TransitionTyped DEF GateState
<1> QED
  BY <1>2, <1>3 DEF RecordSuccess

LEMMA RecordFailureTyped == ASSUME NEW b \in Objects PROVE RecordFailure(b) \in Objects
<1> DEFINE counted == [b EXCEPT !.failures = UpTo(@ + 1, FailureThreshold), !.successes = 0]
<1> DEFINE n == UpTo(b.failures + 1, FailureThreshold)
<1>1. n \in 0..FailureThreshold
  <2>1. b.failures + 1 \in Nat /\ FailureThreshold \in Nat
    BY BreakerAssumption DEF Objects
  <2> QED
    BY <2>1, UpToTyped
<1>2. counted \in Objects
  <2>1. counted = [b EXCEPT !.failures = n, !.successes = 0]
    OBVIOUS
  <2>2. 0 \in 0..FailureThreshold /\ 0 \in 0..SuccessThreshold
    BY BreakerAssumption
  <2> HIDE DEF counted, n
  <2> QED
    BY <1>1, <2>1, <2>2 DEF Objects
<1>3. TransitionTo(counted, "OPEN") \in Objects
  BY <1>2, TransitionTyped DEF GateState
<1> QED
  BY <1>2, <1>3 DEF RecordFailure

\* What a step may make of a call, unless Redis grants it a lease: it keeps its
\* token or loses it.
CallBecomes(c, call) ==
  /\ call \in CallRecords /\ calls' = [calls EXCEPT ![c] = call]
  /\ call.token \in {calls[c].token, None}
  /\ (call.phase = "idle" => call.token = None)
  /\ (~distributed => call.phase \in {"idle", "running"})

CallsAgree == calls \in [Calls -> CallRecords] /\ CallsKnow /\ TokensDiffer

LEMMA CallLemma ==
  ASSUME CallsAgree, NEW c \in Calls, NEW call, CallBecomes(c, call), distributed' = distributed
  PROVE  CallsAgree'
<1>1. calls' \in [Calls -> CallRecords] /\ calls'[c] = call
  BY DEF CallsAgree, CallBecomes
<1>2. \A d \in Calls : d # c => calls'[d] = calls[d]
  BY DEF CallsAgree, CallBecomes
<1>3. \A d \in Calls : calls'[d].token \in {calls[d].token, None}
  BY <1>1, <1>2 DEF CallBecomes
<1>4. CallsKnow'
  BY <1>1, <1>2 DEF CallsAgree, CallBecomes, CallsKnow
<1>5. TokensDiffer'
  BY <1>3 DEF CallsAgree, TokensDiffer
<1> QED
  BY <1>1, <1>4, <1>5 DEF CallsAgree

LEMMA IdleTyped == Idle \in CallRecords /\ Idle.phase = "idle" /\ Idle.token = None
BY DEF Idle, CallRecords, GateState

\* execute() without an await: what the object and the call become.
LEMMA EnterTyped ==
  ASSUME TypeOK, NEW c \in Calls, NEW b \in Objects, NEW token \in {calls[c].token, None},
         Enter(c, b, token)
  PROVE  local' \in [Procs -> Objects] /\ \E call : CallBecomes(c, call)
<1> DEFINE opened == IF b.state = "OPEN" /\ b.cooled THEN TransitionTo(b, "HALF_OPEN") ELSE b
           refused == \/ opened.state = "OPEN"
                      \/ opened.state = "HALF_OPEN" /\ opened.inFlight >= MaxProbes
           probe == ~refused /\ opened.state = "HALF_OPEN"
           object == [opened EXCEPT !.inFlight = IF probe THEN @ + 1 ELSE @]
           call == IF refused THEN Idle
                   ELSE [Idle EXCEPT !.phase = "running", !.token = token, !.probe = probe]
<1>1. local \in [Procs -> Objects] /\ calls \in [Calls -> CallRecords]
  BY DEF TypeOK, Objects, CallRecords
<1>2. token \in Tokens \union {None}
  BY <1>1 DEF CallRecords
<1>3. opened \in Objects
  BY TransitionTyped DEF GateState
<1>4. object \in Objects
  <2> HIDE DEF opened, refused
  <2> QED
    BY <1>3 DEF Objects
<1>5. /\ call \in CallRecords /\ call.phase \in {"idle", "running"} /\ call.token \in {token, None}
      /\ (call.phase = "idle" => call.token = None)
  <2> HIDE DEF opened, refused
  <2>1. probe \in BOOLEAN
    OBVIOUS
  <2> HIDE DEF probe
  <2> QED
    BY <1>2, <2>1 DEF Idle, CallRecords, GateState
<1>6. local' = [local EXCEPT ![home[c]] = object] /\ calls' = [calls EXCEPT ![c] = call]
  BY DEF Enter
<1> HIDE DEF object, call, opened, refused, probe
<1>7. local' \in [Procs -> Objects]
  BY <1>1, <1>4, <1>6
<1>8. CallBecomes(c, call)
  BY <1>5, <1>6 DEF CallBecomes
<1> QED
  BY <1>7, <1>8

\* What is left of execute when the call ends here.
LEMMA RefuseTyped ==
  ASSUME TypeOK, NEW c \in Calls, NEW b \in Objects, Refuse(c, b)
  PROVE  local' \in [Procs -> Objects] /\ CallBecomes(c, Idle)
<1>1. local \in [Procs -> Objects]
  BY DEF TypeOK, Objects
<1> QED
  BY <1>1, IdleTyped DEF Refuse, CallBecomes

LEMMA EndedTyped ==
  ASSUME NEW c \in Calls, NEW b \in Objects PROVE Ended(c, b) \in Objects
BY DEF Ended, Objects

LEMMA HomeTyped ==
  ASSUME TypeOK, NEW c \in Calls PROVE home[c] \in Procs /\ local[home[c]] \in Objects
BY BreakerAssumption DEF TypeOK, Objects

\* Every step of a call but the one that may grant it a lease.
LEMMA CallStepTyped ==
  ASSUME IInv, NEW c \in Calls,
         \/ CallLocally(c) \/ Admit(c) \/ Record(c) \/ Leave(c)
         \/ (\E reply \in DOMAIN OutcomeOf : Answer(c, reply))
         \/ LoseAnswer(c) \/ RecordFails(c)
  PROVE  local' \in [Procs -> Objects] /\ \E call : CallBecomes(c, call)
<1> DEFINE b == local[home[c]]
           Goal == local' \in [Procs -> Objects] /\ \E call : CallBecomes(c, call)
<1>1. /\ TypeOK /\ CallsKnow /\ b \in Objects /\ calls[c] \in CallRecords
      /\ local \in [Procs -> Objects] /\ calls \in [Calls -> CallRecords]
      /\ home[c] \in Procs
  BY HomeTyped DEF IInv, TypeOK, Objects, CallRecords
<1> HIDE DEF b
<1>2. ASSUME NEW object \in Objects, Refuse(c, object) PROVE Goal
  BY <1>1, <1>2, RefuseTyped
<1>3. ASSUME NEW object \in Objects, NEW token \in {calls[c].token, None},
             Enter(c, object, token)
      PROVE  Goal
  BY <1>1, <1>3, EnterTyped
<1>4. ASSUME CallLocally(c) PROVE Goal
  BY <1>1, <1>3, <1>4 DEF CallLocally, b
<1>5. ASSUME Admit(c) PROVE Goal
  <2>1. /\ [b EXCEPT !.state = "OPEN"] \in Objects /\ [b EXCEPT !.state = "HALF_OPEN"] \in Objects
        /\ [b EXCEPT !.state = "CLOSED", !.failures = 0, !.successes = 0] \in Objects
    <3>1. 0 \in 0..FailureThreshold /\ 0 \in 0..SuccessThreshold
      BY BreakerAssumption
    <3> QED
      BY <1>1, <3>1 DEF Objects, GateState
  <2>2. calls[c].seen \in {"OPEN", "HALF_OPEN", "CLOSED"}
    BY <1>1 DEF CallRecords, GateState
  <2>3. CASE calls[c].seen = "OPEN"
    BY <1>2, <1>5, <2>1, <2>3 DEF Admit, b
  <2>4. CASE calls[c].seen = "HALF_OPEN" /\ calls[c].token = None
    BY <1>1, <1>2, <1>5, <2>4 DEF Admit, b
  <2>5. CASE calls[c].seen = "HALF_OPEN" /\ calls[c].token # None
    BY <1>3, <1>5, <2>1, <2>5 DEF Admit, b
  <2>6. CASE calls[c].seen = "CLOSED"
    BY <1>3, <1>5, <2>1, <2>6 DEF Admit, b
  <2> QED
    BY <2>2, <2>3, <2>4, <2>5, <2>6
<1>6. ASSUME Record(c) PROVE Goal
  <2> DEFINE call == [calls[c] EXCEPT !.phase = "recorded"]
  <2>1. call \in CallRecords /\ call.phase = "recorded" /\ call.token = calls[c].token
    BY <1>1 DEF CallRecords
  <2>2. calls' = [calls EXCEPT ![c] = call] /\ local' = local /\ calls[c].phase = "recording"
    BY <1>1, <1>6 DEF Record
  <2>3. CallBecomes(c, call)
    <3> HIDE DEF call
    <3> QED
      BY <1>1, <2>1, <2>2 DEF CallBecomes, CallsKnow
  <2> QED
    BY <1>1, <2>2, <2>3
<1>7. ASSUME Leave(c) PROVE Goal
  BY <1>1, <1>2, <1>7, EndedTyped DEF Leave, Finish, b
<1>8. ASSUME NEW reply \in DOMAIN OutcomeOf, Answer(c, reply) PROVE Goal
  <2> DEFINE outcome == OutcomeOf[reply]
             counted == CASE outcome = "success" -> RecordSuccess(b)
                          [] outcome = "failure" -> RecordFailure(b)
                          [] outcome = "neutral" -> b
             call == [calls[c] EXCEPT !.phase = "recording", !.outcome = outcome]
  <2>1. outcome \in {"success", "failure", "neutral"}
    BY DEF OutcomeOf
  <2> HIDE DEF outcome
  <2>2. counted \in Objects
    BY <1>1, <2>1, RecordSuccessTyped, RecordFailureTyped
  <2>3. Ended(c, counted) \in Objects
    BY <2>2, EndedTyped
  <2>4. /\ local' = [local EXCEPT ![home[c]] = IF distributed THEN counted ELSE Ended(c, counted)]
        /\ calls' = [calls EXCEPT ![c] = IF distributed THEN call ELSE Idle]
    BY <1>8 DEF Answer, b, outcome
  <2>5. call \in CallRecords /\ call.phase = "recording" /\ call.token = calls[c].token
    BY <1>1, <2>1 DEF CallRecords
  <2> HIDE DEF call, counted
  <2>6. local' \in [Procs -> Objects]
    BY <1>1, <2>2, <2>3, <2>4
  <2>7. CallBecomes(c, IF distributed THEN call ELSE Idle)
    BY <2>4, <2>5, IdleTyped DEF CallBecomes
  <2> QED
    BY <2>6, <2>7
<1>9. ASSUME LoseAnswer(c) PROVE Goal
  BY <1>1, <1>9, IdleTyped DEF LoseAnswer, CallBecomes
<1>10. ASSUME RecordFails(c) PROVE Goal
  <2>1. CASE calls[c].outcome = "success"
    <3> DEFINE call == [calls[c] EXCEPT !.phase = "recording", !.outcome = "neutral"]
    <3>1. call \in CallRecords /\ call.phase = "recording" /\ call.token = calls[c].token
      BY <1>1 DEF CallRecords
    <3>2. /\ calls' = [calls EXCEPT ![c] = call] /\ local' = local
          /\ calls[c].phase \in {"recording", "recorded"}
      BY <1>1, <1>10, <2>1 DEF RecordFails
    <3>3. CallBecomes(c, call)
      <4> HIDE DEF call
      <4> QED
        BY <1>1, <3>1, <3>2 DEF CallBecomes, CallsKnow
    <3> QED
      BY <1>1, <3>2, <3>3
  <2>2. CASE calls[c].outcome # "success"
    BY <1>1, <1>2, <1>10, <2>2, EndedTyped DEF RecordFails, Finish, b
  <2> QED
    BY <2>1, <2>2
<1> QED
  BY <1>4, <1>5, <1>6, <1>7, <1>8, <1>9, <1>10

(***************************************************************************)
(* Leases.                                                                 *)
(***************************************************************************)
LeasesAgree == leases \subseteq Tokens /\ alive \subseteq leases /\ LeasesBounded

\* A script that takes leases back only takes them from both sets.
LEMMA FreedLemma ==
  ASSUME LeasesAgree, NEW freed, leases' = leases \ freed, alive' = alive \ freed
  PROVE  LeasesAgree'
<1>1. IsFiniteSet(leases)
  BY BreakerAssumption, FS_Subset DEF LeasesAgree
<1>2. leases' \in SUBSET leases
  OBVIOUS
<1>3. /\ IsFiniteSet(leases') /\ Cardinality(leases') <= Cardinality(leases)
      /\ Cardinality(leases) \in Nat /\ Cardinality(leases') \in Nat
  BY <1>1, <1>2, FS_Subset, FS_CardinalityType
<1> QED
  BY <1>3, BreakerAssumption DEF LeasesAgree, LeasesBounded

\* There is a token that no lease and no call has.
LEMMA TokenLeft ==
  ASSUME LeasesAgree, CallsAgree, NEW c \in Calls, calls[c].token = None
  PROVE  NewToken \in Tokens \ (leases \union {calls[d].token : d \in Calls})
<1> DEFINE Others == Calls \ {c}
           Used == {calls[d].token : d \in Others}
<1>1. /\ IsFiniteSet(leases) /\ IsFiniteSet(Calls) /\ IsFiniteSet(Tokens)
      /\ Cardinality(Tokens) \in Nat /\ Cardinality(Calls) \in Nat /\ Cardinality(leases) \in Nat
  BY BreakerAssumption, FS_Subset, FS_CardinalityType DEF LeasesAgree
<1>2. IsFiniteSet(Others) /\ Cardinality(Others) = Cardinality(Calls) - 1
  BY <1>1, FS_RemoveElement
<1>3. IsFiniteSet(Used) /\ Cardinality(Used) <= Cardinality(Others) /\ Cardinality(Used) \in Nat
  <2> DEFINE f == [d \in Others |-> calls[d].token]
  <2>1. f \in Surjection(Others, Used)
    BY DEF Surjection
  <2>2. IsFiniteSet(Used) /\ Cardinality(Used) <= Cardinality(Others)
    <3> HIDE DEF f, Used, Others
    <3> QED
      BY <1>2, <2>1, FS_Surjection
  <2> QED
    BY <2>2, FS_CardinalityType
<1> HIDE DEF Used, Others
<1>4. /\ IsFiniteSet(leases \union Used)
      /\ Cardinality(leases \union Used) <= Cardinality(leases) + Cardinality(Used)
      /\ Cardinality(leases \union Used) \in Nat
  <2>1. IsFiniteSet(leases \cap Used)
    BY <1>1, FS_Subset
  <2>2. Cardinality(leases \cap Used) \in Nat
    BY <2>1, FS_CardinalityType
  <2>3. /\ IsFiniteSet(leases \union Used)
        /\ Cardinality(leases \union Used) =
             Cardinality(leases) + Cardinality(Used) - Cardinality(leases \cap Used)
    BY <1>1, <1>3, FS_Union
  <2>4. Cardinality(leases \union Used) \in Nat
    BY <2>3, FS_CardinalityType
  <2> QED
    BY <1>1, <1>3, <2>2, <2>3, <2>4
<1>5. Cardinality(leases \union Used) < Cardinality(Tokens)
  BY <1>1, <1>2, <1>3, <1>4, BreakerAssumption DEF LeasesAgree, LeasesBounded
<1>6. ~(Tokens \subseteq leases \union Used)
  <2> SUFFICES ASSUME Tokens \subseteq leases \union Used PROVE FALSE
    OBVIOUS
  <2>1. Cardinality(Tokens) <= Cardinality(leases \union Used)
    BY <1>4, FS_Subset
  <2> QED
    BY <1>1, <1>4, <1>5, <2>1
<1>7. PICK t \in Tokens : t \notin leases \union Used
  BY <1>6
<1>8. t # None
  BY BreakerAssumption
<1>9. t \notin leases \union {calls[d].token : d \in Calls}
  BY <1>7, <1>8 DEF Used, Others
<1> QED
  BY <1>9 DEF NewToken

\* A lease is granted only where there is room, and under a token of its own.
LEMMA AskLemma ==
  ASSUME IInv, NEW c \in Calls, Ask(c)
  PROVE  LeasesAgree' /\ CallsAgree'
<1> DEFINE state == IF Due THEN "HALF_OPEN" ELSE shared.state
           granted == IF state = "HALF_OPEN" /\ HasRoom THEN {NewToken} ELSE {}
           call == [Idle EXCEPT !.phase = "asked", !.seen = state,
                                !.token = IF granted = {} THEN None ELSE NewToken]
<1>1. LeasesAgree /\ CallsAgree /\ calls[c].token = None /\ distributed /\ distributed' = distributed
  BY DEF IInv, TypeOK, LeasesAgree, CallsAgree, CallRecords, Ask, CallsKnow, fixed
<1>2. state \in GateState
  BY DEF IInv, TypeOK, GateState, Due
<1>3. NewToken \in Tokens /\ NewToken \notin leases /\ \A d \in Calls : calls[d].token # NewToken
  BY <1>1, TokenLeft
<1>4. /\ leases' = Held \union granted /\ alive' = alive \union granted
      /\ calls' = [calls EXCEPT ![c] = call]
  BY DEF Ask, ACQUIRE
<1>5. granted = {} \/ (granted = {NewToken} /\ HasRoom)
  OBVIOUS
<1>6. /\ call \in CallRecords /\ call.phase = "asked"
      /\ call.token = IF granted = {} THEN None ELSE NewToken
  <2> HIDE DEF state, granted
  <2> QED
    BY <1>2, <1>3 DEF Idle, CallRecords
<1> HIDE DEF state, granted, call
<1>7. LeasesAgree'
  <2>1. IsFiniteSet(leases) /\ Held \subseteq leases /\ alive \subseteq leases
    BY <1>1, BreakerAssumption, FS_Subset DEF LeasesAgree, Held
  <2>2. /\ IsFiniteSet(Held) /\ Cardinality(Held) <= Cardinality(leases)
        /\ Cardinality(Held) \in Nat /\ Cardinality(leases) \in Nat
    BY <2>1, FS_Subset, FS_CardinalityType
  <2>3. CASE granted = {}
    <3>1. leases' = Held /\ alive' = alive
      BY <1>4, <2>3
    <3> QED
      BY <1>1, <2>1, <2>2, <3>1, BreakerAssumption DEF LeasesAgree, LeasesBounded, Held
  <2>4. CASE granted = {NewToken} /\ HasRoom
    <3>1. /\ IsFiniteSet(Held \union {NewToken})
          /\ Cardinality(Held \union {NewToken}) =
               IF NewToken \in Held THEN Cardinality(Held) ELSE Cardinality(Held) + 1
      BY <2>2, FS_AddElement
    <3>2. Cardinality(Held \union {NewToken}) <= Cardinality(Held) + 1
      BY <2>2, <3>1
    <3>3. leases' = Held \union {NewToken} /\ Cardinality(Held) < MaxProbes
      BY <1>4, <2>4 DEF HasRoom
    <3>4. Cardinality(Held \union {NewToken}) \in Nat
      BY <3>1, FS_CardinalityType
    <3>5. Cardinality(Held \union {NewToken}) <= MaxProbes
      BY <2>2, <3>2, <3>3, <3>4, BreakerAssumption
    <3> QED
      BY <1>1, <1>3, <1>4, <2>1, <2>4, <3>3, <3>5 DEF LeasesAgree, LeasesBounded, Held
  <2> QED
    BY <1>5, <2>3, <2>4
<1>8. CallsAgree'
  <2>1. calls' \in [Calls -> CallRecords] /\ calls'[c] = call
    BY <1>1, <1>4, <1>6 DEF CallsAgree
  <2>2. \A d \in Calls : d # c => calls'[d] = calls[d]
    BY <1>1, <1>4 DEF CallsAgree
  <2>3. CallsKnow'
    BY <1>1, <1>6, <2>1, <2>2 DEF CallsAgree, CallsKnow
  <2>4. \A d \in Calls : d # c => calls'[d].token # call.token \/ call.token = None
    BY <1>3, <1>6, <2>2
  <2>5. TokensDiffer'
    BY <1>1, <2>1, <2>2, <2>4 DEF CallsAgree, TokensDiffer
  <2> QED
    BY <2>1, <2>3, <2>5 DEF CallsAgree
<1> QED
  BY <1>7, <1>8

(***************************************************************************)
(* The invariant.                                                          *)
(***************************************************************************)
Hashes == [state : GateState, failures : 0..FailureThreshold,
           successes : 0..SuccessThreshold, cooled : BOOLEAN]

\* The hash keeps its type when an outcome is recorded, and leases only go.
LEMMA RecordTyped ==
  ASSUME IInv, NEW c \in Calls, Record(c)
  PROVE  shared' \in Hashes /\ LeasesAgree'
<1> DEFINE outcome == calls[c].outcome
           token == calls[c].token
           counts == Counts(shared.state, token)
           failures == IF outcome = "failure" THEN UpTo(shared.failures + 1, FailureThreshold) ELSE 0
           successes == IF outcome = "success" THEN UpTo(shared.successes + 1, SuccessThreshold) ELSE 0
           trips == /\ counts /\ outcome = "failure"
                    /\ \/ shared.state = "HALF_OPEN"
                       \/ shared.state = "CLOSED" /\ failures >= FailureThreshold
           closes == /\ counts /\ outcome = "success"
                     /\ shared.state = "HALF_OPEN" /\ successes >= SuccessThreshold
           freed == IF trips \/ closes THEN leases ELSE leases \intersect {token}
           state == IF trips THEN "OPEN" ELSE IF closes THEN "CLOSED" ELSE shared.state
           cooled == IF trips THEN FALSE ELSE shared.cooled
           hash == [state |-> state, failures |-> failures, successes |-> successes,
                    cooled |-> cooled]
<1>1. /\ shared' = IF counts /\ outcome # "neutral" THEN hash ELSE shared
      /\ leases' = leases \ freed /\ alive' = alive \ freed
  BY DEF Record, RECORD, AliveWithout
<1>2. shared \in Hashes /\ LeasesAgree
  BY DEF IInv, TypeOK, LeasesAgree, Hashes
<1>3. failures \in 0..FailureThreshold
  <2>1. shared.failures + 1 \in Nat /\ FailureThreshold \in Nat
    BY <1>2, BreakerAssumption DEF Hashes
  <2> QED
    BY <2>1, UpToTyped
<1>4. successes \in 0..SuccessThreshold
  <2>1. shared.successes + 1 \in Nat /\ SuccessThreshold \in Nat
    BY <1>2, BreakerAssumption DEF Hashes
  <2> QED
    BY <2>1, UpToTyped
<1> HIDE DEF counts, failures, successes, trips, closes, freed
<1>5. state \in GateState
  BY <1>2 DEF Hashes, GateState
<1>6. cooled \in BOOLEAN
  <2>1. shared.cooled \in BOOLEAN
    BY <1>2 DEF Hashes
  <2> QED
    BY <2>1, Zenon
<1> HIDE DEF state, cooled
<1>7. hash \in Hashes
  BY <1>3, <1>4, <1>5, <1>6 DEF Hashes
<1> HIDE DEF hash
<1> QED
  BY <1>1, <1>2, <1>7, FreedLemma

LEMMA Invariance == Spec => []IInv
<1>1. Init => IInv
  <2> SUFFICES ASSUME Init PROVE IInv
    OBVIOUS
  <2>1. 0 \in 0..FailureThreshold /\ 0 \in 0..SuccessThreshold /\ 0 \in Int
    BY BreakerAssumption
  <2>2. Fresh \in Hashes
    BY <2>1 DEF Fresh, Hashes, GateState
  <2>3. FreshLocal \in Objects
    BY <2>1 DEF FreshLocal, Objects, GateState
  <2>4. Cardinality({}) = 0
    BY FS_EmptySet
  <2> QED
    BY <2>2, <2>3, <2>4, IdleTyped, BreakerAssumption DEF Init, IInv, TypeOK, Hashes, Objects,
       CallRecords, CallsKnow, LeasesBounded, TokensDiffer
<1>2. IInv /\ [Next]_vars => IInv'
  <2> SUFFICES ASSUME IInv, [Next]_vars PROVE IInv'
    OBVIOUS
  <2>1. /\ distributed' = distributed /\ home' = home
        /\ distributed \in BOOLEAN /\ home \in Placements
    BY DEF IInv, TypeOK, Next, Steps, CallStep, TimeStep, Faults, vars, fixed, CallLocally, Ask,
       Admit, Record, Leave, Answer, LoseAnswer, RecordFails, ResetTimePasses,
       LocalResetTimePasses, LeaseExpires, Restart
  <2>2. /\ shared \in Hashes /\ LeasesAgree /\ CallsAgree /\ local \in [Procs -> Objects]
    BY DEF IInv, TypeOK, Hashes, Objects, CallRecords, LeasesAgree, CallsAgree
  <2>3. SUFFICES /\ shared' \in Hashes /\ LeasesAgree' /\ CallsAgree'
                 /\ local' \in [Procs -> Objects]
    BY <2>1, <2>3 DEF IInv, TypeOK, Hashes, Objects, CallRecords, LeasesAgree, CallsAgree
  <2> DEFINE Goal == /\ shared' \in Hashes /\ LeasesAgree' /\ CallsAgree'
                     /\ local' \in [Procs -> Objects]
             Others(c) == \/ CallLocally(c) \/ Admit(c) \/ Leave(c)
                          \/ (\E reply \in DOMAIN OutcomeOf : Answer(c, reply))
                          \/ LoseAnswer(c) \/ RecordFails(c)
  <2>4. UNCHANGED redis => shared' \in Hashes /\ LeasesAgree'
    BY <2>2 DEF redis, LeasesAgree, LeasesBounded
  <2>5. ASSUME NEW c \in Calls, Ask(c) PROVE Goal
    <3>1. shared' \in Hashes
      BY <2>2, <2>5 DEF Ask, ACQUIRE, Hashes, GateState
    <3> QED
      BY <2>2, <2>5, <3>1, AskLemma DEF Ask
  <2>6. ASSUME NEW c \in Calls, Record(c) PROVE Goal
    BY <2>1, <2>2, <2>6, RecordTyped, CallStepTyped, CallLemma
  <2>7. ASSUME NEW c \in Calls, Others(c) PROVE Goal
    <3>1. UNCHANGED redis
      BY <2>7 DEF CallLocally, Admit, Leave, Answer, LoseAnswer, RecordFails
    <3>2. local' \in [Procs -> Objects] /\ \E call : CallBecomes(c, call)
      BY <2>7, CallStepTyped
    <3> QED
      BY <2>1, <2>2, <2>4, <3>1, <3>2, CallLemma
  <2>8. ASSUME ResetTimePasses PROVE Goal
    <3>1. shared' \in Hashes
      BY <2>2, <2>8 DEF ResetTimePasses, Hashes, GateState
    <3> QED
      BY <2>1, <2>2, <2>8, <3>1 DEF ResetTimePasses, LeasesAgree, LeasesBounded, CallsAgree,
         CallsKnow, TokensDiffer
  <2>9. ASSUME NEW p \in Procs, LocalResetTimePasses(p) PROVE Goal
    <3>1. local' \in [Procs -> Objects]
      BY <2>2, <2>9 DEF LocalResetTimePasses, Objects
    <3> QED
      BY <2>1, <2>2, <2>4, <2>9, <3>1 DEF LocalResetTimePasses, CallsAgree, CallsKnow, TokensDiffer
  <2>10. ASSUME NEW t \in Tokens, LeaseExpires(t) PROVE Goal
    BY <2>1, <2>2, <2>10 DEF LeaseExpires, LeasesAgree, LeasesBounded, CallsAgree, CallsKnow,
       TokensDiffer
  <2>11. ASSUME NEW p \in Procs, Restart(p) PROVE Goal
    <3>1. FreshLocal \in Objects
      BY BreakerAssumption DEF FreshLocal, Objects, GateState
    <3>2. local' \in [Procs -> Objects]
      BY <2>2, <2>11, <3>1 DEF Restart
    <3>3. \A c \in Calls : calls'[c] \in {calls[c], Idle}
      BY <2>11 DEF Restart
    <3>4. calls' \in [Calls -> CallRecords]
      BY <2>2, <2>11, IdleTyped DEF Restart, CallsAgree
    <3>5. CallsAgree'
      BY <2>1, <2>2, <3>3, <3>4, IdleTyped DEF CallsAgree, CallsKnow, TokensDiffer
    <3> QED
      BY <2>4, <2>11, <3>2, <3>5 DEF Restart
  <2>12. ASSUME UNCHANGED vars PROVE Goal
    BY <2>1, <2>2, <2>4, <2>12 DEF vars, CallsAgree, CallsKnow, TokensDiffer
  <2> QED
    BY <2>5, <2>6, <2>7, <2>8, <2>9, <2>10, <2>11, <2>12
       DEF Next, Steps, CallStep, TimeStep, Faults
<1> QED
  BY <1>1, <1>2, PTL DEF Spec

\* Every reachable state is well typed: counters stop at their thresholds, and a
\* lease key belongs to a lease.
THEOREM TypeCorrect == Spec => []TypeOK
BY Invariance, PTL DEF IInv

\* Live leases of all processes together are never more than the probes allowed,
\* whatever leases expire, answers are lost and processes die.
THEOREM ProbesLimited == Spec => []ProbesWithinLimit
<1>1. IInv => ProbesWithinLimit
  <2> SUFFICES ASSUME IInv PROVE ProbesWithinLimit
    OBVIOUS
  <2> DEFINE P == {c \in Calls : calls[c].token \in alive}
             f == [c \in P |-> calls[c].token]
  <2>1. /\ leases \subseteq Tokens /\ alive \subseteq leases /\ None \notin Tokens
        /\ IsFiniteSet(Tokens) /\ MaxProbes \in Nat
    BY BreakerAssumption DEF IInv, TypeOK
  <2>2. IsFiniteSet(leases)
    BY <2>1, FS_Subset
  <2>3. /\ IsFiniteSet(alive) /\ Cardinality(alive) <= Cardinality(leases)
        /\ Cardinality(alive) \in Nat /\ Cardinality(leases) \in Nat
    BY <2>1, <2>2, FS_Subset, FS_CardinalityType
  <2>4. f \in Injection(P, alive)
    BY <2>1 DEF Injection, IsInjective, IInv, TokensDiffer
  <2>5. IsFiniteSet(P) /\ Cardinality(P) <= Cardinality(alive)
    <3> HIDE DEF P, f
    <3> QED
      BY <2>3, <2>4, FS_Injection
  <2>6. Cardinality(P) \in Nat
    BY <2>5, FS_CardinalityType
  <2> HIDE DEF P
  <2>7. Cardinality(P) <= MaxProbes
    BY <2>1, <2>3, <2>5, <2>6 DEF IInv, LeasesBounded
  <2> QED
    BY <2>7 DEF P, ProbesWithinLimit
<1> QED
  BY <1>1, Invariance, PTL

(***************************************************************************)
(* The objects.                                                            *)
(***************************************************************************)

\* What the methods of an object may make of it, but for the passing of time.
Moves(b, n) ==
  \/ n.state = b.state /\ n.cooled = b.cooled
  \/ b.state \in {"CLOSED", "HALF_OPEN"} /\ n.state = "OPEN" /\ n.cooled = FALSE
  \/ b.state = "OPEN" /\ b.cooled /\ n.state = "HALF_OPEN" /\ n.cooled = b.cooled
  \/ b.state = "HALF_OPEN" /\ n.state = "CLOSED" /\ n.cooled = b.cooled

LEMMA TransitionMoves ==
  ASSUME NEW b \in Objects, NEW s \in GateState
  PROVE  /\ TransitionTo(b, s).state = s
         /\ TransitionTo(b, s).cooled = IF s = "OPEN" /\ b.state # s THEN FALSE ELSE b.cooled
BY DEF TransitionTo, Objects

LEMMA SuccessMoves == ASSUME NEW b \in Objects PROVE Moves(b, RecordSuccess(b))
<1> DEFINE n == UpTo(b.successes + 1, SuccessThreshold)
           counted == [b EXCEPT !.successes = n, !.failures = 0]
<1>1. RecordSuccess(b) = IF counted.state = "HALF_OPEN" /\ counted.successes >= SuccessThreshold
                         THEN TransitionTo(counted, "CLOSED") ELSE counted
  BY DEF RecordSuccess
<1>2. counted.state = b.state /\ counted.cooled = b.cooled
  BY DEF Objects
<1>3. TransitionTo(counted, "CLOSED").state = "CLOSED" \/ counted.state # "HALF_OPEN"
  BY <1>2 DEF TransitionTo, Objects
<1>4. counted.state = "HALF_OPEN" => TransitionTo(counted, "CLOSED").cooled = b.cooled
  BY <1>2 DEF TransitionTo, Objects
<1> HIDE DEF counted
<1> QED
  BY <1>1, <1>2, <1>3, <1>4 DEF Moves

LEMMA FailureMoves == ASSUME NEW b \in Objects PROVE Moves(b, RecordFailure(b))
<1> DEFINE n == UpTo(b.failures + 1, FailureThreshold)
           counted == [b EXCEPT !.failures = n, !.successes = 0]
           opens == \/ counted.state = "HALF_OPEN"
                    \/ counted.state = "CLOSED" /\ counted.failures >= FailureThreshold
<1>1. RecordFailure(b) = IF opens THEN TransitionTo(counted, "OPEN") ELSE counted
  BY DEF RecordFailure
<1>2. counted.state = b.state /\ counted.cooled = b.cooled
  BY DEF Objects
<1>3. opens => b.state \in {"CLOSED", "HALF_OPEN"}
  BY <1>2
<1>4. b.state # "OPEN" => /\ TransitionTo(counted, "OPEN").state = "OPEN"
                          /\ TransitionTo(counted, "OPEN").cooled = FALSE
  BY <1>2 DEF TransitionTo, Objects
<1> HIDE DEF counted, opens
<1> QED
  BY <1>1, <1>2, <1>3, <1>4 DEF Moves

\* A call that is decided without Redis moves its object, and no other.
LEMMA EnterMoves ==
  ASSUME TypeOK, NEW c \in Calls, NEW token, Enter(c, local[home[c]], token), NEW p \in Procs
  PROVE  Moves(local[p], local'[p])
<1> DEFINE b == local[home[c]]
           opened == IF b.state = "OPEN" /\ b.cooled THEN TransitionTo(b, "HALF_OPEN") ELSE b
           probe == opened.state = "HALF_OPEN"
                      /\ ~(opened.state = "OPEN"
                           \/ (opened.state = "HALF_OPEN" /\ opened.inFlight >= MaxProbes))
           n == IF probe THEN opened.inFlight + 1 ELSE opened.inFlight
           object == [opened EXCEPT !.inFlight = n]
<1>1. local \in [Procs -> Objects] /\ b \in Objects
  BY HomeTyped DEF TypeOK, Objects
<1>2. local'[p] = local[p] \/ (p = home[c] /\ local'[p] = object)
  BY <1>1 DEF Enter
<1>3. opened \in Objects /\ Moves(b, opened)
  <2>1. CASE b.state = "OPEN" /\ b.cooled
    <3>1. opened = TransitionTo(b, "HALF_OPEN") /\ "HALF_OPEN" \in GateState
      BY <2>1 DEF GateState
    <3> HIDE DEF b, opened
    <3> QED
      BY <1>1, <2>1, <3>1, TransitionTyped, TransitionMoves DEF Moves
  <2>2. CASE ~(b.state = "OPEN" /\ b.cooled)
    BY <1>1, <2>2 DEF Moves
  <2> QED
    BY <2>1, <2>2
<1>4. object.state = opened.state /\ object.cooled = opened.cooled
  <2> HIDE DEF opened, n
  <2> QED
    BY <1>3 DEF Objects
<1> HIDE DEF object, opened
<1> QED
  BY <1>2, <1>3, <1>4 DEF Moves

\* Without shared state only these steps touch an object.
LEMMA ObjectStep ==
  ASSUME IInv, [Next]_vars, ~distributed, NEW p \in Procs
  PROVE  \/ local'[p] = FreshLocal
         \/ Moves(local[p], local'[p])
         \/ local[p].state = "OPEN" /\ local'[p].state = "OPEN" /\ local'[p].cooled = TRUE
<1> DEFINE Goal == \/ local'[p] = FreshLocal
                   \/ Moves(local[p], local'[p])
                   \/ local[p].state = "OPEN" /\ local'[p].state = "OPEN" /\ local'[p].cooled = TRUE
<1>1. TypeOK /\ local \in [Procs -> Objects] /\ \A c \in Calls : calls[c].phase \in {"idle", "running"}
  BY DEF IInv, TypeOK, Objects, CallsKnow
<1>2. CASE UNCHANGED local
  BY <1>2 DEF Moves
<1>3. ASSUME NEW c \in Calls, CallLocally(c) PROVE Goal
  BY <1>1, <1>3, EnterMoves DEF CallLocally
<1>4. ASSUME NEW c \in Calls, NEW reply \in DOMAIN OutcomeOf, Answer(c, reply) PROVE Goal
  <2> DEFINE b == local[home[c]]
             outcome == OutcomeOf[reply]
             counted == CASE outcome = "success" -> RecordSuccess(b)
                          [] outcome = "failure" -> RecordFailure(b)
                          [] outcome = "neutral" -> b
  <2>1. outcome \in {"success", "failure", "neutral"} /\ b \in Objects
    BY <1>1, HomeTyped DEF OutcomeOf
  <2> HIDE DEF outcome, b
  <2>2. counted \in Objects /\ Moves(b, counted)
    <3>1. Moves(b, b)
      BY DEF Moves
    <3> QED
      BY <2>1, <3>1, RecordSuccessTyped, RecordFailureTyped, SuccessMoves, FailureMoves
  <2>3. local' = [local EXCEPT ![home[c]] = Ended(c, counted)]
    BY <1>4 DEF Answer, b, outcome
  <2> HIDE DEF counted
  <2>4. Ended(c, counted).state = counted.state /\ Ended(c, counted).cooled = counted.cooled
    BY <2>2 DEF Ended, Objects
  <2>5. Moves(b, Ended(c, counted))
    BY <2>2, <2>4 DEF Moves
  <2>6. local'[p] = local[p] \/ (p = home[c] /\ local'[p] = Ended(c, counted))
    BY <1>1, <2>3
  <2> QED
    BY <2>5, <2>6 DEF Moves, b
<1>5. ASSUME NEW c \in Calls, Ask(c) \/ Admit(c) \/ Record(c) \/ Leave(c) \/ LoseAnswer(c) \/ RecordFails(c)
      PROVE  Goal
  BY <1>1, <1>5 DEF Ask, Admit, Record, Leave, LoseAnswer, RecordFails
<1>6. ASSUME NEW q \in Procs, LocalResetTimePasses(q) PROVE Goal
  <2>1. local' = [local EXCEPT ![q].cooled = TRUE] /\ local[q].state = "OPEN"
    BY <1>6 DEF LocalResetTimePasses
  <2> QED
    BY <1>1, <2>1 DEF Moves, Objects
<1>7. ASSUME NEW q \in Procs, Restart(q) PROVE Goal
  BY <1>1, <1>7 DEF Restart, Moves
<1> QED
  BY <1>2, <1>3, <1>4, <1>5, <1>6, <1>7 DEF Next, Steps, CallStep, TimeStep, Faults, vars,
     ResetTimePasses, LeaseExpires

\* An object that decides alone goes round as the contract says, until its
\* process restarts.
THEOREM ObjectRefinement == Spec => ObjectsKeepContract
<1> DEFINE A == \A p \in Procs : distributed \/ local'[p] = FreshLocal \/ Object(p)!Next
                                   \/ UNCHANGED <<local[p].state, local[p].cooled>>
<1>1. IInv /\ [Next]_vars => [A]_vars
  <2> SUFFICES ASSUME IInv, [Next]_vars, NEW p \in Procs, ~distributed, local'[p] # FreshLocal
               PROVE  Object(p)!Next \/ UNCHANGED <<local[p].state, local[p].cooled>>
    BY DEF A
  <2> QED
    BY ObjectStep DEF Moves, Object!Next, Object!Trip, Object!Rest, Object!Probe, Object!Recover
<1> QED
  BY <1>1, Invariance, PTL DEF Spec, ObjectsKeepContract
=============================================================================
