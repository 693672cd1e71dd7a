------------------------------ MODULE WebhookProofs ------------------------------
(***************************************************************************)
(* Proofs about WebhookDelivery, for any deliveries, processes, requests   *)
(* and limits.  The argument: what a process read may be old, but what it  *)
(* did is not forgotten: an answer it holds was given, and an attempt it   *)
(* is about to count was made, so both may be written however late.        *)
(***************************************************************************)
EXTENDS WebhookProperties, FiniteSetTheorems, TLAPS

(***************************************************************************)
(* The inductive invariant.                                                *)
(***************************************************************************)
Phases == {"idle", "posting", "logging", "counting", "catching", "rewriting"}
Runs == [phase : Phases, delivery : Deliveries \union {None}, attempts : Nat,
         hook : Hooks \union {None}, ok : BOOLEAN]
Rows == [status : {"absent", "pending", "delivered", "failed"}, attempts : Nat,
         due : {"never", "later", "now"}]

RunTyped ==
  /\ run \in [Schedulers -> Runs]
  /\ \A s \in Schedulers : run[s].phase # "idle" =>
       run[s].delivery \in Deliveries /\ run[s].hook \in Hooks

\* TypeOK, and a process that is not idle has a delivery and a webhook.
Typed ==
  /\ log \in [Deliveries -> Rows] /\ hook \in Hooks
  /\ sender \in [Deliveries -> {"idle", "posting"} \union Answers]
  /\ asking \in [Requests -> Deliveries \union {None}]
  /\ queue \in [Schedulers -> SUBSET Deliveries] /\ RunTyped
  /\ acked \subseteq Deliveries /\ posts \in [Deliveries -> Nat]
  /\ running \subseteq Schedulers /\ asks \in Nat /\ faults \in Nat

\* An answer in hand was given.
AnswersAreTrue ==
  /\ \A d \in Deliveries : sender[d] = "ok" => d \in acked
  /\ \A s \in Schedulers : run[s].phase # "idle" /\ run[s].ok => run[s].delivery \in acked

\* The processes that made an attempt at d, got no answer and have not read the
\* row again: each of them will count one more attempt than the row then says.
Catching(d) == {s \in Schedulers : run[s].phase = "catching" /\ run[s].delivery = d}
Owed(d) == Cardinality(Catching(d))

\* n attempts may be written into the row of d without claiming too many.
Fits(n, d) == n + Owed(d) <= posts[d]

\* Whatever a row says, or is about to say, was made.
RowsFit == \A d \in Deliveries : Fits(log[d].attempts, d)
SendersFit == \A d \in Deliveries : sender[d] \in Answers => Fits(1, d)
RunFits(s) ==
  /\ run[s].phase = "posting" => Fits(run[s].attempts, run[s].delivery)
  /\ run[s].phase \in {"logging", "rewriting"} => Fits(run[s].attempts + 1, run[s].delivery)
RunsFit == \A s \in Schedulers : RunFits(s)
AttemptsFit == RowsFit /\ SendersFit /\ RunsFit

\* A process has the delivery in its batch; it may still write its row.
Mine(phase) == phase \in {"posting", "logging", "catching", "rewriting"}
Holds(s, d) == d \in queue[s] \/ (run[s].phase # "idle" /\ run[s].delivery = d)
Claims(s, d) == d \in queue[s] \/ (Mine(run[s].phase) /\ run[s].delivery = d)

\* Only a running process has a batch, and takes each delivery out of it once.
BatchesAreSane ==
  \A s \in Schedulers : \A d \in Deliveries :
    /\ Holds(s, d) => s \in running
    /\ run[s].phase # "idle" => run[s].delivery \notin queue[s]

\* Nobody retries what does not exist or is in its first attempt.
FirstAttemptsAreAlone ==
  \A d \in Deliveries :
    /\ sender[d] # "idle" => log[d].status = "pending" /\ log[d].due = "never"
    /\ sender[d] # "idle" \/ log[d].status = "absent" =>
         /\ \A s \in Schedulers : ~Holds(s, d)
         /\ \A q \in Requests : asking[q] # d

\* What one process alone may still write is not delivered.
ClaimsAreOpen ==
  Cardinality(running) = 1 =>
    \A s \in Schedulers : \A d \in Deliveries :
      Claims(s, d) => log[d].status \in {"pending", "failed"}

\* The process may still add an attempt to what the row says.
Adding(phase) == phase \in {"posting", "logging"}
MayAdd(s, d) == d \in queue[s] \/ (Adding(run[s].phase) /\ run[s].delivery = d)
Open(d) == log[d].due # "never" \/ \E s \in Schedulers : MayAdd(s, d)

\* What the operator asked for and is not still waiting between check and write.
Checked == {q \in Requests : asking[q] # None}
Opened == asks - Cardinality(Checked)
Limit == IF HighestLimit > 1 THEN HighestLimit ELSE 1
Allowance == Limit + Opened

OpeningsCount ==
  /\ IsFiniteSet(Checked) /\ Opened >= 0
  /\ \A d \in Deliveries :
       log[d].due # "never" \/ (\E s \in Schedulers : Holds(s, d)) => Opened >= 1

RowRoom(d) ==
  /\ log[d].attempts <= Allowance
  /\ Open(d) => log[d].attempts + 1 <= Allowance
RunRoom(s) == Adding(run[s].phase) => run[s].attempts + 1 <= Allowance
RoomKept ==
  Cardinality(running) = 1 =>
    (\A d \in Deliveries : RowRoom(d)) /\ (\A s \in Schedulers : RunRoom(s))

LimitInv == OpeningsCount /\ RoomKept

IInv ==
  /\ Typed /\ DeliveredIsAccepted /\ AnswersAreTrue /\ BatchesAreSane
  /\ faults = 0 => AttemptsFit /\ FirstAttemptsAreAlone /\ ClaimsAreOpen
  /\ LimitInv

(***************************************************************************)
(* Types.                                                                  *)
(***************************************************************************)

\* What a step writes into a row, and into a process's run, has the right type.
LEMMA RowTyped ==
  ASSUME Typed, NEW d \in Deliveries, NEW status \in {"absent", "pending", "delivered", "failed"},
         NEW n \in Nat, NEW due \in {"never", "later", "now"}, Row(d, status, n, due)
  PROVE  log' \in [Deliveries -> Rows]
BY DEF Typed, Row, Rows

LEMMA AttemptTyped ==
  ASSUME Typed, NEW s \in Schedulers, NEW phase \in Phases \ {"idle"}, NEW d \in Deliveries,
         NEW n \in Nat, NEW seen \in Hooks, NEW ok \in BOOLEAN,
         Becomes(s, Attempt(phase, d, n, seen, ok))
  PROVE  RunTyped'
<1>1. Attempt(phase, d, n, seen, ok) \in Runs
  BY DEF Attempt, Runs, Phases
<1>2. /\ Attempt(phase, d, n, seen, ok).delivery \in Deliveries
      /\ Attempt(phase, d, n, seen, ok).hook \in Hooks
  BY DEF Attempt
<1> HIDE DEF Attempt
<1> QED
  BY <1>1, <1>2 DEF Typed, RunTyped, Becomes

LEMMA GotoTyped ==
  ASSUME Typed, NEW s \in Schedulers, NEW phase \in Phases \ {"idle"}, run[s].phase # "idle",
         Goto(s, phase)
  PROVE  RunTyped'
<1>1. /\ run[s].delivery \in Deliveries /\ run[s].attempts \in Nat
      /\ run[s].hook \in Hooks /\ run[s].ok \in BOOLEAN
  BY DEF Typed, RunTyped, Runs
<1> QED
  BY <1>1, AttemptTyped DEF Goto

LEMMA DoneTyped == ASSUME Typed, NEW s \in Schedulers, Done(s) PROVE RunTyped'
<1>1. Resting \in Runs /\ Resting.phase = "idle"
  BY DEF Resting, Attempt, Runs, Phases
<1> HIDE DEF Resting
<1> QED
  BY <1>1 DEF Typed, RunTyped, Done, Becomes

LEMMA CountedTyped ==
  ASSUME Typed, NEW s \in Schedulers, run[s].phase # "idle", CountedHook(s)
  PROVE  hook' \in Hooks
<1>1. CASE UNCHANGED hook
  BY <1>1 DEF Typed
<1>2. ASSUME NEW on \in BOOLEAN, NEW n \in 0..Threshold, SetHook(TRUE, on, hook.maxRetries, n)
      PROVE  hook' \in Hooks
  BY <1>2 DEF SetHook, Hooks, Typed
<1>3. /\ run[s].hook.failures \in 0..Threshold /\ run[s].hook.retriesEnabled \in BOOLEAN
      /\ hook.retriesEnabled \in BOOLEAN
  BY DEF Typed, RunTyped, Hooks
<1>4. 0 \in 0..Threshold /\ UpTo(run[s].hook.failures + 1, Threshold) \in 0..Threshold
  BY <1>3, WebhookAssumption DEF UpTo
<1> QED
  BY <1>1, <1>2, <1>3, <1>4 DEF CountedHook

\* Every step keeps every variable within its type.
LEMMA TypedStep == Typed /\ [Next]_vars => Typed'
<1> SUFFICES ASSUME Typed, [Next]_vars PROVE Typed'
  OBVIOUS
<1> USE DEF tables, history, bounds
<1>1. ASSUME NEW d \in Deliveries, DeliveryStep(d) PROVE Typed'
  <2>0. log[d].attempts \in Nat /\ log[d].due \in {"never", "later", "now"}
        /\ log[d].status \in {"absent", "pending", "delivered", "failed"}
    BY DEF Typed, Rows
  <2>1. CASE InsertLog(d)
    <3>1. log' \in [Deliveries -> Rows]
      BY <2>1, RowTyped DEF InsertLog, CountedAtInsert
    <3> QED
      BY <2>1, <3>1 DEF InsertLog, Typed, RunTyped
  <2>2. ASSUME FirstRow(d) PROVE log' \in [Deliveries -> Rows]
    BY <2>0, <2>2, RowTyped DEF FirstRow
  <2>3. CASE WriteFirst(d)
    BY <2>2, <2>3 DEF WriteFirst, Typed, RunTyped
  <2>4. CASE FirstFails(d)
    BY <2>2, <2>4 DEF FirstFails, Answers, Typed, RunTyped
  <2>5. CASE SenderDies(d)
    BY <2>5 DEF SenderDies, Typed, RunTyped
  <2>6. CASE BackoffPasses(d)
    <3>1. log' \in [Deliveries -> Rows]
      BY <2>0, <2>6, RowTyped DEF BackoffPasses
    <3> QED
      BY <2>6, <3>1 DEF BackoffPasses, Typed, RunTyped
  <2>7. CASE RetryFailedDelivery(d)
    <3>1. log' \in [Deliveries -> Rows]
      BY <2>0, <2>7, RowTyped DEF RetryFailedDelivery
    <3> QED
      BY <2>7, <3>1 DEF RetryFailedDelivery, Ask, Typed, RunTyped
  <2>8. ASSUME NEW answer \in Answers, PostFirst(d, answer) PROVE Typed'
    BY <2>8 DEF PostFirst, Posted, Typed, RunTyped
  <2> QED
    BY <1>1, <2>1, <2>3, <2>4, <2>5, <2>6, <2>7, <2>8 DEF DeliveryStep
<1>2. ASSUME NEW s \in Schedulers, LoggedRow(s) \/ Rewritten(s), run[s].phase # "idle"
      PROVE  log' \in [Deliveries -> Rows]
  <2>1. /\ run[s].delivery \in Deliveries /\ run[s].attempts \in Nat
        /\ log[run[s].delivery].attempts \in Nat
    BY <1>2 DEF Typed, RunTyped, Runs, Rows
  <2> QED
    BY <1>2, <2>1, RowTyped DEF LoggedRow, Rewritten
<1>3. ASSUME NEW s \in Schedulers, Work(s) PROVE Typed'
  <2>1. CASE Poll(s)
    BY <2>1 DEF Poll, Due, Typed, RunTyped
  <2>2. CASE WriteLog(s)
    <3>1. log' \in [Deliveries -> Rows] /\ RunTyped'
      BY <1>2, <2>2, GotoTyped, DoneTyped DEF WriteLog, At, Phases
    <3> QED
      BY <2>2, <3>1 DEF WriteLog, Typed
  <2>3. CASE WriteHook(s)
    <3>1. hook' \in Hooks /\ RunTyped'
      BY <2>3, CountedTyped, DoneTyped DEF WriteHook, At
    <3> QED
      BY <2>3, <3>1 DEF WriteHook, Typed
  <2>4. CASE CatchError(s)
    <3>1. /\ run[s].delivery \in Deliveries /\ run[s].ok \in BOOLEAN
          /\ log[run[s].delivery].attempts \in Nat
      BY <2>4 DEF CatchError, At, Typed, RunTyped, Runs, Rows
    <3>2. RunTyped'
      BY <2>4, <3>1, AttemptTyped, DoneTyped DEF CatchError, Typed, Phases
    <3> QED
      BY <2>4, <3>2 DEF CatchError, Typed
  <2>5. CASE Rewrite(s)
    <3>1. log' \in [Deliveries -> Rows] /\ RunTyped'
      BY <1>2, <2>5, DoneTyped DEF Rewrite, At
    <3> QED
      BY <2>5, <3>1 DEF Rewrite, Typed
  <2>6. ASSUME NEW d \in Deliveries, Take(s, d) PROVE Typed'
    <3>1. log[d].attempts \in Nat
      BY DEF Typed, Rows
    <3>2. log' \in [Deliveries -> Rows]
      BY <2>6, <3>1, RowTyped DEF Take, Typed
    <3>3. RunTyped'
      BY <2>6, <3>1, AttemptTyped DEF Take, Typed, RunTyped, Phases
    <3> QED
      BY <2>6, <3>2, <3>3 DEF Take, Typed
  <2>7. ASSUME NEW answer \in Answers, Post(s, answer) PROVE Typed'
    <3>1. /\ run[s].delivery \in Deliveries /\ run[s].attempts \in Nat
          /\ run[s].hook \in Hooks
      BY <2>7 DEF Post, At, Typed, RunTyped, Runs
    <3>2. RunTyped'
      BY <2>7, <3>1, AttemptTyped DEF Post, Phases
    <3> QED
      BY <2>7, <3>1, <3>2 DEF Post, Posted, Typed
  <2> QED
    BY <1>3, <2>1, <2>2, <2>3, <2>4, <2>5, <2>6, <2>7 DEF Work
<1>4. ASSUME NEW s \in Schedulers, DatabaseFails(s) PROVE Typed'
  <2>1. run[s].phase # "idle"
    BY <1>4 DEF DatabaseFails, At
  <2>2. log' \in [Deliveries -> Rows]
    BY <1>2, <1>4, <2>1 DEF DatabaseFails, Typed
  <2>3. hook' \in Hooks
    BY <1>4, <2>1, CountedTyped DEF DatabaseFails, Typed
  <2>4. RunTyped' /\ queue' \in [Schedulers -> SUBSET Deliveries]
    BY <1>4, <2>1, GotoTyped, DoneTyped DEF DatabaseFails, EndBatch, Typed, Phases
  <2> QED
    BY <1>4, <2>2, <2>3, <2>4 DEF DatabaseFails, Typed
<1>5. ASSUME NEW s \in Schedulers, SchedulerDies(s) PROVE Typed'
  BY <1>5, DoneTyped DEF SchedulerDies, EndBatch, Typed
<1>6. ASSUME NEW q \in Requests, ScheduleRetry(q) PROVE Typed'
  <2>1. asking[q] \in Deliveries /\ log[asking[q]].attempts \in Nat
    BY <1>6 DEF ScheduleRetry, Typed, Rows
  <2>2. log' \in [Deliveries -> Rows]
    BY <1>6, <2>1, RowTyped DEF ScheduleRetry
  <2> QED
    BY <1>6, <2>2 DEF ScheduleRetry, Typed, RunTyped
<1>7. ASSUME NEW q \in Requests, NEW d \in Deliveries, CheckRetry(q, d) PROVE Typed'
  BY <1>7 DEF CheckRetry, Ask, Typed, RunTyped
<1>8. CASE Configure
  <2>1. hook' \in Hooks
    <3>1. /\ hook.failures \in 0..Threshold /\ hook.retriesEnabled \in BOOLEAN
          /\ hook.maxRetries \in RetryLimits
      BY DEF Typed, Hooks
    <3>2. ASSUME NEW exists \in BOOLEAN, NEW on \in BOOLEAN, NEW limit \in RetryLimits,
                 SetHook(exists, on, limit, hook.failures)
          PROVE  hook' \in Hooks
      BY <3>1, <3>2 DEF SetHook, Hooks
    <3> QED
      BY <1>8, <3>1, <3>2 DEF Configure
  <2> QED
    BY <1>8, <2>1 DEF Configure, Ask, Typed, RunTyped
<1>9. CASE UNCHANGED vars
  BY <1>9 DEF vars, Typed, RunTyped
<1> QED
  BY <1>1, <1>3, <1>4, <1>5, <1>6, <1>7, <1>8, <1>9 DEF Next

(***************************************************************************)
(* Deliveries that are recorded were accepted.                             *)
(***************************************************************************)

\* What was accepted stays so, and whoever holds an answer knows it.
LEMMA AcceptedStep ==
  Typed /\ AnswersAreTrue /\ DeliveredIsAccepted /\ [Next]_vars
    => AnswersAreTrue' /\ DeliveredIsAccepted'
<1> SUFFICES ASSUME Typed, AnswersAreTrue, DeliveredIsAccepted, [Next]_vars
             PROVE  AnswersAreTrue' /\ DeliveredIsAccepted'
  OBVIOUS
<1> USE DEF tables, history, bounds
<1>0. ASSUME NEW d \in Deliveries, NEW status, NEW n, NEW due, Row(d, status, n, due),
             status = "delivered" => d \in acked', acked \subseteq acked'
      PROVE  DeliveredIsAccepted'
  BY <1>0 DEF Row, DeliveredIsAccepted, Typed
<1>1. ASSUME UNCHANGED log, acked \subseteq acked' PROVE DeliveredIsAccepted'
  BY <1>1 DEF DeliveredIsAccepted
<1>2. ASSUME UNCHANGED <<run, acked>>,
             \A d \in Deliveries : sender'[d] = "ok" => sender[d] = "ok"
      PROVE  AnswersAreTrue'
  BY <1>2 DEF AnswersAreTrue
<1>3. ASSUME NEW s \in Schedulers, NEW attempt, Becomes(s, attempt), UNCHANGED sender,
             attempt.phase # "idle" /\ attempt.ok => attempt.delivery \in acked',
             acked \subseteq acked'
      PROVE  AnswersAreTrue'
  <2>1. \A t \in Schedulers : run'[t] = IF t = s THEN attempt ELSE run[t]
    BY <1>3 DEF Becomes, Typed, RunTyped
  <2> QED
    BY <1>3, <2>1 DEF AnswersAreTrue
<1>4. ASSUME NEW s \in Schedulers, Done(s), UNCHANGED <<sender, acked>> PROVE AnswersAreTrue'
  BY <1>3, <1>4 DEF Done, Resting, Attempt
<1>5. ASSUME NEW s \in Schedulers, NEW phase, run[s].phase # "idle", Goto(s, phase),
             UNCHANGED <<sender, acked>>
      PROVE  AnswersAreTrue'
  <2>1. run[s].ok => run[s].delivery \in acked
    BY <1>5 DEF AnswersAreTrue
  <2> QED
    BY <1>3, <1>5, <2>1 DEF Goto, Attempt
<1>6. ASSUME NEW s \in Schedulers, run[s].phase # "idle", LoggedRow(s) \/ Rewritten(s),
             UNCHANGED acked
      PROVE  DeliveredIsAccepted'
  <2>1. run[s].delivery \in Deliveries /\ (run[s].ok => run[s].delivery \in acked)
    BY <1>6 DEF AnswersAreTrue, Typed, RunTyped
  <2> QED
    BY <1>0, <1>6, <2>1 DEF LoggedRow, Rewritten, Accepted
<1>7. ASSUME NEW d \in Deliveries, DeliveryStep(d) PROVE AnswersAreTrue' /\ DeliveredIsAccepted'
  <2>0. log[d].status = "delivered" => d \in acked
    BY DEF DeliveredIsAccepted
  <2>1. ASSUME sender[d] \in Answers, FirstRow(d), UNCHANGED acked PROVE DeliveredIsAccepted'
    BY <1>0, <2>1 DEF FirstRow, AnswersAreTrue
  <2>2. CASE InsertLog(d)
    BY <1>0, <1>2, <2>2 DEF InsertLog, Typed
  <2>3. CASE WriteFirst(d) \/ FirstFails(d)
    BY <1>1, <1>2, <2>1, <2>3 DEF WriteFirst, FirstFails, Typed
  <2>4. CASE SenderDies(d)
    BY <1>1, <1>2, <2>4 DEF SenderDies, Typed
  <2>5. CASE BackoffPasses(d)
    BY <1>0, <1>2, <2>0, <2>5 DEF BackoffPasses
  <2>6. CASE RetryFailedDelivery(d)
    BY <1>0, <1>2, <2>6 DEF RetryFailedDelivery
  <2>7. ASSUME NEW answer \in Answers, PostFirst(d, answer)
        PROVE  AnswersAreTrue' /\ DeliveredIsAccepted'
    <3>1. acked \subseteq acked' /\ (answer = "ok" => d \in acked')
      BY <2>7 DEF PostFirst, Posted
    <3> QED
      BY <1>1, <2>7, <3>1 DEF PostFirst, AnswersAreTrue, Typed
  <2> QED
    BY <1>7, <2>2, <2>3, <2>4, <2>5, <2>6, <2>7 DEF DeliveryStep
<1>8. ASSUME NEW s \in Schedulers, Work(s) PROVE AnswersAreTrue' /\ DeliveredIsAccepted'
  <2>1. CASE Poll(s)
    BY <1>1, <1>2, <2>1 DEF Poll
  <2>2. CASE WriteLog(s)
    BY <1>4, <1>5, <1>6, <2>2 DEF WriteLog, At
  <2>3. CASE WriteHook(s)
    BY <1>1, <1>4, <2>3 DEF WriteHook
  <2>4. CASE CatchError(s)
    <3>1. run[s].ok => run[s].delivery \in acked
      BY <2>4 DEF CatchError, At, AnswersAreTrue
    <3> QED
      BY <1>1, <1>3, <1>4, <2>4, <3>1 DEF CatchError, Attempt
  <2>5. CASE Rewrite(s)
    BY <1>4, <1>6, <2>5 DEF Rewrite, At
  <2>6. ASSUME NEW d \in Deliveries, Take(s, d) PROVE AnswersAreTrue' /\ DeliveredIsAccepted'
    <3>1. CASE hook.exists
      BY <1>1, <1>3, <2>6, <3>1 DEF Take, Attempt
    <3>2. CASE ~hook.exists
      BY <1>0, <1>2, <2>6, <3>2 DEF Take
    <3> QED
      BY <3>1, <3>2
  <2>7. ASSUME NEW answer \in Answers, Post(s, answer)
        PROVE  AnswersAreTrue' /\ DeliveredIsAccepted'
    <3>1. acked \subseteq acked' /\ (answer = "ok" => run[s].delivery \in acked')
      BY <2>7 DEF Post, Posted
    <3> QED
      BY <1>1, <1>3, <2>7, <3>1 DEF Post, Attempt
  <2> QED
    BY <1>8, <2>1, <2>2, <2>3, <2>4, <2>5, <2>6, <2>7 DEF Work
<1>9. ASSUME NEW s \in Schedulers, DatabaseFails(s) PROVE AnswersAreTrue' /\ DeliveredIsAccepted'
  <2>1. DeliveredIsAccepted'
    BY <1>1, <1>6, <1>9 DEF DatabaseFails, At
  <2>2. AnswersAreTrue'
    BY <1>4, <1>5, <1>9 DEF DatabaseFails, At, EndBatch
  <2> QED
    BY <2>1, <2>2
<1>10. ASSUME NEW s \in Schedulers, SchedulerDies(s) PROVE AnswersAreTrue' /\ DeliveredIsAccepted'
  BY <1>1, <1>4, <1>10 DEF SchedulerDies, EndBatch
<1>11. ASSUME NEW q \in Requests, ScheduleRetry(q) PROVE AnswersAreTrue' /\ DeliveredIsAccepted'
  BY <1>0, <1>2, <1>11 DEF ScheduleRetry, Typed
<1>12. ASSUME NEW q \in Requests, NEW d \in Deliveries, CheckRetry(q, d)
       PROVE  AnswersAreTrue' /\ DeliveredIsAccepted'
  BY <1>1, <1>2, <1>12 DEF CheckRetry
<1>13. CASE Configure
  BY <1>1, <1>2, <1>13 DEF Configure
<1>14. CASE UNCHANGED vars
  BY <1>1, <1>2, <1>14 DEF vars
<1> QED
  BY <1>7, <1>8, <1>9, <1>10, <1>11, <1>12, <1>13, <1>14 DEF Next

(***************************************************************************)
(* Attempts that are counted were made.                                    *)
(***************************************************************************)

LEMMA OwedNat == ASSUME Typed, NEW d \in Deliveries
                 PROVE  Owed(d) \in Nat /\ IsFiniteSet(Catching(d))
BY WebhookAssumption, FS_Subset, FS_CardinalityType DEF Catching, Owed

\* A step that neither enters nor leaves a catch block leaves the debt alone.
LEMMA OwedSame ==
  ASSUME Typed, NEW s \in Schedulers, NEW attempt, Becomes(s, attempt),
         run[s].phase # "catching", attempt.phase # "catching", NEW d \in Deliveries
  PROVE  Owed(d)' = Owed(d)
<1>1. Catching(d)' = Catching(d)
  BY DEF Becomes, Typed, RunTyped, Catching
<1> QED
  BY <1>1 DEF Owed

\* What fits a row goes on fitting.
LEMMA FitsStep ==
  ASSUME Typed, [Next]_vars, faults' = 0, NEW n \in Nat, NEW d \in Deliveries, Fits(n, d)
  PROVE  Fits(n, d)'
<1> USE DEF tables, history, bounds
<1>0. Owed(d) \in Nat /\ posts[d] \in Nat
  BY OwedNat DEF Typed
<1>1. CASE Owed(d)' = Owed(d) /\ posts'[d] >= posts[d]
  <2>1. posts'[d] \in Nat
    BY TypedStep DEF Typed
  <2> QED
    BY <1>0, <1>1, <2>1 DEF Fits
<1>2. CASE UNCHANGED <<run, posts>>
  BY <1>2 DEF Fits, Owed, Catching
<1>3. ASSUME NEW e \in Deliveries, NEW answer \in Answers, PostFirst(e, answer) PROVE Fits(n, d)'
  <2>1. posts'[d] >= posts[d]
    BY <1>0, <1>3 DEF PostFirst, Posted, Typed
  <2>2. Owed(d)' = Owed(d)
    BY <1>3 DEF PostFirst, Owed, Catching
  <2> QED
    BY <1>1, <2>1, <2>2
<1>4. ASSUME NEW s \in Schedulers, NEW answer \in Answers, Post(s, answer) PROVE Fits(n, d)'
  <2>1. /\ run[s].phase = "posting" /\ run[s].delivery \in Deliveries
        /\ posts' = [posts EXCEPT ![run[s].delivery] = @ + 1]
    BY <1>4 DEF Post, Posted, At, Typed, RunTyped
  <2>2. posts'[d] >= posts[d]
    BY <1>0, <2>1 DEF Typed
  <2>3. CASE answer # "error"
    <3>1. Owed(d)' = Owed(d)
      BY <1>4, <2>1, <2>3, OwedSame DEF Post, Attempt
    <3> QED
      BY <1>1, <2>2, <3>1
  <2>4. CASE answer = "error" /\ run[s].delivery # d
    <3>1. Catching(d)' = Catching(d)
      BY <1>4, <2>1, <2>4 DEF Post, Becomes, Attempt, Typed, RunTyped, Catching
    <3> QED
      BY <1>1, <2>2, <3>1 DEF Owed
  <2>5. CASE answer = "error" /\ run[s].delivery = d
    <3>1. Catching(d)' = Catching(d) \union {s} /\ s \notin Catching(d)
      BY <1>4, <2>1, <2>5 DEF Post, Becomes, Attempt, Typed, RunTyped, Catching
    <3>2. Owed(d)' = Owed(d) + 1
      BY <3>1, OwedNat, FS_AddElement DEF Owed
    <3>3. posts'[d] = posts[d] + 1
      BY <2>1, <2>5 DEF Typed
    <3> QED
      BY <1>0, <3>2, <3>3 DEF Fits
  <2> QED
    BY <2>3, <2>4, <2>5
<1>5. ASSUME NEW s \in Schedulers, CatchError(s) PROVE Fits(n, d)'
  <2>1. UNCHANGED posts
    BY <1>5 DEF CatchError
  <2>2. Catching(d)' = Catching(d) \ {s}
    BY <1>5 DEF CatchError, At, Done, Becomes, Resting, Attempt, Typed, RunTyped, Catching
  <2>3. Owed(d)' \in Nat /\ Owed(d)' <= Owed(d)
    <3>1. IsFiniteSet(Catching(d)) /\ IsFiniteSet(Catching(d)')
      BY <2>2, OwedNat, FS_Subset
    <3>2. Catching(d)' \subseteq Catching(d)
      BY <2>2
    <3> QED
      BY <3>1, <3>2, FS_Subset, FS_CardinalityType DEF Owed
  <2> QED
    BY <1>0, <2>1, <2>3 DEF Fits
<1>6. ASSUME NEW s \in Schedulers, WriteLog(s) \/ WriteHook(s) \/ Rewrite(s) PROVE Fits(n, d)'
  <2>1. Owed(d)' = Owed(d)
    BY <1>6, OwedSame DEF WriteLog, WriteHook, Rewrite, At, Goto, Done, Resting, Attempt
  <2> QED
    BY <1>0, <1>1, <1>6, <2>1 DEF WriteLog, WriteHook, Rewrite
<1>7. ASSUME NEW s \in Schedulers, NEW e \in Deliveries, Take(s, e) PROVE Fits(n, d)'
  <2>1. CASE UNCHANGED run
    BY <1>2, <1>7, <2>1 DEF Take
  <2>2. CASE hook.exists
    <3>1. Owed(d)' = Owed(d)
      BY <1>7, <2>2, OwedSame DEF Take, At, Attempt
    <3> QED
      BY <1>0, <1>1, <1>7, <3>1 DEF Take
  <2> QED
    BY <1>7, <2>1, <2>2 DEF Take
<1>8. ASSUME NEW e \in Deliveries, DeliveryStep(e) PROVE Fits(n, d)'
  BY <1>2, <1>3, <1>8
  DEF DeliveryStep, InsertLog, WriteFirst, FirstFails, SenderDies, BackoffPasses, RetryFailedDelivery
<1>9. ASSUME NEW s \in Schedulers, Work(s) PROVE Fits(n, d)'
  BY <1>2, <1>4, <1>5, <1>6, <1>7, <1>9 DEF Work, Poll
<1>10. ASSUME NEW s \in Schedulers, DatabaseFails(s) \/ SchedulerDies(s) PROVE FALSE
  BY <1>10 DEF DatabaseFails, SchedulerDies, Typed
<1> QED
  BY <1>2, <1>8, <1>9, <1>10 DEF Next, ScheduleRetry, CheckRetry, Configure, vars

\* An attempt that was made makes room for one more in the row.
LEMMA PostMakesRoom ==
  ASSUME Typed, NEW s \in Schedulers, NEW answer \in Answers \ {"error"}, Post(s, answer),
         NEW n \in Nat, NEW d \in Deliveries, d = run[s].delivery, Fits(n, d)
  PROVE  Fits(n + 1, d)'
<1>1. Owed(d) \in Nat /\ posts[d] \in Nat
  BY OwedNat DEF Typed
<1>2. posts'[d] = posts[d] + 1
  BY DEF Post, Posted, Typed
<1>3. Owed(d)' = Owed(d)
  BY OwedSame DEF Post, At, Attempt
<1> QED
  BY <1>1, <1>2, <1>3 DEF Fits

\* So does reading the row again after an attempt without an answer.
LEMMA CatchMakesRoom ==
  ASSUME Typed, NEW s \in Schedulers, CatchError(s),
         NEW n \in Nat, NEW d \in Deliveries, d = run[s].delivery, Fits(n, d)
  PROVE  Fits(n + 1, d)'
<1>1. Owed(d) \in Nat /\ IsFiniteSet(Catching(d)) /\ posts[d] \in Nat
  BY OwedNat DEF Typed
<1>2. posts'[d] = posts[d]
  BY DEF CatchError, history
<1>3. Catching(d)' = Catching(d) \ {s} /\ s \in Catching(d)
  BY DEF CatchError, At, Done, Becomes, Resting, Attempt, Typed, RunTyped, Catching
<1>4. Owed(d)' = Owed(d) - 1
  BY <1>1, <1>3, FS_RemoveElement DEF Owed
<1> QED
  BY <1>1, <1>2, <1>4 DEF Fits

\* Rows, and what processes are about to write into them, keep fitting.
LEMMA AttemptsStep ==
  Typed /\ AttemptsFit /\ [Next]_vars /\ faults' = 0 => AttemptsFit'
<1> SUFFICES ASSUME Typed, AttemptsFit, [Next]_vars, faults' = 0 PROVE AttemptsFit'
  OBVIOUS
<1> USE DEF tables, history, bounds
<1>0. ASSUME NEW n \in Nat, NEW d \in Deliveries, Fits(n, d) PROVE Fits(n, d)'
  BY <1>0, FitsStep
<1>1. \A d \in Deliveries : log[d].attempts \in Nat
  BY DEF Typed, Rows
<1>2. \A s \in Schedulers : run[s].attempts \in Nat /\ run[s].attempts + 1 \in Nat
  BY DEF Typed, RunTyped, Runs
<1>3. RowsFit /\ SendersFit /\ RunsFit
  BY DEF AttemptsFit
<1>4. ASSUME UNCHANGED log PROVE RowsFit'
  BY <1>0, <1>1, <1>3, <1>4 DEF RowsFit
<1>5. ASSUME NEW e \in Deliveries, NEW status, NEW n \in Nat, NEW due, Row(e, status, n, due),
             Fits(n, e)
      PROVE  RowsFit'
  <2> SUFFICES ASSUME NEW d \in Deliveries PROVE Fits(log[d].attempts, d)'
    BY DEF RowsFit
  <2> DEFINE m == IF d = e THEN n ELSE log[d].attempts
  <2>1. log'[d].attempts = m
    BY <1>5 DEF Row, Typed
  <2>2. m \in Nat /\ Fits(m, d)
    BY <1>1, <1>3, <1>5 DEF RowsFit
  <2> HIDE DEF m
  <2>3. ASSUME NEW k \in Nat, Fits(k, d), k = log'[d].attempts PROVE Fits(log[d].attempts, d)'
    BY <1>0, <2>3 DEF Fits
  <2> QED
    BY <2>1, <2>2, <2>3
<1>6. ASSUME \A d \in Deliveries : sender'[d] \in Answers => sender[d] \in Answers
      PROVE  SendersFit'
  BY <1>0, <1>3, <1>6 DEF SendersFit
<1>7. ASSUME NEW s \in Schedulers, UNCHANGED run[s] PROVE RunFits(s)'
  <2>1. ASSUME NEW n \in Nat, NEW d \in Deliveries, Fits(n, d), n = run'[s].attempts,
               d = run'[s].delivery
        PROVE  Fits(run[s].attempts, run[s].delivery)'
    BY <1>0, <2>1 DEF Fits
  <2>2. ASSUME NEW n \in Nat, NEW d \in Deliveries, Fits(n, d), n = run'[s].attempts + 1,
               d = run'[s].delivery
        PROVE  Fits(run[s].attempts + 1, run[s].delivery)'
    BY <1>0, <2>2 DEF Fits
  <2>3. run[s].phase # "idle" => run[s].delivery \in Deliveries
    BY DEF Typed, RunTyped
  <2> QED
    BY <1>2, <1>3, <1>7, <2>1, <2>2, <2>3 DEF RunFits, RunsFit
<1>8. ASSUME UNCHANGED run PROVE RunsFit'
  BY <1>7, <1>8 DEF RunsFit
<1>9. ASSUME NEW s \in Schedulers, NEW attempt, Becomes(s, attempt), RunFits(s)' PROVE RunsFit'
  <2>1. \A t \in Schedulers : t # s => run'[t] = run[t]
    BY <1>9 DEF Becomes, Typed, RunTyped
  <2> QED
    BY <1>7, <1>9, <2>1 DEF RunsFit
<1>10. ASSUME NEW s \in Schedulers, NEW attempt, Becomes(s, attempt),
              attempt.phase \notin {"posting", "logging", "rewriting"}
       PROVE  RunsFit'
  <2>1. run'[s] = attempt
    BY <1>10 DEF Becomes, Typed, RunTyped
  <2> QED
    BY <1>9, <1>10, <2>1 DEF RunFits
<1>11. ASSUME NEW s \in Schedulers, Done(s) PROVE RunsFit'
  BY <1>10, <1>11 DEF Done, Resting, Attempt
<1>12. ASSUME NEW s \in Schedulers, LoggedRow(s), run[s].phase = "logging" PROVE RowsFit'
  <2>1. run[s].delivery \in Deliveries /\ Fits(run[s].attempts + 1, run[s].delivery)
    BY <1>3, <1>12 DEF RunsFit, RunFits, Typed, RunTyped
  <2> QED
    BY <1>2, <1>5, <1>12, <2>1 DEF LoggedRow
<1>13. ASSUME NEW s \in Schedulers, Rewritten(s), run[s].phase = "rewriting" PROVE RowsFit'
  <2>1. /\ run[s].delivery \in Deliveries /\ Fits(run[s].attempts + 1, run[s].delivery)
        /\ Fits(log[run[s].delivery].attempts, run[s].delivery)
    BY <1>3, <1>13 DEF RowsFit, RunsFit, RunFits, Typed, RunTyped
  <2> QED
    BY <1>1, <1>2, <1>5, <1>13, <2>1 DEF Rewritten
<1>14. ASSUME NEW d \in Deliveries, DeliveryStep(d) PROVE AttemptsFit'
  <2>0. log[d].attempts \in Nat /\ Fits(log[d].attempts, d)
    BY <1>1, <1>3 DEF RowsFit
  <2>1. CASE InsertLog(d)
    <3>1. Fits(0, d)
      BY <2>0, OwedNat DEF Fits, Typed
    <3>2. RowsFit' /\ SendersFit' /\ RunsFit'
      BY <1>5, <1>6, <1>8, <2>1, <3>1 DEF InsertLog, CountedAtInsert, Answers, Typed
    <3> QED
      BY <3>2 DEF AttemptsFit
  <2>2. CASE WriteFirst(d)
    <3>1. Fits(1, d)
      BY <1>3, <2>2 DEF WriteFirst, SendersFit
    <3>2. RowsFit' /\ SendersFit' /\ RunsFit'
      BY <1>5, <1>6, <1>8, <2>2, <3>1 DEF WriteFirst, FirstRow, Answers, Typed
    <3> QED
      BY <3>2 DEF AttemptsFit
  <2>3. CASE SenderDies(d)
    BY <1>4, <1>6, <1>8, <2>3 DEF SenderDies, Answers, Typed, AttemptsFit
  <2>4. CASE BackoffPasses(d)
    BY <1>5, <1>6, <1>8, <2>0, <2>4 DEF BackoffPasses, AttemptsFit
  <2>5. CASE RetryFailedDelivery(d)
    BY <1>5, <1>6, <1>8, <2>0, <2>5 DEF RetryFailedDelivery, AttemptsFit
  <2>6. ASSUME NEW answer \in Answers, PostFirst(d, answer) PROVE AttemptsFit'
    <3>1. Fits(1, d)'
      <4>1. /\ Owed(d) \in Nat /\ posts[d] \in Nat /\ Owed(d) <= posts[d]
        BY <2>0, OwedNat DEF Fits, Typed
      <4>2. Owed(d)' = Owed(d) /\ posts'[d] = posts[d] + 1
        BY <2>6 DEF PostFirst, Posted, Owed, Catching, Typed
      <4> QED
        BY <4>1, <4>2 DEF Fits
    <3>2. SendersFit'
      BY <1>0, <1>3, <2>6, <3>1 DEF PostFirst, SendersFit, Typed
    <3> QED
      BY <1>4, <1>8, <2>6, <3>2 DEF PostFirst, AttemptsFit
  <2>7. CASE FirstFails(d)
    BY <2>7 DEF FirstFails, Typed
  <2> QED
    BY <1>14, <2>1, <2>2, <2>3, <2>4, <2>5, <2>6, <2>7 DEF DeliveryStep
<1>15. ASSUME NEW s \in Schedulers, Work(s) PROVE AttemptsFit'
  <2>1. CASE Poll(s)
    BY <1>4, <1>6, <1>8, <2>1 DEF Poll, AttemptsFit
  <2>2. CASE WriteLog(s)
    <3>1. RunsFit'
      BY <1>10, <1>11, <2>2 DEF WriteLog, Goto, Attempt
    <3> QED
      BY <1>6, <1>12, <2>2, <3>1 DEF WriteLog, At, AttemptsFit
  <2>3. CASE WriteHook(s)
    BY <1>4, <1>6, <1>11, <2>3 DEF WriteHook, AttemptsFit
  <2>4. CASE CatchError(s)
    <3>1. CASE hook.exists
      <4>1. PICK d \in Deliveries : d = run[s].delivery
        BY <2>4 DEF CatchError, At, Typed, RunTyped
      <4>2. PICK n \in Nat : n = log[d].attempts
        BY <1>1
      <4>3. run'[s] = Attempt("rewriting", d, n, hook, run[s].ok)
        BY <2>4, <3>1, <4>1, <4>2 DEF CatchError, Becomes, Typed, RunTyped
      <4>4. Fits(n + 1, d)'
        BY <1>3, <2>4, <4>1, <4>2, CatchMakesRoom DEF RowsFit
      <4>5. RunFits(s)'
        BY <4>3, <4>4 DEF RunFits, Attempt, Fits
      <4>6. RunsFit'
        BY <1>9, <2>4, <3>1, <4>5 DEF CatchError
      <4> QED
        BY <1>4, <1>6, <2>4, <4>6 DEF CatchError, AttemptsFit
    <3>2. CASE ~hook.exists
      BY <1>4, <1>6, <1>11, <2>4, <3>2 DEF CatchError, AttemptsFit
    <3> QED
      BY <3>1, <3>2
  <2>5. CASE Rewrite(s)
    BY <1>6, <1>11, <1>13, <2>5 DEF Rewrite, At, AttemptsFit
  <2>6. ASSUME NEW d \in Deliveries, Take(s, d) PROVE AttemptsFit'
    <3>1. PICK n \in Nat : n = log[d].attempts /\ Fits(n, d)
      BY <1>1, <1>3 DEF RowsFit
    <3>2. CASE hook.exists
      <4>1. run'[s] = Attempt("posting", d, n, hook, FALSE)
        BY <2>6, <3>1, <3>2 DEF Take, Becomes, Typed, RunTyped
      <4>2. Fits(n, d)'
        BY <1>0, <3>1
      <4>3. RunFits(s)'
        BY <4>1, <4>2 DEF RunFits, Attempt, Fits
      <4> QED
        BY <1>4, <1>6, <1>9, <2>6, <3>2, <4>3 DEF Take, AttemptsFit
    <3>3. CASE ~hook.exists
      BY <1>5, <1>6, <1>8, <2>6, <3>1, <3>3 DEF Take, AttemptsFit
    <3> QED
      BY <3>2, <3>3
  <2>7. ASSUME NEW answer \in Answers, Post(s, answer) PROVE AttemptsFit'
    <3>1. PICK d \in Deliveries : d = run[s].delivery
      BY <2>7 DEF Post, At, Typed, RunTyped
    <3>2. PICK n \in Nat : n = run[s].attempts /\ Fits(n, d)
      BY <1>2, <1>3, <2>7, <3>1 DEF Post, At, RunsFit, RunFits
    <3>3. CASE answer = "error"
      BY <1>4, <1>6, <1>10, <2>7, <3>3 DEF Post, Attempt, AttemptsFit
    <3>4. CASE answer # "error"
      <4>1. run'[s] = Attempt("logging", d, n, run[s].hook, answer = "ok")
        BY <2>7, <3>1, <3>2, <3>4 DEF Post, Becomes, Typed, RunTyped
      <4>2. Fits(n + 1, d)'
        BY <2>7, <3>1, <3>2, <3>4, PostMakesRoom
      <4>3. RunFits(s)'
        BY <4>1, <4>2 DEF RunFits, Attempt, Fits
      <4> QED
        BY <1>4, <1>6, <1>9, <2>7, <4>3 DEF Post, AttemptsFit
    <3> QED
      BY <3>3, <3>4
  <2> QED
    BY <1>15, <2>1, <2>2, <2>3, <2>4, <2>5, <2>6, <2>7 DEF Work
<1>16. ASSUME NEW s \in Schedulers, DatabaseFails(s) \/ SchedulerDies(s) PROVE FALSE
  BY <1>16 DEF DatabaseFails, SchedulerDies, Typed
<1>17. ASSUME NEW q \in Requests, ScheduleRetry(q) PROVE AttemptsFit'
  <2>1. asking[q] \in Deliveries /\ log[asking[q]].attempts \in Nat
        /\ Fits(log[asking[q]].attempts, asking[q])
    BY <1>1, <1>3, <1>17 DEF ScheduleRetry, RowsFit, Typed
  <2> QED
    BY <1>5, <1>6, <1>8, <1>17, <2>1 DEF ScheduleRetry, AttemptsFit
<1>18. CASE UNCHANGED <<log, sender, run>>
  BY <1>4, <1>6, <1>8, <1>18 DEF AttemptsFit
<1> QED
  BY <1>14, <1>15, <1>16, <1>17, <1>18 DEF Next, CheckRetry, Configure, vars

(***************************************************************************)
(* One process does not open what is delivered.                            *)
(***************************************************************************)

\* Who a step can give a delivery to: only a poll gives any, those that are due.
LEMMA HoldStep ==
  ASSUME Typed, [Next]_vars, NEW t \in Schedulers, NEW d \in Deliveries
  PROVE  \/ Poll(t) /\ d \in Due
         \/ (Holds(t, d)' => Holds(t, d)) /\ (faults' = 0 => (Claims(t, d)' => Claims(t, d)))
<1> DEFINE Goal == (Holds(t, d)' => Holds(t, d)) /\ (faults' = 0 => (Claims(t, d)' => Claims(t, d)))
<1> USE DEF Holds, Claims, Mine
<1>1. ASSUME UNCHANGED <<queue, run>> PROVE Goal
  BY <1>1
<1>2. ASSUME queue'[t] \subseteq queue[t] /\ (run'[t] = run[t] \/ run'[t] = Resting) PROVE Goal
  <2>1. CASE run'[t] = run[t]
    BY <1>2, <2>1
  <2>2. CASE run'[t] = Resting
    <3>1. run'[t].phase = "idle"
      BY <2>2 DEF Resting, Attempt
    <3> QED
      BY <1>2, <3>1
  <2> QED
    BY <1>2, <2>1, <2>2
<1>3. ASSUME NEW s \in Schedulers, Poll(s) PROVE (Poll(t) /\ d \in Due) \/ Goal
  <2>1. CASE s = t /\ d \in Due
    BY <1>3, <2>1
  <2>2. CASE s = t /\ d \notin Due
    <3>1. queue'[t] = Due /\ run' = run
      BY <1>3, <2>2 DEF Poll, Typed
    <3> QED
      BY <2>2, <3>1
  <2>3. CASE s # t
    BY <1>2, <1>3, <2>3 DEF Poll, Typed
  <2> QED
    BY <2>1, <2>2, <2>3
<1>4. ASSUME NEW s \in Schedulers, NEW phase, Goto(s, phase), run[s].phase # "idle",
             queue' = queue, faults' = 0 /\ Mine(phase) => Mine(run[s].phase)
      PROVE  Goal
  <2>1. CASE s = t
    <3>1. run'[t] = Attempt(phase, run[t].delivery, run[t].attempts, run[t].hook, run[t].ok)
      BY <1>4, <2>1 DEF Goto, Becomes, Typed, RunTyped
    <3>2. run'[t].phase = phase /\ run'[t].delivery = run[t].delivery
      BY <3>1 DEF Attempt
    <3> QED
      BY <1>4, <2>1, <3>2
  <2>2. CASE s # t
    BY <1>2, <1>4, <2>2 DEF Goto, Becomes, Typed, RunTyped
  <2> QED
    BY <2>1, <2>2
<1>5. ASSUME NEW s \in Schedulers, Done(s), \A u \in Schedulers : queue'[u] \subseteq queue[u]
      PROVE  Goal
  <2>1. run'[t] = IF t = s THEN Resting ELSE run[t]
    BY <1>5 DEF Done, Becomes, Typed, RunTyped
  <2>2. queue'[t] \subseteq queue[t] /\ (run'[t] = run[t] \/ run'[t] = Resting)
    BY <1>5, <2>1
  <2> QED
    BY <1>2, <2>2
<1>6. ASSUME NEW s \in Schedulers, NEW e \in Deliveries, Take(s, e) PROVE Goal
  <2>0. \A u \in Schedulers : queue'[u] \subseteq queue[u]
    BY <1>6 DEF Take, Typed
  <2>1. CASE run' = run
    BY <1>2, <2>0, <2>1
  <2>2. CASE s # t
    BY <1>2, <1>6, <2>0, <2>2 DEF Take, Becomes, Typed, RunTyped
  <2>3. CASE s = t /\ hook.exists
    <3>1. run'[t] = Attempt("posting", e, log[e].attempts, hook, FALSE) /\ e \in queue[t]
      BY <1>6, <2>3 DEF Take, Becomes, Typed, RunTyped
    <3>2. run'[t].delivery = e /\ run'[t].phase = "posting"
      BY <3>1 DEF Attempt
    <3>3. queue'[t] \subseteq queue[t]
      BY <2>0
    <3>4. (Holds(t, d)' => d \in queue[t]) /\ (Claims(t, d)' => d \in queue[t])
      BY <3>1, <3>2, <3>3
    <3> QED
      BY <3>4
  <2> QED
    BY <1>6, <2>1, <2>2, <2>3 DEF Take
<1>7. ASSUME NEW s \in Schedulers, NEW answer \in Answers, Post(s, answer) PROVE Goal
  <2>1. CASE s = t
    <3>1. /\ run'[t].delivery = run[t].delivery /\ run[t].phase = "posting"
          /\ queue' = queue
      BY <1>7, <2>1 DEF Post, At, Becomes, Attempt, Typed, RunTyped
    <3> QED
      BY <3>1
  <2>2. CASE s # t
    BY <1>2, <1>7, <2>2 DEF Post, Becomes, Typed, RunTyped
  <2> QED
    BY <2>1, <2>2
<1>8. ASSUME NEW s \in Schedulers, CatchError(s) PROVE Goal
  <2>1. CASE Done(s)
    BY <1>5, <1>8, <2>1 DEF CatchError
  <2>2. CASE s # t
    BY <1>2, <1>8, <2>2 DEF CatchError, Done, Becomes, Typed, RunTyped
  <2>3. CASE s = t /\ hook.exists
    <3>1. /\ run'[t].delivery = run[t].delivery /\ run[t].phase = "catching"
          /\ queue' = queue
      BY <1>8, <2>3 DEF CatchError, At, Becomes, Attempt, Typed, RunTyped
    <3> QED
      BY <3>1
  <2> QED
    BY <1>8, <2>1, <2>2, <2>3 DEF CatchError
<1>9. ASSUME NEW s \in Schedulers, WriteLog(s) \/ WriteHook(s) \/ Rewrite(s) PROVE Goal
  BY <1>4, <1>5, <1>9 DEF WriteLog, WriteHook, Rewrite, At
<1>10. ASSUME NEW s \in Schedulers, DatabaseFails(s) \/ SchedulerDies(s) PROVE Goal
  <2>1. faults' # 0
    BY <1>10 DEF DatabaseFails, SchedulerDies, Typed
  <2>2. CASE EndBatch(s)
    BY <1>5, <2>2 DEF EndBatch, Typed
  <2>3. CASE Goto(s, "catching") /\ queue' = queue /\ run[s].phase # "idle"
    BY <1>4, <2>1, <2>3
  <2> QED
    BY <1>10, <2>2, <2>3 DEF DatabaseFails, SchedulerDies
<1> QED
  BY <1>1, <1>3, <1>6, <1>7, <1>8, <1>9, <1>10
  DEF Next, Work, DeliveryStep, InsertLog, WriteFirst, FirstFails, SenderDies, BackoffPasses,
      RetryFailedDelivery, PostFirst, ScheduleRetry, CheckRetry, Configure, vars

\* How the row of a delivery changes: by its first attempt, by time, by an
\* operator or by a process that has it in its batch.
Inserted(d) ==
  /\ log[d].status = "absent" /\ log'[d].status = "pending" /\ log'[d].due = "never"
  /\ UNCHANGED <<queue, run, asking>>
Answered(d) ==
  sender[d] \in Answers /\ log'[d].status # "absent" /\ (faults' = 0 => sender'[d] = "idle")
Awaited(d) == log[d].due = "later" /\ log'[d].status = log[d].status
Reopened(d) ==
  /\ asks' > asks /\ log[d].status # "absent"
  /\ log'[d].status = "pending" /\ log'[d].due = log[d].due
Retried(s, d) ==
  /\ Claims(s, d) /\ log'[d].status # "absent"
  /\ \/ log'[d].status # "delivered"
     \/ run[s].phase = "logging" /\ run[s].delivery = d /\
          (faults' = 0 => ~Mine(run'[s].phase) /\ queue' = queue)
Scheduled(q, d) == asking[q] = d /\ asking'[q] = None /\ log'[d].status = "pending"

LEMMA RowStep ==
  ASSUME Typed, [Next]_vars, NEW d \in Deliveries, log'[d] # log[d]
  PROVE  \/ Inserted(d) \/ Answered(d)
         \/ UNCHANGED sender /\ (Awaited(d) \/ Reopened(d))
         \/ UNCHANGED sender /\ \E s \in Schedulers : Retried(s, d)
         \/ UNCHANGED sender /\ \E q \in Requests : Scheduled(q, d)
<1> DEFINE Goal == \/ Inserted(d) \/ Answered(d)
                   \/ UNCHANGED sender /\ (Awaited(d) \/ Reopened(d))
                   \/ UNCHANGED sender /\ \E s \in Schedulers : Retried(s, d)
                   \/ UNCHANGED sender /\ \E q \in Requests : Scheduled(q, d)
<1> USE DEF tables, history, bounds
<1>0. ASSUME NEW e, NEW status, NEW n, NEW due, Row(e, status, n, due)
      PROVE  e = d /\ log'[d] = [status |-> status, attempts |-> n, due |-> due]
  BY <1>0 DEF Row, Typed
<1>1. ASSUME NEW e, NEW status, NEW n, NEW due, Row(e, status, n, due)
      PROVE  e = d /\ log'[d].status = status /\ log'[d].due = due
  <2>1. e = d /\ log'[d] = [status |-> status, attempts |-> n, due |-> due]
    BY <1>0, <1>1
  <2> QED
    BY <2>1
<1>2. ASSUME NEW e \in Deliveries, DeliveryStep(e) PROVE Goal
  <2>1. CASE InsertLog(e)
    BY <1>1, <2>1 DEF InsertLog, Inserted
  <2>2. ASSUME FirstRow(e) PROVE e = d /\ log'[d].status # "absent"
    BY <1>1, <2>2 DEF FirstRow
  <2>3. CASE WriteFirst(e)
    BY <2>2, <2>3 DEF WriteFirst, Answered, Typed
  <2>4. CASE FirstFails(e)
    BY <2>2, <2>4 DEF FirstFails, Answered, Typed
  <2>5. CASE BackoffPasses(e)
    BY <1>1, <2>5 DEF BackoffPasses, Awaited
  <2>6. CASE RetryFailedDelivery(e)
    BY <1>1, <2>6 DEF RetryFailedDelivery, Ask, Reopened, Typed
  <2> QED
    BY <1>2, <2>1, <2>3, <2>4, <2>5, <2>6 DEF DeliveryStep, SenderDies, PostFirst
<1>3. ASSUME NEW s \in Schedulers, LoggedRow(s)
      PROVE  run[s].delivery = d /\ log'[d].status # "absent"
  BY <1>1, <1>3 DEF LoggedRow
<1>4. ASSUME NEW s \in Schedulers, Rewritten(s)
      PROVE  run[s].delivery = d /\ log'[d].status \notin {"absent", "delivered"}
  BY <1>1, <1>4 DEF Rewritten
<1>5. ASSUME NEW s \in Schedulers, WriteLog(s) PROVE Goal
  <2>1. run'[s].phase \in {"counting", "idle"}
    BY <1>5 DEF WriteLog, Goto, Done, Becomes, Resting, Attempt, Typed, RunTyped
  <2>2. run[s].phase = "logging" /\ queue' = queue /\ sender' = sender
    BY <1>5 DEF WriteLog, At
  <2> QED
    BY <1>3, <1>5, <2>1, <2>2 DEF WriteLog, Retried, Claims, Mine
<1>6. ASSUME NEW s \in Schedulers, Rewrite(s) PROVE Goal
  <2>1. run[s].phase = "rewriting" /\ UNCHANGED sender
    BY <1>6 DEF Rewrite, At
  <2> QED
    BY <1>4, <1>6, <2>1 DEF Rewrite, Retried, Claims, Mine
<1>7. ASSUME NEW s \in Schedulers, NEW e \in Deliveries, Take(s, e) PROVE Goal
  <2>1. e \in queue[s] /\ UNCHANGED sender /\ Row(e, "failed", log[e].attempts, "never")
    BY <1>7 DEF Take
  <2>2. e = d /\ log'[d].status = "failed"
    BY <1>1, <2>1
  <2> QED
    BY <2>1, <2>2 DEF Retried, Claims
<1>8. ASSUME NEW s \in Schedulers, DatabaseFails(s) PROVE Goal
  <2>1. faults' # 0 /\ UNCHANGED sender
    BY <1>8 DEF DatabaseFails, Typed
  <2>2. CASE LoggedRow(s) /\ At(s, "logging")
    BY <1>3, <2>1, <2>2 DEF At, Retried, Claims, Mine
  <2>3. CASE Rewritten(s) /\ At(s, "rewriting")
    BY <1>4, <2>1, <2>3 DEF At, Retried, Claims, Mine
  <2> QED
    BY <1>8, <2>2, <2>3 DEF DatabaseFails
<1>9. ASSUME NEW q \in Requests, ScheduleRetry(q) PROVE Goal
  BY <1>1, <1>9 DEF ScheduleRetry, Scheduled, Typed
<1> QED
  BY <1>2, <1>5, <1>6, <1>7, <1>8, <1>9
  DEF Next, Work, Poll, WriteHook, CatchError, Post, SchedulerDies, CheckRetry, Configure, vars

\* The batches stay sane, whatever fails.
LEMMA BatchesStep == Typed /\ BatchesAreSane /\ [Next]_vars => BatchesAreSane'
<1> SUFFICES ASSUME Typed, BatchesAreSane, [Next]_vars, NEW t \in Schedulers, NEW d \in Deliveries
             PROVE  /\ Holds(t, d)' => t \in running'
                    /\ run'[t].phase # "idle" => run'[t].delivery \notin queue'[t]
  BY DEF BatchesAreSane
<1>1. running' = running
  BY DEF Next, DeliveryStep, InsertLog, PostFirst, WriteFirst, FirstFails, SenderDies, BackoffPasses,
     RetryFailedDelivery, Work, Poll, WriteLog, WriteHook, CatchError, Rewrite, Take, Post,
     DatabaseFails, SchedulerDies, ScheduleRetry, CheckRetry, Configure, Ask, bounds, vars
<1>2. Holds(t, d)' => t \in running
  BY HoldStep DEF Poll, BatchesAreSane
<1>3. run[t].phase # "idle" => run[t].delivery \in Deliveries /\ run[t].delivery \notin queue[t]
  BY DEF Typed, RunTyped, BatchesAreSane
<1> DEFINE Goal == run'[t].phase # "idle" => run'[t].delivery \notin queue'[t]
<1>4. ASSUME NEW s \in Schedulers, Poll(s) PROVE Goal
  BY <1>3, <1>4 DEF Poll, Typed, RunTyped
<1>5. ASSUME NEW s \in Schedulers, NEW e \in Deliveries, Take(s, e) PROVE Goal
  <2>1. CASE run' = run
    BY <1>3, <1>5, <2>1 DEF Take, Typed
  <2>2. CASE s # t
    BY <1>3, <1>5, <2>2 DEF Take, Becomes, Typed, RunTyped
  <2>3. CASE s = t /\ hook.exists
    BY <1>5, <2>3 DEF Take, Becomes, Attempt, Typed, RunTyped
  <2> QED
    BY <1>5, <2>1, <2>2, <2>3 DEF Take
<1>6. ASSUME NEW s \in Schedulers, Done(s), \A u \in Schedulers : queue'[u] \subseteq queue[u]
      PROVE  Goal
  BY <1>3, <1>6 DEF Done, Becomes, Resting, Attempt, Typed, RunTyped
<1>7. ASSUME NEW s \in Schedulers, NEW phase, NEW n, NEW seen, NEW ok, run[s].phase # "idle",
             Becomes(s, Attempt(phase, run[s].delivery, n, seen, ok)), queue' = queue
      PROVE  Goal
  BY <1>3, <1>7 DEF Becomes, Attempt, Typed, RunTyped
<1>8. ASSUME NEW s \in Schedulers, Work(s) PROVE Goal
  <2>1. ASSUME UNCHANGED queue PROVE \A u \in Schedulers : queue'[u] \subseteq queue[u]
    BY <2>1
  <2>2. CASE WriteLog(s) \/ WriteHook(s) \/ Rewrite(s)
    BY <1>6, <1>7, <2>1, <2>2 DEF WriteLog, WriteHook, Rewrite, Goto, At
  <2>3. CASE CatchError(s)
    <3>1. run[s].phase # "idle" /\ UNCHANGED queue
      BY <2>3 DEF CatchError, At
    <3>2. CASE hook.exists
      BY <1>7, <2>3, <3>1, <3>2 DEF CatchError
    <3>3. CASE ~hook.exists
      BY <1>6, <2>1, <2>3, <3>1, <3>3 DEF CatchError
    <3> QED
      BY <3>2, <3>3
  <2>4. ASSUME NEW answer \in Answers, Post(s, answer) PROVE Goal
    BY <1>7, <2>4 DEF Post, At
  <2> QED
    BY <1>4, <1>5, <1>8, <2>2, <2>3, <2>4 DEF Work
<1>9. ASSUME NEW s \in Schedulers, DatabaseFails(s) \/ SchedulerDies(s) PROVE Goal
  <2>1. CASE EndBatch(s)
    BY <1>6, <2>1 DEF EndBatch, Typed
  <2>2. CASE Goto(s, "catching") /\ queue' = queue /\ run[s].phase # "idle"
    BY <1>7, <2>2 DEF Goto
  <2> QED
    BY <1>9, <2>1, <2>2 DEF DatabaseFails, SchedulerDies
<1>10. ASSUME UNCHANGED <<queue, run>> PROVE Goal
  BY <1>3, <1>10
<1>11. Goal
  BY <1>8, <1>9, <1>10
  DEF Next, DeliveryStep, InsertLog, WriteFirst, FirstFails, SenderDies, BackoffPasses,
      RetryFailedDelivery, PostFirst, ScheduleRetry, CheckRetry, Configure, vars
<1> QED
  BY <1>1, <1>2, <1>11

\* First attempts stay alone as long as statements do not fail.
LEMMA FirstStep ==
  Typed /\ FirstAttemptsAreAlone /\ [Next]_vars /\ faults' = 0 => FirstAttemptsAreAlone'
<1> SUFFICES ASSUME Typed, FirstAttemptsAreAlone, [Next]_vars, faults' = 0, NEW d \in Deliveries
             PROVE  /\ sender'[d] # "idle" => log'[d].status = "pending" /\ log'[d].due = "never"
                    /\ sender'[d] # "idle" \/ log'[d].status = "absent" =>
                         /\ \A s \in Schedulers : ~Holds(s, d)'
                         /\ \A q \in Requests : asking'[q] # d
  BY DEF FirstAttemptsAreAlone
<1> DEFINE Alone == (\A s \in Schedulers : ~Holds(s, d)) /\ (\A q \in Requests : asking[q] # d)
<1>0. /\ sender[d] # "idle" => log[d].status = "pending" /\ log[d].due = "never"
      /\ sender[d] # "idle" \/ log[d].status = "absent" => Alone
  BY DEF FirstAttemptsAreAlone
<1>1. ASSUME NEW s \in Schedulers PROVE Claims(s, d) => Holds(s, d)
  BY DEF Claims, Holds, Mine
<1>2. sender'[d] # "idle" => sender[d] # "idle" \/ InsertLog(d)
  BY DEF Typed, vars, tables, history, bounds, Next, DeliveryStep, InsertLog, PostFirst, WriteFirst,
     FirstFails, SenderDies, BackoffPasses, RetryFailedDelivery, Work, Poll, WriteLog, WriteHook,
     CatchError, Rewrite, Take, Post, DatabaseFails, SchedulerDies, ScheduleRetry, CheckRetry,
     Configure, Answers
<1>3. ASSUME NEW q \in Requests, asking'[q] = d
      PROVE  asking[q] = d \/ (log[d].status = "failed" /\ UNCHANGED <<log, sender>>)
  <2>1. CASE UNCHANGED asking
    BY <1>3, <2>1
  <2>2. ASSUME NEW r \in Requests, ScheduleRetry(r) PROVE asking[q] = d
    BY <1>3, <2>2, WebhookAssumption DEF ScheduleRetry, Typed
  <2>3. ASSUME NEW r \in Requests, NEW e \in Deliveries, CheckRetry(r, e)
        PROVE  asking[q] = d \/ (log[d].status = "failed" /\ UNCHANGED <<log, sender>>)
    BY <1>3, <2>3 DEF CheckRetry, tables, Typed
  <2> QED
    BY <2>1, <2>2, <2>3
    DEF vars, tables, Next, DeliveryStep, InsertLog, PostFirst, WriteFirst, FirstFails, SenderDies,
        BackoffPasses, RetryFailedDelivery, Work, Poll, WriteLog, WriteHook, CatchError, Rewrite,
        Take, Post, DatabaseFails, SchedulerDies, Configure
<1>4. CASE Inserted(d)
  <2>1. Alone
    BY <1>0, <1>4 DEF Inserted
  <2>2. Alone'
    BY <1>4, <2>1 DEF Inserted, Holds
  <2> QED
    BY <1>4, <2>2 DEF Inserted
<1>5. CASE sender[d] = "idle" /\ log[d].status # "absent"
  <2>1. sender'[d] = "idle"
    BY <1>2, <1>5 DEF InsertLog
  <2>2. log'[d].status # "absent"
    BY <1>5, RowStep DEF Inserted, Answered, Awaited, Reopened, Retried, Scheduled
  <2> QED
    BY <2>1, <2>2
<1>6. CASE (sender[d] # "idle" \/ log[d].status = "absent") /\ ~Inserted(d)
  <2>1. Alone
    BY <1>0, <1>6
  <2>2. Alone'
    <3>1. d \notin Due
      BY <1>0, <1>6 DEF Due
    <3>2. \A s \in Schedulers : ~Holds(s, d)'
      BY <2>1, <3>1, HoldStep
    <3>3. \A q \in Requests : asking'[q] # d
      BY <1>0, <1>3, <1>6, <2>1
    <3> QED
      BY <3>2, <3>3
  <2>3. CASE log'[d] = log[d]
    <3>1. ~InsertLog(d)
      BY <2>3 DEF InsertLog, Row, Typed
    <3> QED
      BY <1>0, <1>2, <2>2, <2>3, <3>1
  <2>4. CASE log'[d] # log[d]
    <3>1. Answered(d) \/ (UNCHANGED sender /\ Awaited(d)) \/ (UNCHANGED sender /\ Reopened(d))
      BY <1>1, <1>6, <2>1, <2>4, RowStep DEF Retried, Scheduled
    <3> QED
      BY <1>0, <1>6, <2>2, <3>1 DEF Answered, Awaited, Reopened
  <2> QED
    BY <2>3, <2>4
<1> QED
  BY <1>4, <1>5, <1>6

\* The set of processes does not change, and failures do not go away.
LEMMA FixedStep == Typed /\ [Next]_vars => running' = running /\ (faults' = 0 => faults = 0)
<1> SUFFICES ASSUME Typed, [Next]_vars
             PROVE  running' = running /\ (faults' = faults \/ faults' = faults + 1)
  BY DEF Typed
<1>1. ASSUME NEW d \in Deliveries, DeliveryStep(d)
      PROVE  running' = running /\ (faults' = faults \/ faults' = faults + 1)
  BY <1>1 DEF DeliveryStep, InsertLog, PostFirst, WriteFirst, FirstFails, SenderDies, BackoffPasses,
     RetryFailedDelivery, Ask, bounds
<1>2. ASSUME NEW s \in Schedulers, Work(s) PROVE running' = running /\ faults' = faults
  BY <1>2 DEF Work, Poll, WriteLog, WriteHook, CatchError, Rewrite, Take, Post, bounds
<1>3. ASSUME NEW s \in Schedulers, DatabaseFails(s) \/ SchedulerDies(s)
      PROVE  running' = running /\ faults' = faults + 1
  BY <1>3 DEF DatabaseFails, SchedulerDies
<1>4. ASSUME NEW q \in Requests, ScheduleRetry(q) \/ \E d \in Deliveries : CheckRetry(q, d)
      PROVE  running' = running /\ faults' = faults
  BY <1>4 DEF ScheduleRetry, CheckRetry, Ask, bounds
<1>5. CASE Configure \/ UNCHANGED vars
  BY <1>5 DEF Configure, Ask, vars, bounds
<1> QED
  BY <1>1, <1>2, <1>3, <1>4, <1>5 DEF Next

\* What one process alone may still write stays open.
LEMMA OpenStep ==
  /\ Typed /\ BatchesAreSane /\ FirstAttemptsAreAlone /\ ClaimsAreOpen
  /\ [Next]_vars /\ faults' = 0
  => ClaimsAreOpen'
<1> SUFFICES ASSUME Typed, BatchesAreSane, FirstAttemptsAreAlone, ClaimsAreOpen, [Next]_vars,
                    faults' = 0, Cardinality(running) = 1, NEW s \in Schedulers, NEW d \in Deliveries,
                    Claims(s, d)'
             PROVE  log'[d].status \in {"pending", "failed"}
  BY FixedStep DEF ClaimsAreOpen
<1>1. CASE Poll(s) /\ d \in Due
  BY <1>1 DEF Poll, Due, tables
<1>2. CASE Claims(s, d)
  <2>1. log[d].status \in {"pending", "failed"} /\ Holds(s, d)
    BY <1>2 DEF ClaimsAreOpen, Claims, Holds, Mine
  <2>2. sender[d] = "idle"
    BY <2>1 DEF FirstAttemptsAreAlone
  <2>3. log'[d].status \in {"absent", "pending", "delivered", "failed"}
    BY TypedStep DEF Typed, Rows
  <2>4. ASSUME NEW t \in Schedulers, Retried(t, d), log'[d].status = "delivered" PROVE FALSE
    <3>1. /\ run[t].phase = "logging" /\ run[t].delivery = d
          /\ ~Mine(run'[t].phase) /\ queue' = queue
      BY <2>4 DEF Retried
    <3>2. s \in running /\ t \in running /\ d \notin queue[t]
      BY <2>1, <3>1 DEF BatchesAreSane, Holds
    <3>3. IsFiniteSet(running)
      BY FS_Subset, WebhookAssumption DEF Typed
    <3>4. s = t
      BY <3>2, <3>3, FS_Singleton
    <3> QED
      BY <3>1, <3>2, <3>4 DEF Claims
  <2>5. CASE log'[d] # log[d]
    <3>1. \/ UNCHANGED sender /\ (Awaited(d) \/ Reopened(d))
          \/ \E t \in Schedulers : Retried(t, d)
          \/ \E q \in Requests : Scheduled(q, d)
      BY <2>1, <2>2, <2>5, RowStep DEF Inserted, Answered, Answers
    <3> QED
      BY <2>1, <2>3, <2>4, <3>1 DEF Awaited, Reopened, Retried, Scheduled
  <2> QED
    BY <2>1, <2>5
<1> QED
  BY <1>1, <1>2, HoldStep

(***************************************************************************)
(* One process stays within the limit.  Each request of the operator opens *)
(* a delivery at most once, and an open delivery has room for one more     *)
(* attempt, which closes it or is below the limit.                         *)
(***************************************************************************)

\* Only requests change the number of openings, and writing a checked retry adds one.
LEMMA OpenedStep ==
  ASSUME Typed, IsFiniteSet(Checked), [Next]_vars
  PROVE  /\ IsFiniteSet(Checked)' /\ Opened \in Int /\ Opened' \in Int /\ Opened' >= Opened
         /\ (\E q \in Requests : ScheduleRetry(q)) => Opened' >= Opened + 1
<1>1. Cardinality(Checked) \in Nat /\ asks \in Nat /\ asks' \in Nat
  BY FS_CardinalityType, TypedStep DEF Typed
<1>2. CASE \E q \in Requests : ScheduleRetry(q)
  <2>1. PICK q \in Requests : ScheduleRetry(q)
    BY <1>2
  <2>2. asking' = [asking EXCEPT ![q] = None] /\ asking[q] # None /\ asks' = asks
    BY <2>1 DEF ScheduleRetry, bounds
  <2>3. q \in Checked /\ Checked' = Checked \ {q}
    BY <2>2 DEF Checked, Typed
  <2>4. IsFiniteSet(Checked') /\ Cardinality(Checked') = Cardinality(Checked) - 1
    BY <2>3, FS_RemoveElement
  <2>5. Opened' = asks' - Cardinality(Checked')
    BY DEF Opened
  <2> QED
    BY <1>1, <2>2, <2>4, <2>5 DEF Opened
<1>3. CASE \E q \in Requests, d \in Deliveries : CheckRetry(q, d)
  <2>1. PICK q \in Requests, d \in Deliveries : CheckRetry(q, d)
    BY <1>3
  <2>2. asking' = [asking EXCEPT ![q] = d] /\ asking[q] = None /\ asks' = asks + 1
    BY <2>1 DEF CheckRetry, Ask
  <2>3. q \notin Checked /\ Checked' = Checked \union {q}
    BY <2>2, WebhookAssumption DEF Checked, Typed
  <2>4. IsFiniteSet(Checked') /\ Cardinality(Checked') = Cardinality(Checked) + 1
    BY <2>3, FS_AddElement
  <2>5. Opened' = asks' - Cardinality(Checked')
    BY DEF Opened
  <2>6. asks' # asks
    BY <1>1, <2>2
  <2>7. ASSUME NEW r \in Requests PROVE ~ScheduleRetry(r)
    BY <2>6 DEF ScheduleRetry, bounds
  <2> QED
    BY <1>1, <2>2, <2>4, <2>5, <2>7 DEF Opened
<1>4. CASE asking' = asking /\ asks' >= asks
  <2>1. Checked' = Checked /\ ~\E q \in Requests : ScheduleRetry(q)
    BY <1>4 DEF Checked, ScheduleRetry, Typed
  <2>2. Opened' = asks' - Cardinality(Checked')
    BY DEF Opened
  <2> QED
    BY <1>1, <1>4, <2>1, <2>2 DEF Opened
<1>5. ASSUME asks' = asks \/ asks' = asks + 1 PROVE asks' >= asks
  BY <1>1, <1>5
<1>6. ASSUME NEW d \in Deliveries, DeliveryStep(d) PROVE asking' = asking /\ asks' >= asks
  BY <1>5, <1>6
  DEF DeliveryStep, InsertLog, PostFirst, WriteFirst, FirstFails, SenderDies, BackoffPasses,
      RetryFailedDelivery, Ask, bounds
<1>7. ASSUME NEW s \in Schedulers, Work(s) PROVE asking' = asking /\ asks' >= asks
  BY <1>5, <1>7
  DEF Work, Poll, WriteLog, WriteHook, CatchError, Rewrite, Take, Post, bounds
<1>8. ASSUME NEW s \in Schedulers, DatabaseFails(s) \/ SchedulerDies(s)
      PROVE  asking' = asking /\ asks' >= asks
  BY <1>5, <1>8 DEF DatabaseFails, SchedulerDies
<1>9. CASE Configure \/ UNCHANGED vars
  <2>1. asking' = asking /\ asks' >= asks
    BY <1>5, <1>9 DEF Configure, Ask, bounds, vars
  <2> QED
    BY <1>4, <2>1
<1> QED
  BY <1>2, <1>3, <1>4, <1>6, <1>7, <1>8, <1>9 DEF Next

\* How a write changes the attempts of a row and whether it is due: a first attempt,
\* an operator's request, a write that keeps the count, the count of an attempt, or
\* a retry below the limit.
FirstCount(d) == log'[d].attempts <= 1 /\ log'[d].due \in {log[d].due, "never"}
SameCount(d) ==
  log'[d].attempts = log[d].attempts /\ (log'[d].due # "never" => log[d].due # "never")
OperatorsCount(d) ==
  (\E q \in Requests : ScheduleRetry(q)) /\ log'[d].attempts = log[d].attempts
LoggedCount(s, d) ==
  /\ run[s].phase = "logging" /\ run[s].delivery = d
  /\ log'[d].attempts = run[s].attempts + 1
  /\ log'[d].due # "never" => log'[d].attempts + 1 <= HighestLimit
  /\ ~Adding(run'[s].phase) /\ queue'[s] \subseteq queue[s]
  /\ \A t \in Schedulers \ {s} : run'[t] = run[t] /\ queue'[t] = queue[t]
RewrittenCount(s, d) ==
  run[s].phase # "idle" /\ run[s].delivery = d /\ log'[d].attempts + 1 <= HighestLimit

LEMMA CountStep ==
  ASSUME Typed, [Next]_vars, NEW d \in Deliveries, log'[d] # log[d]
  PROVE  \/ FirstCount(d) \/ SameCount(d) \/ OperatorsCount(d)
         \/ \E s \in Schedulers : LoggedCount(s, d) \/ RewrittenCount(s, d)
<1> DEFINE Goal == \/ FirstCount(d) \/ SameCount(d) \/ OperatorsCount(d)
                   \/ \E s \in Schedulers : LoggedCount(s, d) \/ RewrittenCount(s, d)
<1> USE DEF tables, history, bounds
<1>0. ASSUME NEW e, NEW status, NEW n, NEW due, Row(e, status, n, due)
      PROVE  e = d /\ log'[d].attempts = n /\ log'[d].due = due
  <2>1. e = d /\ log'[d] = [status |-> status, attempts |-> n, due |-> due]
    BY <1>0 DEF Row, Typed
  <2> QED
    BY <2>1
<1>1. ASSUME NEW e \in Deliveries, DeliveryStep(e) PROVE Goal
  <2>1. CASE InsertLog(e)
    BY <1>0, <2>1 DEF InsertLog, FirstCount, CountedAtInsert
  <2>2. CASE WriteFirst(e) \/ FirstFails(e)
    BY <1>0, <2>2 DEF WriteFirst, FirstFails, FirstRow, FirstCount
  <2>3. CASE BackoffPasses(e) \/ RetryFailedDelivery(e)
    BY <1>0, <2>3 DEF BackoffPasses, RetryFailedDelivery, SameCount
  <2> QED
    BY <1>1, <2>1, <2>2, <2>3 DEF DeliveryStep, SenderDies, PostFirst
<1>2. ASSUME NEW s \in Schedulers, run[s].phase # "idle"
      PROVE  /\ run[s].hook.maxRetries \in Nat /\ run[s].hook.maxRetries <= HighestLimit
             /\ run[s].attempts \in Nat
  BY <1>2, WebhookAssumption DEF Typed, RunTyped, Runs, Hooks
<1>3. ASSUME NEW s \in Schedulers, run[s].phase = "logging", LoggedRow(s),
             \/ Goto(s, "counting") /\ queue' = queue
             \/ Goto(s, "catching") /\ queue' = queue
             \/ Done(s) /\ queue' = queue
      PROVE  Goal
  <2>1. /\ run[s].delivery = d /\ log'[d].attempts = run[s].attempts + 1
        /\ log'[d].due # "never" => ~IsLast(s)
    BY <1>0, <1>3 DEF LoggedRow
  <2>2. log'[d].due # "never" => log'[d].attempts + 1 <= HighestLimit
    BY <1>2, <1>3, <2>1, WebhookAssumption DEF IsLast
  <2>3. ~Adding(run'[s].phase) /\ \A t \in Schedulers \ {s} : run'[t] = run[t]
    BY <1>3 DEF Goto, Done, Becomes, Resting, Attempt, Adding, Typed, RunTyped
  <2> QED
    BY <1>3, <2>1, <2>2, <2>3 DEF LoggedCount
<1>4. ASSUME NEW s \in Schedulers, run[s].phase # "idle", Rewritten(s) PROVE Goal
  <2>1. CASE IsLast(s)
    BY <1>0, <1>4, <2>1 DEF Rewritten, SameCount
  <2>2. CASE ~IsLast(s)
    <3>1. run[s].delivery = d /\ log'[d].attempts = run[s].attempts + 1
      BY <1>0, <1>4, <2>2 DEF Rewritten
    <3> QED
      BY <1>2, <1>4, <2>2, <3>1, WebhookAssumption DEF IsLast, RewrittenCount
  <2> QED
    BY <2>1, <2>2
<1>5. ASSUME NEW s \in Schedulers, Work(s) PROVE Goal
  <2>1. CASE WriteLog(s)
    BY <1>3, <2>1 DEF WriteLog, At
  <2>2. CASE Rewrite(s)
    BY <1>4, <2>2 DEF Rewrite, At
  <2>3. ASSUME NEW e \in Deliveries, Take(s, e) PROVE Goal
    <3>1. Row(e, "failed", log[e].attempts, "never")
      BY <2>3 DEF Take
    <3> QED
      BY <1>0, <3>1 DEF SameCount
  <2> QED
    BY <1>5, <2>1, <2>2, <2>3 DEF Work, Poll, WriteHook, CatchError, Post
<1>6. ASSUME NEW s \in Schedulers, DatabaseFails(s) PROVE Goal
  <2>1. CASE LoggedRow(s) /\ At(s, "logging")
    BY <1>3, <1>6, <2>1 DEF DatabaseFails, At
  <2>2. CASE Rewritten(s) /\ At(s, "rewriting")
    BY <1>4, <2>2 DEF At
  <2> QED
    BY <1>6, <2>1, <2>2 DEF DatabaseFails
<1>7. ASSUME NEW q \in Requests, ScheduleRetry(q) PROVE Goal
  BY <1>0, <1>7 DEF ScheduleRetry, OperatorsCount
<1> QED
  BY <1>1, <1>5, <1>6, <1>7 DEF Next, SchedulerDies, CheckRetry, Configure, vars

\* A delivery gets open for a process only by being due, and what a process adds to
\* was read when it took the delivery out of its batch.
LEMMA AddStep ==
  ASSUME Typed, [Next]_vars, NEW t \in Schedulers
  PROVE  /\ \A d \in Deliveries : MayAdd(t, d)' => MayAdd(t, d) \/ log[d].due # "never"
         /\ Adding(run'[t].phase) =>
              \/ Adding(run[t].phase) /\ run'[t].attempts = run[t].attempts
              \/ \E d \in queue[t] : run'[t].attempts = log[d].attempts
<1> DEFINE Kept == \A d \in Deliveries : MayAdd(t, d)' => MayAdd(t, d) \/ log[d].due # "never"
           Read == Adding(run'[t].phase) =>
                     \/ Adding(run[t].phase) /\ run'[t].attempts = run[t].attempts
                     \/ \E d \in queue[t] : run'[t].attempts = log[d].attempts
<1> USE DEF MayAdd, Adding
<1>1. ASSUME UNCHANGED <<queue, run>> PROVE Kept /\ Read
  BY <1>1
<1>2. ASSUME NEW s \in Schedulers, NEW phase, NEW n, NEW seen, NEW ok, NEW d,
             Becomes(s, Attempt(phase, d, n, seen, ok)),
             ~Adding(phase), \A u \in Schedulers : queue'[u] \subseteq queue[u]
      PROVE  Kept /\ Read
  BY <1>2 DEF Becomes, Attempt, Typed, RunTyped
<1>3. ASSUME NEW s \in Schedulers, Poll(s) PROVE Kept /\ Read
  BY <1>3 DEF Poll, Due, Typed
<1>4. ASSUME NEW s \in Schedulers, NEW e \in Deliveries, Take(s, e) PROVE Kept /\ Read
  <2>1. \A u \in Schedulers : queue'[u] \subseteq queue[u]
    BY <1>4 DEF Take, Typed
  <2>2. CASE run' = run
    BY <2>1, <2>2
  <2>3. CASE Becomes(s, Attempt("posting", e, log[e].attempts, hook, FALSE))
    <3>1. /\ run'[s].phase = "posting" /\ run'[s].delivery = e
          /\ run'[s].attempts = log[e].attempts
          /\ \A u \in Schedulers \ {s} : run'[u] = run[u]
      BY <2>3 DEF Becomes, Attempt, Typed, RunTyped
    <3>2. e \in queue[s]
      BY <1>4 DEF Take
    <3> QED
      BY <2>1, <3>1, <3>2
  <2> QED
    BY <1>4, <2>2, <2>3 DEF Take
<1>5. ASSUME NEW s \in Schedulers, NEW answer \in Answers, Post(s, answer) PROVE Kept /\ Read
  <2>1. /\ run'[s].delivery = run[s].delivery /\ run'[s].attempts = run[s].attempts
        /\ run[s].phase = "posting" /\ \A u \in Schedulers \ {s} : run'[u] = run[u]
        /\ queue' = queue
    BY <1>5 DEF Post, At, Becomes, Attempt, Typed, RunTyped
  <2> QED
    BY <2>1
<1>6. ASSUME UNCHANGED queue PROVE \A u \in Schedulers : queue'[u] \subseteq queue[u]
  BY <1>6
<1>9. ASSUME NEW s \in Schedulers, Done(s), \A u \in Schedulers : queue'[u] \subseteq queue[u]
      PROVE  Kept /\ Read
  <2>1. Becomes(s, Attempt("idle", None, 0, None, FALSE)) /\ ~Adding("idle")
    BY <1>9 DEF Done, Resting
  <2> QED
    BY <1>2, <1>9, <2>1
<1>7. ASSUME NEW s \in Schedulers, WriteLog(s) \/ WriteHook(s) \/ CatchError(s) \/ Rewrite(s)
      PROVE  Kept /\ Read
  <2>1. \A u \in Schedulers : queue'[u] \subseteq queue[u]
    BY <1>6, <1>7 DEF WriteLog, WriteHook, CatchError, Rewrite
  <2>2. CASE Done(s)
    BY <1>9, <2>1, <2>2
  <2>3. CASE Goto(s, "counting")
    BY <1>2, <2>1, <2>3 DEF Goto
  <2>4. CASE Becomes(s, Attempt("rewriting", run[s].delivery, log[run[s].delivery].attempts,
                                hook, run[s].ok))
    BY <1>2, <2>1, <2>4
  <2> QED
    BY <1>7, <2>2, <2>3, <2>4 DEF WriteLog, WriteHook, CatchError, Rewrite
<1>8. ASSUME NEW s \in Schedulers, DatabaseFails(s) \/ SchedulerDies(s) PROVE Kept /\ Read
  <2>1. CASE EndBatch(s)
    <3>1. \A u \in Schedulers : queue'[u] \subseteq queue[u]
      BY <2>1 DEF EndBatch, Typed
    <3> QED
      BY <1>9, <2>1, <3>1 DEF EndBatch
  <2>2. CASE Goto(s, "catching") /\ UNCHANGED queue
    BY <1>2, <1>6, <2>2 DEF Goto
  <2> QED
    BY <1>8, <2>1, <2>2 DEF DatabaseFails, SchedulerDies
<1> QED
  BY <1>1, <1>3, <1>4, <1>5, <1>7, <1>8
  DEF Next, Work, DeliveryStep, InsertLog, WriteFirst, FirstFails, SenderDies, BackoffPasses,
      RetryFailedDelivery, PostFirst, ScheduleRetry, CheckRetry, Configure, vars

\* What is due or held was asked for.
LEMMA OpeningsStep ==
  Typed /\ OpeningsCount /\ [Next]_vars => OpeningsCount'
<1> SUFFICES ASSUME Typed, OpeningsCount, [Next]_vars PROVE OpeningsCount'
  OBVIOUS
<1>1. /\ IsFiniteSet(Checked)' /\ Opened \in Int /\ Opened' \in Int /\ Opened' >= Opened
      /\ (\E q \in Requests : ScheduleRetry(q)) => Opened' >= Opened + 1
  BY OpenedStep DEF OpeningsCount
<1>2. ASSUME NEW d \in Deliveries, log'[d].due # "never" PROVE Opened' >= 1
  <2>1. \/ log[d].due # "never" \/ (\E q \in Requests : ScheduleRetry(q))
        \/ \E s \in Schedulers : Holds(s, d)
    BY <1>2, CountStep
    DEF FirstCount, SameCount, OperatorsCount, LoggedCount, RewrittenCount, Holds
  <2> QED
    BY <1>1, <2>1 DEF OpeningsCount
<1>3. ASSUME NEW d \in Deliveries, NEW s \in Schedulers, Holds(s, d)' PROVE Opened' >= 1
  <2>1. log[d].due # "never" \/ Holds(s, d)
    BY <1>3, HoldStep DEF Due
  <2> QED
    BY <1>1, <2>1 DEF OpeningsCount
<1> QED
  BY <1>1, <1>2, <1>3 DEF OpeningsCount

\* An open delivery keeps room for one more attempt.
LEMMA RoomStep ==
  Typed /\ BatchesAreSane /\ LimitInv /\ [Next]_vars => RoomKept'
<1> SUFFICES ASSUME Typed, BatchesAreSane, LimitInv, [Next]_vars, Cardinality(running) = 1
             PROVE  (\A d \in Deliveries : RowRoom(d)') /\ (\A s \in Schedulers : RunRoom(s)')
  BY FixedStep DEF RoomKept
<1>1. /\ Opened \in Int /\ Opened' \in Int /\ Opened' >= Opened /\ Opened >= 0
      /\ (\E q \in Requests : ScheduleRetry(q)) => Opened' >= Opened + 1
  BY OpenedStep DEF LimitInv, OpeningsCount
<1>2. /\ Allowance \in Int /\ Allowance' \in Int /\ Allowance' >= Allowance
      /\ HighestLimit <= Allowance' /\ 1 <= Allowance'
      /\ (Opened >= 1 => 2 <= Allowance')
      /\ (\E q \in Requests : ScheduleRetry(q)) => Allowance' >= Allowance + 1
  <2>1. HighestLimit \in Nat /\ Limit \in Nat /\ Limit >= 1 /\ Limit >= HighestLimit
    BY WebhookAssumption DEF Limit
  <2>2. Allowance = Limit + Opened /\ Allowance' = Limit + Opened'
    BY DEF Allowance, Limit
  <2> HIDE DEF Limit
  <2>3. /\ Allowance \in Int /\ Allowance' \in Int /\ Allowance' >= Allowance
        /\ HighestLimit <= Allowance' /\ 1 <= Allowance'
        /\ (Opened >= 1 => 2 <= Allowance')
        /\ (Opened' >= Opened + 1 => Allowance' >= Allowance + 1)
    <3> DEFINE L == Limit
               old == Opened
               new == Opened'
    <3>1. HighestLimit \in Int /\ L \in Int /\ L >= 1 /\ L >= HighestLimit
          /\ old \in Int /\ new \in Int /\ new >= old /\ old >= 0
      BY <1>1, <2>1
    <3>2. Allowance = L + old /\ Allowance' = L + new
      BY <2>2
    <3> HIDE DEF L, old, new
    <3>3. L + old \in Int /\ L + new \in Int /\ L + new >= L + old /\ HighestLimit <= L + new
          /\ 1 <= L + new /\ (old >= 1 => 2 <= L + new) /\ (new >= old + 1 => L + new >= L + old + 1)
      BY <3>1
    <3> QED
      BY <3>2, <3>3 DEF old, new
  <2> QED
    BY <1>1, <2>3
<1>3. (\A d \in Deliveries : RowRoom(d)) /\ (\A s \in Schedulers : RunRoom(s))
  BY DEF LimitInv, RoomKept
<1>4. \A d \in Deliveries : log[d].attempts \in Nat /\ log'[d].attempts \in Nat
  BY TypedStep DEF Typed, Rows
<1>5. \A s \in Schedulers : run[s].attempts \in Nat
  BY DEF Typed, RunTyped, Runs
<1>6. ASSUME NEW d \in Deliveries PROVE RowRoom(d)'
  <2>0. /\ log[d].attempts <= Allowance /\ (Open(d) => log[d].attempts + 1 <= Allowance)
        /\ (Open(d) => Opened >= 1)
    BY <1>3 DEF RowRoom, LimitInv, OpeningsCount, Open, MayAdd, Holds, Adding
  <2>1. ASSUME log'[d].due # "never" => log[d].due # "never" PROVE Open(d)' => Open(d)
    BY <2>1, AddStep DEF Open
  <2>2. SUFFICES /\ log'[d].attempts <= Allowance'
                 /\ Open(d)' => log'[d].attempts + 1 <= Allowance'
    BY DEF RowRoom
  <2>3. CASE log'[d] = log[d] \/ SameCount(d)
    BY <1>2, <1>4, <2>0, <2>1, <2>3 DEF SameCount
  <2>4. CASE FirstCount(d)
    BY <1>2, <1>4, <2>0, <2>1, <2>4 DEF FirstCount
  <2>5. CASE OperatorsCount(d)
    BY <1>2, <1>4, <2>0, <2>5 DEF OperatorsCount
  <2>6. ASSUME NEW s \in Schedulers, LoggedCount(s, d)
        PROVE  /\ log'[d].attempts <= Allowance'
               /\ Open(d)' => log'[d].attempts + 1 <= Allowance'
    <3>1. log'[d].attempts = run[s].attempts + 1 /\ run[s].attempts + 1 <= Allowance
      BY <1>3, <2>6 DEF LoggedCount, RunRoom, Adding
    <3>2. s \in running /\ d \notin queue[s]
      BY <2>6 DEF LoggedCount, BatchesAreSane, Holds
    <3>3. ~MayAdd(s, d)'
      BY <2>6, <3>2 DEF LoggedCount, MayAdd
    <3>4. ASSUME NEW t \in Schedulers \ {s}, MayAdd(t, d)' PROVE FALSE
      <4>1. Holds(t, d)
        BY <2>6, <3>4 DEF LoggedCount, MayAdd, Holds, Adding
      <4>2. t \in running /\ IsFiniteSet(running)
        BY <4>1, WebhookAssumption, FS_Subset DEF BatchesAreSane, Typed
      <4> QED
        BY <3>2, <4>2, FS_Singleton
    <3>5. Open(d)' => log'[d].due # "never"
      BY <3>3, <3>4 DEF Open
    <3> QED
      BY <1>2, <1>4, <1>5, <2>6, <3>1, <3>5, WebhookAssumption DEF LoggedCount
  <2>7. ASSUME NEW s \in Schedulers, RewrittenCount(s, d) PROVE log'[d].attempts + 1 <= Allowance'
    BY <1>2, <1>4, <2>7, WebhookAssumption DEF RewrittenCount
  <2> QED
    BY <1>2, <1>4, <2>3, <2>4, <2>5, <2>6, <2>7, CountStep
<1>7. ASSUME NEW s \in Schedulers, Adding(run'[s].phase) PROVE run'[s].attempts + 1 <= Allowance'
  <2>1. CASE Adding(run[s].phase) /\ run'[s].attempts = run[s].attempts
    BY <1>2, <1>3, <1>5, <2>1 DEF RunRoom
  <2>2. ASSUME NEW d \in queue[s], run'[s].attempts = log[d].attempts
        PROVE  run'[s].attempts + 1 <= Allowance'
    <3>1. d \in Deliveries
      BY DEF Typed
    <3>2. log[d].attempts + 1 <= Allowance
      BY <1>3, <3>1 DEF RowRoom, Open, MayAdd
    <3> QED
      BY <1>2, <1>4, <2>2, <3>1, <3>2
  <2> QED
    BY <1>7, <2>1, <2>2, AddStep
<1> QED
  BY <1>6, <1>7 DEF RunRoom

\* The invariant holds in every reachable state.
LEMMA Invariance == Spec => []IInv
<1>1. Init => IInv
  <2> SUFFICES ASSUME Init PROVE IInv
    OBVIOUS
  <2>1. Resting \in Runs /\ Resting.phase = "idle"
    BY DEF Resting, Attempt, Runs, Phases
  <2>2. /\ run = [s \in Schedulers |-> Resting] /\ queue = [s \in Schedulers |-> {}]
        /\ log = [d \in Deliveries |-> [status |-> "absent", attempts |-> 0, due |-> "never"]]
        /\ sender = [d \in Deliveries |-> "idle"] /\ asking = [q \in Requests |-> None]
        /\ posts = [d \in Deliveries |-> 0] /\ acked = {} /\ asks = 0 /\ faults = 0
        /\ running \subseteq Schedulers
    BY DEF Init
  <2>3. hook \in Hooks
    <3>1. PICK limit \in RetryLimits :
            hook = [exists |-> TRUE, retriesEnabled |-> TRUE, maxRetries |-> limit, failures |-> 0]
      BY DEF Init
    <3> QED
      BY <3>1, WebhookAssumption DEF Hooks
  <2> HIDE DEF Resting, Init
  <2>4. \A s \in Schedulers : run[s].phase = "idle" /\ queue[s] = {}
    BY <2>1, <2>2
  <2>5. Typed
    BY <2>1, <2>2, <2>3 DEF Typed, RunTyped, Rows
  <2>6. DeliveredIsAccepted /\ AnswersAreTrue
    BY <2>2, <2>4 DEF DeliveredIsAccepted, AnswersAreTrue
  <2>7. BatchesAreSane /\ FirstAttemptsAreAlone /\ ClaimsAreOpen
    BY <2>2, <2>4, WebhookAssumption
    DEF BatchesAreSane, FirstAttemptsAreAlone, ClaimsAreOpen, Holds, Claims, Mine
  <2>8. AttemptsFit
    <3>1. \A d \in Deliveries : Catching(d) = {}
      BY <2>4 DEF Catching
    <3>2. \A d \in Deliveries : Owed(d) = 0
      BY <3>1, FS_EmptySet DEF Owed
    <3> QED
      BY <2>2, <2>4, <3>2 DEF AttemptsFit, RowsFit, SendersFit, RunsFit, RunFits, Fits, Answers
  <2>9. LimitInv
    <3>1. Checked = {}
      BY <2>2 DEF Checked
    <3>2. IsFiniteSet(Checked) /\ Opened = 0
      BY <2>2, <3>1, FS_EmptySet DEF Opened
    <3>3. Allowance >= 0
      BY <3>2, WebhookAssumption DEF Allowance, Limit
    <3> QED
      BY <2>2, <2>4, <3>2, <3>3
      DEF LimitInv, OpeningsCount, RoomKept, RowRoom, RunRoom, Open, MayAdd, Holds, Adding
  <2> QED
    BY <2>5, <2>6, <2>7, <2>8, <2>9 DEF IInv
<1>2. IInv /\ [Next]_vars => IInv'
  BY TypedStep, AcceptedStep, AttemptsStep, BatchesStep, FirstStep, OpenStep, FixedStep,
     OpeningsStep, RoomStep DEF IInv, LimitInv
<1> QED
  BY <1>1, <1>2, PTL DEF Spec

(***************************************************************************)
(* The theorems.                                                           *)
(***************************************************************************)

\* The tables and the locals of every process keep their types.
THEOREM TypeCorrect == Spec => []TypeOK
<1>1. IInv => TypeOK
  <2> SUFFICES ASSUME Typed PROVE TypeOK
    BY DEF IInv
  <2>1. run \in [Schedulers ->
          [phase : Phases, delivery : Deliveries \union {None}, attempts : Nat,
           hook : Hooks \union {None}, ok : BOOLEAN]]
    BY DEF Typed, RunTyped, Runs
  <2> QED
    BY <2>1 DEF Typed, TypeOK, Rows, Phases
<1> QED
  BY Invariance, <1>1, PTL

\* Where one process retries, a delivery is attempted at most once more than the
\* limit allows for each request of the operator, however the failures of the
\* database, the deaths of the process and the changes of the limit fall.
THEOREM AttemptsLimited == Spec => []AttemptsAreLimited
<1>1. IInv => AttemptsAreLimited
  <2> SUFFICES ASSUME IInv, Cardinality(running) = 1, NEW d \in Deliveries
               PROVE  log[d].attempts <= Limit + asks
    BY DEF AttemptsAreLimited, Limit
  <2>1. /\ log[d].attempts <= Limit + Opened /\ Limit \in Nat /\ log[d].attempts \in Nat
        /\ asks \in Nat /\ Cardinality(Checked) \in Nat
    BY FS_CardinalityType, WebhookAssumption
    DEF IInv, Typed, Rows, LimitInv, OpeningsCount, RoomKept, RowRoom, Allowance, Limit
  <2> QED
    BY <2>1 DEF Opened
<1> QED
  BY Invariance, <1>1, PTL

\* A delivery that is recorded as delivered was accepted by the receiver.
THEOREM Delivered == Spec => []DeliveredIsAccepted
BY Invariance, PTL DEF IInv

\* As long as no statement fails, no more attempts are counted than were made,
\* with any number of processes at the same delivery.
THEOREM AttemptsCounted == Spec => []CountedAttemptsWereMade
<1>1. IInv => CountedAttemptsWereMade
  <2> SUFFICES ASSUME IInv, faults = 0, NEW d \in Deliveries PROVE log[d].attempts <= posts[d]
    BY DEF CountedAttemptsWereMade
  <2>1. Typed /\ Fits(log[d].attempts, d)
    BY DEF IInv, AttemptsFit, RowsFit
  <2>2. Owed(d) \in Nat /\ log[d].attempts \in Nat /\ posts[d] \in Nat
    BY <2>1, OwedNat DEF Typed, Rows
  <2> QED
    BY <2>1, <2>2 DEF Fits
<1> QED
  BY Invariance, <1>1, PTL

\* Without failures a single process opens no delivered delivery again.
THEOREM OperatorsReopen == Spec => OnlyOperatorsReopen
<1> DEFINE A == faults = 0 /\ Cardinality(running) = 1 =>
       \A d \in Deliveries : log[d].status = "delivered" /\ log'[d].status # "delivered" =>
         asks' > asks \/ \E q \in Requests : asking[q] = d /\ asking'[q] = None
<1>1. IInv /\ [Next]_vars => [A]_vars
  <2> SUFFICES ASSUME IInv, [Next]_vars, faults = 0, Cardinality(running) = 1, NEW d \in Deliveries,
                      log[d].status = "delivered", log'[d].status # "delivered"
               PROVE  asks' > asks \/ \E q \in Requests : asking[q] = d /\ asking'[q] = None
    OBVIOUS
  <2>1. Typed /\ FirstAttemptsAreAlone /\ ClaimsAreOpen
    BY DEF IInv
  <2>2. sender[d] = "idle" /\ \A s \in Schedulers : ~Claims(s, d)
    BY <2>1 DEF FirstAttemptsAreAlone, ClaimsAreOpen
  <2> QED
    BY <2>1, <2>2, RowStep DEF Inserted, Answered, Answers, Awaited, Reopened, Retried, Scheduled
<1> QED
  BY Invariance, <1>1, PTL DEF Spec, OnlyOperatorsReopen
=============================================================================
