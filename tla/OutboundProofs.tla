----------------------------- MODULE OutboundProofs -----------------------------
(***************************************************************************)
(* Proofs about OutboundLifecycle, for any number of transfers, polls,     *)
(* faults and releases.  The argument: the facts a step needs are never    *)
(* taken back, so a snapshot that was justified when it was taken is       *)
(* justified however late the poll acts on it.                             *)
(* The last part is about one poll at a time, where a snapshot is fresh.   *)
(***************************************************************************)
EXTENDS OutboundProperties, TLAPS

(***************************************************************************)
(* The inductive invariant.                                                *)
(***************************************************************************)

\* The milestones of a transfer come in order.
Ordered(t) ==
  /\ t \in fxRate => Cleared(t)
  /\ t \in provider => t \in fxRate
  /\ debits[t] > 0 => t \in provider
  /\ t \in confirms => debits[t] > 0
  /\ t \in completedAt => t \in confirms
  /\ notices[t] > 0 => t \in completedAt

RowKnows(t) ==
  /\ status[t] \in PendingStatus \union {"absent"} => lifecycleStep[t] \in Steps
  /\ complianceResult[t] = "clear" => Cleared(t)
  /\ Ready(t, lifecycleStep[t])

\* What a poll knows of the transfer it is at, from the awaits behind it.
PhaseKnows(p) ==
  LET t == current[p]
      step == batch[p][t]
  IN  pc[p] # "idle" =>
        /\ t \in Transfers /\ step \in Steps
        /\ pc[p] \in {"screen", "mark"} => step = "Compliance"
        /\ pc[p] = "mark" /\ Passes(verdict[p]) => Cleared(t)
        /\ pc[p] = "price" => step = "Pricing"
        /\ pc[p] \in {"route", "debit"} => step = "Routing"
        /\ pc[p] = "debit" => t \in provider
        /\ pc[p] = "confirm" => step = "Settlement"
        /\ pc[p] \in {"complete", "notify"} => step = "Audit"
        /\ pc[p] = "notify" => t \in completedAt
        /\ pc[p] \in {"advance", "log"} => Ready(t, NextStep[step])

\* Every snapshot still justifies the steps it holds.
PollsKnow ==
  /\ \A p \in Polls, t \in Transfers : batch[p][t] # None => Ready(t, batch[p][t])
  /\ \A p \in Polls : PhaseKnows(p)

Knowledge ==
  /\ \A t \in Transfers : Ordered(t) /\ RowKnows(t)
  /\ EventsAreTruthful
  /\ PollsKnow

IInv == TypeOK /\ Knowledge

\* What no step takes back.
Grows(t) ==
  /\ Cleared(t) => Cleared(t)'
  /\ t \in fxRate => t \in fxRate'
  /\ t \in provider => t \in provider'
  /\ debits[t] > 0 => debits'[t] > 0
  /\ t \in confirms => t \in confirms'
  /\ t \in completedAt => t \in completedAt'
  /\ notices[t] > 0 => notices'[t] > 0

AllGrow == \A t \in Transfers : Grows(t)

(***************************************************************************)
(* Type correctness.                                                       *)
(***************************************************************************)

\* Going on with a snapshot keeps the locals of every poll within their types.
LEMMA GoOnType ==
  ASSUME TypeOK, NEW p \in Polls, NEW left \in [Transfers -> Steps \union {None}],
         GoOn(p, left)
  PROVE  /\ pc' \in [Polls -> Phases \union {"idle"}]
         /\ batch' \in [Polls -> [Transfers -> Steps \union {None}]]
         /\ current' \in [Polls -> Transfers \union {None}]
         /\ verdict' \in [Polls -> Answers]
<1>1. /\ batch' \in [Polls -> [Transfers -> Steps \union {None}]]
      /\ verdict' \in [Polls -> Answers]
      /\ current' \in [Polls -> Transfers \union {None}]
  BY DEF TypeOK, GoOn, Answers
<1>2. \A s \in Steps : FirstPhase[s] \in Phases
  BY DEF Steps, FirstPhase, Phases
<1>3. pc' \in [Polls -> Phases \union {"idle"}]
  <2>1. CASE \E t \in Transfers : left[t] # None /\ pc' = [pc EXCEPT ![p] = FirstPhase[left[t]]]
    BY <1>2, <2>1 DEF TypeOK
  <2>2. CASE pc' = [pc EXCEPT ![p] = "idle"]
    BY <2>2 DEF TypeOK
  <2> QED
    BY <2>1, <2>2 DEF GoOn
<1> QED
  BY <1>1, <1>3

\* What is left of a snapshot is a snapshot.
LEMMA ReturnIsGoOn ==
  ASSUME TypeOK, NEW p \in Polls, Return(p)
  PROVE  \E left \in [Transfers -> Steps \union {None}] :
           /\ left = [batch[p] EXCEPT ![current[p]] = None]
           /\ GoOn(p, left)
BY DEF TypeOK, Return

\* A poll that goes to its next await keeps its locals' types.
LEMMA GotoType ==
  ASSUME TypeOK, NEW p \in Polls, NEW phase \in Phases, Goto(p, phase)
  PROVE  /\ pc' \in [Polls -> Phases \union {"idle"}]
         /\ batch' \in [Polls -> [Transfers -> Steps \union {None}]]
         /\ current' \in [Polls -> Transfers \union {None}]
         /\ verdict' \in [Polls -> Answers]
BY DEF TypeOK, Goto

\* The step and status the worker advances a row to are of the tables' types.
LEMMA NextRow ==
  \A s \in Steps : /\ NextStep[s] \in Steps \union {"completed"}
                   /\ NextStatus[s] \in PendingStatus \union {"completed"}
                   /\ NextStatus[s] \in PendingStatus => NextStep[s] \in Steps
BY DEF Steps, NextStep, NextStatus, PendingStatus

\* Counting one more keeps a counter a counter, and positive where it was.
LEMMA CountType ==
  ASSUME NEW counter \in [Transfers -> Nat], NEW t \in Transfers, NEW counted,
         counted = [counter EXCEPT ![t] = Count(@)]
  PROVE  /\ counted \in [Transfers -> Nat]
         /\ counted[t] > 0
         /\ \A u \in Transfers : counter[u] > 0 => counted[u] > 0
<1>1. Count(counter[t]) \in Nat /\ Count(counter[t]) > 0
  BY OutboundAssumption DEF Count
<1> QED
  BY <1>1

\* Every step keeps every table, counter and local within its type.
LEMMA TypeStep == IInv /\ [Next]_vars => TypeOK'
<1> SUFFICES ASSUME TypeOK, Knowledge, [Next]_vars PROVE TypeOK'
  BY DEF IInv
<1> USE OutboundAssumption DEF row, state, stamps, logs, tables, approvals, ledger, local, Fault
<1>1. ASSUME NEW t \in Transfers, People(t) PROVE TypeOK'
  <2>1. CASE Submit(t)
    <3>1. "admitted" \in Status
      BY DEF Status, PendingStatus
    <3>2. events' \in [Transfers -> SUBSET (Steps \union {"submitted"})] /\ faults' \in Nat
      BY <2>1 DEF TypeOK, Submit
    <3> QED
      BY <2>1, <3>1, <3>2 DEF TypeOK, Submit
  <2>2. CASE RequestRelease(t)
    BY <2>2 DEF TypeOK, RequestRelease
  <2>3. CASE Release(t)
    <3>1. "routing" \in Status /\ "Pricing" \in Steps
      BY DEF Status, PendingStatus, Steps
    <3>2. releases' \in [Transfers -> Nat]
      BY <2>3 DEF TypeOK, Release
    <3> QED
      BY <2>3, <3>1, <3>2 DEF TypeOK, Release
  <2>4. CASE ReleaseFails(t)
    BY <2>4 DEF TypeOK, ReleaseFails
  <2>5. CASE \E action \in {"approved", "rejected"} : Decide(t, action)
    BY <2>5 DEF TypeOK, Decide
  <2> QED
    BY <1>1, <2>1, <2>2, <2>3, <2>4, <2>5 DEF People
<1>2. ASSUME NEW p \in Polls, Poll(p) PROVE TypeOK'
  <2> DEFINE Snapshot(chosen) ==
        [t \in Transfers |-> IF t \in chosen THEN lifecycleStep[t] ELSE None]
  <2>1. PICK chosen \in SUBSET Pending : GoOn(p, Snapshot(chosen))
    BY <1>2 DEF Poll
  <2>2. Snapshot(chosen) \in [Transfers -> Steps \union {None}]
    BY DEF Pending, Knowledge, RowKnows
  <2> HIDE DEF Snapshot
  <2> QED
    BY <1>2, <2>1, <2>2, GoOnType DEF TypeOK, Poll
<1>3. ASSUME NEW p \in Polls, NEW t \in Transfers, Turn(p, t) PROVE TypeOK'
  <2>0. pc[p] # "idle" => batch[p][current[p]] \in Steps
    BY DEF Knowledge, PollsKnow, PhaseKnows
  <2>1. CASE RecordScreening(p, t)
    <3>1. PICK answer \in Answers :
            /\ screenings' = [screenings EXCEPT ![t] = @ \union {Screening(answer)}]
            /\ verdict' = [verdict EXCEPT ![p] = answer]
      BY <2>1 DEF RecordScreening
    <3>2. screenings' \in [Transfers -> SUBSET {Screening(a) : a \in Answers}]
      BY <3>1 DEF TypeOK
    <3>3. pc' \in [Polls -> Phases \union {"idle"}] /\ verdict' \in [Polls -> Answers]
      BY <2>1, <3>1 DEF TypeOK, RecordScreening, Phases
    <3> QED
      BY <2>1, <3>2, <3>3 DEF TypeOK, RecordScreening
  <2>2. CASE MarkClear(p, t)
    BY <2>2, GotoType DEF TypeOK, MarkClear, Phases
  <2>3. CASE MarkStopped(p, t)
    <3>1. /\ Return(p)
          /\ Decision[verdict[p]] \in {"none", "clear", "blocked", "escalated"}
      BY <2>3 DEF TypeOK, MarkStopped, Answers, Decision
    <3>2. /\ status' \in [Transfers -> Status]
          /\ complianceResult' \in [Transfers -> {"none", "clear", "blocked", "escalated"}]
          /\ lifecycleStep' \in [Transfers -> Steps \union {"completed"}]
      BY <2>3, <3>1 DEF TypeOK, MarkStopped, Status, StoppedStatus, Steps
    <3> QED
      BY <2>3, <3>1, <3>2, ReturnIsGoOn, GoOnType DEF TypeOK, MarkStopped
  <2>4. CASE LockRate(p, t) \/ RouteToProvider(p, t) \/ MarkCompleted(p, t)
    <3>1. \E phase \in Phases : Goto(p, phase)
      BY <2>4 DEF LockRate, RouteToProvider, MarkCompleted, Phases
    <3> QED
      BY <2>4, <3>1, GotoType DEF TypeOK, LockRate, RouteToProvider, MarkCompleted
  <2>5. CASE PostDebit(p, t) \/ PostConfirm(p, t) \/ EmitWebhook(p, t)
    <3>1. Goto(p, "advance") /\ "advance" \in Phases
      BY <2>5 DEF PostDebit, PostConfirm, EmitWebhook, Phases
    <3>2. /\ debits' \in [Transfers -> Nat] /\ confirms' \subseteq Transfers
          /\ notices' \in [Transfers -> Nat]
      BY <2>5, CountType DEF TypeOK, PostDebit, PostConfirm, EmitWebhook, At
    <3> QED
      BY <2>5, <3>1, <3>2, GotoType DEF TypeOK, PostDebit, PostConfirm, EmitWebhook
  <2>6. CASE Advance(p, t)
    <3>1. batch[p][t] \in Steps /\ Goto(p, "log") /\ "log" \in Phases
      BY <2>0, <2>6 DEF Advance, At, Phases
    <3>2. /\ status' \in [Transfers -> Status]
          /\ lifecycleStep' \in [Transfers -> Steps \union {"completed"}]
      <4>1. NextStatus[batch[p][t]] \in Status
        BY <3>1, NextRow DEF Status, StoppedStatus
      <4>2. NextStep[batch[p][t]] \in Steps \union {"completed"}
        BY <3>1, NextRow
      <4> QED
        BY <2>6, <4>1, <4>2 DEF TypeOK, Advance
    <3> QED
      BY <2>6, <3>1, <3>2, GotoType DEF TypeOK, Advance
  <2>7. CASE LogEvent(p, t)
    <3>1. batch[p][t] \in Steps /\ Return(p)
      BY <2>0, <2>7 DEF LogEvent, At
    <3> QED
      BY <2>7, <3>1, ReturnIsGoOn, GoOnType DEF TypeOK, LogEvent
  <2> QED
    BY <1>3, <2>1, <2>2, <2>3, <2>4, <2>5, <2>6, <2>7 DEF Turn
<1>4. ASSUME NEW p \in Polls, StatementFails(p) PROVE TypeOK'
  <2>1. Return(p)
    BY <1>4 DEF StatementFails
  <2> QED
    BY <1>4, <2>1, ReturnIsGoOn, GoOnType DEF TypeOK, StatementFails
<1>5. CASE Restart \/ UNCHANGED vars
  BY <1>5 DEF TypeOK, Restart, Answers, vars
<1> QED
  BY <1>1, <1>2, <1>3, <1>4, <1>5 DEF Next, PollStep

(***************************************************************************)
(* The inductive invariant is preserved.                                   *)
(***************************************************************************)

\* No step takes back a clearance, a column once set, a posting call or a notice.
LEMMA GrowStep == TypeOK /\ [Next]_vars => AllGrow
<1> SUFFICES ASSUME TypeOK, [Next]_vars, NEW t \in Transfers PROVE Grows(t)
  BY DEF AllGrow
<1> USE DEF row, state, stamps, logs, tables, approvals, ledger, local
<1>1. /\ fxRate \subseteq fxRate' /\ provider \subseteq provider'
      /\ completedAt \subseteq completedAt' /\ confirms \subseteq confirms'
  BY DEF Next, People, Submit, RequestRelease, Decide, Release, ReleaseFails, PollStep, Poll,
         Turn, RecordScreening, MarkClear, MarkStopped, LockRate, RouteToProvider, PostDebit,
         PostConfirm, MarkCompleted, EmitWebhook, Advance, LogEvent, StatementFails,
         Restart, vars
<1>2. screenings[t] \subseteq screenings'[t]
  <2>1. CASE \E p \in Polls, u \in Transfers : RecordScreening(p, u)
    BY <2>1 DEF TypeOK, RecordScreening
  <2>2. CASE UNCHANGED screenings
    BY <2>2
  <2> QED
    BY <2>1, <2>2
    DEF Next, People, Submit, RequestRelease, Decide, Release, ReleaseFails, PollStep, Poll,
        Turn, MarkClear, MarkStopped, LockRate, RouteToProvider, PostDebit,
        PostConfirm, MarkCompleted, EmitWebhook, Advance, LogEvent, StatementFails,
        Restart, vars
<1>3. releases[t] > 0 => releases'[t] > 0
  <2>1. CASE \E u \in Transfers : Release(u)
    BY <2>1 DEF TypeOK, Release
  <2>2. CASE UNCHANGED releases
    BY <2>2 DEF TypeOK
  <2> QED
    BY <2>1, <2>2
    DEF Next, People, Submit, RequestRelease, Decide, ReleaseFails, PollStep, Poll,
        Turn, RecordScreening, MarkClear, MarkStopped, LockRate, RouteToProvider, PostDebit,
        PostConfirm, MarkCompleted, EmitWebhook, Advance, LogEvent, StatementFails,
        Restart, vars
<1>4. /\ debits[t] > 0 => debits'[t] > 0
      /\ notices[t] > 0 => notices'[t] > 0
  <2>1. CASE \E p \in Polls, u \in Transfers : PostDebit(p, u)
    BY <2>1, CountType DEF TypeOK, PostDebit
  <2>3. CASE \E p \in Polls, u \in Transfers : EmitWebhook(p, u)
    BY <2>3, CountType DEF TypeOK, EmitWebhook
  <2>2. CASE UNCHANGED <<debits, notices>>
    BY <2>2
  <2> QED
    BY <2>1, <2>2, <2>3
    DEF Next, People, Submit, RequestRelease, Decide, Release, ReleaseFails, PollStep, Poll,
        Turn, RecordScreening, MarkClear, MarkStopped, LockRate, RouteToProvider,
        PostConfirm, MarkCompleted, Advance, LogEvent, StatementFails,
        Restart, vars
<1>5. Cleared(t) => Cleared(t)'
  BY <1>2, <1>3 DEF Cleared
<1> QED
  BY <1>1, <1>4, <1>5 DEF Grows

\* What a step of the lifecycle needs stays true.
LEMMA ReadyStays ==
  ASSUME AllGrow, NEW t \in Transfers, NEW step, Ready(t, step)
  PROVE  Ready(t, step)'
BY DEF AllGrow, Grows, Ready

\* A poll that does not move knows what it knew.
LEMMA PhaseStays ==
  ASSUME AllGrow, NEW p \in Polls, PhaseKnows(p),
         pc'[p] = pc[p], batch'[p] = batch[p], current'[p] = current[p],
         verdict'[p] = verdict[p]
  PROVE  PhaseKnows(p)'
BY ReadyStays DEF PhaseKnows, AllGrow, Grows, Steps, NextStep

\* A poll that takes a transfer of a justified snapshot knows what its first
\* await needs.
LEMMA FirstPhaseKnows ==
  ASSUME TypeOK, AllGrow, NEW p \in Polls, NEW left \in [Transfers -> Steps \union {None}],
         GoOn(p, left)
  PROVE  PhaseKnows(p)'
<1>1. CASE pc'[p] = "idle"
  BY <1>1 DEF PhaseKnows
<1>2. ASSUME NEW t \in Transfers, left[t] # None,
             current'[p] = t, pc'[p] = FirstPhase[left[t]], batch'[p] = left
      PROVE  PhaseKnows(p)'
  <2>1. left[t] \in Steps
    BY <1>2
  <2>2. left[t] \in {"Admission", "Workflow"} => Ready(t, NextStep[left[t]])'
    BY DEF Ready, NextStep, Steps
  <2> QED
    BY <1>2, <2>1, <2>2 DEF PhaseKnows, FirstPhase, Steps
<1> QED
  BY <1>1, <1>2 DEF GoOn, TypeOK

\* Going on with a justified snapshot leaves every poll justified.
LEMMA GoOnKnows ==
  ASSUME TypeOK, Knowledge, AllGrow, NEW p \in Polls,
         NEW left \in [Transfers -> Steps \union {None}],
         \A t \in Transfers : left[t] # None => Ready(t, left[t]),
         GoOn(p, left)
  PROVE  PollsKnow'
<1>1. ASSUME NEW q \in Polls, q # p PROVE PhaseKnows(q)'
  BY <1>1, PhaseStays DEF GoOn, TypeOK, Knowledge, PollsKnow
<1>2. PhaseKnows(p)'
  BY FirstPhaseKnows
<1>3. ASSUME NEW q \in Polls, NEW t \in Transfers, batch'[q][t] # None
      PROVE  Ready(t, batch[q][t])'
  <2>1. Ready(t, batch'[q][t])
    BY <1>3 DEF GoOn, TypeOK, Knowledge, PollsKnow
  <2> QED
    BY <2>1 DEF Ready, AllGrow, Grows
<1> QED
  BY <1>1, <1>2, <1>3 DEF PollsKnow

\* The snapshot a poll goes on with after a turn is justified.
LEMMA ReturnKnows ==
  ASSUME TypeOK, Knowledge, AllGrow, NEW p \in Polls, Return(p)
  PROVE  PollsKnow'
<1>1. PICK left \in [Transfers -> Steps \union {None}] :
        left = [batch[p] EXCEPT ![current[p]] = None] /\ GoOn(p, left)
  BY ReturnIsGoOn
<1>2. \A t \in Transfers : left[t] # None => Ready(t, left[t])
  BY <1>1 DEF TypeOK, Knowledge, PollsKnow
<1> QED
  BY <1>1, <1>2, GoOnKnows

\* A poll that goes to its next await has learnt what that await needs.
LEMMA GotoKnows ==
  ASSUME TypeOK, Knowledge, AllGrow, NEW p \in Polls, NEW phase, Goto(p, phase),
         PhaseKnows(p)'
  PROVE  PollsKnow'
<1>1. ASSUME NEW q \in Polls, q # p PROVE PhaseKnows(q)'
  BY <1>1, PhaseStays DEF Goto, TypeOK, Knowledge, PollsKnow
<1> QED
  BY <1>1 DEF Goto, PollsKnow, Knowledge, Ready, AllGrow, Grows

\* Every turn of a poll leaves what the polls know justified.
LEMMA TurnKnows ==
  ASSUME TypeOK, Knowledge, AllGrow, NEW p \in Polls, NEW t \in Transfers, Turn(p, t)
  PROVE  PollsKnow'
<1> USE DEF row, state, stamps, logs, tables, approvals, ledger, local
<1>0. PhaseKnows(p)
  BY DEF Knowledge, PollsKnow
<1>1. CASE RecordScreening(p, t)
  <2>1. ASSUME NEW q \in Polls, q # p PROVE PhaseKnows(q)'
    BY <1>1, <2>1, PhaseStays DEF RecordScreening, TypeOK, Knowledge, PollsKnow
  <2>2. PhaseKnows(p)'
    <3>1. PICK answer \in Answers :
            /\ verdict' = [verdict EXCEPT ![p] = answer]
            /\ screenings' = [screenings EXCEPT ![t] = @ \union {Screening(answer)}]
      BY <1>1 DEF RecordScreening
    <3>2. Passes(answer) => Cleared(t)'
      <4>1. Screening(answer) \in screenings'[t]
        BY <3>1 DEF TypeOK
      <4>2. Passes(answer) => Decision[answer] = "clear" \/ answer = "other"
        BY DEF Answers, Passes, Decision
      <4> QED
        BY <4>1, <4>2 DEF Cleared, Screening
    <3>3. /\ pc'[p] = "mark" /\ current'[p] = t /\ batch'[p] = batch[p]
          /\ verdict'[p] = answer
      BY <1>1, <3>1 DEF RecordScreening, TypeOK, At
    <3>4. batch[p][t] = "Compliance"
      BY <1>0, <1>1 DEF PhaseKnows, RecordScreening, At
    <3> QED
      BY <3>2, <3>3, <3>4 DEF PhaseKnows, Steps
  <2> QED
    BY <1>1, <2>1, <2>2 DEF RecordScreening, PollsKnow, Knowledge, Ready, AllGrow, Grows
<1>2. CASE MarkStopped(p, t) \/ LogEvent(p, t)
  BY <1>2, ReturnKnows DEF MarkStopped, LogEvent
<1>3. CASE MarkClear(p, t) \/ LockRate(p, t) \/ PostDebit(p, t) \/ PostConfirm(p, t)
           \/ EmitWebhook(p, t)
  <2>1. Goto(p, "advance") /\ current[p] = t /\ pc[p] # "idle"
    BY <1>3 DEF MarkClear, LockRate, PostDebit, PostConfirm, EmitWebhook, At
  <2>2. Ready(t, batch[p][t])
    BY <1>0, <2>1, OutboundAssumption DEF Knowledge, PollsKnow, PhaseKnows
  <2>3. Ready(t, batch[p][t])'
    <3>1. batch' = batch
      BY <2>1 DEF Goto
    <3> QED
      BY <2>2, <3>1 DEF Ready, AllGrow, Grows
  <2>4. Ready(t, NextStep[batch[p][t]])'
    <3>1. CASE MarkClear(p, t)
      BY <1>0, <2>1, <3>1 DEF MarkClear, At, PhaseKnows, AllGrow, Grows, Ready, NextStep, Goto
    <3>2. CASE LockRate(p, t)
      BY <1>0, <2>1, <2>3, <3>2 DEF LockRate, At, PhaseKnows, Ready, NextStep, Goto
    <3>3. CASE PostDebit(p, t)
      <4>1. debits'[t] > 0
        BY <3>3, CountType DEF PostDebit, TypeOK
      <4>2. batch'[p][t] = "Routing" /\ t \in provider'
        BY <1>0, <2>1, <3>3 DEF PostDebit, At, PhaseKnows, Goto, AllGrow, Grows
      <4> QED
        BY <2>3, <4>1, <4>2 DEF Ready, NextStep
    <3>4. CASE PostConfirm(p, t)
      BY <1>0, <2>1, <2>3, <3>4 DEF PostConfirm, At, PhaseKnows, Ready, NextStep, Goto
    <3>5. CASE EmitWebhook(p, t)
      BY <1>0, <2>1, <2>3, <3>5
      DEF EmitWebhook, At, PhaseKnows, Ready, NextStep, Goto, AllGrow, Grows
    <3> QED
      BY <1>3, <3>1, <3>2, <3>3, <3>4, <3>5
  <2>5. PhaseKnows(p)'
    BY <1>0, <2>1, <2>4 DEF PhaseKnows, Goto, TypeOK
  <2> QED
    BY <2>1, <2>5, GotoKnows
<1>4. CASE RouteToProvider(p, t)
  <2>1. PhaseKnows(p)'
    BY <1>0, <1>4 DEF RouteToProvider, At, Goto, PhaseKnows, TypeOK
  <2> QED
    BY <1>4, <2>1, GotoKnows DEF RouteToProvider
<1>5. CASE MarkCompleted(p, t)
  <2>1. PhaseKnows(p)'
    BY <1>0, <1>5 DEF MarkCompleted, At, Goto, PhaseKnows, TypeOK
  <2> QED
    BY <1>5, <2>1, GotoKnows DEF MarkCompleted
<1>6. CASE Advance(p, t)
  <2>1. Ready(t, NextStep[batch[p][t]])'
    BY <1>0, <1>6, ReadyStays DEF Advance, At, PhaseKnows, Goto, Ready, AllGrow, Grows
  <2>2. PhaseKnows(p)'
    BY <1>0, <1>6, <2>1 DEF Advance, At, Goto, PhaseKnows, TypeOK
  <2> QED
    BY <1>6, <2>2, GotoKnows DEF Advance
<1> QED
  BY <1>1, <1>2, <1>3, <1>4, <1>5, <1>6 DEF Turn

\* Every step leaves what the polls know justified.
LEMMA PollsStep ==
  ASSUME TypeOK, Knowledge, [Next]_vars, AllGrow
  PROVE  PollsKnow'
<1> USE DEF row, state, stamps, logs, tables, approvals, ledger, local
<1>1. CASE UNCHANGED local
  <2>1. \A q \in Polls : PhaseKnows(q)'
    BY <1>1, PhaseStays DEF Knowledge, PollsKnow
  <2> QED
    BY <1>1, <2>1 DEF Knowledge, PollsKnow, Ready, AllGrow, Grows
<1>2. CASE Restart
  BY <1>2 DEF Restart, PollsKnow, PhaseKnows
<1>3. ASSUME NEW p \in Polls, Poll(p) PROVE PollsKnow'
  <2> DEFINE Snapshot(chosen) ==
        [t \in Transfers |-> IF t \in chosen THEN lifecycleStep[t] ELSE None]
  <2>1. PICK chosen \in SUBSET Pending : GoOn(p, Snapshot(chosen))
    BY <1>3 DEF Poll
  <2>2. /\ Snapshot(chosen) \in [Transfers -> Steps \union {None}]
        /\ \A t \in Transfers : Snapshot(chosen)[t] # None => Ready(t, Snapshot(chosen)[t])
    BY DEF Pending, Knowledge, RowKnows
  <2> HIDE DEF Snapshot
  <2> QED
    BY <2>1, <2>2, GoOnKnows
<1>4. ASSUME NEW p \in Polls, StatementFails(p) PROVE PollsKnow'
  BY <1>4, ReturnKnows DEF StatementFails
<1>5. ASSUME NEW t \in Transfers, People(t) PROVE UNCHANGED local
  BY <1>5 DEF People, Submit, RequestRelease, Decide, Release, ReleaseFails
<1> QED
  BY <1>1, <1>2, <1>3, <1>4, <1>5, TurnKnows DEF Next, PollStep, vars

\* Every step leaves the milestones of every transfer in order.
LEMMA OrderedStep ==
  ASSUME TypeOK, Knowledge, [Next]_vars, AllGrow, NEW t \in Transfers
  PROVE  Ordered(t)'
<1> USE DEF row, state, stamps, logs, tables, approvals, ledger, local
<1>1. Ordered(t) /\ Grows(t)
  BY DEF Knowledge, AllGrow
<1>2. CASE UNCHANGED <<stamps, debits, confirms, notices>>
  BY <1>1, <1>2 DEF Ordered, Grows
<1>3. ASSUME NEW p \in Polls, NEW u \in Transfers, Turn(p, u) PROVE Ordered(t)'
  <2>1. PhaseKnows(p)
    BY DEF Knowledge, PollsKnow
  <2>2. pc[p] # "idle" /\ current[p] = u => Ready(u, batch[p][u])
    BY <2>1, OutboundAssumption DEF PhaseKnows, Knowledge, PollsKnow
  <2>3. CASE LockRate(p, u)
    BY <1>1, <2>1, <2>2, <2>3 DEF LockRate, At, PhaseKnows, Ready, Ordered, Grows
  <2>4. CASE RouteToProvider(p, u)
    BY <1>1, <2>1, <2>2, <2>4 DEF RouteToProvider, At, PhaseKnows, Ready, Ordered, Grows
  <2>5. CASE PostDebit(p, u)
    <3>1. t # u => debits'[t] = debits[t]
      BY <2>5 DEF PostDebit, TypeOK
    <3> QED
      BY <1>1, <2>1, <2>5, <3>1 DEF PostDebit, At, PhaseKnows, Ordered, Grows
  <2>6. CASE PostConfirm(p, u)
    BY <1>1, <2>1, <2>2, <2>6 DEF PostConfirm, At, PhaseKnows, Ready, Ordered, Grows
  <2>7. CASE MarkCompleted(p, u)
    BY <1>1, <2>1, <2>2, <2>7 DEF MarkCompleted, At, PhaseKnows, Ready, Ordered, Grows
  <2>8. CASE EmitWebhook(p, u)
    <3>1. t # u => notices'[t] = notices[t]
      BY <2>8 DEF EmitWebhook, TypeOK
    <3> QED
      BY <1>1, <2>1, <2>8, <3>1 DEF EmitWebhook, At, PhaseKnows, Ordered, Grows
  <2>9. CASE RecordScreening(p, u) \/ MarkClear(p, u) \/ MarkStopped(p, u) \/ Advance(p, u)
             \/ LogEvent(p, u)
    BY <1>2, <2>9 DEF RecordScreening, MarkClear, MarkStopped, Advance, LogEvent
  <2> QED
    BY <1>3, <2>3, <2>4, <2>5, <2>6, <2>7, <2>8, <2>9 DEF Turn
<1> QED
  BY <1>2, <1>3 DEF Next, People, Submit, RequestRelease, Decide, Release, ReleaseFails,
                    PollStep, Poll, StatementFails, Restart, vars

\* Every step leaves every row with the step and the result it earned.
LEMMA RowStep ==
  ASSUME TypeOK, Knowledge, [Next]_vars, AllGrow, NEW t \in Transfers
  PROVE  RowKnows(t)'
<1> USE DEF row, state, stamps, logs, tables, approvals, ledger, local
<1>1. RowKnows(t) /\ Grows(t)
  BY DEF Knowledge, AllGrow
<1>2. CASE status'[t] = status[t] /\ lifecycleStep'[t] = lifecycleStep[t]
           /\ complianceResult'[t] = complianceResult[t]
  BY <1>1, <1>2 DEF RowKnows, Grows, Ready
<1>3. ASSUME NEW u \in Transfers, People(u) PROVE RowKnows(t)'
  <2>1. CASE Submit(u)
    BY <1>1, <2>1 DEF Submit, RowKnows, Grows, Ready, TypeOK
  <2>2. CASE Release(u)
    <3>1. CASE t = u
      BY <2>2, <3>1 DEF Release, RowKnows, Ready, Cleared, TypeOK, Steps
    <3> QED
      BY <1>2, <2>2, <3>1 DEF Release, TypeOK
  <2> QED
    BY <1>2, <1>3, <2>1, <2>2 DEF People, RequestRelease, Decide, ReleaseFails
<1>4. ASSUME NEW p \in Polls, NEW u \in Transfers, Turn(p, u) PROVE RowKnows(t)'
  <2>1. PhaseKnows(p)
    BY DEF Knowledge, PollsKnow
  <2>2. CASE MarkClear(p, u)
    BY <1>1, <2>1, <2>2 DEF MarkClear, At, PhaseKnows, RowKnows, Grows, Ready, TypeOK
  <2>3. CASE MarkStopped(p, u)
    <3>1. Decision[verdict[p]] # "clear"
      BY <2>3 DEF MarkStopped, Passes, Decision
    <3> QED
      BY <1>1, <1>2, <2>1, <2>3, <3>1
      DEF MarkStopped, At, PhaseKnows, RowKnows, Grows, Ready, TypeOK, PendingStatus
  <2>4. CASE Advance(p, u)
    <3>1. CASE t = u
      <4>1. /\ Ready(t, NextStep[batch[p][t]]) /\ batch[p][t] \in Steps
            /\ lifecycleStep'[t] = NextStep[batch[p][t]]
            /\ status'[t] = NextStatus[batch[p][t]]
            /\ complianceResult'[t] = complianceResult[t]
        BY <2>1, <2>4, <3>1 DEF Advance, At, PhaseKnows, TypeOK
      <4>2. Ready(t, lifecycleStep[t])'
        BY <1>1, <4>1 DEF Ready, Grows
      <4> QED
        BY <1>1, <4>1, <4>2, NextRow DEF RowKnows, Grows
    <3> QED
      BY <1>2, <2>4, <3>1 DEF Advance, TypeOK
  <2> QED
    BY <1>2, <1>4, <2>2, <2>3, <2>4
    DEF Turn, RecordScreening, LockRate, RouteToProvider, PostDebit, PostConfirm,
        MarkCompleted, EmitWebhook, LogEvent
<1> QED
  BY <1>2, <1>3, <1>4 DEF Next, PollStep, Poll, StatementFails, Restart, vars

\* Every step leaves an audit trail of effects that happened.
LEMMA EventsStep ==
  ASSUME TypeOK, Knowledge, [Next]_vars, AllGrow
  PROVE  EventsAreTruthful'
<1> USE DEF row, state, stamps, logs, tables, approvals, ledger, local
<1> SUFFICES ASSUME NEW t \in Transfers, NEW step \in events'[t] \ {"submitted"}
             PROVE  Ready(t, NextStep[step])'
  BY DEF EventsAreTruthful
<1>1. CASE step \in events[t]
  <2>1. Ready(t, NextStep[step])
    BY <1>1 DEF Knowledge, EventsAreTruthful
  <2> QED
    BY <2>1 DEF Ready, AllGrow, Grows
<1>2. ASSUME NEW p \in Polls, NEW u \in Transfers, LogEvent(p, u), step \notin events[t]
      PROVE  Ready(t, NextStep[step])'
  <2>1. t = u /\ step = batch[p][t] /\ current[p] = t /\ pc[p] = "log"
    BY <1>2 DEF LogEvent, At, TypeOK
  <2>2. Ready(t, NextStep[step])
    BY <2>1 DEF Knowledge, PollsKnow, PhaseKnows
  <2> QED
    BY <2>2 DEF Ready, AllGrow, Grows
<1>3. ASSUME NEW u \in Transfers, Submit(u), step \notin events[t] PROVE FALSE
  BY <1>3 DEF Submit, TypeOK
<1> QED
  BY <1>1, <1>2, <1>3
  DEF Next, People, RequestRelease, Decide, Release, ReleaseFails, PollStep, Poll, Turn,
      RecordScreening, MarkClear, MarkStopped, LockRate, RouteToProvider, PostDebit,
      PostConfirm, MarkCompleted, EmitWebhook, Advance, StatementFails, Restart, vars

\* The invariant holds at the start and every step keeps it.
THEOREM OutboundInductive == Spec => []IInv
<1>1. Init => IInv
  BY OutboundAssumption
  DEF Init, IInv, TypeOK, Status, Steps, Phases, Answers, Knowledge, Ordered,
      RowKnows, PendingStatus, Ready, EventsAreTruthful, PollsKnow, PhaseKnows
<1>2. IInv /\ [Next]_vars => IInv'
  <2> SUFFICES ASSUME IInv, [Next]_vars PROVE IInv'
    OBVIOUS
  <2>1. TypeOK' /\ AllGrow
    BY TypeStep, GrowStep DEF IInv
  <2>2. Knowledge'
    BY <2>1, OrderedStep, RowStep, EventsStep, PollsStep DEF IInv, Knowledge
  <2> QED
    BY <2>1, <2>2 DEF IInv
<1> QED
  BY <1>1, <1>2, PTL DEF Spec

(***************************************************************************)
(* The theorems.                                                           *)
(***************************************************************************)

\* Every variable keeps its type.
THEOREM OutboundTypeCorrect == Spec => []TypeOK
BY OutboundInductive, PTL DEF IInv

\* Money is asked for only when it may be, however many polls overlap, however
\* stale their snapshots are and however often statements fail.
THEOREM PaymentBacked == Spec => []PaymentIsBacked
<1>1. IInv => PaymentIsBacked
  BY DEF IInv, Knowledge, Ordered, PaymentIsBacked
<1> QED
  BY <1>1, OutboundInductive, PTL

\* A row's step and compliance result were earned.
THEOREM RowBacked == Spec => []RowIsBacked
<1>1. IInv => RowIsBacked
  BY DEF IInv, Knowledge, RowKnows, RowIsBacked
<1> QED
  BY <1>1, OutboundInductive, PTL

\* The audit trail reports only what happened.
THEOREM EventsTrue == Spec => []EventsAreTruthful
<1>1. IInv => EventsAreTruthful
  BY DEF IInv, Knowledge
<1> QED
  BY <1>1, OutboundInductive, PTL

(***************************************************************************)
(* The refinement.                                                         *)
(***************************************************************************)

\* A step that leaves every milestone as it was is a stutter of the promise.
LEMMA NothingAchieved ==
  ASSUME \A t \in Transfers, m \in AllMilestones : Reached(t, m)' <=> Reached(t, m)
  PROVE  UNCHANGED [t \in Transfers |-> {m \in AllMilestones : Reached(t, m)}]
OBVIOUS

\* A step that adds one milestone to one transfer achieves it, once the
\* milestone before it was reached.
LEMMA OneAchieved ==
  ASSUME NEW u \in Transfers, NEW m \in AllMilestones,
         \A k \in Promise!Before[m] : k \in AllMilestones /\ Reached(u, k),
         \A t \in Transfers, k \in AllMilestones :
           Reached(t, k)' <=> Reached(t, k) \/ (t = u /\ k = m)
  PROVE  Promise!Next
<1> DEFINE achieved == [t \in Transfers |-> {k \in AllMilestones : Reached(t, k)}]
<1>1. achieved' = [achieved EXCEPT ![u] = @ \union {m}]
  <2>1. ASSUME NEW t \in Transfers
        PROVE  achieved'[t] = [achieved EXCEPT ![u] = @ \union {m}][t]
    OBVIOUS
  <2> HIDE DEF achieved
  <2>2. achieved = [t \in Transfers |-> achieved[t]] /\ achieved' = [t \in Transfers |-> achieved'[t]]
    BY DEF achieved
  <2> QED
    BY <2>1, <2>2
<1>2. Promise!Before[m] \subseteq achieved[u]
  OBVIOUS
<1> QED
  BY <1>1, <1>2 DEF Promise!Next, Promise!Achieve, Promise!Milestones, AllMilestones

\* Every turn of a poll achieves the next milestone of its transfer or none.
LEMMA TurnAchieves ==
  ASSUME TypeOK, Knowledge, AllGrow, NEW p \in Polls, NEW u \in Transfers, Turn(p, u)
  PROVE  \/ Promise!Next
         \/ UNCHANGED [t \in Transfers |-> {m \in AllMilestones : Reached(t, m)}]
<1> USE DEF row, state, stamps, logs, tables, approvals, ledger, local
<1>1. PhaseKnows(p) /\ Ordered(u)
  BY DEF Knowledge, PollsKnow
<1>2. pc[p] # "idle" /\ current[p] = u => Ready(u, batch[p][u])
  BY <1>1, OutboundAssumption DEF PhaseKnows, Knowledge, PollsKnow
<1>3. CASE RecordScreening(p, u)
  <2>1. \A t \in Transfers : t # u => Cleared(t)' = Cleared(t)
    BY <1>3 DEF RecordScreening, Cleared, TypeOK
  <2>2. \A t \in Transfers, m \in AllMilestones :
          t # u \/ m # "cleared" => (Reached(t, m)' <=> Reached(t, m))
    BY <1>3, <2>1 DEF RecordScreening, Reached, AllMilestones
  <2>3. CASE Cleared(u)'
    <3>1. Reached(u, "cleared")'
      BY <2>3 DEF Reached
    <3> QED
      BY <2>2, <3>1, OneAchieved DEF Promise!Before, AllMilestones
  <2>4. CASE ~Cleared(u)'
    <3>1. Reached(u, "cleared")' <=> Reached(u, "cleared")
      BY <2>4 DEF Reached, AllGrow, Grows
    <3> QED
      BY <2>2, <3>1, NothingAchieved
  <2> QED
    BY <2>3, <2>4
<1>4. CASE LockRate(p, u)
  <2>1. Reached(u, "cleared")
    BY <1>1, <1>2, <1>4 DEF LockRate, At, PhaseKnows, Ready, Reached
  <2>2. \A t \in Transfers, m \in AllMilestones :
          Reached(t, m)' <=> Reached(t, m) \/ (t = u /\ m = "priced")
    BY <1>4 DEF LockRate, Reached, Cleared, AllMilestones
  <2> QED
    BY <2>1, <2>2, OneAchieved DEF Promise!Before, AllMilestones
<1>5. CASE RouteToProvider(p, u)
  <2>1. Reached(u, "priced")
    BY <1>1, <1>2, <1>5 DEF RouteToProvider, At, PhaseKnows, Ready, Reached
  <2>2. \A t \in Transfers, m \in AllMilestones :
          Reached(t, m)' <=> Reached(t, m) \/ (t = u /\ m = "routed")
    BY <1>5 DEF RouteToProvider, Reached, Cleared, AllMilestones
  <2> QED
    BY <2>1, <2>2, OneAchieved DEF Promise!Before, AllMilestones
<1>6. CASE PostDebit(p, u)
  <2>1. Reached(u, "routed")
    BY <1>1, <1>6 DEF PostDebit, At, PhaseKnows, Reached
  <2>2. /\ debits'[u] > 0
        /\ \A t \in Transfers : t # u => debits'[t] = debits[t]
    BY <1>6, CountType DEF PostDebit, TypeOK
  <2>3. \A t \in Transfers, m \in AllMilestones :
          Reached(t, m)' <=> Reached(t, m) \/ (t = u /\ m = "debited")
    BY <1>6, <2>2 DEF PostDebit, Reached, Cleared, AllMilestones
  <2> QED
    BY <2>1, <2>3, OneAchieved DEF Promise!Before, AllMilestones
<1>7. CASE PostConfirm(p, u)
  <2>1. Reached(u, "debited")
    BY <1>1, <1>2, <1>7 DEF PostConfirm, At, PhaseKnows, Ready, Reached
  <2>2. \A t \in Transfers, m \in AllMilestones :
          Reached(t, m)' <=> Reached(t, m) \/ (t = u /\ m = "confirmed")
    BY <1>7 DEF PostConfirm, Reached, Cleared, AllMilestones
  <2> QED
    BY <2>1, <2>2, OneAchieved DEF Promise!Before, AllMilestones
<1>8. CASE MarkCompleted(p, u)
  <2>1. Reached(u, "confirmed")
    BY <1>1, <1>2, <1>8 DEF MarkCompleted, At, PhaseKnows, Ready, Reached
  <2>2. \A t \in Transfers, m \in AllMilestones :
          Reached(t, m)' <=> Reached(t, m) \/ (t = u /\ m = "completed")
    BY <1>8 DEF MarkCompleted, Reached, Cleared, AllMilestones
  <2> QED
    BY <2>1, <2>2, OneAchieved DEF Promise!Before, AllMilestones
<1>9. CASE EmitWebhook(p, u) /\ notices' # notices
  <2>1. Reached(u, "completed")
    BY <1>1, <1>9 DEF EmitWebhook, At, PhaseKnows, Reached
  <2>2. /\ notices'[u] > 0
        /\ \A t \in Transfers : t # u => notices'[t] = notices[t]
    BY <1>9, CountType DEF EmitWebhook, TypeOK
  <2>3. \A t \in Transfers, m \in AllMilestones :
          Reached(t, m)' <=> Reached(t, m) \/ (t = u /\ m = "told")
    BY <1>9, <2>2 DEF EmitWebhook, Reached, Cleared, AllMilestones
  <2> QED
    BY <2>1, <2>3, OneAchieved DEF Promise!Before, AllMilestones
<1>10. CASE \/ MarkClear(p, u) \/ MarkStopped(p, u) \/ Advance(p, u) \/ LogEvent(p, u)
            \/ EmitWebhook(p, u) /\ notices' = notices
  <2>1. \A t \in Transfers, m \in AllMilestones : Reached(t, m)' <=> Reached(t, m)
    BY <1>10
    DEF MarkClear, MarkStopped, Advance, LogEvent, EmitWebhook, Reached, Cleared
  <2> QED
    BY <2>1, NothingAchieved
<1> QED
  BY <1>3, <1>4, <1>5, <1>6, <1>7, <1>8, <1>9, <1>10 DEF Turn

\* The lifecycle implements the milestones: every step of the polls, the
\* participants, the administrators and the faults achieves the
\* next milestone of one transfer or none.
THEOREM OutboundImplements == Spec => ImplementsMilestones
<1> USE DEF row, state, stamps, logs, tables, approvals, ledger, local
<1>1. Init => Promise!Init
  BY DEF Init, Promise!Init, Reached, Cleared
<1>2. IInv /\ [Next]_vars =>
        [Promise!Next]_[t \in Transfers |-> {m \in AllMilestones : Reached(t, m)}]
  <2> SUFFICES ASSUME TypeOK, Knowledge, [Next]_vars
               PROVE  \/ Promise!Next
                      \/ UNCHANGED [t \in Transfers |-> {m \in AllMilestones : Reached(t, m)}]
    BY DEF IInv
  <2>1. AllGrow
    BY GrowStep
  <2>2. CASE \E u \in Transfers : Release(u)
    <3>1. PICK u \in Transfers : Release(u)
      BY <2>2
    <3>2. /\ releases'[u] > 0
          /\ \A t \in Transfers : t # u => releases'[t] = releases[t]
      BY <3>1 DEF Release, TypeOK
    <3>3. \A t \in Transfers, m \in AllMilestones :
            Reached(t, m)' <=> Reached(t, m) \/ (t = u /\ m = "cleared")
      BY <3>1, <3>2 DEF Release, Reached, Cleared, AllMilestones
    <3> QED
      BY <3>3, OneAchieved DEF Promise!Before, AllMilestones
  <2>3. CASE UNCHANGED <<stamps, screenings, releases, debits, confirms, notices>>
    <3>1. \A t \in Transfers, m \in AllMilestones : Reached(t, m)' <=> Reached(t, m)
      BY <2>3 DEF Reached, Cleared
    <3> QED
      BY <3>1, NothingAchieved
  <2> QED
    BY <2>1, <2>2, <2>3, TurnAchieves
    DEF Next, People, Submit, RequestRelease, Decide, ReleaseFails, PollStep, Poll,
        StatementFails, Restart, vars
<1> QED
  BY <1>1, <1>2, OutboundInductive, PTL DEF Spec, ImplementsMilestones, Promise!Spec

(***************************************************************************)
(* One poll at a time.  Without overlap a snapshot is not stale: while a   *)
(* transfer is in a batch nobody else moves its row.  What a transfer may  *)
(* still be charged for is then read off its step, and only a fault or a   *)
(* further release puts a step that was passed before it again.            *)
(***************************************************************************)

\* The poll has t in its batch and has not written its row yet.
Working(p, t) == batch[p][t] # None /\ ~At(p, t, "log")

\* The step whose turn makes the call (last) lies ahead of t.
Owes(p, t, ahead, last) ==
  IF Working(p, t)
  THEN batch[p][t] \in ahead /\ ~(At(p, t, "advance") /\ batch[p][t] = last)
  ELSE lifecycleStep[t] \in ahead

AheadOfDebit == Steps \ {"Settlement", "Audit"}
OwesDebit(p, t) == Owes(p, t, AheadOfDebit, "Routing")
OwesNotice(p, t) == Owes(p, t, Steps, "Audit")

\* The calls that releases and faults pay for; n of them are made, one may be owed.
Allowance(t) == (IF releases[t] > 1 THEN releases[t] ELSE 1) + faults
Paid(t, n, owes) == n <= Allowance(t) /\ (owes => n + 1 <= Allowance(t))

Blocked(t) == \E screening \in screenings[t] : screening.decision = "blocked"

SerialRow(p, t) ==
  /\ Working(p, t) => status[t] \in PendingStatus
  /\ status[t] \in {"manual_review", "failed"} => lifecycleStep[t] = "Compliance"
  /\ t \in releasing => approval[t] # "absent"
  /\ approval[t] # "absent" /\ releases[t] = 0 => status[t] = "manual_review"

SerialInv(p) ==
  /\ pc[p] = "idle" => \A t \in Transfers : batch[p][t] = None
  /\ \A t \in Transfers :
       /\ SerialRow(p, t)
       /\ Paid(t, debits[t], OwesDebit(p, t)) /\ Paid(t, notices[t], OwesNotice(p, t))
       /\ Blocked(t) /\ releases[t] = 0 /\ faults = 0 =>
            (At(p, t, "mark") /\ verdict[p] = "block") \/ status[t] = "failed"

\* After going on, the poll is at the start of the turn of a transfer it has left.
LEMMA GoOnStarts ==
  ASSUME TypeOK, NEW p \in Polls, NEW left \in [Transfers -> Steps \union {None}],
         GoOn(p, left)
  PROVE  /\ batch'[p] = left /\ pc'[p] \notin {"log", "mark"}
         /\ pc'[p] = "idle" => \A t \in Transfers : left[t] = None
         /\ \A t \in Transfers : At(p, t, "advance")' => left[t] \in {"Admission", "Workflow"}
<1>1. batch'[p] = left
  BY DEF GoOn, TypeOK
<1>2. ASSUME NEW t \in Transfers, left[t] # None,
             current'[p] = t, pc'[p] = FirstPhase[left[t]]
      PROVE  /\ pc'[p] \notin {"log", "mark", "idle"}
             /\ pc'[p] = "advance" => left[t] \in {"Admission", "Workflow"}
  <2>1. left[t] \in Steps
    BY <1>2
  <2> QED
    BY <1>2, <2>1 DEF FirstPhase, Steps
<1>3. CASE \E t \in Transfers : left[t] # None /\ current'[p] = t /\ pc'[p] = FirstPhase[left[t]]
  BY <1>1, <1>2, <1>3 DEF At
<1>4. CASE pc'[p] = "idle" /\ \A t \in Transfers : left[t] = None
  BY <1>1, <1>4 DEF At
<1> QED
  BY <1>3, <1>4 DEF GoOn, TypeOK

\* What is owed once the poll has gone on.
LEMMA GoOnOwes ==
  ASSUME TypeOK, NEW p \in Polls, NEW left \in [Transfers -> Steps \union {None}],
         GoOn(p, left), NEW t \in Transfers, NEW ahead, NEW last
  PROVE  /\ Working(p, t)' <=> left[t] # None
         /\ Owes(p, t, ahead, last)' =>
              IF left[t] # None THEN left[t] \in ahead ELSE lifecycleStep'[t] \in ahead
BY GoOnStarts DEF Working, Owes, At

\* A transfer the poll is not at is owed what it was owed.
LEMMA OthersOwe ==
  ASSUME TypeOK, NEW p \in Polls, NEW t \in Transfers, NEW ahead, NEW last,
         t # current[p], lifecycleStep'[t] = lifecycleStep[t],
         Return(p) \/ UNCHANGED <<batch, current>>
  PROVE  /\ Working(p, t)' <=> Working(p, t)
         /\ Owes(p, t, ahead, last)' => Owes(p, t, ahead, last)
<1>1. CASE UNCHANGED <<batch, current>>
  BY <1>1 DEF Working, Owes, At
<1>2. CASE Return(p)
  <2>1. PICK left \in [Transfers -> Steps \union {None}] :
          left = [batch[p] EXCEPT ![current[p]] = None] /\ GoOn(p, left)
    BY <1>2, ReturnIsGoOn
  <2>2. left[t] = batch[p][t]
    BY <2>1 DEF TypeOK
  <2> QED
    BY <2>1, <2>2, GoOnOwes DEF Working, Owes, At
<1> QED
  BY <1>1, <1>2

\* A transfer whose turn is over is owed what its row says.
LEMMA ReturnOwes ==
  ASSUME TypeOK, NEW p \in Polls, NEW t \in Transfers, NEW ahead, NEW last,
         t = current[p], Return(p)
  PROVE  ~Working(p, t)' /\ (Owes(p, t, ahead, last)' => lifecycleStep'[t] \in ahead)
<1>1. PICK left \in [Transfers -> Steps \union {None}] :
        left = [batch[p] EXCEPT ![current[p]] = None] /\ GoOn(p, left)
  BY ReturnIsGoOn
<1>2. left[t] = None
  BY <1>1 DEF TypeOK
<1> QED
  BY <1>1, <1>2, GoOnOwes

\* A transfer within its turn.
LEMMA WithinTurn ==
  ASSUME TypeOK, NEW p \in Polls, NEW t \in Transfers, NEW ahead, NEW last, NEW phase,
         current[p] = t, batch[p][t] \in Steps, pc'[p] = phase, UNCHANGED <<batch, current>>
  PROVE  /\ phase # "log" => Working(p, t)'
         /\ phase = "log" => ~Working(p, t)'
         /\ Owes(p, t, ahead, last)' <=>
              IF phase = "log" THEN lifecycleStep'[t] \in ahead
              ELSE batch[p][t] \in ahead /\ ~(phase = "advance" /\ batch[p][t] = last)
BY OutboundAssumption DEF Working, Owes, At

\* The steps ahead of a call: the transfer's screening, and with a step every
\* one before it; last is the step that makes the call.
Closed(ahead, last) ==
  /\ ahead \subseteq Steps /\ "Compliance" \in ahead /\ last \notin {"Admission", "Workflow"}
  /\ \A s \in Steps : NextStep[s] \in ahead => s \in ahead /\ s # last

LEMMA CallsAreClosed == Closed(AheadOfDebit, "Routing") /\ Closed(Steps, "Audit")
BY DEF Closed, AheadOfDebit, Steps, NextStep

\* What releases and faults pay for does not shrink; faults and further releases
\* add to it.
LEMMA AllowanceStep ==
  ASSUME TypeOK, [Next]_vars, NEW t \in Transfers
  PROVE  /\ Allowance(t) \in Nat /\ Allowance(t)' \in Nat /\ Allowance(t)' >= Allowance(t)
         /\ faults' = faults \/ faults' = faults + 1
         /\ faults' = faults + 1 => Allowance(t)' >= Allowance(t) + 1
         /\ Release(t) /\ releases[t] > 0 => Allowance(t)' >= Allowance(t) + 1
<1> USE DEF row, state, stamps, logs, tables, approvals, ledger, local
<1>1. releases[t] \in Nat /\ faults \in Nat
  BY DEF TypeOK
<1>2. faults' = faults \/ faults' = faults + 1
  BY DEF Next, People, Submit, RequestRelease, Decide, Release, ReleaseFails, PollStep, Poll,
         Turn, RecordScreening, MarkClear, MarkStopped, LockRate, RouteToProvider, PostDebit,
         PostConfirm, MarkCompleted, EmitWebhook, Advance, LogEvent, StatementFails,
         Restart, Fault, vars
<1>3. releases'[t] = releases[t] \/ releases'[t] = releases[t] + 1
  <2>1. CASE \E u \in Transfers : Release(u)
    BY <2>1 DEF TypeOK, Release
  <2> QED
    BY <2>1
    DEF Next, People, Submit, RequestRelease, Decide, ReleaseFails, PollStep, Poll,
        Turn, RecordScreening, MarkClear, MarkStopped, LockRate, RouteToProvider, PostDebit,
        PostConfirm, MarkCompleted, EmitWebhook, Advance, LogEvent, StatementFails,
        Restart, vars
<1>4. Release(t) => releases'[t] = releases[t] + 1
  BY DEF TypeOK, Release
<1>5. Allowance(t)' = (IF releases'[t] > 1 THEN releases'[t] ELSE 1) + faults'
  BY DEF Allowance
<1>6. Allowance(t) = (IF releases[t] > 1 THEN releases[t] ELSE 1) + faults
  BY DEF Allowance
<1> QED
  <2> DEFINE r == releases[t]
             s == releases'[t]
  <2>1. r \in Nat /\ faults \in Nat /\ (s = r \/ s = r + 1) /\ (Release(t) => s = r + 1)
    BY <1>1, <1>3, <1>4
  <2> HIDE DEF r, s
  <2>2. (IF s > 1 THEN s ELSE 1) \in Nat /\ (IF r > 1 THEN r ELSE 1) \in Nat
        /\ (IF s > 1 THEN s ELSE 1) >= (IF r > 1 THEN r ELSE 1)
        /\ (Release(t) /\ r > 0 => (IF s > 1 THEN s ELSE 1) >= (IF r > 1 THEN r ELSE 1) + 1)
    BY <2>1
  <2> DEFINE a == IF r > 1 THEN r ELSE 1
             b == IF s > 1 THEN s ELSE 1
  <2>3. Allowance(t) = a + faults /\ Allowance(t)' = b + faults'
    BY <1>5, <1>6 DEF r, s
  <2>4. a \in Nat /\ b \in Nat /\ b >= a /\ (Release(t) /\ r > 0 => b >= a + 1)
    BY <2>2
  <2> HIDE DEF a, b
  <2>5. a + faults \in Nat /\ b + faults' \in Nat /\ b + faults' >= a + faults
        /\ (faults' = faults + 1 => b + faults' >= a + faults + 1)
        /\ (b >= a + 1 => b + faults' >= a + faults + 1)
    BY <1>1, <1>2, <2>4
  <2> QED
    BY <1>2, <2>3, <2>4, <2>5 DEF r

\* A call is owed again only after a fault or a further release.
LEMMA OwesStep ==
  ASSUME TypeOK, Knowledge, NEW p, Polls = {p}, SerialInv(p), [Next]_vars,
         NEW t \in Transfers, NEW ahead, NEW last, Closed(ahead, last)
  PROVE  \/ Owes(p, t, ahead, last)' => Owes(p, t, ahead, last)
         \/ Allowance(t)' >= Allowance(t) + 1
<1> DEFINE Was == Owes(p, t, ahead, last)
           Is == Owes(p, t, ahead, last)'
           Goal == (Is => Was) \/ Allowance(t)' >= Allowance(t) + 1
<1> USE DEF row, state, stamps, logs, tables, approvals, ledger, local
<1>0. PhaseKnows(p) /\ SerialRow(p, t)
  BY DEF Knowledge, PollsKnow, SerialInv
<1>1. ASSUME UNCHANGED <<lifecycleStep, pc, batch, current>> PROVE Is => Was
  BY <1>1 DEF Owes, Working, At
<1>2. ASSUME faults' = faults + 1 PROVE Goal
  BY <1>2, AllowanceStep
<1>3. ASSUME NEW u \in Transfers, People(u) PROVE Goal
  <2>1. CASE Release(u) /\ u # t
    BY <2>1 DEF Release, Owes, Working, At, TypeOK
  <2>2. CASE Release(t) /\ releases[t] > 0
    BY <2>2, AllowanceStep
  <2>3. CASE Release(t) /\ ~(releases[t] > 0)
    <3>1. releases[t] = 0
      BY <2>3 DEF TypeOK
    <3>2. lifecycleStep[t] = "Compliance" /\ ~Working(p, t)
      BY <1>0, <2>3, <3>1 DEF SerialRow, Release, PendingStatus
    <3> QED
      BY <3>2 DEF Owes, Closed
  <2> QED
    BY <1>1, <1>3, <2>1, <2>2, <2>3
    DEF People, Submit, RequestRelease, ReleaseFails, Decide
<1>4. CASE Poll(p)
  <2>1. PICK chosen \in SUBSET Pending :
          GoOn(p, [s \in Transfers |-> IF s \in chosen THEN lifecycleStep[s] ELSE None])
    BY <1>4 DEF Poll
  <2> DEFINE left == [s \in Transfers |-> IF s \in chosen THEN lifecycleStep[s] ELSE None]
  <2>2. left \in [Transfers -> Steps \union {None}]
    BY DEF Pending, Knowledge, RowKnows
  <2>3. Is => (IF left[t] # None THEN left[t] \in ahead ELSE lifecycleStep'[t] \in ahead)
    <3> HIDE DEF left
    <3> QED
      BY <2>1, <2>2, GoOnOwes DEF left
  <2>4. batch[p][t] = None /\ UNCHANGED lifecycleStep
    BY <1>4 DEF Poll, SerialInv
  <2>5. Was <=> lifecycleStep[t] \in ahead
    BY <2>4 DEF Owes, Working
  <2> QED
    BY <2>3, <2>4, <2>5
<1>5. ASSUME NEW u \in Transfers, Turn(p, u) PROVE Goal
  <2>0. u = current[p] /\ p \in Polls /\ batch[p][u] \in Steps
    <3>1. At(p, u, pc[p]) /\ pc[p] # "idle"
      BY <1>5
      DEF At, Turn, RecordScreening, MarkClear, MarkStopped, LockRate, RouteToProvider, PostDebit,
          PostConfirm, MarkCompleted, EmitWebhook, Advance, LogEvent
    <3> QED
      BY <1>0, <3>1 DEF At, PhaseKnows
  <2>1. CASE u # t
    <3>1. Return(p) \/ UNCHANGED <<batch, current>>
      BY <1>5
      DEF Turn, RecordScreening, MarkClear, MarkStopped, LockRate, RouteToProvider, PostDebit,
          PostConfirm, MarkCompleted, EmitWebhook, Advance, LogEvent, Goto
    <3>2. lifecycleStep'[t] = lifecycleStep[t]
      BY <1>5, <2>1
      DEF Turn, RecordScreening, MarkClear, MarkStopped, LockRate, RouteToProvider, PostDebit,
          PostConfirm, MarkCompleted, EmitWebhook, Advance, LogEvent, TypeOK
    <3> QED
      BY <2>0, <2>1, <3>1, <3>2, OthersOwe
  <2>2. CASE u = t
    <3>1. ASSUME NEW phase \in {"mark", "advance", "debit", "notify"}, pc'[p] = phase,
                 UNCHANGED <<batch, current>>, pc[p] \notin {"advance", "log"}
          PROVE  Is => Was
      <4>1. Was <=> batch[p][t] \in ahead
        BY <2>0, <2>2, <3>1, OutboundAssumption DEF Owes, Working, At
      <4>2. Is => batch[p][t] \in ahead
        BY <2>0, <2>2, <3>1, WithinTurn
      <4> QED
        BY <4>1, <4>2
    <3>2. CASE RecordScreening(p, u)
      BY <3>1, <3>2 DEF RecordScreening, At, TypeOK
    <3>3. CASE MarkClear(p, u) \/ LockRate(p, u) \/ RouteToProvider(p, u) \/ PostDebit(p, u)
               \/ PostConfirm(p, u) \/ MarkCompleted(p, u) \/ EmitWebhook(p, u)
      <4>1. PICK phase \in {"mark", "advance", "debit", "notify"} : Goto(p, phase)
        BY <3>3 DEF MarkClear, LockRate, RouteToProvider, PostDebit, PostConfirm, MarkCompleted,
                    EmitWebhook
      <4>2. pc[p] \notin {"advance", "log"}
        BY <3>3 DEF MarkClear, LockRate, RouteToProvider, PostDebit, PostConfirm, MarkCompleted,
                    EmitWebhook, At
      <4> QED
        BY <2>0, <3>1, <4>1, <4>2 DEF Goto, TypeOK
    <3>4. CASE MarkStopped(p, u)
      <4>1. pc[p] = "mark" /\ batch[p][t] = "Compliance"
        BY <1>0, <2>0, <2>2, <3>4 DEF MarkStopped, At, PhaseKnows
      <4> QED
        BY <2>0, <2>2, <4>1, OutboundAssumption DEF Owes, Working, At, Closed, Steps
    <3>5. CASE Advance(p, u)
      <4>1. pc'[p] = "log" /\ UNCHANGED <<batch, current>> /\ pc[p] = "advance"
            /\ lifecycleStep'[t] = NextStep[batch[p][t]]
        BY <2>0, <2>2, <3>5 DEF Advance, Goto, At, TypeOK
      <4>2. Is => NextStep[batch[p][t]] \in ahead
        BY <2>0, <2>2, <4>1, WithinTurn
      <4>3. Was <=> batch[p][t] \in ahead /\ batch[p][t] # last
        BY <2>0, <2>2, <4>1, OutboundAssumption DEF Owes, Working, At
      <4> QED
        BY <2>0, <2>2, <4>2, <4>3 DEF Closed
    <3>6. CASE LogEvent(p, u)
      <4>1. Is => lifecycleStep[t] \in ahead
        BY <2>0, <2>2, <3>6, ReturnOwes DEF LogEvent
      <4> QED
        BY <2>2, <3>6, <4>1 DEF LogEvent, Owes, Working
    <3> QED
      BY <1>5, <3>2, <3>3, <3>4, <3>5, <3>6 DEF Turn
  <2> QED
    BY <2>1, <2>2
<1>6. CASE StatementFails(p) \/ Restart
  BY <1>2, <1>6 DEF StatementFails, Restart, Fault
<1>7. CASE UNCHANGED vars
  BY <1>1, <1>7 DEF vars
<1> QED
  BY <1>3, <1>4, <1>5, <1>6, <1>7 DEF Next, PollStep

\* The calls of a step: one that was owed and is no longer.
LEMMA CallStep ==
  ASSUME TypeOK, Knowledge, NEW p, Polls = {p}, [Next]_vars, NEW t \in Transfers
  PROVE  /\ \/ debits'[t] = debits[t]
            \/ debits'[t] <= debits[t] + 1 /\ OwesDebit(p, t) /\ ~OwesDebit(p, t)'
         /\ \/ notices'[t] = notices[t]
            \/ notices'[t] <= notices[t] + 1 /\ OwesNotice(p, t) /\ ~OwesNotice(p, t)'
<1> USE DEF row, state, stamps, logs, tables, approvals, ledger, local
<1>0. PhaseKnows(p) /\ p \in Polls
  BY DEF Knowledge, PollsKnow
<1>1. \A n \in Nat : Count(n) <= n + 1
  BY OutboundAssumption DEF Count
<1>2. ASSUME PostDebit(p, t)
      PROVE  debits'[t] <= debits[t] + 1 /\ OwesDebit(p, t) /\ ~OwesDebit(p, t)'
  <2>1. /\ current[p] = t /\ pc[p] = "debit" /\ batch[p][t] = "Routing" /\ batch[p][t] \in Steps
        /\ pc'[p] = "advance" /\ UNCHANGED <<batch, current>>
    BY <1>0, <1>2 DEF PostDebit, At, PhaseKnows, Goto, TypeOK
  <2>2. debits'[t] = Count(debits[t])
    BY <1>2 DEF PostDebit, TypeOK
  <2>3. OwesDebit(p, t)
    BY <2>1, OutboundAssumption DEF OwesDebit, Owes, Working, At, AheadOfDebit, Steps
  <2>4. ~OwesDebit(p, t)'
    BY <1>0, <2>1, WithinTurn DEF OwesDebit
  <2> QED
    BY <1>1, <2>2, <2>3, <2>4 DEF TypeOK
<1>3. ASSUME EmitWebhook(p, t), notices'[t] # notices[t]
      PROVE  notices'[t] <= notices[t] + 1 /\ OwesNotice(p, t) /\ ~OwesNotice(p, t)'
  <2>1. /\ current[p] = t /\ pc[p] = "notify" /\ batch[p][t] = "Audit" /\ batch[p][t] \in Steps
        /\ pc'[p] = "advance" /\ UNCHANGED <<batch, current>>
    BY <1>0, <1>3 DEF EmitWebhook, At, PhaseKnows, Goto, TypeOK
  <2>2. notices'[t] = Count(notices[t])
    BY <1>3 DEF EmitWebhook, TypeOK
  <2>3. OwesNotice(p, t)
    BY <2>1, OutboundAssumption DEF OwesNotice, Owes, Working, At
  <2>4. ~OwesNotice(p, t)'
    BY <1>0, <2>1, WithinTurn DEF OwesNotice
  <2> QED
    BY <1>1, <2>2, <2>3, <2>4 DEF TypeOK
<1>4. ASSUME debits'[t] # debits[t] PROVE PostDebit(p, t)
  <2>1. PICK u \in Transfers : PostDebit(p, u)
    BY <1>4
    DEF Next, People, Submit, RequestRelease, Decide, Release, ReleaseFails, PollStep, Poll,
        Turn, RecordScreening, MarkClear, MarkStopped, LockRate, RouteToProvider,
        PostConfirm, MarkCompleted, EmitWebhook, Advance, LogEvent, StatementFails,
        Restart, vars
  <2> QED
    BY <1>4, <2>1 DEF PostDebit, TypeOK
<1>5. ASSUME notices'[t] # notices[t] PROVE EmitWebhook(p, t)
  <2>1. PICK u \in Transfers : EmitWebhook(p, u)
    BY <1>5
    DEF Next, People, Submit, RequestRelease, Decide, Release, ReleaseFails, PollStep, Poll,
        Turn, RecordScreening, MarkClear, MarkStopped, LockRate, RouteToProvider,
        PostConfirm, MarkCompleted, PostDebit, Advance, LogEvent, StatementFails,
        Restart, vars
  <2> QED
    BY <1>5, <2>1 DEF EmitWebhook, TypeOK
<1> QED
  BY <1>2, <1>3, <1>4, <1>5

\* No call is made that releases and faults do not pay for.
LEMMA PaidStep ==
  ASSUME TypeOK, TypeOK', Knowledge, NEW p, Polls = {p}, SerialInv(p), [Next]_vars,
         NEW t \in Transfers
  PROVE  /\ Paid(t, debits[t], OwesDebit(p, t))'
         /\ Paid(t, notices[t], OwesNotice(p, t))'
<1>1. /\ Paid(t, debits[t], OwesDebit(p, t)) /\ Paid(t, notices[t], OwesNotice(p, t))
  BY DEF SerialInv
<1>2. /\ Allowance(t) \in Nat /\ Allowance(t)' \in Nat /\ Allowance(t)' >= Allowance(t)
      /\ debits[t] \in Nat /\ debits'[t] \in Nat /\ notices[t] \in Nat /\ notices'[t] \in Nat
  BY AllowanceStep DEF TypeOK
<1>4. /\ (OwesDebit(p, t)' => OwesDebit(p, t)) \/ Allowance(t)' >= Allowance(t) + 1
      /\ (OwesNotice(p, t)' => OwesNotice(p, t)) \/ Allowance(t)' >= Allowance(t) + 1
  BY OwesStep, CallsAreClosed DEF OwesDebit, OwesNotice
<1>5. debits'[t] <= Allowance(t)' /\ (OwesDebit(p, t)' => debits'[t] + 1 <= Allowance(t)')
  BY <1>1, <1>2, <1>4, CallStep DEF Paid
<1>6. notices'[t] <= Allowance(t)' /\ (OwesNotice(p, t)' => notices'[t] + 1 <= Allowance(t)')
  BY <1>1, <1>2, <1>4, CallStep DEF Paid
<1> QED
  BY <1>5, <1>6 DEF Paid

\* A turn is that of the transfer the poll is at.
LEMMA TurnIsOfCurrent ==
  ASSUME Knowledge, NEW p \in Polls, NEW t \in Transfers, Turn(p, t)
  PROVE  /\ t = current[p] /\ batch[p][t] \in Steps /\ pc[p] # "idle"
         /\ Return(p) \/ UNCHANGED <<batch, current>>
<1>1. At(p, t, pc[p]) /\ pc[p] # "idle"
  BY DEF At, Turn, RecordScreening, MarkClear, MarkStopped, LockRate, RouteToProvider, PostDebit,
         PostConfirm, MarkCompleted, EmitWebhook, Advance, LogEvent
<1>2. Return(p) \/ UNCHANGED <<batch, current>>
  BY DEF Turn, RecordScreening, MarkClear, MarkStopped, LockRate, RouteToProvider, PostDebit,
         PostConfirm, MarkCompleted, EmitWebhook, Advance, LogEvent, Goto
<1> QED
  BY <1>1, <1>2 DEF At, Knowledge, PollsKnow, PhaseKnows

\* A status changes by a submission, a release or the turn of a transfer whose row
\* is not written yet; and what a stopped transfer is stopped at is its screening.
LEMMA StatusStep ==
  ASSUME TypeOK, Knowledge, NEW p, Polls = {p}, [Next]_vars, NEW t \in Transfers
  PROVE  /\ \/ UNCHANGED Row(t)
            \/ status[t] = "absent" /\ status'[t] = "admitted" /\ UNCHANGED <<approval, releases>>
            \/ Release(t)
            \/ Working(p, t)
         /\ status'[t] \in {"manual_review", "failed"} =>
              \/ status'[t] = status[t] /\ lifecycleStep'[t] = lifecycleStep[t]
              \/ lifecycleStep'[t] = "Compliance"
<1> USE DEF row, state, stamps, logs, tables, approvals, ledger, local
<1>1. ASSUME UNCHANGED row
      PROVE  UNCHANGED Row(t) /\ status'[t] = status[t] /\ lifecycleStep'[t] = lifecycleStep[t]
  BY <1>1 DEF Row
<1>2. ASSUME NEW u \in Transfers, Submit(u) \/ Release(u), u # t
      PROVE  UNCHANGED Row(t) /\ status'[t] = status[t] /\ lifecycleStep'[t] = lifecycleStep[t]
  BY <1>2 DEF Submit, Release, Row, TypeOK
<1>3. CASE Submit(t)
  BY <1>3 DEF Submit, TypeOK
<1>4. CASE Release(t)
  BY <1>4 DEF Release, TypeOK
<1>5. ASSUME NEW u \in Transfers, Turn(p, u), u # t
      PROVE  UNCHANGED Row(t) /\ status'[t] = status[t] /\ lifecycleStep'[t] = lifecycleStep[t]
  <2>1. CASE UNCHANGED row
    BY <1>1, <2>1
  <2>2. CASE MarkClear(p, u) \/ MarkStopped(p, u) \/ Advance(p, u)
    BY <1>5, <2>2 DEF MarkClear, MarkStopped, Advance, Row, TypeOK
  <2>3. CASE LockRate(p, u) \/ RouteToProvider(p, u) \/ MarkCompleted(p, u)
    BY <1>5, <2>3 DEF LockRate, RouteToProvider, MarkCompleted, Row
  <2> QED
    BY <1>5, <2>1, <2>2, <2>3
    DEF Turn, RecordScreening, PostDebit, PostConfirm, EmitWebhook, LogEvent
<1>6. CASE Turn(p, t)
  <2>1. CASE LogEvent(p, t)
    BY <1>1, <2>1 DEF LogEvent
  <2>2. CASE ~LogEvent(p, t)
    <3>1. pc[p] # "log" /\ batch[p][t] \in Steps
      BY <1>6, <2>2, TurnIsOfCurrent
      DEF At, Turn, RecordScreening, MarkClear, MarkStopped, LockRate, RouteToProvider, PostDebit,
          PostConfirm, MarkCompleted, EmitWebhook, Advance
    <3>2. Working(p, t)
      BY <3>1, OutboundAssumption DEF Working, At
    <3>3. CASE MarkStopped(p, t)
      BY <3>2, <3>3 DEF MarkStopped, TypeOK
    <3>4. CASE Advance(p, t)
      <4>1. status'[t] = NextStatus[batch[p][t]]
        BY <3>4 DEF Advance, TypeOK
      <4>2. status'[t] \notin {"manual_review", "failed"}
        BY <3>1, <4>1 DEF NextStatus, Steps
      <4> QED
        BY <3>2, <4>2
    <3>5. CASE UNCHANGED <<status, lifecycleStep>>
      BY <3>2, <3>5
    <3> QED
      BY <1>6, <2>2, <3>3, <3>4, <3>5
      DEF Turn, RecordScreening, MarkClear, LockRate, RouteToProvider, PostDebit,
          PostConfirm, MarkCompleted, EmitWebhook
  <2> QED
    BY <2>1, <2>2
<1>7. CASE UNCHANGED row
  BY <1>1, <1>7
<1> QED
  BY <1>2, <1>3, <1>4, <1>5, <1>6, <1>7
  DEF Next, People, RequestRelease, Decide, ReleaseFails, PollStep, Poll, StatementFails,
      Restart, vars

\* Alone, a poll has in its batch only transfers that are pending.
LEMMA WorkingStep ==
  ASSUME TypeOK, Knowledge, NEW p, Polls = {p}, SerialInv(p), [Next]_vars, NEW t \in Transfers
  PROVE  Working(p, t)' => status'[t] \in PendingStatus
<1> USE DEF row, state, stamps, logs, tables, approvals, ledger, local
<1>0. Working(p, t) => status[t] \in PendingStatus
  BY DEF SerialInv, SerialRow
<1>1. ASSUME UNCHANGED <<pc, batch, current>> PROVE Working(p, t)' <=> Working(p, t)
  BY <1>1 DEF Working, At
<1>2. ASSUME NEW u \in Transfers, People(u)
      PROVE  status'[t] = status[t] \/ status'[t] \in PendingStatus
  BY <1>2
  DEF People, Submit, RequestRelease, Release, ReleaseFails, Decide, TypeOK, PendingStatus
<1>3. CASE \E u \in Transfers : People(u)
  <2>1. UNCHANGED <<pc, batch, current>>
    BY <1>3 DEF People, Submit, RequestRelease, Release, ReleaseFails, Decide
  <2> QED
    BY <1>0, <1>1, <1>2, <1>3, <2>1
<1>4. CASE Poll(p)
  <2>1. PICK chosen \in SUBSET Pending :
          GoOn(p, [s \in Transfers |-> IF s \in chosen THEN lifecycleStep[s] ELSE None])
    BY <1>4 DEF Poll
  <2> DEFINE left == [s \in Transfers |-> IF s \in chosen THEN lifecycleStep[s] ELSE None]
  <2>2. left \in [Transfers -> Steps \union {None}]
    BY DEF Pending, Knowledge, RowKnows
  <2>3. Working(p, t)' => left[t] # None
    <3> HIDE DEF left
    <3> QED
      BY <2>1, <2>2, GoOnOwes DEF left
  <2> QED
    BY <1>4, <2>3 DEF Pending, Poll
<1>5. ASSUME NEW u \in Transfers, Turn(p, u) PROVE Working(p, t)' => status'[t] \in PendingStatus
  <2>0. u = current[p] /\ batch[p][u] \in Steps /\ (Return(p) \/ UNCHANGED <<batch, current>>)
        /\ p \in Polls
    BY <1>5, TurnIsOfCurrent
  <2>1. CASE u # t
    <3>1. lifecycleStep'[t] = lifecycleStep[t] /\ status'[t] = status[t]
      BY <1>5, <2>1
      DEF Turn, RecordScreening, MarkClear, MarkStopped, LockRate, RouteToProvider, PostDebit,
          PostConfirm, MarkCompleted, EmitWebhook, Advance, LogEvent, TypeOK
    <3> QED
      BY <1>0, <2>0, <2>1, <3>1, OthersOwe
  <2>2. CASE u = t /\ Return(p)
    BY <2>0, <2>2, ReturnOwes
  <2>3. CASE u = t /\ ~Return(p) /\ Advance(p, u)
    <3>1. pc'[p] = "log" /\ current'[p] = t
      BY <2>0, <2>3 DEF Advance, Goto, At, TypeOK
    <3> QED
      BY <3>1 DEF Working, At
  <2>4. CASE u = t /\ ~Return(p) /\ ~Advance(p, u)
    <3>1. pc[p] # "log" /\ UNCHANGED status
      BY <1>5, <2>4
      DEF Turn, At, RecordScreening, MarkClear, MarkStopped, LockRate, RouteToProvider, PostDebit,
          PostConfirm, MarkCompleted, EmitWebhook, LogEvent
    <3>2. Working(p, t)
      BY <2>0, <2>4, <3>1, OutboundAssumption DEF Working, At
    <3> QED
      BY <1>0, <3>1, <3>2
  <2> QED
    BY <2>1, <2>2, <2>3, <2>4
<1>6. CASE StatementFails(p)
  <2>1. Return(p) /\ UNCHANGED <<status, lifecycleStep>> /\ p \in Polls
    BY <1>6 DEF StatementFails
  <2>2. CASE t = current[p]
    BY <2>1, <2>2, ReturnOwes
  <2>3. CASE t # current[p]
    BY <1>0, <2>1, <2>3, OthersOwe
  <2> QED
    BY <2>2, <2>3
<1>7. CASE Restart
  BY <1>7 DEF Restart, Working
<1>8. CASE UNCHANGED vars
  BY <1>0, <1>1, <1>8 DEF vars
<1> QED
  BY <1>3, <1>4, <1>5, <1>6, <1>7, <1>8 DEF Next, PollStep

\* A poll that is idle has no batch.
LEMMA IdleStep ==
  ASSUME TypeOK, Knowledge, NEW p, Polls = {p}, SerialInv(p), [Next]_vars, pc'[p] = "idle",
         NEW t \in Transfers
  PROVE  batch'[p][t] = None
<1> USE DEF row, state, stamps, logs, tables, approvals, ledger, local
<1>1. CASE UNCHANGED <<pc, batch>>
  BY <1>1 DEF SerialInv
<1>2. CASE Poll(p)
  <2>1. PICK chosen \in SUBSET Pending :
          GoOn(p, [s \in Transfers |-> IF s \in chosen THEN lifecycleStep[s] ELSE None])
    BY <1>2 DEF Poll
  <2> DEFINE left == [s \in Transfers |-> IF s \in chosen THEN lifecycleStep[s] ELSE None]
  <2>2. left \in [Transfers -> Steps \union {None}] /\ GoOn(p, left)
    BY <2>1 DEF Pending, Knowledge, RowKnows
  <2> HIDE DEF left
  <2> QED
    BY <2>2, GoOnStarts
<1>3. CASE Return(p)
  <2>1. PICK left \in [Transfers -> Steps \union {None}] : GoOn(p, left)
    BY <1>3, ReturnIsGoOn
  <2> QED
    BY <2>1, GoOnStarts
<1>4. ASSUME NEW u \in Transfers, Turn(p, u) PROVE Return(p)
  <2>1. CASE \E phase \in Phases : Goto(p, phase)
    BY <2>1 DEF Goto, Phases, TypeOK
  <2>2. CASE RecordScreening(p, u)
    BY <2>2 DEF RecordScreening, TypeOK
  <2> QED
    BY <1>4, <2>1, <2>2
    DEF Turn, MarkClear, MarkStopped, LockRate, RouteToProvider, PostDebit,
        PostConfirm, MarkCompleted, EmitWebhook, Advance, LogEvent, Phases
<1>5. CASE Restart
  BY <1>5 DEF Restart
<1> QED
  BY <1>1, <1>2, <1>3, <1>4, <1>5
  DEF Next, People, Submit, RequestRelease, Release, ReleaseFails, Decide, PollStep,
      StatementFails, vars

\* A release goes to an administrator only for a transfer held for review, and
\* nothing moves that transfer before it is released.
LEMMA ApprovalStep ==
  ASSUME TypeOK, Knowledge, NEW p, Polls = {p}, SerialInv(p), [Next]_vars, NEW t \in Transfers
  PROVE  /\ t \in releasing' => approval'[t] # "absent"
         /\ approval'[t] # "absent" /\ releases'[t] = 0 => status'[t] = "manual_review"
<1> USE DEF row, state, stamps, logs, tables, approvals, ledger, local
<1>1. SerialRow(p, t)
  BY DEF SerialInv
<1>2. CASE \E u \in Transfers : RequestRelease(u)
  BY <1>1, <1>2 DEF RequestRelease, SerialRow, TypeOK
<1>3. CASE \E u \in Transfers, action \in {"approved", "rejected"} : Decide(u, action)
  BY <1>1, <1>3 DEF Decide, SerialRow, TypeOK
<1>4. CASE \E u \in Transfers : Release(u)
  <2>1. PICK u \in Transfers : Release(u)
    BY <1>4
  <2>2. CASE u = t
    BY <1>1, <2>1, <2>2 DEF Release, SerialRow, TypeOK
  <2>3. CASE u # t
    BY <1>1, <2>1, <2>3 DEF Release, SerialRow, TypeOK
  <2> QED
    BY <2>2, <2>3
<1>5. CASE UNCHANGED <<approval, releases>> /\ releasing' \subseteq releasing
           /\ ~(\E u \in Transfers : Release(u))
  <2>1. status'[t] # status[t] => status[t] = "absent" \/ Working(p, t)
    BY <1>5, StatusStep DEF Row
  <2> QED
    BY <1>1, <1>5, <2>1 DEF SerialRow, PendingStatus
<1>6. ~(\E u \in Transfers : RequestRelease(u) \/ Release(u)
          \/ \E action \in {"approved", "rejected"} : Decide(u, action))
        => UNCHANGED <<approval, releases>> /\ releasing' \subseteq releasing
  BY DEF Next, People, Submit, ReleaseFails, PollStep, Poll,
         Turn, RecordScreening, MarkClear, MarkStopped, LockRate, RouteToProvider, PostDebit,
         PostConfirm, MarkCompleted, EmitWebhook, Advance, LogEvent, StatementFails,
         Restart, vars
<1> QED
  BY <1>2, <1>3, <1>4, <1>5, <1>6

\* Without a fault or a release a blocked transfer is about to fail or has failed.
LEMMA BlockedStep ==
  ASSUME TypeOK, TypeOK', Knowledge, NEW p, Polls = {p}, SerialInv(p), [Next]_vars,
         NEW t \in Transfers, Blocked(t)', releases'[t] = 0, faults' = 0
  PROVE  (At(p, t, "mark") /\ verdict[p] = "block")' \/ status'[t] = "failed"
<1> USE DEF row, state, stamps, logs, tables, approvals, ledger, local
<1>1. faults = 0 /\ ~(\E q \in Polls : StatementFails(q)) /\ ~Restart
  BY AllowanceStep DEF StatementFails, Restart, Fault, TypeOK
<1>2. releases[t] = 0 /\ ~Release(t)
  <2>1. ~Release(t)
    BY DEF Release, TypeOK
  <2>2. \A u \in Transfers : Release(u) => releases'[t] = releases[t]
    BY <2>1 DEF Release, TypeOK
  <2>3. (\E u \in Transfers : Release(u)) \/ UNCHANGED releases
    BY DEF Next, People, Submit, RequestRelease, Decide, ReleaseFails, PollStep, Poll,
           Turn, RecordScreening, MarkClear, MarkStopped, LockRate, RouteToProvider, PostDebit,
           PostConfirm, MarkCompleted, EmitWebhook, Advance, LogEvent, StatementFails,
           Restart, vars
  <2> QED
    BY <2>1, <2>2, <2>3
<1>3. ASSUME RecordScreening(p, t)
      PROVE  (At(p, t, "mark") /\ verdict[p] = "block")'
             \/ (Blocked(t) /\ ~(At(p, t, "mark") /\ verdict[p] = "block"))
  <2>1. PICK answer \in Answers :
          /\ screenings' = [screenings EXCEPT ![t] = @ \union {Screening(answer)}]
          /\ verdict' = [verdict EXCEPT ![p] = answer]
    BY <1>3 DEF RecordScreening
  <2>2. pc[p] = "screen" /\ pc'[p] = "mark" /\ current'[p] = t /\ verdict'[p] = answer
    BY <1>3, <2>1 DEF RecordScreening, At, TypeOK
  <2>3. CASE answer = "block"
    BY <2>2, <2>3 DEF At
  <2>4. CASE answer # "block"
    <3>1. Decision[answer] # "blocked"
      BY <2>4 DEF Answers, Decision
    <3>2. Blocked(t)
      BY <2>1, <3>1 DEF Blocked, Screening, TypeOK
    <3> QED
      BY <2>2, <3>2 DEF At
  <2> QED
    BY <2>3, <2>4
<1>4. Blocked(t) \/ RecordScreening(p, t)
  <2>1. ASSUME NEW u \in Transfers, RecordScreening(p, u), u # t PROVE Blocked(t)
    BY <2>1 DEF RecordScreening, Blocked, TypeOK
  <2>2. CASE UNCHANGED screenings
    BY <2>2 DEF Blocked
  <2> QED
    BY <2>1, <2>2
    DEF Next, People, Submit, RequestRelease, Decide, Release, ReleaseFails, PollStep, Poll,
        Turn, MarkClear, MarkStopped, LockRate, RouteToProvider, PostDebit,
        PostConfirm, MarkCompleted, EmitWebhook, Advance, LogEvent, StatementFails,
        Restart, vars
<1>5. CASE Blocked(t) /\ status[t] = "failed"
  <2>1. ~Working(p, t)
    BY <1>5 DEF SerialInv, SerialRow, PendingStatus
  <2>2. UNCHANGED Row(t)
    BY <1>2, <1>5, <2>1, StatusStep
  <2> QED
    BY <1>5, <2>2 DEF Row
<1>6. CASE Blocked(t) /\ At(p, t, "mark") /\ verdict[p] = "block"
  <2>1. CASE MarkStopped(p, t)
    BY <1>6, <2>1 DEF MarkStopped, TypeOK
  <2>2. CASE UNCHANGED <<pc, current, verdict>>
    BY <1>6, <2>2 DEF At
  <2>3. ~Passes(verdict[p])
    BY <1>6 DEF Passes
  <2>4. p \in Polls /\ pc[p] = "mark"
    BY <1>6 DEF At
  <2> QED
    BY <1>1, <1>6, <2>1, <2>2, <2>3, <2>4
    DEF Next, People, Submit, RequestRelease, Decide, Release, ReleaseFails, PollStep, Poll,
        Turn, RecordScreening, MarkClear, MarkStopped, LockRate, RouteToProvider, PostDebit,
        PostConfirm, MarkCompleted, EmitWebhook, Advance, LogEvent, At, vars
<1>7. Blocked(t) => (At(p, t, "mark") /\ verdict[p] = "block") \/ status[t] = "failed"
  BY <1>1, <1>2 DEF SerialInv
<1> QED
  BY <1>3, <1>4, <1>5, <1>6, <1>7

\* With one poll at a time the invariant of the overlapping polls and SerialInv hold.
THEOREM SerialInductive ==
  ASSUME NEW p, Polls = {p}
  PROVE  Spec => [](IInv /\ SerialInv(p))
<1>1. Init => SerialInv(p)
  <2> SUFFICES ASSUME Init PROVE SerialInv(p)
    OBVIOUS
  <2>1. \A t \in Transfers : Allowance(t) = 1
    BY DEF Init, Allowance
  <2>2. \A t \in Transfers : debits[t] = 0 /\ notices[t] = 0 /\ ~Blocked(t)
    BY DEF Init, Blocked
  <2>3. \A t \in Transfers : SerialRow(p, t) /\ batch[p][t] = None
    BY DEF Init, SerialRow, Working
  <2> QED
    BY <2>1, <2>2, <2>3 DEF SerialInv, Paid
<1>2. ASSUME IInv, IInv', SerialInv(p), [Next]_vars PROVE SerialInv(p)'
  <2>1. ASSUME NEW t \in Transfers PROVE SerialRow(p, t)'
    <3>1. Working(p, t)' => status'[t] \in PendingStatus
      BY <1>2, WorkingStep DEF IInv
    <3>2. status'[t] \in {"manual_review", "failed"} => lifecycleStep'[t] = "Compliance"
      BY <1>2, StatusStep DEF IInv, SerialInv, SerialRow
    <3> QED
      BY <1>2, <3>1, <3>2, ApprovalStep DEF IInv, SerialRow
  <2>2. ASSUME NEW t \in Transfers
        PROVE  Paid(t, debits[t], OwesDebit(p, t))' /\ Paid(t, notices[t], OwesNotice(p, t))'
    BY <1>2, PaidStep DEF IInv
  <2>3. pc'[p] = "idle" => \A t \in Transfers : batch'[p][t] = None
    BY <1>2, IdleStep DEF IInv
  <2>4. ASSUME NEW t \in Transfers, Blocked(t)', releases'[t] = 0, faults' = 0
        PROVE  (At(p, t, "mark") /\ verdict[p] = "block")' \/ status'[t] = "failed"
    BY <1>2, <2>4, BlockedStep DEF IInv
  <2> QED
    BY <2>1, <2>2, <2>3, <2>4 DEF SerialInv
<1>3. Spec => []IInv
  BY OutboundInductive
<1> QED
  BY <1>1, <1>2, <1>3, PTL DEF Spec

\* With one poll at a time no debit call and no notice is repeated but for a
\* fault or a further release, which pay for one each.
THEOREM RepeatsCharged ==
  ASSUME NEW p, Polls = {p}
  PROVE  Spec => []RepeatsAreCharged
<1>1. SerialInv(p) => RepeatsAreCharged
  BY DEF SerialInv, Paid, Allowance, RepeatsAreCharged
<1> QED
  BY <1>1, SerialInductive, PTL

\* With one poll at a time only a release moves a transfer that has stopped.
THEOREM StoppedStay ==
  ASSUME NEW p, Polls = {p}
  PROVE  Spec => StoppedStays
<1> DEFINE Stays == \A t \in Transfers :
             status[t] \in StoppedStatus /\ Row(t)' # Row(t) => t \in releasing
<1>1. ASSUME IInv, SerialInv(p), [Next]_vars PROVE Stays
  <2> SUFFICES ASSUME NEW t \in Transfers, status[t] \in StoppedStatus, Row(t)' # Row(t)
               PROVE  t \in releasing
    OBVIOUS
  <2>1. ~Working(p, t) /\ status[t] # "absent"
    BY <1>1 DEF SerialInv, SerialRow, PendingStatus, StoppedStatus
  <2>2. Release(t)
    BY <1>1, <2>1, StatusStep DEF IInv
  <2> QED
    BY <2>2 DEF Release
<1>2. IInv /\ SerialInv(p) /\ [Next]_vars => [Stays]_vars
  BY <1>1
<1> QED
  BY <1>2, SerialInductive, PTL DEF Spec, StoppedStays

\* With one poll at a time and no fault the decision of the sanctions service
\* stands: SanctionsOverruled needs two polls that overlap, or a fault.
THEOREM SanctionsStandAlone ==
  ASSUME NEW p, Polls = {p}
  PROVE  Spec => [](faults = 0 => SanctionsDecisionStands)
<1>1. ASSUME IInv, SerialInv(p), faults = 0 PROVE SanctionsDecisionStands
  <2> SUFFICES ASSUME NEW t \in Transfers, Blocked(t), releases[t] = 0 PROVE debits[t] = 0
    BY DEF SanctionsDecisionStands, Blocked
  <2>1. Allowance(t) = 1
    BY <1>1 DEF Allowance
  <2>2. OwesDebit(p, t)
    <3>1. CASE status[t] = "failed"
      BY <1>1, <3>1
      DEF SerialInv, SerialRow, PendingStatus, OwesDebit, Owes, AheadOfDebit, Steps
    <3>2. CASE At(p, t, "mark")
      <4>1. batch[p][t] = "Compliance"
        BY <1>1, <3>2 DEF IInv, Knowledge, PollsKnow, PhaseKnows, At
      <4> QED
        BY <3>2, <4>1, OutboundAssumption
        DEF OwesDebit, Owes, Working, At, AheadOfDebit, Steps
    <3> QED
      BY <1>1, <3>1, <3>2 DEF SerialInv
  <2>3. debits[t] + 1 <= 1 /\ debits[t] \in Nat
    BY <1>1, <2>1, <2>2 DEF SerialInv, Paid, IInv, TypeOK
  <2> QED
    BY <2>3
<1>2. IInv /\ SerialInv(p) => (faults = 0 => SanctionsDecisionStands)
  BY <1>1
<1> QED
  BY <1>2, SerialInductive, PTL
=============================================================================
