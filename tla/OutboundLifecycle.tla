--------------------------- MODULE OutboundLifecycle ---------------------------
(***************************************************************************)
(* The outbound transfer lifecycle: server/services/transferLifecycleWorker*)
(* and the operations of outboundRemittanceDbService that write a          *)
(* transfer's row (createTransfer, processApproval, emitWebhookEvent).     *)
(*                                                                         *)
(* setInterval starts a poll every few seconds whether or not the last one *)
(* has ended, so polls overlap.  A poll selects a batch of rows once and   *)
(* then works on that snapshot: every await is a step, every write is an   *)
(* UPDATE by id with no condition on the row's current status.             *)
(***************************************************************************)
EXTENDS Integers, FiniteSets, FiniteSetsExt

CONSTANTS
  Transfers,
  Polls,        \* the setInterval callbacks that may run at the same time
  BatchLimit,   \* rows a poll selects (10 in the code)
  MaxReleases,  \* bound: releases an administrator executes per transfer
  MaxFaults,    \* bound: failed statements and restarts
  MaxCount,     \* bound: debit calls and notices are counted up to this
  None

Steps ==
  {"Admission", "Workflow", "Compliance", "Pricing", "Routing", "Settlement", "Audit"}

ASSUME OutboundAssumption ==
  /\ None \notin Transfers \union Steps
  /\ BatchLimit \in Nat \ {0} /\ MaxReleases \in Nat /\ MaxFaults \in Nat
  /\ MaxCount \in Nat \ {0}

VARIABLES
  status, lifecycleStep, complianceResult,  \* outbound_transfers, a value per transfer
  fxRate, provider, completedAt,  \* its columns that start empty: transfers where they are set
  screenings,  \* compliance_screenings: the rows, each with the answer behind it
  events,      \* transfer_lifecycle_events: the steps logged as done
  notices,     \* outbound_webhook_events: transfer.completed rows
  approval,    \* approval_queue: status of the release_from_hold item
  releasing,   \* transfers whose release is approved and not yet written
  releases,    \* releases written, a count per transfer
  debits,      \* debit_prefund calls, a count per transfer
  confirms,    \* transfers with a settlement_confirm call
  pc, batch, current, verdict,  \* per poll: phase, snapshot, transfer, screening answer
  faults       \* statements that failed and restarts so far

state == <<status, lifecycleStep, complianceResult>>
stamps == <<fxRate, provider, completedAt>>
row == <<state, stamps>>
logs == <<screenings, events, notices>>
tables == <<row, logs>>
approvals == <<approval, releasing, releases>>
ledger == <<debits, confirms>>
local == <<pc, batch, current, verdict>>
vars == <<tables, approvals, ledger, local, faults>>

(***************************************************************************)
(* LIFECYCLE_STEPS and the statuses the worker selects.                    *)
(***************************************************************************)
\* Mutant: settlement is followed by routing once more.
NextStepBack ==
  [Admission |-> "Workflow", Workflow |-> "Compliance", Compliance |-> "Pricing",
   Pricing |-> "Routing", Routing |-> "Settlement", Settlement |-> "Routing",
   Audit |-> "completed"]

NextStep ==
  [Admission |-> "Workflow", Workflow |-> "Compliance", Compliance |-> "Pricing",
   Pricing |-> "Routing", Routing |-> "Settlement", Settlement |-> "Audit",
   Audit |-> "completed"]

NextStatus ==
  [Admission |-> "workflow", Workflow |-> "compliance", Compliance |-> "pricing",
   Pricing |-> "routing", Routing |-> "settlement", Settlement |-> "audit",
   Audit |-> "completed"]

\* Mutants: one status forgotten in the SELECT, one too many.
PendingWithoutAudit ==
  {"admitted", "workflow", "compliance", "pricing", "routing", "settlement"}
PendingWithHeld == PendingWithoutAudit \union {"audit", "manual_review"}

PendingStatus ==
  {"admitted", "workflow", "compliance", "pricing", "routing", "settlement", "audit"}

StoppedStatus == {"completed", "failed", "manual_review"}

Status == PendingStatus \union StoppedStatus \union {"absent"}

\* The sanctions service's decision: "other" is any value but the three the
\* worker compares with, "unavailable" stands for no answer that can be read.
Answers == {"allow", "block", "escalate", "other", "unavailable"}
\* The column of the screening's row, and the branch taken after the row is
\* written: two tests of the answer that do not agree on "other".
Decision == [allow |-> "clear", block |-> "blocked", escalate |-> "escalated",
             other |-> "escalated", unavailable |-> "clear"]
Passes(answer) == answer \notin {"block", "escalate"}
\* The row, and the answer it stands for.
Screening(answer) == [answer |-> answer, decision |-> Decision[answer]]

\* Mutants: the debit before the provider is known, the notice before completion.
DebitFirst ==
  [Admission |-> "advance", Workflow |-> "advance", Compliance |-> "screen",
   Pricing |-> "price", Routing |-> "debit", Settlement |-> "confirm",
   Audit |-> "complete"]
NoticeFirst == [DebitFirst EXCEPT !.Routing = "route", !.Audit = "notify"]

\* The first await of each step, and all the awaits of a transfer's turn.
FirstPhase ==
  [Admission |-> "advance", Workflow |-> "advance", Compliance |-> "screen",
   Pricing |-> "price", Routing |-> "route", Settlement |-> "confirm",
   Audit |-> "complete"]
Phases ==
  {"screen", "mark", "price", "route", "debit", "confirm", "complete", "notify",
   "advance", "log"}
\* The awaits that are database statements: the HTTP calls never throw.
Statements == Phases \ {"debit", "confirm"}

Init ==
  /\ status = [t \in Transfers |-> "absent"]
  /\ lifecycleStep = [t \in Transfers |-> "Admission"]
  /\ complianceResult = [t \in Transfers |-> "none"]
  /\ fxRate = {} /\ provider = {} /\ completedAt = {}
  /\ screenings = [t \in Transfers |-> {}]
  /\ events = [t \in Transfers |-> {}]
  /\ notices = [t \in Transfers |-> 0]
  /\ approval = [t \in Transfers |-> "absent"]
  /\ releasing = {}
  /\ releases = [t \in Transfers |-> 0]
  /\ debits = [t \in Transfers |-> 0]
  /\ confirms = {}
  /\ pc = [p \in Polls |-> "idle"]
  /\ batch = [p \in Polls |-> [t \in Transfers |-> None]]
  /\ current = [p \in Polls |-> None]
  /\ verdict = [p \in Polls |-> "allow"]
  /\ faults = 0

Count(n) == IF n < MaxCount THEN n + 1 ELSE n

Fault == faults < MaxFaults /\ faults' = faults + 1

(***************************************************************************)
(* Participants and administrators.                                        *)
(***************************************************************************)

\* createTransfer: the row is inserted, then its first event; a failure in
\* between leaves the row and answers an error.
Submit(t) ==
  /\ status[t] = "absent"
  /\ status' = [status EXCEPT ![t] = "admitted"]
  /\ \/ events' = [events EXCEPT ![t] = {"submitted"}] /\ UNCHANGED faults
     \/ UNCHANGED events /\ Fault
  /\ UNCHANGED <<lifecycleStep, complianceResult, stamps, screenings, notices, approvals,
                 ledger, local>>

\* External: a release is requested for a transfer held for review.
RequestRelease(t) ==
  /\ status[t] = "manual_review"
  /\ approval[t] = "absent"
  /\ approval' = [approval EXCEPT ![t] = "pending"]
  /\ UNCHANGED <<tables, releasing, releases, ledger, local, faults>>

\* processApproval: the item is updated whatever its status, then, for an
\* approval, the transfer is updated whatever its own.
Decide(t, action) ==
  /\ approval[t] # "absent"
  /\ t \notin releasing
  /\ action = "approved" => releases[t] < MaxReleases
  /\ approval' = [approval EXCEPT ![t] = action]
  /\ releasing' = IF action = "approved" THEN releasing \union {t} ELSE releasing
  /\ UNCHANGED <<tables, releases, ledger, local, faults>>

Release(t) ==
  /\ t \in releasing
  /\ releasing' = releasing \ {t}
  /\ status' = [status EXCEPT ![t] = "routing"]
  /\ lifecycleStep' = [lifecycleStep EXCEPT ![t] = "Pricing"]
  /\ complianceResult' = [complianceResult EXCEPT ![t] = "clear"]
  /\ releases' = [releases EXCEPT ![t] = @ + 1]
  /\ UNCHANGED <<stamps, logs, approval, ledger, local, faults>>

ReleaseFails(t) ==
  /\ t \in releasing
  /\ releasing' = releasing \ {t}
  /\ Fault
  /\ UNCHANGED <<tables, approval, releases, ledger, local>>

(***************************************************************************)
(* A poll: select once, then one transfer of the snapshot after another.   *)
(***************************************************************************)
Pending == {t \in Transfers : status[t] \in PendingStatus}

\* The loop goes on with what is left of the snapshot, up to the next await.
GoOn(p, left) ==
  /\ batch' = [batch EXCEPT ![p] = left]
  /\ verdict' = [verdict EXCEPT ![p] = "allow"]
  /\ \/ \E t \in Transfers :
          /\ left[t] # None
          /\ current' = [current EXCEPT ![p] = t]
          /\ pc' = [pc EXCEPT ![p] = FirstPhase[left[t]]]
     \/ /\ \A t \in Transfers : left[t] = None
        /\ current' = [current EXCEPT ![p] = None]
        /\ pc' = [pc EXCEPT ![p] = "idle"]

\* The SELECT: at most BatchLimit pending rows, in no particular order.  A
\* poll that finds nothing leaves no trace.
Poll(p) ==
  /\ pc[p] = "idle"
  /\ Pending # {}
  /\ \E chosen \in SUBSET Pending :
       /\ Cardinality(chosen) = IF Cardinality(Pending) < BatchLimit
                                THEN Cardinality(Pending) ELSE BatchLimit
       /\ GoOn(p, [t \in Transfers |-> IF t \in chosen THEN lifecycleStep[t] ELSE None])
  /\ UNCHANGED <<tables, approvals, ledger, faults>>

At(p, t, phase) == pc[p] = phase /\ current[p] = t

Goto(p, phase) ==
  /\ pc' = [pc EXCEPT ![p] = phase]
  /\ UNCHANGED <<batch, current, verdict>>

\* processTransferStep returns.
Return(p) == GoOn(p, [batch[p] EXCEPT ![current[p]] = None])

(***************************************************************************)
(* processTransferStep, one await at a time; t is the transfer the poll is *)
(* at.                                                                     *)
(***************************************************************************)
\* The sanctions service answers and the answer is recorded; a service that
\* cannot be reached is replaced by a local clear decision.
RecordScreening(p, t) ==
  /\ At(p, t, "screen")
  /\ \E answer \in Answers :
       /\ screenings' = [screenings EXCEPT ![t] = @ \union {Screening(answer)}]
       /\ verdict' = [verdict EXCEPT ![p] = answer]
  /\ pc' = [pc EXCEPT ![p] = "mark"]
  /\ UNCHANGED <<row, events, notices, approvals, ledger, batch, current, faults>>

MarkClear(p, t) ==
  /\ At(p, t, "mark")
  /\ Passes(verdict[p])
  /\ complianceResult' = [complianceResult EXCEPT ![t] = "clear"]
  /\ Goto(p, "advance")
  /\ UNCHANGED <<status, lifecycleStep, stamps, logs, approvals, ledger, faults>>

\* Mutants of MarkStopped: success stays true; the event is logged all the same.
MarkStoppedGoesTo(p, t, phase) ==
  /\ At(p, t, "mark")
  /\ ~Passes(verdict[p])
  /\ status' = [status EXCEPT ![t] = "manual_review"]
  /\ complianceResult' = [complianceResult EXCEPT ![t] = Decision[verdict[p]]]
  /\ lifecycleStep' = [lifecycleStep EXCEPT ![t] = "Compliance"]
  /\ Goto(p, phase)
  /\ UNCHANGED <<stamps, logs, approvals, ledger, faults>>

MarkStoppedAdvances(p, t) == MarkStoppedGoesTo(p, t, "advance")
MarkStoppedLogs(p, t) == MarkStoppedGoesTo(p, t, "log")

MarkStopped(p, t) ==
  /\ At(p, t, "mark")
  /\ ~Passes(verdict[p])
  /\ status' = [status EXCEPT ![t] =
                  IF verdict[p] = "block" THEN "failed" ELSE "manual_review"]
  /\ complianceResult' = [complianceResult EXCEPT ![t] = Decision[verdict[p]]]
  /\ lifecycleStep' = [lifecycleStep EXCEPT ![t] = "Compliance"]
  /\ Return(p)
  /\ UNCHANGED <<stamps, logs, approvals, ledger, faults>>

\* A quote of the corridor service or, without one, a fallback rate.
LockRate(p, t) ==
  /\ At(p, t, "price")
  /\ fxRate' = fxRate \union {t}
  /\ Goto(p, "advance")
  /\ UNCHANGED <<state, provider, completedAt, logs, approvals, ledger, faults>>

RouteToProvider(p, t) ==
  /\ At(p, t, "route")
  /\ provider' = provider \union {t}
  /\ Goto(p, "debit")
  /\ UNCHANGED <<state, fxRate, completedAt, logs, approvals, ledger, faults>>

\* The postings: the worker reads no answer of the ledger, it goes on after an
\* acceptance, a refusal and a timeout alike.
PostDebit(p, t) ==
  /\ At(p, t, "debit")
  /\ debits' = [debits EXCEPT ![t] = Count(@)]
  /\ Goto(p, "advance")
  /\ UNCHANGED <<tables, approvals, confirms, faults>>

PostConfirm(p, t) ==
  /\ At(p, t, "confirm")
  /\ confirms' = confirms \union {t}
  /\ Goto(p, "advance")
  /\ UNCHANGED <<tables, approvals, debits, faults>>

MarkCompleted(p, t) ==
  /\ At(p, t, "complete")
  /\ completedAt' = completedAt \union {t}
  /\ Goto(p, "notify")
  /\ UNCHANGED <<state, fxRate, provider, logs, approvals, ledger, faults>>

\* emitWebhookEvent: no event without a webhook URL or a database handle.
EmitWebhook(p, t) ==
  /\ At(p, t, "notify")
  /\ \/ notices' = [notices EXCEPT ![t] = Count(@)]
     \/ UNCHANGED notices
  /\ Goto(p, "advance")
  /\ UNCHANGED <<row, screenings, events, approvals, ledger, faults>>

\* The success path's UPDATE, whatever the row's current step and status.
Advance(p, t) ==
  /\ At(p, t, "advance")
  /\ status' = [status EXCEPT ![t] = NextStatus[batch[p][t]]]
  /\ lifecycleStep' = [lifecycleStep EXCEPT ![t] = NextStep[batch[p][t]]]
  /\ Goto(p, "log")
  /\ UNCHANGED <<complianceResult, stamps, logs, approvals, ledger, faults>>

LogEvent(p, t) ==
  /\ At(p, t, "log")
  /\ events' = [events EXCEPT ![t] = @ \union {batch[p][t]}]
  /\ Return(p)
  /\ UNCHANGED <<row, screenings, notices, approvals, ledger, faults>>

\* A statement throws: the catch skips the rest of this transfer's turn.
StatementFails(p) ==
  /\ pc[p] \in Statements
  /\ Fault
  /\ Return(p)
  /\ UNCHANGED <<tables, approvals, ledger>>

(***************************************************************************)
(* The process.                                                            *)
(***************************************************************************)

\* A shutdown or a crash, and the start after it: polls and requests are gone.
Restart ==
  /\ \/ \E p \in Polls : pc[p] # "idle"
     \/ releasing # {}
  /\ Fault
  /\ pc' = [p \in Polls |-> "idle"]
  /\ batch' = [p \in Polls |-> [t \in Transfers |-> None]]
  /\ current' = [p \in Polls |-> None]
  /\ verdict' = [p \in Polls |-> "allow"]
  /\ releasing' = {}
  /\ UNCHANGED <<tables, approval, releases, ledger>>

(***************************************************************************)
(* Specification.                                                          *)
(***************************************************************************)
Turn(p, t) ==
  \/ RecordScreening(p, t) \/ MarkClear(p, t) \/ MarkStopped(p, t)
  \/ LockRate(p, t) \/ RouteToProvider(p, t) \/ PostDebit(p, t)
  \/ PostConfirm(p, t) \/ MarkCompleted(p, t) \/ EmitWebhook(p, t)
  \/ Advance(p, t) \/ LogEvent(p, t)

PollStep(p) == Poll(p) \/ \E t \in Transfers : Turn(p, t)

People(t) ==
  \/ Submit(t) \/ RequestRelease(t) \/ Release(t) \/ ReleaseFails(t)
  \/ \E action \in {"approved", "rejected"} : Decide(t, action)

Next ==
  \/ \E t \in Transfers : People(t)
  \/ \E p \in Polls : PollStep(p) \/ StatementFails(p)
  \/ Restart

Spec == Init /\ [][Next]_vars

(***************************************************************************)
(* The interval keeps firing and an await ends.  Participants,             *)
(* administrators and faults owe nothing.                                  *)
(***************************************************************************)
FairSpec == Spec /\ \A p \in Polls : WF_vars(PollStep(p))
=============================================================================
