---------------------------- MODULE WebhookDelivery ----------------------------
(***************************************************************************)
(* Webhook deliveries: the first attempt (onboarding/webhookService.ts),   *)
(* the retries of every server process (retryService.ts,                   *)
(* retryScheduler.ts) and the operator's procedures                        *)
(* (api/routers/apiKeyEnhancements.ts, eventHistoryService.ts).            *)
(*                                                                         *)
(* A retry reads the delivery and its webhook, posts, and writes both back *)
(* from what it read; nothing keeps two processes from the same row.       *)
(***************************************************************************)
EXTENDS Integers, FiniteSets

CONSTANTS
  Deliveries, Schedulers, Requests,
  RetryLimits,     \* values of max_retries the operator may choose ...
  HighestLimit,    \* ... and the highest the form takes (10 in the code)
  Threshold,       \* consecutive_failure_threshold
  MaxAsks,         \* bound: requests of the operator
  MaxFaults,       \* bound: database failures and deaths of schedulers
  None

ASSUME WebhookAssumption ==
  /\ HighestLimit \in Nat /\ RetryLimits \subseteq 0..HighestLimit /\ RetryLimits # {}
  /\ Threshold \in Nat \ {0}
  /\ MaxAsks \in Nat /\ MaxFaults \in Nat /\ None \notin Deliveries
  /\ IsFiniteSet(Schedulers)

VARIABLES
  log,      \* webhook_delivery_logs: status, attempts, and whether a retry is due
  hook,     \* the api_key_webhooks row they belong to
  sender,   \* sendWebhook per delivery: where it is
  asking,   \* scheduleRetry per request: the delivery it found failed
  queue,    \* per scheduler, the deliveries it listed ...
  run,      \* ... and the attempt it is in: phase, delivery, what it read, answer
  acked,    \* history: deliveries the receiver accepted
  posts,    \* history: requests made per delivery
  running,  \* the server processes of the deployment, fixed
  asks, faults

tables == <<log, hook>>
history == <<acked, posts>>
bounds == <<running, asks, faults>>
vars == <<tables, sender, asking, queue, run, history, bounds>>

UpTo(n, limit) == IF n > limit THEN limit ELSE n

Hooks == [exists : BOOLEAN, retriesEnabled : BOOLEAN, maxRetries : RetryLimits,
          failures : 0..Threshold]
Attempt(phase, d, attempts, seen, ok) ==
  [phase |-> phase, delivery |-> d, attempts |-> attempts, hook |-> seen, ok |-> ok]
Resting == Attempt("idle", None, 0, None, FALSE)

Init ==
  /\ log = [d \in Deliveries |-> [status |-> "absent", attempts |-> 0, due |-> "never"]]
  /\ \E limit \in RetryLimits :
       hook = [exists |-> TRUE, retriesEnabled |-> TRUE, maxRetries |-> limit, failures |-> 0]
  /\ sender = [d \in Deliveries |-> "idle"] /\ asking = [q \in Requests |-> None]
  /\ queue = [s \in Schedulers |-> {}] /\ run = [s \in Schedulers |-> Resting]
  /\ acked = {} /\ posts = [d \in Deliveries |-> 0]
  /\ running \in (SUBSET Schedulers) \ {{}} /\ asks = 0 /\ faults = 0

Row(d, status, attempts, due) ==
  log' = [log EXCEPT ![d] = [status |-> status, attempts |-> attempts, due |-> due]]

\* A POST: the receiver accepts it ("ok"), refuses it ("bad"), or no answer comes
\* back, although it may have accepted it.
Posted(d, answer) ==
  /\ posts' = [posts EXCEPT ![d] = @ + 1]
  /\ \/ answer # "bad" /\ acked' = acked \union {d}
     \/ answer # "ok" /\ UNCHANGED acked

Answers == {"ok", "bad", "error"}

(***************************************************************************)
(* sendWebhook.                                                            *)
(***************************************************************************)
\* Mutant: the attempt is counted before it is made.
CountedAhead == 1
CountedAtInsert == 0

InsertLog(d) ==
  /\ hook.exists /\ log[d].status = "absent"
  /\ Row(d, "pending", CountedAtInsert, "never")
  /\ sender' = [sender EXCEPT ![d] = "posting"]
  /\ UNCHANGED <<hook, asking, queue, run, history, bounds>>

PostFirst(d, answer) ==
  /\ sender[d] = "posting" /\ Posted(d, answer)
  /\ sender' = [sender EXCEPT ![d] = answer]
  /\ UNCHANGED <<tables, asking, queue, run, bounds>>

\* The UPDATE leaves next_retry_at alone.
FirstRow(d) == Row(d, IF sender[d] = "ok" THEN "delivered" ELSE "failed", 1, log[d].due)

WriteFirst(d) ==
  /\ sender[d] \in Answers /\ FirstRow(d)
  /\ sender' = [sender EXCEPT ![d] = "idle"]
  /\ UNCHANGED <<hook, asking, queue, run, history, bounds>>

\* The UPDATE fails, applied or not: the catch block writes "failed" over it, or
\* fails as well.  A process that dies leaves the row as it is.
FirstFails(d) ==
  /\ faults < MaxFaults /\ faults' = faults + 1
  /\ sender[d] \in Answers /\ (FirstRow(d) \/ UNCHANGED log)
  /\ sender' = [sender EXCEPT ![d] = IF sender[d] = "error" THEN "idle" ELSE "error"]
  /\ UNCHANGED <<hook, asking, queue, run, history, running, asks>>

SenderDies(d) ==
  /\ sender[d] # "idle" /\ sender' = [sender EXCEPT ![d] = "idle"]
  /\ UNCHANGED <<tables, asking, queue, run, history, bounds>>

(***************************************************************************)
(* The scheduler's batch: getPendingRetries, then one attempt at a time.   *)
(***************************************************************************)
\* Mutants: delivered deliveries are listed as well; failed ones are, instead.
DueAgain == {d \in Deliveries : log[d].due = "now" \/ log[d].status = "delivered"}
DueFailed == {d \in Deliveries : log[d].status = "failed" /\ log[d].due = "now"}
Due == {d \in Deliveries : log[d].status = "pending" /\ log[d].due = "now"}

Poll(s) ==
  /\ s \in running /\ queue[s] = {} /\ run[s].phase = "idle" /\ Due # {}
  /\ queue' = [queue EXCEPT ![s] = Due]
  /\ UNCHANGED <<tables, sender, asking, run, history, bounds>>

At(s, phase) == run[s].phase = phase
Becomes(s, attempt) == run' = [run EXCEPT ![s] = attempt]
Goto(s, phase) ==
  Becomes(s, Attempt(phase, run[s].delivery, run[s].attempts, run[s].hook, run[s].ok))
Done(s) == Becomes(s, Resting)

\* Neither the row's status nor retries_enabled is looked at.
Take(s, d) ==
  /\ At(s, "idle") /\ d \in queue[s]
  /\ queue' = [queue EXCEPT ![s] = @ \ {d}]
  /\ IF hook.exists
     THEN Becomes(s, Attempt("posting", d, log[d].attempts, hook, FALSE)) /\ UNCHANGED log
     ELSE Row(d, "failed", log[d].attempts, "never") /\ UNCHANGED run
  /\ UNCHANGED <<hook, sender, asking, history, bounds>>

Post(s, answer) ==
  /\ At(s, "posting") /\ Posted(run[s].delivery, answer)
  /\ Becomes(s, Attempt(IF answer = "error" THEN "catching" ELSE "logging",
                        run[s].delivery, run[s].attempts, run[s].hook, answer = "ok"))
  /\ UNCHANGED <<tables, sender, asking, queue, bounds>>

\* Is the attempt that was just made the last one?  Mutant: one is always left.
NeverLast(s) == FALSE
IsLast(s) == run[s].attempts + 1 >= run[s].hook.maxRetries

\* Mutant: every answer counts as a delivery.
Accepts(s) == TRUE
Accepted(s) == run[s].ok

LoggedRow(s) ==
  LET d == run[s].delivery
      n == run[s].attempts + 1
  IN \/ Accepted(s) /\ Row(d, "delivered", n, "never")
     \/ ~Accepted(s) /\ IsLast(s) /\ Row(d, "failed", n, "never")
     \/ ~Accepted(s) /\ ~IsLast(s) /\ Row(d, "pending", n, "later")

WriteLog(s) ==
  /\ At(s, "logging") /\ LoggedRow(s)
  /\ IF Accepted(s) \/ IsLast(s) THEN Goto(s, "counting") ELSE Done(s)
  /\ UNCHANGED <<hook, sender, asking, queue, history, bounds>>

SetHook(exists, on, limit, failures) ==
  hook' = [exists |-> exists, retriesEnabled |-> on, maxRetries |-> limit, failures |-> failures]

\* consecutive_failures and retries_enabled are written from what was read.
CountedHook(s) ==
  LET seen == run[s].hook
      n == UpTo(seen.failures + 1, Threshold)
  IN \/ ~hook.exists /\ UNCHANGED hook
     \/ hook.exists /\ Accepted(s) /\ SetHook(TRUE, hook.retriesEnabled, hook.maxRetries, 0)
     \/ /\ hook.exists /\ ~Accepted(s)
        /\ SetHook(TRUE, n < Threshold /\ seen.retriesEnabled, hook.maxRetries, n)

WriteHook(s) ==
  /\ At(s, "counting") /\ CountedHook(s) /\ Done(s)
  /\ UNCHANGED <<log, sender, asking, queue, history, bounds>>

\* The catch block reads both rows again ...
CatchError(s) ==
  /\ At(s, "catching")
  /\ IF hook.exists
     THEN LET d == run[s].delivery
          IN Becomes(s, Attempt("rewriting", d, log[d].attempts, hook, run[s].ok))
     ELSE Done(s)
  /\ UNCHANGED <<tables, sender, asking, queue, history, bounds>>

\* ... and writes the delivery: a last attempt is not counted.
Rewritten(s) ==
  IF IsLast(s)
  THEN Row(run[s].delivery, "failed", log[run[s].delivery].attempts, "never")
  ELSE Row(run[s].delivery, "pending", run[s].attempts + 1, "later")

Rewrite(s) ==
  /\ At(s, "rewriting") /\ Rewritten(s) /\ Done(s)
  /\ UNCHANGED <<hook, sender, asking, queue, history, bounds>>

EndBatch(s) == Done(s) /\ queue' = [queue EXCEPT ![s] = {}]

\* A statement fails, applied or not.  In the try block that leads to the catch
\* block, where it ends the batch.
DatabaseFails(s) ==
  /\ faults < MaxFaults /\ faults' = faults + 1
  /\ \/ At(s, "posting") /\ UNCHANGED tables
     \/ At(s, "logging") /\ UNCHANGED hook /\ (LoggedRow(s) \/ UNCHANGED log)
     \/ At(s, "counting") /\ UNCHANGED log /\ (CountedHook(s) \/ UNCHANGED hook)
     \/ At(s, "catching") /\ UNCHANGED tables
     \/ At(s, "rewriting") /\ UNCHANGED hook /\ (Rewritten(s) \/ UNCHANGED log)
  /\ IF run[s].phase \in {"posting", "logging", "counting"}
     THEN Goto(s, "catching") /\ UNCHANGED queue
     ELSE EndBatch(s)
  /\ UNCHANGED <<sender, asking, history, running, asks>>

SchedulerDies(s) ==
  /\ faults < MaxFaults /\ faults' = faults + 1
  /\ queue[s] # {} \/ run[s].phase # "idle"
  /\ EndBatch(s)
  /\ UNCHANGED <<tables, sender, asking, history, running, asks>>

BackoffPasses(d) ==
  /\ log[d].due = "later" /\ Row(d, log[d].status, log[d].attempts, "now")
  /\ UNCHANGED <<hook, sender, asking, queue, run, history, bounds>>

(***************************************************************************)
(* The operator.                                                           *)
(***************************************************************************)
Ask == asks < MaxAsks /\ asks' = asks + 1 /\ UNCHANGED <<running, faults>>

\* scheduleRetry checks, then writes.
CheckRetry(q, d) ==
  /\ Ask /\ asking[q] = None
  /\ log[d].status = "failed" /\ hook.exists /\ hook.retriesEnabled
  /\ log[d].attempts < hook.maxRetries
  /\ asking' = [asking EXCEPT ![q] = d]
  /\ UNCHANGED <<tables, sender, queue, run, history>>

ScheduleRetry(q) ==
  /\ asking[q] # None /\ Row(asking[q], "pending", log[asking[q]].attempts, "later")
  /\ asking' = [asking EXCEPT ![q] = None]
  /\ UNCHANGED <<hook, sender, queue, run, history, bounds>>

\* next_retry_at stays as it is: null, unless a retry was scheduled already.
RetryFailedDelivery(d) ==
  /\ Ask /\ log[d].status # "absent"
  /\ Row(d, "pending", log[d].attempts, log[d].due)
  /\ UNCHANGED <<hook, sender, asking, queue, run, history>>

\* updateConfig, pause and resume, and deleteWebhook.
Configure ==
  /\ Ask /\ hook.exists
  /\ \/ \E limit \in RetryLimits, on \in BOOLEAN : SetHook(TRUE, on, limit, hook.failures)
     \/ SetHook(FALSE, hook.retriesEnabled, hook.maxRetries, hook.failures)
  /\ UNCHANGED <<log, sender, asking, queue, run, history>>

DeliveryStep(d) ==
  \/ InsertLog(d) \/ WriteFirst(d) \/ FirstFails(d) \/ SenderDies(d)
  \/ BackoffPasses(d) \/ RetryFailedDelivery(d)
  \/ \E answer \in Answers : PostFirst(d, answer)

Work(s) ==
  \/ Poll(s) \/ WriteLog(s) \/ WriteHook(s) \/ CatchError(s) \/ Rewrite(s)
  \/ \E d \in Deliveries : Take(s, d)
  \/ \E answer \in Answers : Post(s, answer)

Next ==
  \/ \E d \in Deliveries : DeliveryStep(d)
  \/ \E s \in Schedulers : Work(s) \/ DatabaseFails(s) \/ SchedulerDies(s)
  \/ \E q \in Requests : ScheduleRetry(q) \/ \E d \in Deliveries : CheckRetry(q, d)
  \/ Configure

Spec == Init /\ [][Next]_vars

\* Requests end, time passes, and a scheduler polls every minute.
Fairness ==
  /\ \A d \in Deliveries : WF_vars(BackoffPasses(d))
  /\ \A s \in Schedulers : WF_vars(Work(s))

FairSpec == Spec /\ Fairness
=============================================================================
