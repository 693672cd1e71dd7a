# Verification of the payment switch

TLA+ models, TLC checks and TLAPS proofs for the part of this repository that
decides whether money has moved (the execution of settlement windows, their
quarantine when the outcome is unknown, their recovery from evidence, the
two-phase transfers of Mojaloop, the lifecycle of an outbound transfer), and for
three parts around it where several processes share state: the circuit breaker,
multipart uploads with their cleanup, and webhook deliveries with their retries.

## 1. The system

The repository is a payment switch in four languages around PostgreSQL,
TigerBeetle and Kafka. Its components, and what makes each of them correct:

| Component | Where (`src/`) | State | Operations | Correct when |
|---|---|---|---|---|
| Settlement service (Python) | `payment-core/services/settlement/routers.py`, `persistence.py` | rows of the control plane | create, close, execute a window; admit, complete, quarantine a saga | money moves only after durable intent; a window is final only if the ledger posted; doubt is recorded |
| Reconciliation worker (Python) | `.../settlement/reconciliation_worker.py` | leases on cases | claim a batch, look up, resolve, reopen | a case has one owner; only proof ends a quarantine; the backlog drains |
| Control-plane schema | `drizzle/0051` to `0053` | windows, keys, sagas, cases, outbox | row triggers, unique keys | no illegal transition commits |
| Settlement evidence (Go) | `payment-core/go-services/internal/reconciliation/projection.go`, `rail_*.go`, `drizzle/0054` | expectations, confirmations, signing keys | look a settlement up; ingest a signed confirmation; retire and revoke keys | "settled" only on a proof that existed at one instant; a confirmation never revives |
| Authoritative ledger | external (TigerBeetle and its front end) | posted transfers | execute a settlement, look a transfer up | one posting per canonical transfer ID |
| Mojaloop transfer path (Go) | `payment-core/go-services/internal/mojaloop` | transfer and participant rows, TigerBeetle holds and accounts | prepare, fulfil, abort, register | a row names a hold of its own transfer; every hold ends; a valid fulfilment posts |
| Transfer lifecycle worker (TypeScript) | `server/services/transferLifecycleWorker.ts`, `outboundRemittanceDbService.ts` | outbound transfers, screenings, events, notices | submit a transfer, advance it through seven steps, release it from hold | each step was earned by the ones before it; what is stopped stays so; every transfer comes to rest |
| Circuit breaker (TypeScript) | `server/middleware/circuitBreaker.ts`, `redisCircuitBreakerState.ts`, `lib/grpcClient.ts` | an object per process; a hash and leases in Redis | admit a call, record its outcome, open, probe, close | few probes reach a service that may be down, only they decide, and it is called again once it is up |
| Multipart uploads (TypeScript) | `server/onboarding/technicalOnboardingRouter.ts`, `storageMultipart.ts`, `jobs/cleanupJob.ts` | session rows, parts in the object store | initiate, complete, abort; claim, abort, give up | rows tell what the store holds; running uploads are left alone; the parts of expired ones are given back |
| Webhook deliveries (TypeScript) | `server/onboarding/webhookService.ts`, `retryService.ts`, `retryScheduler.ts`, `eventHistoryService.ts`, `server/api/routers/apiKeyEnhancements.ts` | delivery log, webhook configuration | send, list, retry, give up; schedule, reopen, configure, delete | delivered means accepted; attempts counted were made; every retry ends |
| Transactional outbox (Go, TypeScript) | `.../internal/messaging/transactional_outbox.go`, `server/messaging/transactionalOutbox.ts` | messages, dead letters, inbox | add, process, retry, deduplicate | without callers |
| Onboarding provisioning (Go) | `.../internal/onboarding/provisioning_saga.go`, `outbox_publisher.go` | saga steps, external resources, events | execute, roll back, resume, publish | its store has no implementation |
| HTTP idempotency (TypeScript) | `server/middleware/idempotencyMiddleware.ts` | stored responses | look up, handle, store | without callers |
| Rate limits, Rust breaker | Rust `gateway-engine` | counters | admit, record | local state machines |
| Demo routers | `server/routers/domesticPaymentsRouter.ts`, `inboundRemittanceRouter.ts` | fixtures in memory | | |
| Others | Go CQRS, disputes, events; Rust ledger and ring buffer; Temporal workflows; portals, mobile, deployment | | | |

The first nine are modelled, wholly or in part. The rest is listed in `PROJECT.json` with its
status; section 8 says what comes next and what is left out for good.

### How the settlement components interact

A caller closes a window and posts `/execute`. The handler reads the window,
admits the saga (idempotency key, saga and outbox event in one transaction),
calls the ledger over HTTP with a timeout, and then commits either the
completion (saga, key, window, event) or, on any exception after dispatch, the
quarantine (window, saga, key, case, event). Nothing but the rows connects it
to the worker, which polls for open cases and for cases whose lease ran out,
asks the Go projection about each, and resolves or reopens it. The projection
reads the ledger, the saga, the expectation, the confirmation and the signing
key one after the other; the confirmation was put there by the ingestion
handler, which itself reads expectation and key before it inserts.

### How an outbound transfer moves

`createTransfer` inserts a row at `A-Admission`. Every five seconds
`setInterval` starts a poll: it selects up to ten pending rows and takes each
through one step. A step calls a service (sanctions, corridor, ledger) with a
timeout of ten seconds, writes what it learnt, advances the row and logs an
event, one await after the other, with `UPDATE ... WHERE id`. A poll that is
still waiting does not keep the next one from starting. A transfer that is
escalated is held until an administrator approves its release, which puts it
back to `D-Pricing`; the last step records a notice for the participant.

### How a Mojaloop transfer moves

`PrepareTransfer` looks the transfer up in PostgreSQL, places a hold in
TigerBeetle under a random identifier, with the seconds left to the expiration
as its timeout, and inserts the row as RESERVED. `FulfillTransfer` and
`AbortTransfer` load the row, post or void the hold and upsert the row. The
three calls of a request share nothing but its locals; requests for one transfer
run side by side, and each may end after any of its calls. TigerBeetle releases
a hold whose timeout passes. Calls go over pooled connections, one at a time on
each; neither a call nor its answer says what it belongs to, and a connection
returns to the pool also when the answer was given up after ten seconds. Whoever
gets it next reads that answer, and an answer that lists no errors is a success.

### How calls pass the circuit breaker

`createGrpcServiceClient` wraps each call in `execute` of the breaker of its
service, one object per server process. With `CIRCUIT_BREAKER_DISTRIBUTED` the
object asks Redis before the call (`ACQUIRE_SCRIPT` opens the half-open period
and grants leases to probes) and tells it the outcome afterwards
(`RECORD_SCRIPT` trips or closes the breaker and takes the lease back). The
object keeps counts of its own beside that, and a call may outlast both its lease
and the half-open period it began in.

### How uploads are cleaned up

A client's procedure first calls the object store and then writes the session
row, unconditionally. Every server process (each six hours) and a CronJob (each
fifteen minutes, at most five of them) run `runMultipartCleanupOnce`: one
transaction claims expired rows, then each is aborted in the store and its row
written, from what the claim returned.

### How a webhook is retried

`sendWebhook` inserts a delivery, posts it and writes the result. A failed
delivery is opened again by an operator (`scheduleRetry`,
`retryFailedDelivery`). Every server process starts a scheduler that each minute
lists the deliveries that are due and tries one after the other: it reads
delivery and webhook, posts, and writes both from what it read.

### What is hard here

* The window status is read once, before admission: a second request, a forced
  close or a worker may change it before the call is dispatched.
* The ledger may execute a call long after the caller gave up on it, and an
  acknowledgement of a commit may be lost.
* Five transactions write window, saga, key, case and outbox in different
  combinations, each with its own WHERE clauses; their agreement is nowhere
  checked as a whole.
* Their statements interleave with those of other clients, wait for rows others
  hold, in different orders, and may be aborted to break a deadlock.
* Processes die between any two steps; a worker's lease can run out while the
  worker is still busy with its batch.
* Evidence is read in five statements while keys are revoked and expire.
* Polls of the lifecycle worker overlap, each with a snapshot of its own, and
  their writes ask for nothing about the row; any of their statements may fail
  between an effect and its record.
* A Mojaloop request may stop between hold and row, two prepares of one
  transfer place two holds, and an answer may be read by the wrong request.
* A sanctions answer is tested twice, once for the record and once for the branch,
  and the two tests differ.
* Calls that were admitted in one period of the breaker report in another; leases
  run out while their holders run, and processes die with them.
* Cleanup workers, clients and schedulers of several processes act on rows they
  read before a call of up to 30 seconds, and write without looking again.

## 2. Modules

| Module | Models | Extends / uses |
|---|---|---|
| `SettlementStore` | the tables, the row triggers of migrations 0051 to 0053, one action per transaction of the service and the worker | |
| `SettlementLocks` | the same transactions statement by statement: row locks, waits, rollbacks, deadlocks; fairness | `SettlementStore` |
| `SettlementLocksProperties`, `SettlementLocksProofs` | that they implement those of `SettlementStore`, and other properties; proofs | the one before, TLAPS |
| `SettlementSaga` | concurrent `execute_settlement` calls, the ledger, the evidence steps, the workers; fairness | `SettlementStore`, `RailProof` |
| `SettlementPromise` | abstract: a settlement is unrecorded, intended, in doubt or final, and its money moved or not | |
| `SettlementProperties` | properties of `SettlementSaga` and its refinement mapping | `SettlementSaga`, `SettlementPromise` |
| `SettlementProofs` | proofs | `SettlementProperties`, TLAPS |
| `RailProof` | abstract: an expectation, then one confirmation that is valid or void, and never valid again | |
| `RailEvidence` | lookups and ingestions read by read, signing keys and the clock | |
| `RailEvidenceProperties` | history of running lookups, properties, mapping to `RailProof` | `RailEvidence`, `RailProof` |
| `RailEvidenceProofs` | proofs | `RailEvidenceProperties`, TLAPS |
| `OutboundMilestones` | abstract: cleared, priced, routed, debited, confirmed, completed, told, in this order, and nothing is taken back | |
| `OutboundLifecycle` | overlapping polls of the worker, await by await; submission, approvals and releases; failures; the ledger | |
| `OutboundProperties` | properties of `OutboundLifecycle` and its mapping to `OutboundMilestones` | `OutboundLifecycle`, `OutboundMilestones` |
| `OutboundProofs` | proofs | `OutboundProperties`, TLAPS |
| `MojaloopTransfer` | prepare, fulfil, abort and registration, call by call over pooled connections, against TigerBeetle and PostgreSQL | |
| `MojaloopProperties`, `MojaloopProofs` | properties of `MojaloopTransfer`; proofs | the one before, TLAPS |
| `CircuitContract` | abstract: closed, open until the reset time has passed, half-open, closed or open again | |
| `CircuitBreaker` | `execute` await by await in several processes, the two scripts, leases, restarts; fairness | |
| `CircuitProperties`, `CircuitProofs` | properties of `CircuitBreaker` and its mappings to `CircuitContract`; proofs | `CircuitContract`, TLAPS |
| `MultipartUpload` | the client's procedures, the object store, the cleanup workers, time; fairness | |
| `UploadProperties`, `UploadProofs` | properties of `MultipartUpload`; proofs | the one before, TLAPS |
| `WebhookDelivery` | first attempt, schedulers statement by statement, the operator, failing statements; fairness | |
| `WebhookProperties`, `WebhookProofs` | properties of `WebhookDelivery`; proofs | the one before, TLAPS |
| `MCSettlement`, `MCLocks`, `MCRailEvidence`, `MCOutbound`, `MCMojaloop`, `MCCircuit`, `MCUpload`, `MCWebhook` | instances for TLC | |

The two halves meet in `RailProof`: `SettlementSaga` takes
`RecordExpectation`, `IngestConfirmation` and `RevokeSigningKey` from it, and
`RailEvidence` is proved to implement it. A lookup is one atomic step in
`SettlementSaga`; `AnswersWereTrue` is what justifies that: each answer of the five-read lookup equals the answer of an
atomic lookup at some instant of the call. A "pending" that is a read error is
`LookupUnsettled`, which may happen at any time.

### State and actions

*Rows.* Settlement identity, key, saga and case are derived from the window
(`settlement_id = "settlement-" + windowId`), so every table is a function of
the window. `certificate` keeps of `finality_certificate` only who produced it:
the ledger's answer or the rail's confirmation. `older` stands for the order of
`created_at`. `lease` is `claim_expires_at` against the clock.

*Transactions.* A transaction of the code is one action: PostgreSQL commits it
or nothing. An UPDATE in it is `UpdateSaga`, `UpdateKey` or `MoveWindow`, with
the WHERE clause of the code and the trigger as an enabling condition. Failing
to commit is an action of its own (`AdmitFails`, `CompleteFails`,
`QuarantineFails`, `ResolveFails`), and a commit whose acknowledgement is lost
is an alternative of the committing action (`Admit`, `Complete`, `Resolve`).

*Statements.* `SettlementLocks` takes the same transactions apart. The variables
of `SettlementStore` are what is committed; `held` are the rows a client has
changed or locked and `at` its next statement. `Matches` is the WHERE or ON
CONFLICT clause on the committed rows: if it fails the statement does nothing
(`Skip`) or the code raises (`Raise`), if the row is held by another client it
waits, and else it is locked. `Commit` writes what is held. A client keeps no
other knowledge of what it read, as the code keeps none. Claiming and reopening
are one locking statement each and meet the locks of the others in `Locked`.

*Requests.* `pc` follows the awaits of `execute_settlement`: admitting,
dispatching, awaiting, answered, failed. `calls` holds the messages to the
ledger; a message outlives its sender, so `LedgerExecutes` may post after
`AnswerFails` or `CrashRequest`.

*Workers.* `batch` is what `claim_cases` returned, `handling` the case in
`process_case`, `verdict` what the lookup said. `claim_cases` is
`FOR UPDATE SKIP LOCKED`: a claim may pass over cases whose rows another
worker's transaction may have locked. `CrashWorker` also stands for an
exception out of `reopen_case`, which ends `run_forever`; a restarted process
has a new identity (`claimed_by` contains the process).

*Evidence.* `expectations` are those that match the posting; a payload that
fails verification for a reason other than its key is a refusal
(`IngestFails`). `term` is the clock against a key's validity interval.

*Outbound transfers.* `status`, `lifecycleStep` and `complianceResult` are
columns; of `fx_rate`, `provider` and `completed_at` only whether they are set
is kept. `screenings`, `events` and `notices` are the rows of the three tables
the worker appends to. `batch` is a poll's snapshot: the step each selected
transfer was at, `current` the transfer in `processTransferStep`, `pc` the await
it is at and `verdict` the sanctions answer in between. The row of a screening
holds a decision; the model keeps with it the answer it stands for, since the
column (`Decision`) and the branch taken afterwards (`Passes`) are two tests of
it: an answer `"other"` than the three decisions is recorded as escalated and
passes. Each await that can be told apart is an action (`RecordScreening`, `MarkClear`, `MarkStopped`,
`LockRate`, `RouteToProvider`, `PostDebit`, `PostConfirm`, `MarkCompleted`,
`EmitWebhook`, `Advance`, `LogEvent`); `StatementFails` is the catch. `debits`
counts the debit calls and `confirms` says which transfers had a confirmation
call; the worker reads no answer of the ledger, so none is modelled.
Polls are the callbacks of `setInterval` that may run at the same time; those of
several server processes, which all start the worker, are no different.

*Mojaloop.* `holds` maps the identifiers TigerBeetle was given to the transfer,
the state and the timeout of the hold; `rows` keeps of `mojaloop_transfers` the
state and `tigerbeetle_id`. A request is `Start`ed by its lookup, `Send`s its
call on a connection (`MoveHold`, `CreateAccount`), `Receive`s an answer and
saves; `Ends` is its end at any point: death, refusal, an answer that does not come
in time, a database error. `calls` and `answers` are what waits on each connection:
TigerBeetle serves the calls in their order (`Serve`), and an answer belongs to
whoever reads on the connection. A reader that stops inside an answer leaves the
connection `torn`: what the next one takes for a length is any bytes. Two
variables are history: `drawn`, the transfer an identifier was drawn for, and
`misled`, what a request took for created on the answer to another call. `Loaded`
is what `GetTransfer` puts into `PendingTransferID`: nothing. `Wide` are the
identifiers of 2^63 and more, which the driver or the BIGINT column refuses.
`Timeouts` is the conversion to `uint32`, where a negative number of seconds
depends on the processor (Go leaves it open). A request that is answered from its
lookup is no step.

*Circuit breaker.* `shared` is the Redis hash and `leases` the set of tokens;
`alive` are those whose lease key has not expired. `cooled` says that the clock
has passed `nextAttempt`; the clocks of processes are taken to agree. A call is
idle, asked (the script ran, its answer is on the way), running, recording (the
object counted the outcome), recorded; with local state it is idle or running.
Counters saturate at their thresholds, with which alone they are compared.
`OutcomeOf` joins what the service does to what `isFailure` makes of it.

*Uploads.* `parts` is the object store, `pending` holds the row writes of
procedures that have called it (their number is not bounded, their kinds are),
`held` and `attempt` what a worker's claim returned, `current` and `result` the
row it is at. `expired` and `claim` are the clock against `expires_at` and
against 15 minutes after `cleanup_claimed_at`.

*Webhooks.* `log` keeps status, attempts and whether `next_retry_at` is null,
ahead or past; `hook` the columns the retries use. `queue` is what a scheduler
listed, `run` the attempt it is in with what it read. A statement that fails may
have been applied (`DatabaseFails`); a POST without an answer may have been
accepted (`Posted`). `running` are the server processes, fixed at the start.

## 3. Runs

| Run | Instance | Shows |
|---|---|---|
| `SettlementRaces` | 1 window, 2 requests, 2 workers | all safety properties and the refinement of `SettlementPromise` |
| `SettlementDrain` | 2 windows, 1 request, 2 workers, batches of 2, fair | a provable quarantine is resolved although a worker may crash |
| `LockRaces` | 1 window, 3 requests, 2 workers, fair | interleaved transactions are atomic; only outcomes deadlock; transactions end; admitted settlements are attended |
| `EvidenceRaces` | 1 transfer, 2 keys, 1 lookup, 2 ingestions | lookups are justified, confirmations verified, rows implement `RailProof` |
| `OutboundRaces` | 1 transfer, 2 polls, 1 release, fair | what rows, events and calls show was earned; the refinement of `OutboundMilestones`; a transfer comes to rest although polls move it back |
| `OutboundSerial` | 2 transfers, 1 poll, batches of 2, 2 releases each, 1 fault | what holds as long as polls do not overlap |
| `BreakerRaces` | 2 calls in 1 or 2 processes, with and without Redis, fair | probes are limited and they alone decide; the contract is refined; the breaker closes again |
| `UploadRaces` | 2 uploads, 2 workers, 2 attempts, fair | rows agree with the store, running uploads are left alone, expired parts are given back |
| `WebhookRaces` | 1 delivery, up to 2 schedulers, 2 requests, 1 fault, fair | the log records only what happened; every retry ends |
| `MojaloopRaces` | 2 transfers, 2 requests, 2 participants, 2 identifiers, 1 connection with 1 unread call or answer, fair ledger | rows are backed by holds, or misled; holds end |
| `SanctionsOverruled` | 1 transfer, 1 poll, 1 fault | *violated*, finding 1 |
| `UnpostedFulfilment` | 1 transfer, 3 identifiers (1 wide), otherwise as `MojaloopRaces` | *violated*, finding 2 |

### Properties

* `FinalityIsBacked`: a settled window was posted, and one settled by
  reconciliation has its expectation and a confirmation.
* `StoresAgree`: window, saga, key and certificate agree on finality, doubt and
  progress; no key reports completion of what is not final.
* `QuarantineHasCase`: quarantined exactly while a case is unresolved; without
  it a quarantine is invisible to the workers, or a case can never be resolved.
* `IntentPrecedesMoney`: no message and no posting without durable intent.
* `EventsMatchOutcome`: outbox consumers learn the outcome that happened.
* `FinalIsImmutable`, `QuarantineNeedsProof`, `LiveClaimIsExclusive`: what no
  step may do to a settled window, a quarantined one, a live claim.
* `KeepsPromise`: the whole system implements `SettlementPromise`.
* `QuarantineDrains`: a case that is provable is resolved or loses its proof.
* `TransactionsAreAtomic`: at READ COMMITTED, with the locks its statements take,
  each transaction has the effect it has alone; `SettlementSaga` rests on it.
* `OnlyOutcomesDeadlock`: a deadlock is one of completions with a quarantine, so
  neither an admission nor a worker's resolution is aborted by one.
* `TransactionsEnd`: no client waits for a row for ever.
* `AdmittedIsAttended`: while nothing is lost, whoever loses a race or a deadlock
  (its quarantine is then only logged) leaves another request to decide. It is not
  "an admitted settlement is decided": three callers that keep executing one
  window can deadlock again and again, one victim's retry after the other.
* `ConfirmationWasVerified`, `AnswersWereTrue`, `ImplementsRailProof`: see
  section 2.
* `PaymentIsBacked`, `RowIsBacked`, `EventsAreTruthful`: behind a debit, the
  step a row shows and an audit event stands everything that had to come first,
  however stale the polls are. Cleared is a transfer that was released, screened
  clear, or screened with an answer the worker does not know: the code lets that
  one pass (section 4), and these properties exclude every other way.
* `ImplementsMilestones`: no step skips a milestone or takes one back.
* `StoppedStays`, `RepeatsAreCharged`: hold while polls do not overlap. As soon
  as they do, the first does not.
* `PendingTransfersStop`: a pending transfer is completed, failed or held.
* `RowsAreBacked`: whatever requests race or stop half-way, a transfer row names a
  hold of its own transfer and a participant row an account that exists. A request
  that was misled by another's answer is the exception the code makes (section 4):
  its row may name what does not exist, but no hold of another transfer.
* `HoldsEnd`: a hold that was left behind, by a death, a lost answer, a refused
  row or a lost race, is released; except if the expiration passed between the
  handler's check and the conversion, where amd64 makes it 136 years.
* `ProbesWithinLimit`, `OnlyProbesDecide`: live leases are limited over all
  processes, and no late answer of an ordinary call ends a half-open period.
* `KeepsContract`, `ObjectsKeepContract`: Redis, and each object that decides
  alone, go round as `CircuitContract` says.
* `Recovers`: once the service answers and faults stop, the breaker closes for
  good, whatever leases and counts the past has left.
* `RowsTellTheTruth`: completed and aborted rows agree with the object store.
* `UploadsInProgressAreLeftAlone`, `UnclaimedCompletionIsFinal`: what no worker
  may do, however late.
* `ExpiredUploadsAreReclaimed`: parts are given back or have had their attempts.
* `DeliveredIsAccepted`, `CountedAttemptsWereMade`: what the log says happened,
  until a failed statement makes the count uncertain.
* `AttemptsAreLimited`: one process passes the highest limit by no more than an
  attempt per request of the operator; several processes do (section 4).
* `OnlyOperatorsReopen`: retries neither list nor overwrite what is delivered; it
  holds for one process without faults, and for two it does not.
* `RetriesComeToRest`: a retry that is scheduled ends.

Every part has a type invariant `TypeOK`, which is a theorem (`TypeCorrect`).

Each property of a passing run has a mutant in `PROJECT.json`: an altered
operator, kept next to the one it alters and marked `Mutant`, under which the
run fails.

### Bounds

Windows interact only through batches and the outbox, which is a set of
per-window events; one window therefore suffices for the safety of a
settlement and two for batches. Two requests give
every pair of overlapping executions, two workers every pair of owners. One
lookup suffices since lookups write nothing; two ingestions race for one row.
`LockRaces` has a third request: two can deadlock while the third wins or loses.
The models of settlement and evidence have no counters: nothing is cut off, the runs
are exhaustive.

`OutboundLifecycle` counts releases, faults, debit calls and notices:
`MaxReleases` and `MaxFaults` bound what people and failures do, `MaxCount` is
where the two counters saturate. It is 4 where `RepeatsAreCharged` compares them
with an allowance of at most 3, and 1 where only "at all" matters. A transfer's
row is touched by its own steps only, so one suffices for the races of two polls;
two make a batch in which the second waits with an older snapshot. The second
release is the one that finds its transfer already further on. A third poll would
interleave as the second does. Overlap and faults are not combined in a run: the
proofs cover that combination for the safety properties.

`BreakerRaces` has two calls, which is a probe and a late ordinary call, or two
that compete for one probe; the thresholds (1 failure, 2 successes, 1 probe) make
counters cross them and half-open periods last longer than a call. Three tokens
are enough for two calls and a leaked lease. `UploadRaces` has two rows since
batches are sets of rows, and two workers since a claim can be taken over once.
`WebhookRaces` bounds what operators do (`MaxAsks`) and failures (`MaxFaults`);
deliveries meet only in a batch, which `EndBatch` abandons, so one is enough.
`RetryLimits` are limits the webhook may be given, `HighestLimit` the highest the
router accepts: 10 in the code, 2 in the run.
Two requests with two schedulers already reopen a delivered delivery.
In `MojaloopRaces` two requests race for one transfer, work on two, or register;
two identifiers are two holds of one transfer or one of each. One connection makes
every call meet what the one before left on it, and `MaxUnread = 1` is one late
answer that goes on misleading reader after reader; a second connection only takes
calls out of its way. Registrations are not repeated once their row exists
(`Again`), and a wide identifier, whose row is refused, ends its request as a death
between hold and row does; `UnpostedFulfilment` has one. With `Again = {payer}` the
run passes too (2.1 million states). The theorems have none of these bounds.
`SomeRemaining` takes an expiration that has passed, one in its last second and
one ahead.
Rejecting windows, cases or keys for reasons of format is outside the models.

`CHECK_DEADLOCK FALSE` is set where all work may legitimately be done; the circuit
breaker never stops, and its run checks that.

### Fairness

In `OutboundLifecycle`, `FairSpec` has weak fairness for each poll's steps: the
interval keeps firing, every service call ends by its timeout and every
statement returns or throws. Participants, administrators and faults owe nothing.

`CircuitBreaker`: callers keep calling, a request ends by its timeout, the reset
time and leases pass. `Recovers` assumes in its premise that from some point on
there are neither faults nor errors. `MultipartUpload`: time passes and a worker's
loop goes on (the CronJob comes round); batches may die each time, clients owe
nothing. `WebhookDelivery`: back-off times pass and schedulers go on, since every
request ends after 30 seconds. `MojaloopTransfer`: only TigerBeetle's clock.

For settlement:

`FairSpec` has weak fairness for the steps of a request and of a worker's loop
(the event loop schedules them), for a call in flight (it arrives or is lost)
and for the clock passing a lease. It has strong fairness for a successful
lookup and a successful resolution: the worker retries for ever, and the
projection and the database are assumed to be available infinitely often. That
assumption is what the retry loop of `run_forever` is written for. Callers,
operators, key holders and crashes have no fairness, and `CrashWorker` leaves
one worker running, as the deployment's restart policy does. `LeaseCoversWork`
restricts `SettlementDrain` to leases that outlive the work of a live holder
(25 lookups within 60 seconds); without it a slow worker may lose each of its
claims and livelock with the next.

`SettlementLocks`: a client's next statement or commit has strong fairness, since
PostgreSQL serves those that wait for a row in turn; the deadlock detector runs; a
call to the ledger is answered or times out. Nothing obliges a caller to execute
or a worker to resolve.

## 4. What the code does not do

1. `SanctionsOverruled`: a recorded block is not read again. If the row was not
   updated after it and the service is then unavailable, the local
   pass-through clears the transfer and its prefund is debited.
2. `UnpostedFulfilment`: `GetTransfer` loads no pending identifier (the table has
   no column for it) and the client refuses 0, so no fulfilment and no abort of a
   stored transfer reaches the ledger. The hold times out, the row stays RESERVED.

Seen in the code and not the subject of a run:

* `resolve_case` completes the idempotency key only `WHERE status='in_progress'`;
  a quarantined key stays in `reconciliation_required`, although migration 0053
  opens the transition to `completed` for reconciliation.
* Claims take the oldest cases first and a reopened case keeps its age
  (`reconciliation_worker.py:103`): with a backlog longer than a batch, unprovable
  old cases starve provable younger ones, although
  `audit/TIGERBEETLE_POSTGRES_PROLONGED_PARTITION_RUNBOOK.md:61` expects "Backlog
  drains under peak-like load". `QuarantineDrains` fails with `Limit = 1` and one worker in
  `SettlementDrain`.
* The status check of `execute_settlement` is not repeated after admission: a
  request with a stale read dispatches for a window that is settled or
  quarantined by then. The ledger's idempotency on the canonical transfer ID is
  what keeps the money from moving twice.
* Nothing in the program writes a posting expectation before dispatch; without
  one the projection answers "pending" for ever.
* If the quarantine fails too, or the process dies, the window stays `PROCESSING`
  without a case.
* Overlapping polls write to transfers another poll has stopped
  (`transferLifecycleWorker.ts:234`), which makes them pending again, and repeat
  the steps from there on, the debit included.
* The lifecycle worker reads neither of the ledger's answers, so a transfer
  completes and its participant is told also when both postings were refused.
* A sanctions answer whose decision is none of allow, block and escalate is
  recorded as escalated (`transferLifecycleWorker.ts:104`) and takes the branch of
  a clear one (lines 121 to 125): the transfer goes on and is debited. The worker
  reads the answer as untyped JSON; the Go service gives only the three
  (`sanctions_screening.go`).
* A late answer misleads the next call on its connection
  (`internal/tigerbeetle/client.go:237`, `:205`). A prepare or a registration then
  takes a call for accepted that TigerBeetle refused or has not reached: it saves a
  RESERVED row without a hold, or a participant without an account, and logs the
  transfer as created. The other way round, a call that succeeded is reported as failed. The
  effect lasts: each reader leaves its own answer to the next. A connection that
  breaks goes back to the pool too and is never replaced while the process runs.
  `RowsAreBacked` without its exception for `misled` fails after the registration
  of one participant is given up and that of the other reads its answer.
* About half of the random TigerBeetle identifiers exceed BIGINT: the hold is
  placed, `SaveTransfer` fails and the caller gets an error; a retry places
  another hold. A registration that dies after `CreateAccount` cannot be finished.
* `ACQUIRE_SCRIPT` assigns `state` without `local`, which a stock Redis refuses:
  with `CIRCUIT_BREAKER_DISTRIBUTED` every call would throw. The model is of a
  Redis that accepts the script; a refusal changes nothing and is a stutter.
* A service that hangs until the breaker's own timeout never trips it, and a 4xx
  counts as a failure like a 5xx.
* The scheduler does not look at `retries_enabled`: pausing a webhook stops no
  retry that is due. `retryFailedDelivery` leaves `next_retry_at` null, so the
  delivery is never listed, and `scheduleRetry` refuses it as it is pending.
* Several processes pass the retry limit. Each that has the delivery listed adds an
  attempt, and one that writes back an older count makes it due again: for three
  processes, a limit of 5 and one request of the operator TLC finds 10 attempts.
* An upload whose INSERT is lost has no row and is never given back; a batch that
  dies on the last attempt leaves its rows abandoned for good.

## 5. Proofs

`tlapm SettlementProofs.tla` and `tlapm RailEvidenceProofs.tla` prove, for any
sets of windows, requests, workers, transfers, keys and handlers, every safety
property of their parts in section 3, action properties and refinements
included; `tlapm OutboundProofs.tla` proves those that hold with overlapping
polls, for any numbers of transfers, polls, releases and faults, and under
`Polls = {p}` those of `OutboundSerial`. The assumptions
are `StoreAssumption`, `SagaAssumption` (sentinels are not members of the sets;
the batch limit is positive), `EvidenceAssumption` and `OutboundAssumption`.
`SettlementLocksProofs` proves the safety of the statements and their refinement of
the transactions from `StoreAssumption` and `LocksAssumption` (requests and workers
are different clients). `MojaloopProofs`, `CircuitProofs`, `UploadProofs` and `WebhookProofs` prove their
parts from `MojaloopAssumption` (sentinels, `Wide` among the identifiers, which are
no participants), from
`BreakerAssumption` (a sentinel, positive thresholds, finitely many calls, and as
many tokens as leases and calls can take, since tokens are random identifiers),
from `UploadAssumption` (a positive limit, a sentinel) and from `WebhookAssumption`
(a sentinel, limits, finitely many processes).

*Settlement.* The safety properties are not inductive: that a completion is
backed by a posting depends on what a request waiting for the database knows,
and that a resolution succeeds depends on the case of a window no property
mentions. `IInv` adds

* `Targeted`: a busy request or worker has a window;
* `RowsAgree`: window, saga, key, certificate, case and lease of one window
  are in one of the combinations the transactions can leave;
* `EventsAgree`: the outbox holds the events of that combination;
* `EvidenceAgrees`: what is posted, in flight, settled or confirmed has the
  rows it needs;
* `RequestKnows`: after admission the saga and its event exist, and an
  answered request's settlement is posted;
* `WorkerKnows`: a "settled" verdict stands on a posting, an expectation and a
  confirmation that stay on file.

Each kind of step has a lemma (`WindowStepAgrees`, `ProofStepAgrees`,
`RequestStepAgrees`, `CallStepAgrees`, `WorkerStepAgrees`); the invariants
follow from `IInv` by definition, the action properties from the lemmas that
name the only steps which write a row (`RowsChangeBy`, `ClaimChangeBy`,
`OutcomeChangeBy`), and `Implements` maps each of them to a step of the promise.
`CasesCanBeResolved` is what `QuarantineDrains` needs in every state: a claim always
has the holder and the lease that end it (`ClaimsMove`), and no combination of rows
makes a trigger or a WHERE clause refuse the resolution of a case.

*Row locks.* What makes an interleaved transaction atomic is that a client, at its
commit, holds exactly the rows that the transaction would change if it ran then:
of each row it has passed it either holds it, so that nobody else has changed it
(`Exclusive`, `WritesHeldRows`), or the WHERE clause did not match, and then it
never will again (`Knows`). The second half needs the order in which rows develop
(`Grows`) and the combinations that are committed (`RowsAgree`): a saga once
SETTLED stays so, a key never returns to `in_progress`. `CommitIsAtomic` reads the
atomic transaction off that knowledge, `KnowsStays` carries it through the steps of
others. Deadlocks follow from the same invariant: whoever is waited for has passed
its first statement, a quarantine past its first holds the window, a resolution
holds its case of a window that is no longer PROCESSING, so a cycle can only be
completions with one quarantine (`MembersHold` to `CompletionNeedsQuarantine`).
`StoreStep` and `AtomicEffect` say what a commit does to the rows. From them follow
`CommittedRowsAgree` and `DecisionsStand`, which say of the interleaved statements
what section 3 says of whole transactions, and `LocksSuffice`, which discharges what
the lock model takes for granted: a row has one holder, so waits form cycles, and no
two clients are ever ready to write the same outbox row.

*Evidence.* Rows only grow (`RowsGrow`), so what a handler read stays true
until it moves (`LookupWaits`, `IngestWaits`) and each read adds to it
(`LookupMoves`, `IngestMoves`). The key, which does change, is read last. That
a key read as ACTIVE before its validity began cannot be used after it was
revoked follows from `ConfirmationWasVerified`: a stored confirmation's key had
come into force. `KeysOnlyVoid` and `EvidenceImplements` give the refinement.

*Outbound transfers.* Rows go back and forth, so nothing about a row's step is
stable; what is stable is the evidence: a clearance, a rate, a provider, a
call, a completion time and a notice are never taken away (`GrowStep`). `IInv`
says of every poll that the evidence for the step it took into its snapshot, and
for the await it has reached, is there (`Ready`, `PollsStep`); because evidence
only grows, a stale snapshot knows less than the row but nothing false
(`ReadyStays`, `PhaseStays`), and whatever it writes was earned (`RowStep`,
`EventsStep`). Milestones are achieved in order because each call is made by a
poll that knows what precedes it (`OrderedStep`, `TurnAchieves`).

One poll at a time knows more: a transfer it is working on, or still has in its batch,
is pending (`SerialRow`), so a stopped one is touched by nobody but an administrator
(`StatusStep`). Calls are counted against an allowance: those
made, and the one the row or the snapshot still `Owes`, stay within it (`Paid`). A
step that goes back or repeats raises the debt and the allowance together, since only
a release or a fault makes one (`PaidStep`). A blocked transfer that nobody released
is about to be failed or has failed (`BlockedStep`); it still owes its debit and its
allowance is one, so no debit was made: `SanctionsStandAlone` shows that finding 1
takes a fault or two polls.

*Mojaloop.* Since a request may read any answer, what it believes proves nothing by
itself. What does not depend on answers is whose an identifier is: it is drawn for
one transfer, calls and requests carry it for that transfer only (`SoundCall`,
`Knows`), and a hold under it belongs to that transfer (`HoldsKnow`), so no row
ever names another's hold. That the hold exists needs the answer: an answer of
success is true of the call it answers (`TrueAnswer`), so a request that goes on
either read its own and its hold was `Created`, or is `misled`. None of this is
taken back by the steps of others (`Lasting`), so what waits on a connection stays
sound and true (`PoolStays`) and what is saved stays so (`RowsStep`). That what
fulfilment loads is always None makes finding 2 total: the only calls TigerBeetle
gets are those of prepare and of a registration, no hold is ever settled, and no row leaves
RESERVED (`NothingSettles`). `NoHoldForever` follows from the timeouts `prepare`
computes, none of which is zero.

*Circuit breaker.* What a call saw may be arbitrarily old, so the proof gives it
no weight: `AcquireLemma` and `RecordLemma` say what each script may do to the
hash whatever its caller believes, every other step leaves the hash alone, and
each effect is a step of `CircuitContract`. That only probes decide is the second
lemma read the other way round. That probes are few needs leases: an expired one
is taken out of the set before a new one is put in (`AskLemma`), so the set never
holds more than `MaxProbes` (`LeasesBounded`), and calls with a live lease are no
more than the leases because no two have the same token (`TokensDiffer`); a token
nobody uses is always left, by counting (`TokenLeft`). For the object of a process
each method is a step of the contract whatever the call saw before (`SuccessMoves`,
`FailureMoves`, `EnterMoves`), and without shared state no call waits for Redis
(`CallsKnow`), so a process changes its object only by them (`ObjectStep`).

*Uploads.* The parts of an upload move once, from stored to assembled or to
released (`FinalStep`), and whoever moves them remembers it: a pending "completed" has assembled parts, a pending "aborted"
released ones, a worker's "ok" released ones. `IInv` collects this
(`WritesTellTheTruth`, `WorkerKnows`), together with: rows a worker holds have
expired and have been claimed, which no procedure undoes (`ClaimsAreCounted`).
`StillReclaimable` adds that no worker's count runs ahead of the row's, so that
giving up means the row's own attempts are used up (`RememberedStep`).

*Webhooks.* What a process read may be old, but what it did is not forgotten: an
answer it holds was given (`AnswersAreTrue`), so it may record a delivery however
late. Counting is harder, since every process writes the count it read plus one, and
the catch block reads the row again and adds one to that. A count n `Fits` a
delivery if there is room for it and for what processes in the catch block still owe
(`Owed`, a cardinality): `AttemptsFit` says so of every row and of every count that
is about to be written, a POST makes room for one (`PostMakesRoom`), and leaving the
catch block settles a debt with the attempt that caused it (`CatchMakesRoom`).
`AttemptsLimited` counts upwards instead: a delivery that one process may still
attempt has room for one more below the limit and what operators have asked for, and
each request opens it at most once. That
one process alone does not undo a delivery needs `ClaimsAreOpen` (what it listed or
is trying has not been delivered), which rests on `BatchesAreSane` and
`FirstAttemptsAreAlone`; `RowStep` names the only steps that write a row.

## 6. Only model-checked

Liveness: `QuarantineDrains`, `TransactionsEnd`, `PendingTransfersStop`, `Recovers`,
`ExpiredUploadsAreReclaimed`, `RetriesComeToRest` and `HoldsEnd`, which rest on
fairness. For three of them the part that is an invariant is proved
(`CasesCanBeResolved`, `StillReclaimable`, `NoHoldForever`). And the two violated
statements, which have counterexamples; `SanctionsStandAlone` and `NothingSettles`
say how far each goes.

## 7. Abstractions to know about

* A transaction is atomic in `SettlementStore`; `SettlementLocks` implements that.
  The locks of foreign keys (KEY SHARE) conflict with none of the updates, and an
  outbox row is never waited for. `created_at` of a case is the time its
  transaction began; `older` orders cases by commit, which no property tells apart.
* `idempotency_key` is cut to 64 characters by the code; keys of different
  windows are assumed to differ.
* The partial deduplication index that `_ensure_schema` creates cannot serve
  the ON CONFLICT clause; the full one of migration 0052 is assumed.
* `CANCELLED` windows, `REJECTED` and `REVERSED` sagas and rejected keys are
  never written by the modelled code; the triggers mention them.
* Positions and amounts only decide whether an admission is refused.
* `RevokeSigningKey` stands for retirement, revocation and the end of a key's
  validity alike: after each of them the confirmation no longer verifies.
* Between a lookup and the resolution the key may leave force; the window is
  then settled on a confirmation that was valid when it was looked up.
* The answer of a service and the statement that follows it are one step of a
  poll: nothing another process does can come between them and be noticed, since
  the answer is a local of the poll.
* A submission and its first event are one step; the event has no reader.
* The release request (`approval_queue`) is written by no code of the
  repository but the seed data; the model lets it appear for a held transfer, and
  one administrator act on it at a time. Any number of approvals may follow.
* `Restart` is a shutdown or crash with the start after it; a stop that merely
  clears the interval lets a running poll finish, which is no new behaviour.
* Quotes, party lookup and the in-memory flow behind the execute handler are not
  part of `MojaloopTransfer`; balances only decide whether a hold is refused.
* A participant stands for its account. `Connections` are all a pool ever has: one
  that is closed, or left behind by a restart, is a name that is not used again. That
  TigerBeetle serves the calls of a connection in their order is assumed of it. Its
  lookups do not share the adapter's pool in what the program runs (the position
  endpoint is disabled), so no answer of theirs is among `answers`.
* `AnswersWereTrue` takes the ledger lookup of `projection.go` (line 100, an interface) to
  return the answer to that lookup. Behind the pooled client a late empty answer
  could be read instead, and a posted transfer reported as missing.
* The service behind the breaker is its answer; retries inside `grpcCallWithRetry`
  are part of one call. A restart of Redis that loses the hash is not modelled.
* Several rows of a cleanup batch are written one by one, as in the code; the
  claim is one transaction. Presigned parts do not change what a session is.
* The rows of `retry_attempt_logs` and the notice of a final failure have no
  reader and are left out, as is `is_active`, which only `sendWebhook` reads.
* The seed-data fallbacks without a database are left out: the worker does
  nothing without one.

## 8. Plan

In this order:

1. Funding and tier approvals of the outbound service, composed with
   `OutboundLifecycle`.
2. `OutboundLedger`: the Rust ledger's postings and identifiers: what is completed
   and was not posted.
3. Proofs of what these add; of the modules above every safety property is proved.

Not modelled, and not planned:

* code the program does not run: the messaging outboxes of Go and TypeScript, both
  idempotency middlewares, the Mojaloop outbox publisher and timeout handler, the
  provisioning saga. They are exported and tested, but nothing constructs them;
* the domestic and inbound demo routers, whose data are fixtures in memory;
* Temporal workflows, whose engine is not in the repository;
* rate limits and the Rust breaker, sequential behind a lock and unit-tested;
* the independent in-memory Go services, which nothing on these paths calls;
* portals, mobile applications, generated schema and infrastructure, which are
  most of the repository's lines and have no concurrent state of their own.
