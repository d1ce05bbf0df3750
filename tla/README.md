# A verification development for the Koschei API

TLA+ modules that model the stateful core of `src/koschei/api`, the TLC
configurations that check them on small instances, and the theorems about them
that TLAPS proves. Paths below are relative to `src/koschei/api/internal`
unless they start with `src/` or `cmd/`.

## 1. The system and its parts

Koschei is a Go monolith that investigates Solana tokens and wallets. One HTTP
process (`main.go`) answers scans, keeps caches in memory and calls Solana RPC
providers; a second binary (`cmd/defense-worker`) executes Defense jobs in a
sandbox; PostgreSQL holds every durable fact and is the only channel between
processes. The packages also contain worker loops (canonical investigations,
webhook deliveries, security alerts, follow-ups) that are tested, and that a
process starts by calling `StartCanonicalInvestigationJobWorker` and its
siblings. `main.go` of this commit starts the API without them
(`PROJECT_STATE.md` speaks of a stateless API); the models describe the loops
as they behave when started, and the Defense binary as it is.

| Component | State | Operations | What is hard | What makes it correct |
|---|---|---|---|---|
| Defense worker queue (`defense/worker.go`, `litesvm_runner.go`, `cmd/defense-worker`) | `defense_worker_jobs`, `defense_litesvm_execution_attempts`, `defense_worker_job_events`; in each worker one job in memory | enqueue, claim with lease, refuse/launch/finish/cancel a run, complete, fail, append event | leases that expire under a live worker, lost claim replies, crashes, statements that are not one transaction | one worker per attempt, one active job per request, completion implies a stored attempt, events agree with rows |
| Canonical investigation jobs (`jobs/store.go`, `handlers/canonical_investigation_job_worker.go`) | `web3_jobs`; in each process the worker's position and one wake gate | unique enqueue, claim, heartbeat, complete, retry or fail, stale recovery, child jobs | a signal racing drain/claim/wait, several processes with one table and separate gates, restarts | no lost wake-up, one job per branch, only the newest attempt settles, queued jobs start |
| Wake gates (`workerwake`) | one bit per process and queue | signal, drain, wait, next-due sleep | coalescing, in-process only | a signal is never lost, a sleep never overshoots what is due |
| Webhook delivery (`webhooks/worker.go`, `handlers/webhooks.go`) | deliveries, endpoints with failure counters | enqueue, claim due, send, retry schedule, dead letter, automatic pause, manual retry, stale unlock | at-least-once sends, crash between send and record, paused endpoints | attempt limit, delivered stays delivered, due deliveries are attempted |
| Security alerts (`alerts`) | alert deliveries per channel | the same skeleton over channels | the same | the same |
| Credits and quota (`handlers/plan_access.go`, `credits_reservation.go`, `scan_quota.go`) | outputs left on each entitlement row | admit, reserve, preflight, consume, refund | a request that fails or dies between reservation and refund, refunds after a renewal | never more outputs than were paid for, a reservation is honoured |
| Billing webhooks (`handlers/polar_billing.go`, `payments.go`) | event ledger, entitlement rows, profile plan | activate, renew, revoke, record | duplicates and reordering, concurrent transactions at READ COMMITTED | each event counts once, a revoked subscription stays off |
| Solana RPC access (`web3`, `singleflight`, `services/solana_rpc_failover.go`) | in-flight calls, circuits, the governor's clocks | call, share, fail over, throttle, cancel | calls that overlap, cooldowns of different length, cancellation of a shared call, panics | every caller gets an answer, one load per key, the pace and the cooldowns are kept |
| Caches (`web3/cache.go`, `cache`) | expiring entries | get, set, delete | expiry and overwrite race | a stored value lives until its expiry |
| Rate limiting | windows and counters | allow | counters at the limit | never more than the limit in a window |
| Radar ingestion (`services/security_radar_stream_worker.go`, `arvis_stream_*.go`) | stream events, processing rows, verdicts | ingest, claim, analyse, save, mark, recover | analysts that outlive their lease, unfenced marks | a completed event has its verdict |
| Radar retention (`services/security_radar_retention_*.go`, `retentionexport`) | archive, export ledger, external sink | export, check backlog, archive and delete, prune | snapshots against concurrent claims, crash between write and mark, rows that come back | nothing deleted that is not archived, nothing pruned that is not in the sink |
| Transaction guard, enforcement permits | one-time permits | issue, recheck, consume | expiry racing use, double use | a permit is used once, for what it was issued for |
| Execution proof and containment | none | pure verification | decision order | an unverified trace is never accepted |
| Decision and risk rules | none | pure functions | boundaries of scores | equal to a reference definition |
| Agents and follow-ups | scheduled follow-ups | claim, run, reschedule | the claim-and-retry shape again | each due follow-up runs |
| Defense sentinel, validation collector | append-only observations | poll, append | duplicates across restarts | one observation per event |
| Owner and customer sessions | sessions | issue, revoke, expire | revocation racing use | a revoked session opens nothing |
| Investigation assembly; dossiers, cases and public pages; HTTP server and static site; AI routing | no state of their own (or rendered text) | collect, render, route | outside services | out of scope: pure input and output |

The parts interact in four ways: **SQL rows** (producers, workers and HTTP
handlers share tables; each statement is atomic, a sequence of statements is
not); **wake gates** (a producer signals the worker of its own process only);
**child jobs** (a canonical investigation enqueues further investigations); and
**events** appended after a row changes, which alert and webhook deliveries pick
up. The complete list, with sources and status, is `PROJECT.json`
"components"; the dangers, each at its line, are under "hazards".

## 2. What is modelled

| Module | Role |
|---|---|
| `FencedJobs` | abstract specification: what a durable job queue with retries promises a client. No workers, leases or clocks: a grant hands out a larger token, only the newest token settles a job, a settled job does not change, two unsettled jobs never answer one request. |
| `DefenseWorkerQueue` | the Defense queue: table, clients, workers, leases |
| `WakeGate` | the coalescing one-slot channel of package `workerwake` |
| `CanonicalJobs` | the canonical queue: table, producers, worker loop, heartbeat, recursion, restarts |
| `WebhookDelivery` | webhook endpoints and deliveries: producers, customers' routes, worker loop with the next-due sleep |
| `Entitlements` | provider events, their transactions, entitlement rows, and the requests that spend outputs |
| `RadarRetention` | stream events, verdict workers and their recovery, archive, export, pruning |
| `RpcAccess` | cache, shared loads, circuit breakers, governor and failover transport |
| `FencedJobsProofs`, `DefenseWorkerQueueProofs`, `CanonicalJobsProofs`, `WebhookDeliveryProofs`, `EntitlementsProofs`, `RadarRetentionProofs`, `RpcAccessProofs` | the theorems about the module each is named after |
| `MC...` | model values, the identifier and host assignments, symmetry |

Conventions. One SQL statement, or one transaction, is one step; whatever the
code does between two statements is a step of its own, so other processes may
run in between. `phase` is the program counter of a worker's loop. A job's
payload, result and report are not modelled: what a run finds is a
nondeterministic choice. An error of the database is a disjunct of the step it
hits. A reply lost after a commit is the same write without the caller's
knowledge of it.

### DefenseWorkerQueue and the code

| Code | Model |
|---|---|
| `EnqueueWorkerJob`: INSERT .. ON CONFLICT DO NOTHING, then SELECT, then the "queued" event | `InsertJob` / `InsertConflicts`, `LookupActive`, `CallEnds`; `Conflicts` is the partial unique index |
| `ClaimWorkerJob` (FOR UPDATE SKIP LOCKED, recovered leases first) | `Claim`, `ClaimReplyLost`; `NextToClaim`, `Claimable`, `EffectiveLease` |
| `ProcessWorkerJobWithRuntime`, `RunLiteSVM...` | `Refuse`, `RejectStart`, `Launch`, `RunEnds`, `RunCancelled`, `StoreUnanswered` (the attempt is stored, but the reply or the SELECT that follows fails) |
| `CompleteWorkerJob`, `FailWorkerJob` (WHERE status='running' AND worker_id=$2) | `SettleRow`, `SettleFails`, then `AppendSettled` |
| SIGKILL and redeploy; the passing of time | `Crash`, `Tick` |

Two ghosts: `attempt[w]`, the attempt a worker works under, is in the code too
(the job in memory), but `settledBy` is only in the model: which attempt wrote
the row's end. Events nothing reads ("queued", "claimed", "lease_recovered")
are left out.

### CanonicalJobs and the code

| Code | Model |
|---|---|
| `CreateUniqueActive` (advisory lock, one transaction), then the signal | `Insert` / `FindExisting`, then `Announce` or `CommitReplyLost` |
| start of the worker: `RequeueStale`, once | `RequeueStale`, `RequeueFails` |
| loop: drain, claim, run or wait | `Drain`, `ClaimNext`, `ClaimReplyLost`, `FindNothing`, `Park`, `ClaimFails`, `WakeBySignal`, `WakeByTimer` |
| `RunOnce`, heartbeat goroutine, `processJob` | `Heartbeat`, `ReportBuilt`, `ProcessFails`, `ScheduleChild` / `FindChild`, `ScheduleEnds` |
| `claimNextPriorityOrder` | `Rank`, `ClaimsBefore` |
| `Complete`, `RetryOrFail` (WHERE id=$1) | `Complete`, `RetryOrFail`, `SettleFails` |
| the signal after a row is queued by the worker itself; its reply lost | `Announced`; `Unheard` |
| redeploy or crash of an API process | `Restart` (gate and calls of the process are lost with it) |

Ghosts: `settledBy`, and `wokenAt`, the process last signalled for a row. Which
mints a report finds is the nondeterministic order and number of
`ScheduleChild` steps; the code's limit on children only removes behaviours.
A root stands for one dedupe key of a producer, and `RankOf` gives it the class
of the producer's mode (customer 0, owner 10, other 20, background 40; child jobs
are 30). A customer's request carries no key: it is a root of its own that is
asked for once. The funding warm-up's jobs, which stop at their own depth, may
have children in the model. A lower class can starve while a higher one is fed
for ever; `QueuedJobsStart` holds because the rows of an instance are finite.
`MarkRunning` and `Fail` of the store have no caller and are not modelled.

### WebhookDelivery and the code

| Code | Model |
|---|---|
| `createWebhookEndpoint`, `updateWebhookEndpoint`, `rotateWebhookSecret` (failure_count back to 0), `deleteWebhookEndpoint` (rows cascade) | `CreateEndpoint`, `UpdateEndpoint`, `RotateSecret`, `DeleteEndpoint` |
| test delivery, watchlist alert and its trigger; manual retry; then the signal | `Enqueue`, `Requeue`, then `Announce` or `CommitReplyLost` |
| `alerts.Emit` and the trigger on `security_alert_events` | `EmitSecurityAlert`: rows, and no signal for this gate |
| start of the worker: stale locks, once | `RecoverStale`, `RecoverFails` |
| loop: drain, batch of claims, `NextDueSleep`, wait | `Drain`, `Claim`, `ClaimReplyLost`, `ClaimFails`, `FindNothing`, `Look`, `LookFails`, `WakeBySignal`, `WakeByTimer` |
| `processDelivery` | `Send`, with one of three outcomes |
| `markDeliverySuccess`, `markDeliveryFailure` (WHERE id=$1, one transaction) | `MarkSuccess`, `MarkFailure`, `MarkFails` |

`dueIn`, `lockLeft` and `sleepLeft` are the distances of `next_attempt_at`,
`locked_at` plus two minutes and the worker's timer from now. Which of several
due deliveries is claimed first is left open, which only adds behaviours; so is
whether a delivery was the last of its batch of ten. Ghosts: `told`, the
processes that announced, rescheduled or read a waiting row, and `requeued`,
which also bounds manual retries to one per delivery. Security alerts on the
system channels (`alerts/worker.go`) have the same loop and are not modelled.

### Entitlements and the code

| Code | Model |
|---|---|
| Polar (external) | `Emit`, constrained by `Follows`: the life of a subscription; `binding`, what its metadata say of customer and plan; `live`, whether the payload calls it active |
| `PolarWebhook` up to the ledger; a product that is not the plan (409); duplicates answered 200 | `Begin`, `Unseen` |
| the binding of customer and plan: `subscription_binding_missing`, `subscription_customer_binding_mismatch` (409), or found | `NeedsBinding`, `BindingRefused`, `Bind` |
| `subscription_not_active`, `renewal_subscription_not_active` (409) | `InactiveRefused` |
| `subscription.active`: check for a newer revocation, look the row up, write | `Suppress` or `PassCheck`, `Lookup`, `Reactivate` / `InsertRow` / `InsertRefused` (the unique index) |
| `order.paid` of a cycle | `Refresh`, `RefreshRefused` |
| `subscription.revoked` | `RevokeRow` (the row is locked from here), `CommitRevoke`, `RevokeNothing` |
| other events; errors and `defer tx.Rollback()` | `RecordOnly`; `Abort` |
| `ownerChangePackage`; `OwnerBanUser`, `OwnerRemoveUser`, `ownerSetUserStatus` | `OwnerGrant`; `SetStanding` |
| `RequirePlanTier`, `EnforcePlanOutput`, `reservePremiumOutput` | `Admit`, `Reserve`, `Exhausted` |
| `requirePremiumOutput` in a handler; `shouldConsumeQuota` | `Preflight`; `Respond` |
| `refundPlanOutputDetached`, its dropped error; the end of a process | `Refund`, `RefundFails`; `Crash` |

An event's number is its time of occurrence, so `f >= e` is the code's
`occurred_at >= $2`. A transaction's reads are steps of their own and its writes
appear with its commit; a revocation holds its row lock across two statements,
so `Locked` blocks the other writers. Several rows may be "updated last", since
`updated_at` is the start of the writing transaction: that choice is
nondeterministic. `overtaken` is a ghost: the subscriptions whose revocation
committed while an activation was past its check. The profile's plan is
displayed and decides nothing.

The refusals matter because Polar repeats a refused event and the ledger forgets
it. Some are for good: wrong product, no binding, a payload that says the
subscription is not active, a renewal of a row that is off for ever
(`Unacceptable`). One is not: while the customer's profile is banned or removed,
every event of his is refused, *revocations included*, so that his row stays
active until Polar delivers again after the ban. (Neither `RequireAuth` nor
`RequirePlanTier` looks at the profile's status, so `Admit` does not either.)
`EventsSettle` therefore speaks of customers who stay active in the end, and
`RevokedStaysOff` of revocations that are recorded. A customer who changes his
e-mail address has the same effect as a binding that is missing from then on,
and is not modelled.

### RadarRetention and the code

| Code | Model |
|---|---|
| insert of a stream event (dedupe index); the passing of the window | `Ingest`; `Age` |
| `pendingTargets`, `claimTarget` | `Claim`, `Retryable` |
| trigger `arvis_processing_status_normalizer` (migration 040) | `Normalized`, in `SetStatus` |
| `processTarget`, `markTarget` | `Analyse` or `Save`, then `Mark` (whose error is dropped) |
| end of an API process | `Quit`, `Halt` |
| `arvisRecoverStaleStreamJobs` | `RecoverStale`, `Recovered` |
| `runOnce` in its order | `StartRun`, `CheckBacklog`, `NextTarget`, `After` |
| `Exporter.Run`: lock, load, put, get, mark | `ExportPut`, `ReadBackOk`, `MarkExported`, `ExportNothing` |
| `retentionArchiveQueryV2`: snapshot, then row locks, archive, verify, delete | `Look`, then `ArchiveAndDelete` with `Verified` |
| `pruneExportedArchive` | `Mature`, `Prune` |

The archive is keyed by table and source id: a verdict has an id of its own each
time it is inserted, a processing row is keyed by its event, so one that comes
back after it was archived meets its older copy. That is why a run halts there
(`Verified`), and why `NothingLost` compares bodies. A row written as failed
whose attempts have reached the first limit is stored as exhausted, and goes on
being claimed up to the second: the trigger decides, not the statement. A row's body is its status,
its attempts and how many rows the table has had for the event. Stale recovery
may come while the analyst is alive: five minutes are no bound on an analysis.
`removed` and `cascaded` are ghosts. Of the six tables, `security_radar_events`,
`security_radar_seen_signatures` and `token_trade_events` are not modelled: the
verdict workers do not meet them.

### RpcAccess and the code

| Code | Model |
|---|---|
| `SmartCache.GetOrLoad`, `MemoryCache` | `Hit`, `Miss`, `Recheck`, `Store` |
| `Group.Do`, `finish`, a panic of the function | `Join`, `Lead`, `Woken`, `Finish`, `Panic` |
| `RPCManager.Call`, `availableProviders` | `ListProviders`, `SkipCooling`, `AskForSlot`, `RunOut` |
| `WaitForSolanaRPCProviderSlot` | `TakeSlot`, `GiveUpSlot` |
| `callProvider`, `recordFailure`, `recordSuccess` | `Fail` with `RecordFailure`; `Throttled`, then `RecordThrottled`; `Succeed` |
| `DeferSolanaRPCProvider` | `Throttled`, `Later` |
| the failover transport | the same walk for a caller in `Surfaces`, which keeps no circuit; `Respond` |

A call of the group is named by the scan that leads it. Deadlines are kept as
the time that is left, which `Tick` lowers together. Forgetting the state of an
idle host is the same as two clocks at zero. A failed call is recorded in the
step that ends it, since nothing sees the one before the other; a throttled one
publishes the cooldown first. Ghosts: `since`, `promised` and
`hasty`, from which `NoEarlySlot` is stated without the governor's own clocks.
The governor and the failover are the production configuration (both are off
elsewhere); the store of the cache is the memory one, which returns no errors.

## 3. What is checked

| Run | Question | Result |
|---|---|---|
| `defense_queue` | with workers that may stall for any time, crash and lose replies: `TypeOK`, `OneWorkerPerAttempt`, `OneActivePerRequest`, `CompletedIsRecorded`, `AuditTrailTrue`, and the refinement `ImplementsFencedJobs` | holds |
| `defense_prompt` | workers that share an identifier but obey the job timeout: `ExclusiveExecution`, and `JobsSettle` under fairness | holds |
| `defense_cancelled` | does every ended LiteSVM run leave an attempt record, as the phase 12c document says? | **no**: the record is written under the job's own, cancelled, context |
| `canonical_queue` | two processes, a producer of background scans, recursion of depth one whose child is claimed first, restarts, lost replies of every statement, stale recovery: `TypeOK`, `NoLostWakeup`, `OneJobPerBranch`, `ImplementsFencedJobs`, and `QueuedJobsStart` under fairness | holds |
| `canonical_interrupted` | is a job interrupted by a restart taken up again, as the consolidation document says? | **no**: stale rows are looked for at process start only, when the row is two hours too young. The run has no database errors (`Faults = FALSE`) and one restart |
| `webhook_delivery` | two processes that restart, an endpoint that customers and failures pause, reactivate (by a new secret too) and delete: `TypeOK`, `NoOversleep`, `ActiveBelowLimit`, `AttemptsWithinLimit`, `DeliveredIsFinal`, and `DueIsAttempted` under fairness | holds |
| `entitlements` | a subscription and a grant, repeated, reordered and refused events, a customer who is banned and restored, two requests, a crash or a failing statement: `TypeOK`, `NotOversold`, `WithinPackage`, `RevokedStaysOff`, and `EventsSettle` under fairness | holds |
| `polar_reenabled` | can an older activation never re-enable access after a recorded revocation, as the payment document says? | **no**: the check and the write are separate statements; two events served at once are enough |
| `last_output` | does a reserved output reach its handler, as the route-level gate intends? | **no**: on the routes whose handler calls `requirePremiumOutput` the last output of a package is refused and refunded |
| `radar_retention` | two analysts, recovery, the trigger that turns failed rows into exhausted ones, a retention worker with a sink that may corrupt objects: `TypeOK`, `NothingLost`, `ExportedIsSunk`, `CompletedHasVerdict` | holds |
| `retention_cascade` | is no event deleted while a processing row remains, as the comment on the targets says? | **no**: the condition is evaluated on the statement's snapshot and not again under the row lock |
| `rpc_access` | three scans of two tokens, and a request of the transport, at two providers of one host: `TypeOK`, `LoadedOnce`, `NoEarlySlot`, `CircuitCounts`, and `ScansAnswered` under fairness | holds |

`AttemptsWithinLimit` states what the code does keep: attempts exceed the limit
by no more than the starts of processes since, because stale recovery sends a
delivery that died in its last attempt back to retry without looking at it. The
models show more behaviours that no run states as a property. Some are spared by
the statement of a property, below; two others: two Defense
workers configured with one identifier are one owner to `OwnsRow` (this is why
`QueueIsFenced` assumes distinct ones), and `EmitSecurityAlert` inserts webhook
deliveries without a signal, so that they wait for the recovery ceiling
(`DueIsAttempted` holds through it).

Each property of a passing run has a mutant in `PROJECT.json`: a plausible bug
in a mapped definition (a dropped condition, an off-by-one, an extra drain)
under which TLC refutes the property. The mutated operators stand beside their
originals.

**Bounds.** Two workers or processes are enough for every race between two
actors over a row, and a third party (client or producer) runs beside them. Two
Defense jobs of one request, plus `verify_bundle` jobs, exercise the partial
index in both outcomes; attempts range over 1 to 2 for a LiteSVM job, and every
larger number is the default 2. `canonical_queue` has three jobs: a root, its
child and one more, which a second request or a retried parent would need to
duplicate either. Two attempts
cover first, retried and exhausted. Times are counters: a lease of one or two
units and a stale time of two units let a worker be early, on time or late;
only the comparisons between them matter. `MaxRestarts` bounds restarts in
`CanonicalJobs` and `WebhookDelivery`. `Faults` is
TRUE in the passing runs: every statement may fail or lose its reply. Symmetry
is used in safety runs only. `webhook_delivery` has one delivery, three
attempts and two restarts, so that stale recovery can come in an early and in
the last attempt; a retry is due one unit after the recovery ceiling, so that a
worker sleeps twice for it; two failures
stand for the twenty that pause an endpoint. `entitlements` has one output per
package, so that every reservation is the last and every refund meets a bound;
three events are an activation, a revocation or renewal, and one that comes
late. `radar_retention` has one event, whose three rows can each be made twice
(`MaxMade`): a row that comes back is the case that matters, and events do not
meet. Its two limits of 2 and 3 attempts stand for 3 and 5: a retry below the
first, the row the trigger turns into an exhausted one, and a retry between the
two; `RetriesBounded` stops following the last row made once it has been claimed
again as exhausted. Bans have no bound in `entitlements`, and what a
subscription's metadata say is chosen at the start. In `canonical_queue` the root
has a background class and its child an ordinary one, so that the order of the
classes decides between rows that are both due. `rpc_access` has two scans that share a load and a third, whose
context may end (`Impatient`), whose load overlaps with theirs; they fail over
from one provider to the other, and cooldowns of one and two units overlap in
both orders. `MaxEvents`, `MaxFaults`, `Periods`, `MaxMade` and `MaxPanics`
exist for TLC alone, like `MaxRestarts`. Deadlock checking is off because a system whose
jobs are all settled, and whose row identities are used up, has nothing to do.

**`Prompt`.** `defense_prompt`, the runs of the canonical queue and of the
webhook deliveries, and five theorems need live processes to act in time: a
Defense worker settles a job by its job timeout (`context.WithTimeout` in
`cmd/defense-worker/main.go`), and a canonical worker's heartbeat (30 s) comes
before the job is stale (2 h), a webhook attempt ends (15 s) before its lock is
stale (2 min). A suspended process breaks this, so what must hold regardless is
checked with `Prompt = FALSE` where the code provides for it. The writes of the
canonical queue and of the webhook worker are `WHERE id=$1` only: there
fencing, and that a confirmed delivery stays confirmed, depend on promptness,
and the modules say so.

**Fairness.** Defense: the loop never stops claiming, each phase of a job ends
(every processor runs under a timeout), time passes. Canonical and webhooks:
the loop goes on, wait timers fire (recovery ceiling of 15 minutes), external
calls have timeouts, time passes; strong fairness on the claim says that a
database which fails now and then answers now and then. Entitlements: the
provider repeats an event until it is answered with 200, and a handler that has
begun ends; `EventsSettle` asks in its premise that the customer's profile is
active from some time on, because nothing obliges an owner to lift a ban. RPC access: goroutines run, timers fire, and every request to a
provider has a timeout, so that a call in "send" ends. Client calls, crashes,
restarts, cancellations, panics and errors are never required to happen.

**What the properties spare.** Hazards that the models contain, and that no
checked property refutes, because the code lets them happen and no document of
the repository says otherwise:

- a LiteSVM job whose worker dies in its last attempt stays running
  (`Abandoned`, exempted in `JobsSettle`), and a webhook delivery that a restart
  interrupts waits for the next process start;
- a lease that is shorter than the work lets two processes run one Defense
  command; the records stay right (`OneWorkerPerAttempt`), while
  `ExclusiveExecution` is stated for leases that outlast the work;
- a canonical or webhook worker that outlives its stale time writes to a row
  that is another's: outside `Prompt`;
- callers of a load whose function panicked wait for ever (`Panic`, exempted in
  `ScansAnswered`);
- an archived copy that differs from its row halts every later retention run
  (`Halt`): nothing is lost, and nothing is archived either;
- an answer that comes late closes or opens a circuit that has changed since
  (`CircuitCounts` keeps counter and state together and says no more);
- several deliveries to one endpoint that fail together: `webhook_delivery` has
  one delivery, and the theorem `FailingEndpointsArePaused` has any number.

## 4. What is proved

`DefenseWorkerQueueProofs`, for any jobs, requests, clients, workers,
identifiers and times (`NamesAssumption`, `TimesAssumption`):

| Theorem | Says |
|---|---|
| `TypeCorrect` | `Spec => []TypeOK` |
| `AttemptsAreExclusive` | `Spec => []OneWorkerPerAttempt` |
| `RequestsAreDeduplicated` | `Spec => []OneActivePerRequest` |
| `CompletionsAreRecorded` | `Spec => []CompletedIsRecorded` |
| `AuditTrailIsTrue` | `Spec => []AuditTrailTrue` |
| `QueueIsFenced` | `ImplementsFencedJobs`, from `DistinctIdentifiers` |
| `QueuePromises` | the promises of the abstract queue (below), from `DistinctIdentifiers` |
| `ExecutionIsExclusive` | `[]ExclusiveExecution`, from `LeaseOutlastsWork` (promptness, and a lease longer than the job timeout) |

The argument. None of these invariants is inductive alone. `Inv` strengthens
them with what a worker's memory says of the row: a busy worker holds a present
row, under an attempt between one and the row's (`HeldClaim`); an attempt number
is handed out once, so two holders of one job differ in it (`HeldDistinct`); a
worker in phase completed or failed wrote the row it is about to report
(`HeldSettled`); one about to complete a LiteSVM job has stored its attempt
(`HeldRecorded`); an absent row is fresh and no one holds it (`AbsentIsFresh`).
`Inv` holds initially and every action preserves it, one lemma per conjunct and
one step per action. The refinement needs `OwnerIsCurrent` besides: while
identifiers are distinct, the row's owner is the holder of its newest attempt,
so `OwnsRow` implies the newest token. Exclusive execution needs `LeaseCovers`:
the lease of a row outlasts the remaining work of its holder, which `Tick`
preserves because it lowers both.

`RpcAccessProofs`, for any callers, keys, providers, hosts, delays and times
(`RpcAssumption`: scans and requests of the transport are disjoint, limits and
times are positive):

| Theorem | Says |
|---|---|
| `RpcTypeCorrect` | `Spec => []TypeOK` |
| `LoadsAreShared` | `Spec => []LoadedOnce` |
| `SlotsAreSpaced` | `Spec => []NoEarlySlot` |
| `CircuitsAreCounted` | `Spec => []CircuitCounts` |

The argument. The invariant has three parts that share only the types.
`Flights`: a scan from its second lookup to its end is the one the group holds
for its key, so a second leader of the key, which `LoadedOnce` excludes, would be
the first; a load's key is not in the cache, and stays out of it because only a
leader stores; a load that is calling has a call left, without which the count
could pass zero. `Paced`: the cooldown the governor keeps is at least what was
promised, and the time since the last slot together with the pacing clock is at
least the interval. `TakeSlot` finds both clocks at zero, so nothing promised is
left; `Throttled` only moves them out; `Tick` lowers both sides.
`CircuitCounts` is inductive with the types alone.

`CanonicalJobsProofs`, for any jobs, processes, calls, targets and depths
(`CanonicalAssumption`: at least one attempt, and a stale time above zero, which
`StartCanonicalInvestigationJobWorker` clamps to five minutes or more):

| Theorem | Says |
|---|---|
| `CanonicalTypeCorrect` | `Spec => []TypeOK` |
| `WakeUpsAreKept` | `Spec => []NoLostWakeup` |
| `BranchesHaveOneJob` | `Spec => []OneJobPerBranch`, from `Prompt` |
| `CanonicalQueueIsFenced` | `Spec => ImplementsFencedJobs`, from `Prompt` |
| `CanonicalPromises` | the promises of the abstract queue (below), from `Prompt` |

The argument. `NoLostWakeup` is about a worker that waits, and is not inductive:
the race is lost, if at all, between the claim that finds nothing and the wait.
`Wakes` therefore holds from that claim on. At the claim no queued row is left;
a row that becomes queued later, with a signal of the same process, finds the
gate drained already and fills it. The rest needs promptness: `Exclusive` says
that the job of a worker is running, fresh, in the worker's own attempt and in
no other worker's hands, so that writes which look at the id alone write what
the newest attempt may write. Then no settled job becomes live again, and a
branch gets a second job only past the look-up under the advisory lock
(`OneJobPerBranch`). The refinement maps inserts to `Submit`, claims to `Grant`,
settling statements to `Settle` or `Recover`, stale recovery to `Recover` of the
stale set, and everything else to a stutter.

`WebhookDeliveryProofs`, for any endpoints, deliveries, calls, delays and
limits, and any finite set of processes (`WebhookAssumption`):

| Theorem | Says |
|---|---|
| `WebhookTypeCorrect` | `Spec => []TypeOK` |
| `WorkersNeverOversleep` | `Spec => []NoOversleep` |
| `FailingEndpointsArePaused` | `Spec => []ActiveBelowLimit` |
| `AttemptsAreBounded` | `Spec => []AttemptsWithinLimit`, from `Prompt` |
| `DeliveredForGood` | `Spec => DeliveredIsFinal`, an action property, from `Prompt` |

The argument. Behind a sleeping worker no delivery becomes due earlier, unless
its process is signalled or the delivery was never told of (`SleepersStay`, used
by every action); `Look` sleeps no longer than the least due time
(`NextDueBound`), and `Tick` lowers both sides. `RowsHaveEndpoints` (a row that
is there has an endpoint that is active or paused, a row that is not there was
told to no one) and `HeldRows` are needed to type the writes of a worker whose
endpoint is deleted under it. With prompt processes the row a worker holds is
locked, in its own attempt and in no other hands, or deleted (`Exclusive`);
that gives `DeliveredForGood`. `Budget` strengthens the bound on attempts: a
waiting row has an attempt left within the limit, or one start of a process has
not been used up yet. A recovery of stale locks happens in the step that counts
a start, so it pays for the attempt it returns; a retry is below the limit.

`EntitlementsProofs`, for any subscriptions, grants, rows, package sizes and
bounds, and any finite set of requests (`EntitlementAssumption`):

| Theorem | Says |
|---|---|
| `EntitlementsTypeCorrect` | `Spec => []TypeOK` |
| `OutputsArePaidFor` | `Spec => []NotOversold` |
| `RefundsAreBounded` | `Spec => []WithinPackage` |
| `RevocationsHold` | `Spec => []RevokedStaysOff` |

The argument. Rows are counted against recorded payments, so an open
transaction must be about an event that was emitted and is not recorded yet
(`TxMatches`), and a request past its reservation must hold a row that was
filled (`Holds`): then a commit adds a payment and at most a package, a
reservation moves one output from the row to a request, and a refund moves it
back or drops it. `RowsBounded` gives `WithinPackage`. Revocations hold because
the provider emits nothing about a subscription after its revocation
(`FeedFinal`), so that an activation past its check has none behind it or is
counted as overtaken (`NoStaleActivation`).

`RadarRetentionProofs`, for any events, analysts, retention workers and limits
(`RetentionAssumption`, and `NoRowAssumption`: no row is not a row):

| Theorem | Says |
|---|---|
| `RetentionTypeCorrect` | `Spec => []TypeOK`: every row stored failed has attempts below the first limit and every exhausted one has reached it, as the trigger leaves them |
| `NothingIsLost` | `Spec => []NothingLost` |
| `ExportsAreSunk` | `Spec => []ExportedIsSunk` |
| `CompletedRowsHaveVerdicts` | `Spec => []CompletedHasVerdict` |

The argument. Copies leave the archive only when they are marked exported, and
they are marked after an object was read back: `BatchSunk` says that the rows of
a batch still wait in the archive and are in the sink unless the object went
bad, which needs the advisory lock (`OneExporter`) against the marks of another
worker. An archived copy that differs from the row halts the run, so what a
statement deletes equals its copy. `JobsHaveVerdict` carries the verdict an
analyst saved or saw to the moment it marks the row, unfenced: it is in the
table or was taken by retention, and nothing else takes it. The proof holds for
any number of retention workers; `radar_retention` runs one.

`FencedJobsProofs` states what the abstract queue promises and proves it for any
jobs and requests: `RequestsAndGrants` (a request never has two unsettled jobs,
the newest grant settles a job, grants stay within the limit) and
`SettledForGood` (no step changes a settled job). `QueuePromises` and
`CanonicalPromises` carry both over to the two tables through the refinement
mappings, by instancing `FencedJobsProofs` under them: there a request is the
hash of a LiteSVM request or a branch, and a grant an attempt.

The inductive invariants were checked by TLC on the instances of the runs before
they were proved, those with a promptness part with `Prompt` TRUE and FALSE.

Only model-checked: liveness (`JobsSettle`, `QueuedJobsStart`, `DueIsAttempted`,
`EventsSettle`, `ScansAnswered`), which is out of the prover's reach, and the
five disagreements, which are counterexamples. Every invariant and action
property of a passing run has a theorem. What `Prompt` stands for is an
assumption of the theorems that name it, not a result: it is about real time,
and is justified above.

## 5. Not modelled, and the plan

Parts that keep state and are not modelled: security alert deliveries and the
automatic publication of dossiers (the loop of `WebhookDelivery` and the gate of
`CanonicalJobs` again), rate-limit windows, enforcement permits, follow-ups,
sessions, the radar's stream, gap healer and inbox, Shopier's packs, the API
keys' counters, `Group.DoContext` with the signature guard, and the run ledger
of retention, which is written and decides nothing. Most of the repository's
lines are investigation, rendering, pure scoring of evidence and HTTP wiring:
they have no state of their own, their outcomes are the nondeterministic choices
of the models, and translating them would restate them. Decision and risk rules
and the execution proofs are pure, and candidates for a bounded comparison with
a reference definition.

Proofs still to do: which conjuncts of `Exclusive` survive a stalled canonical
or webhook worker, and the theorems without `Prompt` that follow from them.

Every module meant for proof is written without RECURSIVE operators.
