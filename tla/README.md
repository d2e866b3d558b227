# Verification of Jules Supervisor

Jules Supervisor watches coding sessions that run at Google Jules, asks an AI
what to answer, and either answers by itself or puts the answer in front of a
human operator.  This directory holds TLA+ models of the parts of it where
several actors share state, configurations that check them with TLC, and
theorems that TLAPS checks for every value of the constants.

All paths below are relative to the repository's root.

## 1. The system

### 1.1 Components, their state, their operations

| Component | State it keeps | Operations | What makes it correct |
|---|---|---|---|
| Session poller, `apps/worker/src/poller.ts` | `sync_checkpoints` row | lists active sessions and all their activities on every poll, hands each to the pipeline | every activity is handed over at least once; the cursor is diagnostic only |
| Supervision pipeline, `pipeline.ts` | `sessions`, `activities`, `decisions`, `approval_requests`, `execution_attempts`, in-memory correction fingerprints | `processActivity`, under the lock `session:<id>` | one decision per activity; nothing auto-executes that gate, policy, risk, budget or kill switch exclude; every decision reaches an approval, an attempt or a final state |
| Execution gate, policy, risk, `packages/core`, `packages/policy` | none (pure) | `evaluateExecutionGate`, `PolicyEngine.evaluate`, `calculateDeterministicRisk` | the stricter verdict always wins |
| Budget, corrections, loop detection | `session_budgets`, `corrections` | counters raised in SQL, read before an AI call | the counter passes its ceiling by less than one decision's calls per concurrent worker; no correction executed twice |
| Approvals route, `apps/web/src/app/api/approvals/[id]/route.ts` | `approval_requests`, `decisions`, `outbox` | an operator approves, edits, rejects or cancels, in one transaction | an approval is answered once, and all that follows from the answer commits with it |
| Outbox dispatcher, `outbox-dispatcher.ts`, `outbox.repository.ts` | `outbox` | `dispatchOnce` every 2 s per worker: scan, lock, claim, call Jules, settle | what was sanctioned is done, given up or handed back; nobody reports on behalf of another claim |
| Execution-attempt ledger, `execution-attempt.repository.ts` | `execution_attempts` | create, claim, mark executing / succeeded / failed / unknown, re-claim stale | intent is durable before the effect; success is never recorded of a call that had none |
| Reconciler, `reconciler.ts` | none | `reconcileOnce` on a timer per worker | stale ledger rows end up with an operator; it never mutates |
| Kill switch, `packages/db/src/kill-switch.ts` | four `system_settings` rows | operators set RUNNING, PAUSED or SAFETY_LOCKED; workers read it, failing closed | no mutation while halted |
| Distributed lock, `lock.ts` | a Redis key per resource with a TTL; or a map in the process | acquire, renew every third of the TTL, release by compare-and-delete | one holder at a time while holders can renew |
| Runtime configuration, `runtime-config.ts`, settings route | `system_settings`, `CONFIG_REVISION`, `WORKER_STATUS_*` | operators save settings; workers load them at boot, poll every 5 s, reload and acknowledge | an acknowledged revision has been loaded; mode and AI provider are of one save; settings that have settled reach every worker |
| Provider router, circuit breaker, `packages/ai` | breaker, health and cached DNS verdict per provider, in memory | ordered fallback, bounded retry, total deadline | an open breaker holds; only a provider's own failures open it; no provider is overlooked; the primary comes back |
| Semantic memory, `packages/ai/src/memory-*.ts` | `ai_memories`, `ai_memory_embeddings`, a vector index (Qdrant) | reflect and admit, recall, consolidate (expire, mark stale, reindex) | the index follows the table; no outage loses a memory; what has expired is not recalled |
| Secrets, `packages/db/src/crypto.ts` and `system-settings.repository.ts` | sealed rows of `system_settings` | encrypt, decrypt, `rotate-key` | one key opens every row |
| Web API, middleware, dashboard | rate-limit buckets | listings, events, login | presentation and access, no supervision state |
| Jules (external) | sessions, plans, messages | `approvePlan`, `sendMessage`, reads | a failed POST may have taken effect; no documented idempotency |

### 1.2 How they interact

Poller → pipeline is a function call; pipeline → operator is a row in
`approval_requests`; operator → dispatcher is a row in `outbox`, written in the
transaction that answers the approval; dispatcher and pipeline → Jules are HTTP
POSTs; dispatcher → reconciler is a ledger row whose lease has lapsed; operator →
everyone is the kill switch, and the settings with their `CONFIG_REVISION`, in
`system_settings`; pipeline → provider router is a function call that returns a
decision and the attempts the budget is charged by; pipeline ↔ memory is a recall
before the AI is asked and a reflection after a session has ended.  PostgreSQL is the only place
where workers meet, apart from the Redis locks.  No pass of any timer waits for
the previous one (`apps/worker/src/index.ts:225-252`), and two overlapping
passes of one process share one worker identity, `hostname:pid`.

### 1.3 What is hard

- **Interleaving.** Overlapping passes, several workers, operators and the
  reconciler act on one row between any two awaits.
- **Failure between writes.** An outcome is recorded by four statements in four
  tables, without a transaction.
- **An external effect.** Jules may have acted although the call failed; a crash
  right after it leaves nothing but the intent.
- **Leases.** Two different leases (outbox claim, ledger claim) and a lock TTL
  lapse independently of whether their holder is alive.
- **Two fencing tokens.** The outbox row and the ledger row count separately.
- **Stale reads.** Kill switch, batch, budget and configuration are read early
  and used late.
- **Two stores.** A memory is a row in PostgreSQL and a point in Qdrant, written
  one after the other, by admissions and overlapping consolidation passes.

`PROJECT.json` lists these as hazards, each at its line, with the properties
that cover it or the reason why none does yet.

## 2. Modules

| Module | Role |
|---|---|
| `OutboxDispatch` | approvals route, kill switch, dispatcher, ledger, reconciler, Redis lock, crashes |
| `SanctionedAction` | abstract: what the outbox promises operators and Jules |
| `OutboxRefinement` | the refinement mapping from `OutboxDispatch` to `SanctionedAction` |
| `OutboxClaims` | statements of the repository about the outbox that the code does not keep |
| `ExecutionGate` | pure: execution gate, effective risk, and the pipeline's overrides |
| `RiskPolicy` | pure: deterministic risk and policy rules; extends `ExecutionGate` |
| `Pipeline` | poller, `processActivity`, budgets, corrections, AI calls, ledger, reconciler, crashes; extends `ExecutionGate` |
| `SupervisedQuestion` | abstract: what the pipeline promises operators, auditors and Jules |
| `PipelineRefinement` | the refinement mapping from `Pipeline` to `SupervisedQuestion` |
| `PipelineClaims` | statements of the repository about the pipeline that the code does not keep |
| `RuntimeConfig` | settings route, `CONFIG_REVISION`, a worker's boot and life, `RuntimeConfigSynchronizer`, key rotation |
| `ProviderRouter` | provider router, circuit breaker, the endpoint provider's cached lookup |
| `MemoryLifecycle` | admission, recall and consolidation of the semantic memory, and its index |
| `SessionPolling` | the session watcher: pages of sessions and activities, hand-over, checkpoint row |
| `MCOutboxDispatch`, `MCPipeline`, `MCRuntimeConfig`, `MCProviderRouter`, `MCMemoryLifecycle`, `MCSessionPolling` | instances for TLC |
| `OutboxProofs` | inductive invariant, fencing and mutual exclusion of the outbox |
| `OutboxEffectProofs` | what the outbox records is true, decision and row agree, and it implements `SanctionedAction`; extends `OutboxProofs` |
| `PipelineProofs` | what gate, risk and policy let through, for every proposal, its signs and every configuration; the pipeline's types |
| `PipelineEffectProofs` | the pipeline's effects, budgets and corrections, and that it implements `SupervisedQuestion`; extends `PipelineProofs` |
| `RuntimeConfigProofs` | types of the settings, and what revisions and acknowledgements mean |
| `RouterProofs` | types of the router, hits on an open breaker, what opens one, and that no provider is left out |
| `MemoryProofs` | the index, admissions and outages of the memory; recalls and `selectDiverse` |
| `PollingProofs` | types of the poller, and that no activity is left behind |

The two halves meet in the rows `approval_requests`, `decisions` and
`execution_attempts`: `Pipeline` ends where an approval is queued, and
`OutboxDispatch` begins there.  `ProviderRouter` is what `Pipeline` abstracts to a
routing that is answered, refused or timed out; `RuntimeConfig` is where the
mode and the provider come from that `Pipeline` takes as given; `SessionPolling`
is what `Pipeline` abstracts to `Poll` and `Deliver`.

An operator `X_Y` that stands before `X` is `X` with one plausible defect (a
dropped guard, an off-by-one, a retry).  The specifications do not use it;
replacing `X` by it makes TLC refute the property that `PROJECT.json` pairs it with.

### 2.1 How OutboxDispatch corresponds to the code

*An item* is one approval with its decision and, once sanctioned, its outbox row
and ledger rows.  *A pass* is one invocation of `dispatchOnce`, so a worker with
overlapping passes is several passes with one `WorkerOf`.  `pc[p]` names the
statement the pass awaits next; `todo` is the rest of its batch; `item`, `token`
and `number` are `item`, `fencingToken` and `claimed.attempts` of `processItem`;
`verdict` remembers which branch of the try/catch it is in.

Each action is one awaited statement, with the code's own guard: the `WHERE`
clause of an UPDATE decides whether the row changes, and a caller that ignores
the result goes on either way.  In particular:

- `Claim` repeats the condition of `findClaimable` without the attempts check,
  as `OutboxRepository.claim` does.
- Ledger writes are guarded by owner and by the **outbox** token, as
  `processItem` passes it; `markExecuted` of a decision has no guard at all.
- `Mutate` ends in success, or in a failure of any category, with or without
  effect: `classifyExecutionEffect` reads the category off the message.
- `Catch` is a database call that throws inside the `try`, after Jules has
  acknowledged: the catch block then records an outcome for a database error.
  `Abort` is the same outside the `try` or inside the `catch`.
- `Recover` and `Escalate` are `recoverStale` and `markNeedsReconciliation`,
  separate statements of one reconciler pass.
- `Crash` stops every pass of a worker and leaves rows and Redis keys as they are.

Time is abstracted to "the lease has lapsed": `LapseOutbox` may happen at any
moment after a claim, whether or not the claimant is alive, and `LapseLock`
likewise unless `RenewalMayFail` is FALSE, in which case a live holder keeps its
lock.  The ledger lease needs no variable: nothing renews it and only the
reconciler reads it, so every open row may be stale.

Left out: payloads, messages, log lines, metrics, timestamps, audit rows,
authentication, the in-memory lock (what two processes can do under it is what
two passes can do when `RenewalMayFail` is TRUE), graceful shutdown (in
mid-pass it is a `Crash`).

### 2.2 How Pipeline and ExecutionGate correspond to the code

*An activity* is something Jules may ask; its session waits on it until somebody
answers.  *A worker* is one process: its `SessionWatcher` polls sequentially, so
it is in at most one `processActivity` at a time, and its reconciler runs beside
it (`rescue`).  `pc[w]` names the await that comes next; `seen` is the session
state the poll has listed, `todo` the activities it has still to hand over,
`act` the one in hand, `offer` the AI's proposal or what stands in for it,
`calls` the AI calls to be charged, `verdict` the branch the code is in.

| Steps | Code |
|---|---|
| `Poll`, `Deliver` | `poller.ts:90-191`, `withLock` of `lock.ts` |
| `Lookup` … `ReadSafety` | session and activity upsert, idempotency key, budget, kill switch |
| `AskAnswered`, `AskRefused`, `AskTimedOut`, `Charge` | `ProviderRouter.decideWithAttempts` and the charge, on success and in the catch |
| `Decide` | loop detection, risk, policy, gate, overrides, `INSERT … ON CONFLICT DO NOTHING` |
| `Audit`, `Approve`, `FlagSession` | the approval branch |
| `CreateAttempt` … `Mutate` | the ledger, the second reading of the switch, `getSession`, the correction check, the POST |
| `Record` … `Resume` | fingerprint, counter, outcome, session |
| `FailAttempt`, `FailDecision`, `Release` | the catch block, `finally` |
| `Recover`, `Escalate`, `AbandonRescue` | the reconciler, as in `OutboxDispatch` |

Guards and failures are the code's own:

- **Ledger writes ignore their result.**  `LedgerStep` goes on whether or not
  the `WHERE` clause matched, so a worker whose row the reconciler has taken
  goes on to mutate.
- **`Mutate`** succeeds, or fails with any category and with or without effect.
- **The deadline** of a routing throws an exception without attempts: the calls
  were made (`uncharged`, counted up to `MaxUncharged`) and are never charged.  It may
  do so at every poll.
- **Database calls that throw** are `Throw` outside the try block, where the
  exception ends the worker's turn on the session, and `ThrowInside` within it,
  where the catch block reports some category of a database error.
- **The kill switch** that cannot be read is `SafetyUnread`: SAFETY_LOCKED.
- **Crash** forgets a worker's variables and leaves rows and Redis keys.

An assessment is what `RiskPolicy` makes of a proposal's *signs*: which
destructive patterns match its text as it is (the risk) and normalised (the
policy), which path patterns match its files, how many files, what confidence.
`AssessmentOf` applies the patterns' two lists, which differ, the ceiling on
files, the floor on confidence and the gravest rule's verdict; `MCPipeline`
gives `Pipeline`, as `Assessed`, what it makes of some signs.  What text a pattern matches is not modelled.

Abstracted: token and cost ceilings and loop detection may strike at any time;
confidence is whether it reaches the threshold; the in-memory fingerprints are
dropped because each of them is in the table as well; the fencing token is
dropped because the pipeline passes none, so that only the owner can matter.
`Poll` reads session and activities in one step, because only activities of the
kind the session was seen waiting on go on; pages and the checkpoint row are in
`SessionPolling`.  Left out: prompt context, memory, audit rows and metrics.  Mode
DISABLED returns before anything happens and is a worker that does not poll.

### 2.3 How RuntimeConfig corresponds to the code

*A setting* is a key of `SETTINGS_CATALOG`; `rows` are its overrides, each with
the key that seals it or `Plaintext`.  *A pass* is one invocation of `syncOnce`;
the 5 s timer does not wait, so a worker has several.  `version` numbers saves
and `versionOf` says which save last carried a revision; both are history.

| Steps | Code |
|---|---|
| `SaveSettings`, `DeleteSetting`, `Stamp` | PUT and DELETE of `settings/route.ts`, each one transaction, and `CONFIG_REVISION = Date.now()` |
| `Accepts` | `validateUpdatePayload`: each value by its schema, the empty string (`Blank`) where the schema takes it (`Blankable`) |
| `Shown`, `ReloadPending` | GET of the settings page, row or environment or default, whichever is the first not empty, and GET of `runtime/status` |
| `RotateRead` … `RotateDone` | `rotate-key` and `rotateEncryptionKey`, an UPDATE per secret, no transaction |
| `Boot`, `StartWatcher` | `main()` of `apps/worker/src/index.ts`: overrides or the environment alone, provider, lock, queue, poller |
| `SyncRead` … `SyncReport` | the awaits of `syncOnce`; from the answer of `getAsMap` to the acknowledgement it is one step |
| `Reloaded` | `onReload`: the provider first, which may throw, then the pipeline, then the poller, which may not exist yet |

A worker is stopped by `Crash`, or by `Shutdown` and `Exit`: `shutdown()` clears
timers and does not await passes.  Left out: audit rows, metadata, and what each
schema accepts (edits are a parameter).

### 2.4 How ProviderRouter corresponds to the code

One routing (`decideWithAttempts`) is in flight, because a worker's poller
processes one activity at a time.  Its steps are what happens between two
awaits: a DNS lookup where the provider's host has not been validated yet, a
call, and the deadline over all of it.  `GoOn` is the loop over providers with its
skips, `TryAgain` the retry, `PenaliseAndGoOn` the catch block.  A breaker
keeps the ages of its failures inside the window and the time since it opened,
each only as far as it matters; `Tick` makes them older.  `Reload` builds a new
router, `Outage` lets providers and name servers come and go.  `hits` and
`failedRun` are history.  Left out: token counts, latencies, messages, prompts.

### 2.5 How MemoryLifecycle corresponds to the code

*A lesson* is a fingerprint: type, repository, normalised content.  `Reflector`s
are calls of `reflectAndAdmit`, `Consolidator`s passes of `consolidate`,
`Recaller`s calls of `recall`; each await is a step, nothing is in a transaction.

| Steps | Code |
|---|---|
| `Reflect`, `Lookup` … `QueueRetry` | `reflect`, then `admitMemory` for one candidate after the other |
| `Expire` … `EndPass` | `expireOverdue`, `findPotentiallyStale`, `listPendingEmbeddings`, reindexing |
| `Search`, `Load`, `Select`, `RecordInfluence` | `recall`: the index, the row behind every hit, `scoreMemory` and `selectDiverse`, the influence rows |
| `Outage` branches | an embedding or an upsert that fails, before or after it took effect |
| `Fault` branches, `Dies` | a statement that fails, a worker that dies |

`Selections` says of a list, rank by rank, that the row is the best of those still
open: what the loop of `selectDiverse` arrives at, which ties leave open.

Left out, because the code never gets there: promotion (successes are never
counted) and archiving (it needs an importance below 0.3 and none is below 0.4);
superseding, invalidating, validating and deleting have no callers.

### 2.6 How SessionPolling corresponds to the code

*A poller* is the loop of one worker; `pc` names the await that comes next.  Jules'
page tokens are opaque; in the model a token stands for the number of entries
before its page.  A feed may grow in any place and loses nothing, and the list of
sessions may be reordered at any time.

| Steps | Code |
|---|---|
| `Wake` | `pollLoop` after its sleep, regular or backed off |
| `ListSessions`, `GoOn` | `listSessions`, `needsInspection`, the page ceiling and the repeated token of `syncActiveSessions` |
| `ListActivities`, `Deliver`, `Processed` | `listActivities` and the hand-over: nothing to do, a lock that is taken, or `processActivity` under the lock |
| `ReadRow`, `WriteRow`, `Cursor` | `upsert`: `getBySession`, then `insert` or `update` |
| `NextPage`, `Leave`, `LeaveFailed` | the end of a page and of `reconcileSession`, and the `catch` around it |
| `Stop`, `Start`, `Lapse` | death or shutdown of a worker, its restart, the TTL of its lock |
| `Arrive`, `Move`, `Change` | Jules |

`todo` is what is left of a page of sessions; `Ready` drops from its head those that
`needsInspection` skips, at the moment the loop comes to them.

`Asks` and `Key` are the condition under which `processActivity` goes on and the
idempotency key of its decision, both read off the normalised activity (`IdOf`,
`TypeOf`).  `processActivity` itself is one step: it ends with the decision row, old or
new, or it throws, as it always does for an activity in `Unstorable` (text that
PostgreSQL refuses).  `due` is history.  Left out: how long the poller backs off,
the read retries and rate limiter of the client, `deleteBySession`, which nothing
calls, and locks that are lost while held, which `Pipeline` has.

### 2.7 The abstract specifications

`SanctionedAction` speaks of an operator's answer, of calls that took effect at
Jules, and of one report.  Nothing takes effect unless it was sanctioned; a
refusal stands; each of a bounded number of calls takes effect at most once; the
report is made once, and "done" only of something that took effect.  It does not
promise a single effect, nor that "failed" means no effect, because the code
keeps neither.  `KeepsPromise` is the abstract specification under the mapping
approval → sanction, `applied` → effects, terminal outbox status → report.

`SupervisedQuestion` speaks of a question that Jules asks: how it was ruled on, whether it
was put to a human, whether the ledger has a trace of it, what took effect, and
what was reported.  There is one ruling and it is never revised; only what was ruled
to need a human is put to one; only what was ruled tolerable is acted on, as it was
ruled, once, after the trace and before any report; "done" is reported only of what took
effect.  It does not promise that "failed" had no effect, and "done" may become
"failed": the session update after `EXECUTED` is in the same try block
(`pipeline.ts:829-831`, `:885`).  `RulesOnce` is the abstract specification under the
mapping decision row → ruling and report, approval row → queue, claimed ledger row →
trace.  Of the invariants of `Pipeline`, `MutatedAtMostOnce` and `EffectsAreLedgered`
follow from it; it adds to them that rows are never rewritten and the order of things.

## 3. Runs

| Run | Instance | Shows |
|---|---|---|
| `outbox_safety` | 1 item, 2 overlapping passes of one worker, lost locks, 1 fault, approve or reject | `TypeOK`, `ClaimsFenced`, `CompletedByLastClaim`, `KeepsPromise` |
| `outbox_exclusive` | 2 items of one session, batches of 1, 2 passes, locks renewed by live holders, the switch, 1 fault | `OneDispatcherPerSession`, `DecisionFollowsOutbox`, `UncertainNeverReplayed` |
| `outbox_liveness` | 1 item, 2 passes, reconciler, 1 fault, fairness | `EffectsAreLedgered`, `SuccessIsTrue` with a reconciler, `SanctionedActionSettles`, `AttemptsResolve` |
| `pipeline_safety` | 1 activity, 2 workers with reconcilers, lost locks, 1 fault, three kinds of proposal, four assessments, FULL_AUTO and DRY_RUN | `TypeOK`, `MutatedAtMostOnce`, `EffectIsTheDecision`, `QueuedIsUntouched`, `SuccessIsTrue`, `RulesOnce` |
| `pipeline_exclusive` | 2 activities of one session, 2 workers, locks renewed by live holders, 1 fault, one correction proposed throughout | `AiBudgetHolds` with one rival, `CorrectionsDiffer` |
| `pipeline_liveness` | 1 activity, 2 workers, the switch, an AI that may fail or hang at every poll, 1 fault, fairness | `EveryQuestionDecided`, `DecisionsConclude`, `AttemptsClose` |
| `settings` | 1 worker, 2 overlapping passes, 2 saves or reverts, one of which clears a setting, 1 rotation, 1 fault, fairness | `TypeOK`, `LoadedCoversRevision`, `NotPendingMeansLoaded`, `SettledSettingsReachWorkers` |
| `router` | a primary behind the DNS and a fallback, 1 retry, breakers that open at 3 failures, fairness | `TypeOK`, `HammeringBounded`, `TrippedByOwnFailures`, `EveryProviderConsidered`, `PrimaryComesBack` |
| `memory` | 2 reflectors, 2 overlapping consolidation passes, 1 recall, 1 outage, 1 fault, fairness | `TypeOK`, `IndexFollowsTable`, `LostOnlyByFault`, `NothingForgottenIsRecalled`, `AdmittedMeansStored`, `PendingGetsIndexed` |
| `polling` | 2 workers, 2 sessions, 5 activities of which one cannot be stored and one has no identity, pages of 1, a ceiling of 2 pages, 1 change at Jules, 1 fault, fairness | `TypeOK`, `NothingLeftBehind`, `EveryQuestionHandedOver` |

Two more runs refute a statement of the repository; each has the smallest
instance in which the statement is about something.

| Run | Refutes | What happens |
|---|---|---|
| `claim_never_lost` | `NeverLost`, `packages/db/src/schema.ts:318` "Guarantees an approved action is never lost" | The worker dies in the last permitted attempt.  `findClaimable` skips rows at `max_attempts`, and nothing else settles them. |
| `claim_rotation` | `RotationIsAtomic`, `system-settings.repository.ts:128` "Runs inside a single database transaction" | The updates are separate statements of the pool.  One fails, and the secrets are left under two keys, so that no worker and no settings page can read them. |

Eight further statements are refuted on instances of the existing modules.  No run
repeats them; each takes a cfg of a few lines that names the constants on the right
and, for what it leaves out, those of the module's own runs.

| Refuted | What happens | Instance |
|---|---|---|
| `OutcomeIsRecorded` (invariant), `outbox-dispatcher.ts:148` "Transition to terminal success with owner & fencing verification" | `claimPending` raises the ledger token to 2; the first outbox claim also carries 2, the second 3.  From the first retry on every fenced ledger update matches no row, its result is ignored, and the row of a successful attempt stays CLAIMED until the reconciler escalates it. | `OutboxClaims`: 1 item, `Pass = {p1}`, no reconciler, `MaxAttempts = 2`, `MaxFaults = 0` |
| `OnlyFailedAttemptsRetried` (invariant), `reconciler.ts:36-37` "never issue another mutation during recovery" | The reconciler keeps this, the dispatcher does not: it re-claims the lapsed row and sends the action again while the ledger says EXECUTING or NEEDS_RECONCILIATION. | the same with `Pass = {p1, p2}` of one worker, `Reconciler = {r1}`, `RenewalMayFail = FALSE`, `MaxFaults = 1` |
| `HaltStopsMutations` (property), `kill-switch.ts:9-11` "MUST be enforced in the same critical section as any external mutation" | The switch is read once per pass, before the batch and before any lock. | `Pass = {p1}`, no reconciler, `SafetyState = {"RUNNING", "PAUSED"}`, `MaxFaults = 0` |
| `AiCallsWithinCeiling` (invariant), `packages/core/src/budget.ts:4` "Enforces hard ceilings on AI calls" | A routing that the total deadline cuts off has made its calls and charges none, and the next poll asks again. | `PipelineClaims`: 1 activity, 1 worker, `MaxAiCalls = 1`, `CallsPerDecision = 1`, `MaxUncharged = 2`, `MaxFaults = 0` |
| `IdenticalCorrectionSentOnce` (invariant), `correction-loop.ts:23` "identical corrections are never re-sent" | A POST that failed after taking effect leaves no fingerprint, and the same correction goes out for the next activity. | 2 activities of one session, 1 worker, `MaxAiCalls = 2`, `MaxCorrections = 2`, `MaxUncharged = 0`, `MaxFaults = 0` |
| `PageShowsActualValue` (invariant), `settings/route.ts:314` "actual value, only for non-secrets" | The page takes an override that is empty for none and shows the environment's value or the default, `dbVal \|\| envVal \|\| defaultValue`; the worker has loaded the empty one, as 0, as false or as itself. | `MCRuntimeConfig` with the constants and specification of `settings` |
| `LookupHeals` (property), `endpoint-provider.ts:74-75` "cached after the first successful validation" | The promise of the lookup is cached as soon as it is made.  If it rejects, it rejects for every later call, until a reload builds a new provider. | `ProviderRouter` with the constants and specification of `router` |
| `CursorNeverRegresses` (property), `sync-checkpoint.repository.ts:44-46` "the effective high-water mark is the max" | `upsert` takes the patch's value whenever there is one, and every pass starts at page one again. | `MCSessionPolling` with `Spec` and the constants of `polling`, but `Worker = {w1}`, `MaxFaults = 0` |

`AiCallsWithinCeiling` and `IdenticalCorrectionSentOnce` are why `AiBudgetHolds` speaks of the counter and
`CorrectionsDiffer` of corrections that were recorded as executed: that much the
code does keep.

### 3.1 Bounds, and why they are enough

Of the outbox:

- **Two passes.** Every hazard is a race of an old claimant against a new one;
  a third pass adds another old claimant, and the theorems cover any number.
- **`MaxAttempts` = 2** (3 in the code): a first attempt, whose two tokens
  coincide, and a retry, which is also the last.  With two passes a row can be
  claimed a third time, beyond the maximum.
- **One item**, two in `outbox_exclusive` with `ScanLimit` 1, where items of one
  session compete for the lock and a batch leaves items behind.
- **One worker** for both passes is the harder case: the owner column does not
  tell them apart.  Passes of different workers differ only in that column.

Of the pipeline:

- **Two workers**, the old holder of a lapsed lock and the new one.
- **One activity** in `pipeline_safety`: the insert, the ledger and the queue are
  per activity, so rivals for one activity are what matters there.  Two
  activities of one session in `pipeline_exclusive`, where budget and
  fingerprints are shared.
- **Proposals and assessments** reach every disposition and both Jules calls:
  an answer, a correction and a plan approval without text; harmless, critical,
  reviewed and hard-blocked.  The gate itself is proved for all of them.
- **`MaxAiCalls` = 1 or 2, `CallsPerDecision` = 1, `MaxCorrections` = 1 or 2**: the
  ceiling is reached, and each activity may come first or second.
- **`MaxUncharged` = 0** does not bound how often the deadline strikes.  It bounds the
  history of lost calls only, of which no property of the runs speaks;
  `AiCallsWithinCeiling` does, and needs 2.

Of the settings:

- **Two overlapping passes**, one of them overtaken, are what a revision and the
  rows behind it can be torn apart by; workers share nothing but the table, so
  one is enough.
- **Two saves** (or reverts): one that the guard refuses or that goes wrong, and
  one that corrects it and clears the model, the setting that takes an empty string.  **One rotation** between them.  `Instant` has as many
  revisions as there are saves, in either order, because clocks of two web
  processes may differ.

Of the router: **two providers**, of which the first is looked up in the DNS;
**`Threshold` = 3** is above the two attempts of one routing, as the code's 5 is above
its default 4, so that opening takes two routings; **`Window` = 2**, **`Cooldown` = 1**:
failures leave the window before and after the breaker opens.

Of the memory: **two rows** suffice for a duplicate, a neighbour in another
repository, and a batch of one that leaves a row behind; a lesson that is refused
and one that throws; a row that expires and one that goes stale; **one outage**
makes one row pending, **one fault** ends a call at any step.

Of polling: **pages of one entry and two pages**, so that every activity has a
page of its own, pages shift while they are read, and a session's third activity
is beyond the ceiling (100 in the code, of 20 activities by default); **two
workers** for the lock and for the insert of the checkpoint that comes second; the
session with the activity that **always throws** is listed first, the one with a
question without an identity second, and either may get another question;
**`MaxChanges` = 1**: an activity arrives, a session moves up, or leaves or enters
its waiting state.

Of all: **`MaxFaults` = 1** crash or failed call, at any step.  **Symmetry**
under permutation of passes, or of workers and interchangeable activities, in
runs without liveness only.

### 3.2 Fairness

In `OutboxDispatch`, `Fairness` is weak fairness of each pass (the 2 s timer
starts it again, every awaited call settles or throws), of each reconciler, and
of every deadline.  Nothing is assumed of operators: answers and the kill switch
are free, and `SanctionedActionSettles` speaks only of behaviours where the
switch ends up at RUNNING.

In `Pipeline` it is weak fairness of each worker, each reconciler and each lock's
TTL, and strong fairness of `Poll(w, s)`: every poll visits every
session that waits, though at each moment the worker may be busy elsewhere.
Nothing is assumed of the AI, of Jules or of the operators' switch.  An AI that fails for
ever uses up the budget, and a human is asked.  An AI that hangs for ever does not: the
deadline cuts every routing off before its attempts are through, and no call is
charged.  `EveryQuestionDecided` names that as the one alternative to a decision: the
question is asked in vain again and again, and from some time on never charged.
Without this alternative TLC refutes it, by that very behaviour.

`pipeline_liveness` has one activity.  With two, TLC refutes
`EveryQuestionDecided`: `withLock` throws when the lock is taken, the poller then
leaves the whole session, and two workers can go on keeping each other from the
second activity.  The code promises nothing about that, and it is listed as a hazard.

In `RuntimeConfig` it is weak fairness of each pass (the 5 s timer), of a
worker's boot, start and exit (the container's restart policy), and of the web
process's restart with the deployed key.  Nothing is assumed of operators:
`SettledSettingsReachWorkers` speaks of behaviours where, from some point on, the
worker runs, the table can be read, and the URL can be used; what the worker then uses is
what the page shows, except for settings that are empty.  Each of the
three is needed: a single secret that does not open leaves a booting worker on its
environment, and a reload without acknowledgement, for as long as it is there.

In `ProviderRouter` it is weak fairness of the call in flight (`Answer`: every call
has a timeout), of `Return`, and of the clock.  That work arrives, and that the
primary answers, are premises of `PrimaryComesBack`.

In `MemoryLifecycle` it is weak fairness of consolidation as a whole: some pass
goes on.  No single pass, admission or recall is assumed to finish.

In `SessionPolling` it is weak fairness of each worker's next await (reads have
timeouts, the sleep ends) and of each lock's TTL.  Nothing is assumed of Jules
or of a restart.  `EveryQuestionHandedOver` has the premises that the code needs: the
question goes on waiting, it is within the ceilings and not behind an activity
that throws every time, and one worker runs alone from some point on, because two
can keep each other from a session, as said above.

Crashes are bounded by `MaxFaults` and not fair.

## 4. Proofs

### 4.1 The outbox

`OutboxProofs` and `OutboxEffectProofs`, for any finite set of passes and any number of items, sessions, workers,
reconcilers, attempts and faults (`ConstantsAssumption`):

| Theorem | States |
|---|---|
| `InductiveInvariant` | `Spec => []IInv` |
| `TypeCorrect` | `Spec => []TypeOK` |
| `AttemptsBoundedAlways` | `Spec => []AttemptsBounded` |
| `ClaimsFencedAlways` | `Spec => []ClaimsFenced` |
| `CompletedByLastClaimAlways` | `Spec => []CompletedByLastClaim` |
| `SettledRowsFinalAlways` | `Spec => SettledRowsFinal` |
| `OneDispatcherAlways` | `~RenewalMayFail /\ Spec => []OneDispatcherPerSession` |
| `EffectsAreLedgeredAlways` | `Spec => []EffectsAreLedgered` |
| `SuccessIsTrueAlways` | `Spec => []SuccessIsTrue` |
| `DecisionFollowsOutboxAlways` | `~RenewalMayFail /\ Spec => []DecisionFollowsOutbox` |
| `UncertainNeverReplayedAlways` | `~RenewalMayFail /\ Spec => UncertainNeverReplayed` |
| `KeepsPromiseAlways` | `Spec => KeepsPromise` |

None of these is inductive alone.  That a row is
claimed fewer than `MaxAttempts + Cardinality(Pass)` times depends on passes
that still hold the row in a stale batch; so does `TypeOK`, because attempt
numbers index the ledger.  `IInv` therefore adds

- `Bounded`: a row's attempts plus the number of passes that may still claim it
  (`Queued`) never exceed the cap.  A scan adds a pass only while attempts are
  below the maximum; a claim moves one unit from the second term to the first;
- `Placed`: a pass that is inside an item holds an item, one outside holds none;
- `Staged`: an item being worked on has been sanctioned;
- `Claims`: a working pass's token and number are positive and no newer than the row's;
- `Distinct`: two passes working on one item differ in token and number;
- `Endings`: a pass that settles success has its effect in `applied`;
- `CompletedByLastClaim` itself.

Each step of `Next` preserves each conjunct; the steps are grouped into lemmas
by what they leave alone (a move of the program counter, a ledger write, a
decision write, a mark of the outbox row, a claim, a resolution, a lapse, a
crash).  The refinement
uses it for the report "done" (`CompletedByLastClaim`) and for effects
(`Staged`, `Distinct`: a call number is used by one pass only).

`OutboxEffectProofs` adds three layers.

- `Truth` needs no assumption about locks: a pass past the ledger's insert, and
  past its claim, has left its mark in the row of its attempt (`Ledgered`), and
  nothing takes such a mark back; a pass that resumes a session has seen success.
- `Owned` is what a lock that live passes keep adds: from the claim to the answer of
  the call, the row is the pass's own, in flight, under its owner and token.  A
  rival scan may still hold the row in its batch, but cannot get past the lock.
- `Stages` says, for each place of a pass, how far decision and outbox row have come,
  and that they agree on items without a pass.  It is stated until a first call
  fails (`faults = 0`), because a failed write between the two leaves them apart.

With a lock that is lost while held both theorems that rest on `Owned` are false: a
second pass claims the lapsed row and calls while the first still writes.

### 4.2 The gate

The first half of `PipelineProofs` assumes nothing of the constants, only that a proposal has
an action, a risk and a confidence (`Judged`) and, in the last three, signs (`Signs`).

| Theorem | States |
|---|---|
| `EffectiveRiskDominates` | the risk judged is at least the AI's, the deterministic one and the policy engine's |
| `ExecutesOnlyWhatIsSafe` | what is executed is a confident mutation with a payload, of low or medium risk, passed by policy, allowed by mode and flags, by a healthy worker |
| `CautionIsMonotone` | what is executed at one risk is executed at any lower one: raising a risk, or degrading the worker, never sets a proposal free |
| `ForbiddenIsBlocked` | a proposal whose normalised text matches a destructive pattern of the policy is never executed unattended |
| `ProtectedPathNeedsHuman` | nor is one that touches a path of the policy's or the risk's critical list |
| `SignsNeverExcuse` | of two proposals that differ in their signs only, the one with more signs of danger is executed only if the other is |

### 4.3 The pipeline

For any number of activities, sessions, workers (finitely many), calls,
corrections, lost calls and faults (`PipelineAssumption`, and
`NoDecisionAssumption`: the absence of a row is not a row):

| Theorem | States |
|---|---|
| `PipelineTypeCorrect` | `Spec => []TypeOK` |
| `MutatedAtMostOnceAlways` | `Spec => []MutatedAtMostOnce` |
| `EffectIsTheDecisionAlways` | `Spec => []EffectIsTheDecision` |
| `EffectsAreLedgeredAlways` | `Spec => []EffectsAreLedgered` |
| `QueuedIsUntouchedAlways` | `Spec => []QueuedIsUntouched` |
| `SuccessIsTrueAlways` | `Spec => []SuccessIsTrue` |
| `RulesOnceAlways` | `Spec => RulesOnce` |
| `AiBudgetHoldsAlways` | `Spec => []AiBudgetHolds` |
| `CorrectionsDifferAlways` | `Spec => []CorrectionsDiffer` |

The inductive invariant has three layers, each proved from the ones before.

1. `Typed` = `TypeOK` and `Placed`: what each place of `processActivity` requires
   of the worker's variables (an activity in hand, a proposal, an inserted row,
   an executable action in the try block).  That the action is executable is
   `ExecutesOnlyWhatIsSafe`.
2. `Authored` needs **no lock**.  `OneAuthor`: of the workers that work on an
   activity, one has inserted its decision, because `ON CONFLICT DO NOTHING`
   lets one insert win, and whoever lost leaves.  Only an author queues, opens an
   attempt or mutates, so what it knows of its row (`Stage`) survives everything
   others do, and what rows and effects say of each other (`Sound`) follows.
   Also here: the reconciler only rescues rows that exist (`RescueFound`),
   and a resumed session had an effect (`ResumedTruly`).
   `RulesOnce` is proved from this layer alone: one lemma for each kind of step that
   shows (the insert, the approval row, a ledger write, the call, the outcome), and one
   for the steps that show nothing.
3. `Excluded` is what the **lock** adds, where `RenewalMayFail` is FALSE.  `Holds`:
   whoever is inside holds it.  `Budgeted`: the counter plus one decision's calls
   for every worker between reading the budget and charging stays within
   the bound.  The number of such workers is at most `Rivals`, one
   with the lock and all without.  `Fingerprinted`: a correction that was
   executed is on record, and one that passed the check differs from all of them.

`CorrectionsDiffer` and `AiBudgetHolds` follow from it and need the two layers below it.

### 4.4 The settings

For any number of settings, workers, passes, saves, rotations and faults
(`RuntimeAssumption`):

| Theorem | States |
|---|---|
| `SettingsTypeCorrect` | `Spec => []TypeOK` |
| `ProviderMatchesConfigAlways` | `Spec => []ProviderMatchesConfig` |
| `LoadedCoversRevisionAlways` | `RevisionsDistinct /\ Spec => []LoadedCoversRevision` |
| `NotPendingMeansLoadedAlways` | `RevisionsDistinct /\ Spec => []NotPendingMeansLoaded` |

`RevisionsDistinct` says that no two saves carry the same `Date.now()`.  The code
does not ensure it, and without it both fail: the second of two saves in one
millisecond looks applied already.  The inductive invariant `IInv` adds to the
types what a revision stands for (`Chronicle`: the revision in the table is that
of the last save, and revisions that anybody remembers were given to one save
only), what a worker has loaded (`WorkerSound`), and what a pass carries from one
statement to the next (`PassSound`: the rows it has read are at least as new as
the revision it read before them).  That order of the two reads is the reason
why a torn read is harmless.

### 4.5 The memory

For any lessons, reports, reflectors, consolidators, recallers, outages and
faults (`MemoryAssumption`, `PointAssumption`):

| Theorem | States |
|---|---|
| `TypeCorrect` | `Spec => []TypeOK` |
| `IndexFollowsTableAlways` | `Spec => []IndexFollowsTable` |
| `AdmittedMeansStoredAlways` | `Spec => AdmittedMeansStored` |
| `LostOnlyByFaultAlways` | `Spec => []LostOnlyByFault` |
| `NothingForgottenIsRecalledAlways` | `Spec => []NothingForgottenIsRecalled` |
| `SelectionIsDiverse` | a selection has distinct loaded rows, at most `TopK`, at most `TypeCap` of a type; if it is shorter than `TopK`, every row left out has a type whose cap is reached |

`IInv` is `IndexFollowsTable` with the types of what it speaks of, rows
without gaps (`Dense`: an insert takes a fresh row), what an admission past its
insert knows of its row (`Admitting`), and what a pass knows of its batch
(`Consolidating`).  `LostOnlyByFault` is a count: a step that is not a fault adds
no memory to those that nobody works on and no row remembers, and a fault adds at most one.

`RInv` is about recalls.  Search and load are apart, hits are loaded one at a time, and
passes run meanwhile.  What saves a recall is that forgetting is one-way: no step makes
a row active again or younger, so a row that was forgotten when the recall began
still is when its hit is loaded, and the check of the loaded row sees it (`Recalling`).

### 4.6 The router

For any number of providers, any of them eligible or remote, and any number of retries
(`RouterAssumption`):

| Theorem | States |
|---|---|
| `TypeCorrect` | `Spec => []TypeOK` |
| `HammeringIsBounded` | `Spec => []HammeringBounded` |
| `OnlyOwnFailuresTrip` | `Spec => []TrippedByOwnFailures` |
| `NobodyLeftOut` | `Spec => []EveryProviderConsidered` |

`IInv` adds to them that the failures a routing has on record are those of the attempts
before the present one (`Underway`), so that attempts at a breaker which is open are
retries of this routing (`Hammering`); that failures inside the window
of a closed breaker are the last of an unbroken run of its own (`InRow`); and that
whatever lies before the provider in turn was tried or is skipped on record
(`CameTo`).  The loop goes on at the *least* provider that may be called, so the
argument needs that a set of providers that is not empty has a least one.

### 4.7 Polling

For any workers, sessions, activities, page sizes, ceilings, changes and faults
(`PollingAssumption`):

| Theorem | States |
|---|---|
| `TypeCorrect` | `Spec => []TypeOK` |
| `NothingIsLeftBehind` | `Spec => []NothingLeftBehind` |

What was due when a session was opened has its decision, is on the page at hand,
or is still ahead of the next offset (`Looking` before a page is asked for, `Looked`
with a page at hand).  A feed that grows in any place only moves entries away from its
front (`InsertAtMovesUp`), so nothing ahead of an offset ever falls behind it;
entries may come twice, which the idempotency key absorbs.  Other workers only add
decisions.  That offsets stay in the types' range is the work of the two page ceilings.

### 4.8 What the proofs rest on, and what is out of reach

Each invariant was checked by TLC on the instances of section 3 before it was proved.
Nothing is assumed but the assumptions on constants named above, which TLC evaluates on every
run, and the hypotheses `~RenewalMayFail` and `RevisionsDistinct` where a theorem
states them.  Every invariant and every action property (`[][A]_vars`) that a
passing run checks is stated by a theorem.  The other way round, `ProviderMatchesConfig`,
`AttemptsBounded`, `SettledRowsFinal`, the pipeline's `EffectsAreLedgered`,
`SelectionIsDiverse` and the theorems about the gate are proved and no run repeats them.

Out of the prover's reach and left to TLC:

- liveness under fairness, and ENABLED: `SanctionedActionSettles`, `AttemptsResolve`,
  `EveryQuestionDecided`, `EveryQuestionHandedOver`, `DecisionsConclude`, `AttemptsClose`,
  `SettledSettingsReachWorkers`, `PrimaryComesBack`, `PendingGetsIndexed`;
- induction over data.  Where the code's loop picks a first or a best element, the
  model says which element that is instead of recomputing the loop, and the proofs use
  that a set of numbers that is not empty has a least one.

## 5. What the models brought to light

Beside the statements of section 3 that TLC refutes, reading the code for the
models showed the following; the models behave the same way unless noted.

Settings and secrets:

- One secret that does not decrypt fails `getAsMap` and `getAll` as a whole: workers
  boot on the environment alone, reloads are never acknowledged, the settings
  page shows the environment without a word, and a PUT on that row fails.  DELETE works.
- `settings/route.ts:282-283` accepts any URL that parses; one that the outbound
  guard refuses makes a booting worker exit, and a running one never acknowledge.
- Degraded mode is never lifted and governs the pipeline only (`index.ts:114-117`).
- The empty string is an override that the PUT accepts for whatever schema takes it
  (`CONFIDENCE_THRESHOLD`, which becomes 0; a boolean, which becomes false; `AI_MODEL`), and
  that the worker uses for as long as it is there, while the page shows the environment's
  value or the default as if there were no row (`PageShowsActualValue`).
- The status page shows the first worker only.
- A reload in the moments before the poller exists updates the pipeline and then
  throws; the next pass repeats it, which is why `SettledSettingsReachWorkers` holds.

Pipeline:

- An AI that hangs is never given up.  With the defaults (four attempts of 30 s at one
  provider, a deadline of 120 s) the deadline strikes before the last attempt has timed out;
  `provider-router.ts:226` then throws without attempts, `pipeline.ts:402-438` charges
  nothing, and the next poll asks again.  The budget never runs out and no human is asked
  (`EveryQuestionDecided` says so).  With every circuit open a routing costs nothing either.

Provider router:

- The retry loop goes on calling a provider whose breaker its own failure has just
  opened, against `circuit-breaker.ts:8-10`; `HammeringBounded` is what remains.
- Fallback goes on after a failure that `provider-error.ts:60-62` calls not retryable.
- The health AUTH_FAILURE, meant to persist, is overwritten by CIRCUIT_OPEN.

Memory:

- The index on the fingerprint is not unique (`schema.ts:436`), although
  `memory-admission.ts:233-234` and `ai-memory.repository.ts:56` count on a
  violation: overlapping admissions store a lesson twice.
- `findByFingerprint` ignores the status: a lesson learnt again merges into an
  expired row and can never be recalled.  Stale rows are never validated again.
- A worker that dies between the insert and the indexing leaves a row that no
  pass looks for (`LostOnlyByFault` allows one for each fault).
- Reindexing names a point of its own: one memory may have two and be recalled twice.
- Influence rows are named by execution and rank, and a second recall of one
  execution leaves those of the first.
- With the default empty `EMBEDDING_API_KEY` every row stays pending for ever;
  `PendingGetsIndexed` is about embeddings that fail for a time.
- A summary of more than 512 characters makes admission throw and drops the
  remaining candidates.

Polling:

- An activity without an id or a name becomes `unknown-activity`, and all of them
  in a session share one idempotency key: the second question counts as answered.
- A patch hides the event that carries it: the activity becomes PATCH_CREATED, and a
  message or plan with it is never processed.
- An activity whose processing throws every time keeps the later ones of its
  session from being processed, for as long as it throws.
- A repeated session token throws only after its page has been processed; a repeated
  activity token only after the checkpoint.
- The checkpoint's unique violation ends a pass although the row is diagnostic only.

Risk and policy: the risk list is matched on the raw text, the policy list on the
normalised one; the path lists differ (`billing/` and `keys/` are in one only); the cycle
ceiling never sees a count; the floor on confidence is 0.85 whatever the configuration says.

## 6. Plan

Done: the modules and theorems above.  Left, in order:

1. A composition of `Pipeline` and `OutboxDispatch` over the shared decision,
   approval and ledger rows, with one reconciler, and an abstract specification of a
   decision's life that joins `SupervisedQuestion` and `SanctionedAction` where the one's
   queue is the other's open sanction.  The two use different lock keys,
   `session:<id>` and `outbox:<id>`, so both may act on one session.
2. `ProviderRouter` as a refinement of the three outcomes that `Pipeline` gives a routing.

## 7. Not modelled, and why

- The queue (`queue.ts`): nothing enqueues through it; a worker only waits for it
  to start (`StartWatcher`).
- Repository knowledge and prompt context: advisory text.  Of the semantic memory,
  the wording of reflections, scores beyond an order, promotion and archiving (2.5).
- AI, embedding and vector-store adapters beyond what `ProviderRouter` and
  `MemoryLifecycle` need of their failures; of the outbound guard, which addresses
  it refuses (a set, `Refused`).
- Logs, metrics, token counting, schemas: I/O and pure helpers.
- Web listings, server-sent events, login and the dashboard: presentation.  The
  rate limiter of the web API is a small candidate for later.
- `InMemoryDistributedLock`: what two processes do under it is covered by
  `RenewalMayFail`.  Graceful shutdown, of which `OutboxDispatch` and `Pipeline`
  know no more than a `Crash`; `RuntimeConfig` has it.

`PROJECT.json` has every component with its status and every hazard with the
properties that cover it, or the reason why none does.
