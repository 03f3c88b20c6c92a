# A TLA+ verification of Goa-AI's tool registry and agent runtime

Goa-AI generates and runs tool-using agents. Two parts of it carry protocols of
their own: the tool registry (`registry/`, `runtime/toolregistry/`), which lets
agents call tools served by other processes through Redis, and the agent runtime
(`runtime/agent/runtime/`), which runs a plan/tool loop as a durable workflow
over a session store, a run log and an engine. This directory models both, with
the rate limiter and the registry client's cache beside them, checks the models
with TLC on small instances and proves most of their safety properties with
TLAPS, for all instances. Paths below are relative to the repository; `src/` in
PROJECT.json is its root.

## 1. Inventory

### 1.1 The tool registry

| Component | State | Operations | What is hard |
|---|---|---|---|
| Toolset catalog, `registry/catalog.go` | one JSON record per toolset: state, registration token, provider leases with expiry and draining flag, tombstones of former tokens, health epoch, last pong | `Register`, `DrainProvider`, `ReleaseProvider`, `Retire`, `RecordPong`, `healthEntry` | each is an optimistic loop: exact read, read of Redis TIME, decision, compare-and-swap; every replica runs it |
| Health tracker, `registry/health_tracker.go` | pings on the request stream, pongs in the catalog record | `Health`, `sendPing`, `RecordPong` | a pong may answer a ping of a membership that is gone |
| Call record, `registry/call_decision.go`, `bounded_publish.go`, `call_admission.go` | one expiring Redis hash per tool-use identity | Lua scripts: attach, ensure, reject, publish, claim, live event, overload, complete, settle, clean up | each script is atomic, the handlers that call several of them are not; the hash may expire between any two |
| `CallTool`, `registry/service.go` | the handler's deadline and the registration it validated | attach, wait for health, ensure, publish, replay, reject | racing handlers of one identity; everything is read in an earlier step than it is used |
| Provider methods and `RetryTool`, `registry/service.go` | none of their own | claim, complete, delta, overload, retry, drain, release | redelivered, lost and late requests |
| Provider loop, `runtime/toolregistry/provider/provider.go` | a bounded queue, workers, acknowledgements, a shutdown | `Serve` | an unacknowledged request is delivered again, to any replica; a crash at any point |
| Registration supervision, `provider/registration.go` | the local deadline of the lease, the attempt under way | register, renew, retry, drain, release | the provider's clock starts before the catalog's; a reply, or the catalog, may be lost |
| Settlement tracker, `registry/call_settlement.go` | the sorted set of claimed calls | scan, settle, clean up | races completions, releases, renewals and expiration |
| Registry client, `runtime/registry/{cache,manager}.go` | cached schemas with a lifetime, a refresh channel, a sync loop | `DiscoverToolset`, `Get`, `Set`, refresh, sync | four writers of one entry, each with a fetch between two critical sections |

The registry's pieces interact through Redis only. A provider registers
(catalog) and is pinged on its toolset's stream; `CallTool` routes by the
catalog, decides the call in the call record and appends a request to the
stream; a provider of the consumer group claims, runs and completes the call
through registry methods; the tracker settles a claim whose provider is gone.

### 1.2 The agent runtime

| Component | State | Operations | What is hard |
|---|---|---|---|
| Sessions and runs, `session_lifecycle.go`, `cancellation.go`, `hook_activity.go`, `run_completion.go`, `runtime.go` | the session's status, one `RunMeta` per run, one event log per run, the workflow's own status | start, record activity, planning gate, `CancelRun`, `DeleteSession`, `PurgeSession`, terminal repair | every writer loads a whole record and writes it back later; a session ends while a run starts; the terminal event is recorded by an activity that may be retried, given up or outlived |
| Workflow loop, `workflow*.go`, `tool_calls.go`, `helpers.go` | the step's batch of results, caps, deadlines, the queue of pending requests | plan, admit, execute in parallel, confirm, ask, suspend, continue, record, finalize | a step is spread over several workflows and must answer each committed call once; deadlines pass anywhere |
| Engine, hooks bus, run log | futures, handles, subscribers | as used by the two rows above | cancellation reaches the workflow or is a no-op; the bus's failure is swallowed |
| Adaptive rate limiter, `features/model/middleware/ratelimit.go` | a local budget, a shared one in a replicated map | wait, backoff, probe, reconcile | compare-and-swap over copies that are late |

### 1.3 What makes these parts correct

* *catalog*: a toolset changes hands only after every lease of the current
  admission is over by the authoritative clock; a retired token never returns;
  the stored record is always one the parser accepts; health evidence belongs to
  the membership that gave it;
* *CallTool*: all callers of an identity learn one decision, a request is
  appended once and to an admission that is routable and accepted the payload at
  that moment, and every handler returns;
* *execution*: a tool handler is started at most once per record, for its own
  request and never by another admission; there is one terminal result; a claim
  is never left without one;
* *registration*: a provider consumes only inside a lease the catalog still
  honours, keeps its authority through settlement and never undoes its drain;
* *runs*: what store and log say of a run's end is what its workflow decided;
  a log has one terminal event; ended and cancelled runs stop; a closed run is
  announced;
* *loop*: each tool use in the transcript has one result before a planner sees
  it; caps count what was started; nothing starts late; a run ends;
* *limiter*: no process's step is lost to another's; a throttled budget recovers;
* *client cache*: what a hit serves is stale for a bounded time only.

PROJECT.json lists every component with its status and every hazard at its line.

## 2. Modules

| Module | Models | Uses |
|---|---|---|
| `CatalogEntry` | the catalog record and the pure decision of each operation | |
| `Catalog` | concurrent optimistic loops over one record | `CatalogEntry` |
| `AdmissionOwnership` | abstract: a lease-guarded lock with tombstones | refined by `Catalog` |
| `CallRecord` | the call record and its Lua scripts as functions | `CatalogEntry` |
| `ToolCallContract` | abstract: what a caller is promised about one identity | refined by the next two |
| `CallRouting` | racing `CallTool` handlers, the catalog and time | `CallRecord` |
| `CallExecution` | stream, providers, retries, settlement | `CallRecord` |
| `ProviderLease` | one `Serve` lifecycle against the catalog record | `CatalogEntry` |
| `SchemaCache` | one cached toolset and its writers | |
| `RunLifecycle` | session, run records, log, workflow, cancellation, repair | |
| `RunContract` | abstract: a run's log is absent, open, then one end | refined by `RunLifecycle` |
| `WorkflowLoop` | the plan/tool loop across suspensions | |
| `RateLimiter` | processes, their budgets and the shared map | |
| `CatalogEntry_proofs`, `CallRecord_proofs` | lemmas on the pure operators: what each operation and script returns, keeps and writes | `TLAPS` |
| `Catalog_proofs`, `CallRouting_proofs`, `CallExecution_proofs`, `ProviderLease_proofs` | theorems of the registry | the two above |
| `RunLifecycle_proofs`, `WorkflowLoop_proofs` | theorems of the agent runtime | `TLAPS` |
| `MC*` | instances for TLC | |

**CatalogEntry and Catalog.** `entry` is the stored record of one toolset.
`expires[l]` is a lease's expiry (0: no lease), `draining` the leases that no
longer route, `retired` the tombstones, `epoch` and `lastPong` the health
evidence. The token stands for schema and revision, which the code hashes into
it. `calls[c]` is a caller in the loop: `Start` is `exactRaw`, `ReadTime` reads
Redis TIME, then `ReturnDecision`, `Replace` (the compare-and-swap) or
`ReplaceFails` (read again). `RecordPong` prunes with a CAS of its own and goes on
from the pruned record with the *old* time: result `"again"`. `pings` keeps every
identity ever pinged, so a pong may be arbitrarily late. `Fail` is a Redis error,
a cancelled context or a dead replica.

**CallRecord.** Each script is an operator from the record, the catalog entry and
the time to the new record and a result, with the checks in the script's order.
Stream positions are numbers in append order. A result payload is represented by
the terminal cause, which determines it.

**CallRouting.** One identity and several handlers. A handler's `pc` names the
call it is about to make; `deadline`, `token` and `timeout` are its local
variables. Catalog operations are single steps here (their interleaving is
`Catalog`'s subject). `full` stands for a stream other identities have filled.

**CallExecution.** One identity from publication to its result. `providers[l]` is
the mode of the `Serve` loop that owns lease `l`; `work[l]` are its requests with
their stage (`queued`, `granted`, `executing`, `settled`). `index` is the call's
score in the settlement set. `scan` is a settlement scan: the read of the due
call and its record is one step, the script that acts on it another, because the
clean-up of a missing record does not look at the record again. `Faults` selects
what may go wrong: `crash`, `lost_request`, `lost_reply`, `redelivery`, `overload`,
`drain_error`.

**ProviderLease.** `mode` is where `Serve` is, `attempt` the Register call under
way (sent, landed, answered; its age is what the granted lease has lost when the
reply arrives), `delay` the renewal or retry timer, `deadline` the local end of
the lease, `late` the calls that were abandoned and may still land, `held` the
tokens it was granted. A lifecycle that fails or is cancelled is `finishing`
until the `Serve` loop comes round to `finish`: it may be accepting an event, or
`select` may pick another one first, and time goes on meanwhile. The sink is closed
after the drain, in `Settled`. A rival admission, an operator's retirement and a Redis
that loses the catalog act on `entry`. All times are ticks left; a timer that is
due is served before time goes on; delays below a tick are rounded up; the health
fields, which no registration reads, keep one value.

**SchemaCache.** `entry` is the cached schema with its ticks left, `pc[c]` a
request in `DiscoverToolset`, `got[w]` an answer of the registry that its writer
has not stored, `queued` and `loop` the refresh channel and its loop. `FetchTime`
bounds the delay between the registry's answer and its storing. `served`, a history
variable, is the worst staleness that any hit has served.

**RunLifecycle.** One session; every call of a store is a step, so that reads and
whole-record writes of `CancelRun`, the gate, `recordActivity`, the bus
subscriber and the repair interleave. `start[r]` is `startRunOn`, `wf[r]` the
workflow, `rec[x]` the record activity of a workflow or of a repairing reader,
`cancel[c]` a call of `CancelRun`, `lock` the repair mutex of each process. The
events kept are the start and the end; a prompt event is recorded and changes the
run record. `EngineCancels` tells an engine that delivers cancellation (Temporal)
from one for which it is a no-op (in memory). After a cancellation the record
activity under way is taken as aborted. A planner activity that is retried goes
through the gate again, so retries are further turns.

**WorkflowLoop.** One run, across the workflows that suspensions hand it to. A
planner result is a set of calls with their class and whether they need
confirmation, an await item and a terminal flag, taken after the rewriting of
unknown and denied calls (a rewritten call is a call that fails with a replan
directive). `batch` is `stepBatch`; `exec` the calls to start and in flight;
`pending` the queue a suspension waits on; `caps` and `left` the policy caps and
what is left of the two deadlines. `answers`, `spent`, `streak` and `clock` are
history variables the properties compare the code's counters with. `InOrder` is
the order in which a step lists its calls. A child agent run is its outcomes.
Record activities succeed here (their failures are `RunLifecycle`'s subject), the calls of a finalizer are one, and the synthesis
turn after tools and the recovery catalog are left out, except that a planner
result of any kind may be refused before it is committed (`StepRejected`), as one
outside that catalog is. That a suspension gets one answer is the
application's duty (`quickstart/AGENTS_QUICKSTART.md:443`).

**RateLimiter.** `lim[p]` is a process's limiter, `shared` the map's value,
`replica`, `dirty` and `event` its way to each process, `jobs` the goroutines of
`globalBackoff` and `globalProbe` with their three attempts. Budgets are in units
of 1/`Scale`, rounded down; the filling of the bucket, token counting and the
fallback when seeding fails are left out; a request above the burst has no
effect. `MaxJobs` bounds the goroutines in flight of one process; the code spawns
one per call without a bound.

## 3. Runs

| Run | Instance | Question |
|---|---|---|
| `catalog` | 2 tokens, 1 lease, 2 callers, all operations; time 1–2 | is ownership safe, and does evidence belong to its membership, under every interleaving of two loops with time? |
| `routing` | 2 admissions, the second refusing the payload; 2 handlers with 2 digests; 2 records; failing catalog and handlers; time 1–3 | one decision, one publication, to a routable admission; the contract |
| `routing_returns` | 1 admission, 2 handlers, fairness | does every `CallTool` return? |
| `execution` | 2 replicas, 2 requests, 2 records, redelivery and overload; time 1–4 | does each admitted call run at most once, for its own request? the contract |
| `settlement` | an admission and its replacement; crashes, lost requests and replies, redelivery, failed drains; fairness; time 1–4 | does a call run under a foreign admission? does every claim get a result, and keep it? |
| `cleanup` | 2 replicas, 2 records, fairness | row 3 of section 5: a counterexample |
| `lease` | 1 lifecycle, 2 own tokens, a rival; lease 5, margin 1, attempt 2, retry 1, shutdown timeout 4 (a tick below the lease: row 22) and authority margin 2; one loss of the catalog; all faults; fairness | is the provider's belief always covered by the catalog, and its settlement even when a late renewal cuts the drained lease back? is a lost catalog reconciled? |
| `cache` | 2 requests, refresh, sync, delete; 2 versions; lifetime 1, fetch 1; fairness | how stale can a hit be, and does the cache converge? |
| `runs` | 1 run, `DeleteSession`, `PurgeSession`, re-creation, 1 reader, 1 failing call, an engine that cancels; fairness | are outcomes the workflow's, events unique, and do runs end and get announced? |
| `loop` | 1 call and 1 await item per step, every class, outcome and confirmation, a policy that tightens caps; cap 3, failures 2, budget 1, grace 1; fairness | is each call answered once before a planner sees it, and does the run end? |
| `loop_parallel` | 2 calls per step, confirmations, clarifications, children, missing fields that are asked for | are the caps exact, and does nothing start late? |
| `limiter` | 2 processes of different maxima, one joining late; 1 goroutine in flight per process, 1 throttle, 1 failing map call; calls go on | is any step lost, and does every budget recover? |

Each run's properties are stated, with the code they are about, in the modules;
every property of a passing run has a mutant in PROJECT.json: a definition that
models code, changed as a plausible bug would, which TLC must catch. `TypeOK` of
the modules other than `Catalog` holds under the same configurations; add it to a
configuration after changing a model.

**Why these bounds.** The defects these properties exclude need two actors on one
record: two callers, handlers, replicas or admissions, a workflow and a canceller
or a reader, a request and the refresh loop; the actors are symmetric beyond that.
Durations of one or two units are shorter than the time bound, so leases expire
and are renewed after expiry, deadlines pass and records expire; `ProviderLease`,
`SchemaCache` and `WorkflowLoop` keep ticks left, so that they run for any time.
`MaxRequests`, `MaxGeneration`, `MaxHeld`, `MaxEpoch`, `MaxFaults`, `MaxLosses`,
`MaxThrottles`, `MaxJobs`, `MaxVersion` and `MaxDeletes` bound what the code leaves
free. Calls are admitted only when their deadline lies inside the time bound, so
no obligation is cut off. Symmetry is used in runs of safety properties only. What
a run checks for one lease, run, call per step or handful of handlers the theorems
of section 6 lift to any number, and to every value of the bounds. `limiter`, about
which nothing is proved, has one goroutine in flight per process so that fairness
can be checked; `NoStepLost` alone also holds with `MaxJobs = 2` and no failing map
call (4,559,675 states). `runs` has one reader; two are checked with the invariant
of section 6.

`CHECK_DEADLOCK FALSE` is set in the call modules and in `runs`: when the time
bound is reached, providers have gone and runs are closed, nothing is left to do.
The others are checked for deadlock.

## 4. Fairness

* `CallRouting`: time passes and a handler's goroutine runs (weak). The wait is a
  Go `select` over a retry ticker and a deadline timer; with both ready the
  runtime chooses at random, so the timer is not passed over for ever (strong,
  `WaitExhausted`).
* `CallExecution`: time passes, and some replica's tracker scans every 250 ms; a
  scan that fails is repeated, so a settlement that is possible again and again
  happens (strong). Providers owe nothing. `ClaimIsSettled` is satisfied by the
  record's expiration too; the instance admits calls whose record outlives the
  time bound, and for these only a result counts.
* `RunLifecycle`: a workflow's next step, its cancellation, a record activity and
  a reader's repair are taken (weak): the engine retries workers that die, and
  readers keep asking. Users, `DeleteSession` and `PurgeSession` owe nothing.
* `WorkflowLoop`: the run's next step is taken (weak: activities return or the
  engine times them out, and the user answers); planner turns and tools take
  time, so a run that goes on uses up its budget (strong, `Tick`); a nested run,
  which has its own budget, does not ask for ever (strong, `ChildCompletes`).
* `ProviderLease`: `Serve`, a call that was sent, and time (weak).
* `SchemaCache`: time, the refresh loop, the sync's store and a request under way
  (weak). `Converges` needs no request to come.
* `RateLimiter`, `BusySpec`: goroutines and deliveries run (weak) and every
  process's calls succeed again and again (strong): the limiter probes only on
  success, so a process without calls promises nothing. Throttling stops because
  `MaxThrottles` bounds it.

## 5. Where the code and its comments disagree

The passing runs show no violation of the properties in 1.3. While modelling,
statements of the repository turned out not to hold of the code. Row 3 is kept as
a run with its counterexample; for the others the property stays in its module,
and TLC refutes it when it is put into the run named, with the change given.

| # | Statement | What the code does | Property, and how to see it |
|---|---|---|---|
| 1 | README.md:88-89: an active toolset with no healthy provider "waits until its execution deadline" | `registry/service.go:897`: a replacement between the lookup of the registration and of its health is reported as not found and ends the wait; the call is durably rejected | `UnavailableOnlyAtDeadline`, `routing` |
| 2 | README.md:69-70: "Exact retained calls replay" | `registry/call_decision.go:237`: after an overload retry an older request may be redelivered and claimed; `attach` then refuses the record because the dispatched request is not the last published | `RetainedCallReplays`, `execution` |
| 3 | `registry/call_settlement.go:5-6`: the Lua transition "makes concurrent settlement safe" | `registry/call_admission.go:743`: a scan that read the record as missing removes the call from the index without looking again; a claim made in between is never settled. It takes a claim left unsettled until its record expired, as after an outage of all replicas | `ClaimIsSettled`, run `cleanup` |
| 4 | `provider.go:682`: "The draining lease is now non-routable" | `registry/catalog.go:200`: a renewal that was sent before the drain and lands after it replaces the draining lease by a routable one; after the release it leaves a lease nobody renews | `late_request` of `ProviderLease` (`LateLands`) |
| 5 | `session_lifecycle.go:41-42`: "No new run starts under an ended session" | `runtime.go:1558`: load of the session, pending record and start are three calls; the gate stops the run at its first turn | `NoStartUnderEnded`, `runs` |
| 6 | `session_lifecycle.go:73-74`: a purge is refused so that "a later workflow activity cannot recreate run data" | `session_lifecycle.go:93`: the status is stored before the bus is published; a purge in between is accepted and the subscriber writes a fresh record | `PurgedStaysGone`, `runs` |
| 7 | `session_lifecycle.go:50-51`: the run "stops at its next turn boundary regardless" | `activities.go:604`: when the session is purged and its id created again before the next turn, the gate finds an active session | `StopsRegardless`, `runs` |
| 8 | `cancellation.go:136-137`: a terminal state "no longer accepts new cancellation intent" | `cancellation.go:44`: the whole record loaded before the end is written back after it: the record is active again and the session can no longer be purged | `ClosedStaysClosed`, `runs` with `Users <- OneUser` |
| 9 | `activities.go:593-596`: "the terminal RunCompleted event carries the canonical provenance even when engine cancellation never delivered" | `activities.go:611`: the gate finds `CancelRun`'s provisional reason, writes nothing, and the rollback removes it | `RefusedRunHasReason`, `runs` |
| 10 | `session.go:50-55`: `PromptRefs` "enables downstream consumers to correlate run outcomes with the exact prompt versions" | `runtime.go:799`: the subscriber replaces the record at the end of the run by one without them | `PromptsKept`, `runs` |
| 11 | `run_completion.go:148-150`: "only one terminal event can be appended per run" | `run_completion.go:238`: the mutex is of one process and the event key fresh; two processes append one each | `ImplementsContract`, `runs` with `Readers <- TwoReaders`, `ProcessOf <- OwnProcesses`; or with `Abandons = TRUE`, one process and a record that outlives its timeout |
| 12 | `workflow_await_queue.go:11-12`: "resumes planning exactly once after every item is satisfied" | `workflow_step.go:567`: with missing fields awaited, the failed record stays in the batch and the continuation asks again for every answer, also after the time budget; only the failure cap ends it | `AnsweredResumes` and `RunEnds`, `loop` with `OnMissingFields = "await"` |
| 13 | `helpers.go:676-678`: "an all-failure batch consumes one unit" | `workflow_step.go:563`: the same continuation charges the batch again, and its tool calls | `StepChargedOnce`, `loop_parallel` (`FailureCapKept` excepts such a step) |
| 14 | `workflow_step.go:462-463`: a committed step closes every call before its error is returned | `workflow_suspension.go:489`: a continuation that fails returns the error as it is | `ContinuationClosesCalls`, `loop` |
| 15 | `transcript/validation.go:14-15`: "exactly one tool_result for each tool_use ID" | `workflow_support.go:370`: a finalizer's call that needs confirmation is committed and not answered | `FinalizerClosesCalls`, `loop` |
| 16 | `workflow_child_continuation_test.go:3-5`: the answer goes to the child "before the parent tool call receives a result" | `workflow_await_queue.go:174`: an agent tool that is approved and then suspended is recorded as a malformed result and its question never asked | `ChildRequestQueued`, `loop_parallel` with `Outcomes <- ChildOutcomes` |
| 17 | `cache_property_test.go:19-20`: cached data is returned "until TTL expires" | `cache.go:93`: `Get` deletes what another writer has stored since it read the expired entry | `CachedUntilTTL`, `cache` |
| 18 | `cache.go:57-58`: the cooldown is "the minimum interval between refresh attempts" | `cache.go:216`: the time is kept for refreshes that succeeded only | `AttemptsSpaced`, `cache` |
| 19 | `manager.go:480`: "StopSync stops the background sync loop" | `manager.go:487`: a `StartSync` between the unlock and the wait replaces the context the old loop selects on, which then outlives its stop | read from the code; the loops' start and stop are not modelled |
| 20 | `ratelimit.go:20-21`: the limiter "blocks callers until capacity is available" | `ratelimit.go:156`: a request above the halved burst is refused at once, until smaller calls raise the budget | a request above the burst is no step of `RateLimiter` |
| 21 | `ratelimit.go:61-64`: it "coordinates capacity across processes" | `ratelimit.go:300`: a change between the constructor's read and its subscription is neither read nor notified; `ratelimit.go:268`: without a configured budget the map is seeded with 0, which every process ignores | `JoinReads` and `JoinSubscribes` are two steps; `InitialTPM = 0` |
| 22 | `provider.go:130`: `SettlementAuthorityMargin` "keeps the draining provider lease valid beyond the local shutdown deadline" | `registry/catalog.go:200`: the late renewal of row 4 sets the expiry to now plus the lease duration, where the drain (`catalog.go:318`) takes the later of the two; `provider.go:240` admits a `ShutdownTimeout` of hours, far above the lease, and then the lease ends before the settlement it was extended for (with the defaults, 30 s against at least 45 s, it does not). Met when the proof of `AuthorityThroughSettlement` failed at `LateLands` | `AuthorityThroughSettlement`, `lease` with `ShutdownTimeout = 5` |

## 6. What is proved

Every theorem holds for all values of the constants that satisfy the named
assumptions of its modules: any sets of tokens, leases, handlers, runs, users and
calls, any durations, caps and bounds, any choice of faults.

| Module | Theorem | Statement |
|---|---|---|
| `Catalog_proofs` | `TypeCorrect` | `Spec => []TypeOK` |
| | `AlwaysAccepted` | `Spec => []RecordAccepted` |
| | `EvidenceSound` | `Spec => []EvidenceIsCurrent` |
| | `RetiredForever` | `Spec => NeverReadmitted` |
| | `ReplacementIsSafe` | `Spec => ReplacementWaitsForLeases` |
| | `OwnershipRefined` | `Spec => ImplementsOwnership` (refines `AdmissionOwnership`) |
| | `EpochsNameMemberships` | `Spec => EpochNamesOneMembership` |
| | `PongsNeverGoBack` | `Spec => PongsMonotonic` |
| `CallRouting_proofs` | `RoutingTypes` | `Spec => []TypeOK` |
| | `CallersAlwaysAgree` | `Spec => []CallersAgree` |
| | `RequestPublishedOnce` | `Spec => []PublishedOnce` |
| | `PublishedWhereValidated` | `Spec => PublishedToValidatedAdmission` |
| | `RoutingContractKept` | `Spec => ImplementsContract` (refines `ToolCallContract`) |
| `CallExecution_proofs` | `ExecutionTypes` | `Spec => []TypeOK` |
| | `RunsAtMostOnce` | `Spec => []AtMostOnce` |
| | `ClaimsAreOwn` | `Spec => []ClaimsOwnRequest` |
| | `ForeignCallsNeverRun` | `Spec => []NoForeignExecution` |
| | `FirstResultStands` | `Spec => TerminalIsFinal` |
| | `ContractKept` | `Spec => ImplementsContract` (refines `ToolCallContract`) |
| `ProviderLease_proofs` | `LeaseTypes` | `Spec => []TypeOK` |
| | `ConsumesWithinLease` | `Spec => []ServesWithinLease` |
| | `AuthorityOutlastsSettlement` | `LateRenewalIsLongEnough` implies `Spec => []AuthorityThroughSettlement` |
| | `DrainedStaysOut` | `Spec => DrainedStaysDrained` |
| `RunLifecycle_proofs` | `RunTypes` | `Spec => []TypeOK` |
| | `OutcomesAreWorkflows` | `Spec => []OutcomeIsWorkflows` |
| | `AtMostOneLateTurn` | `Spec => []OneLateTurn` |
| | `RunContractKept` | `OneRepairLock` and `~Abandons` imply `Spec => ImplementsContract` (refines `RunContract`) |
| `WorkflowLoop_proofs` | `LoopTypes` | `Spec => []TypeOK` |
| | `CallsAnsweredOnce` | `Spec => []AnsweredOnce` |
| | `PlannerAlwaysSeesAnswers` | `Spec => []PlannerSeesAnswers` |
| | `FailedStepsAreClosed` | `Spec => []FailureClosesCalls` |
| | `ToolCapKept` | `Spec => []WithinToolCap` |
| | `FailuresBounded` | `Spec => []FailuresWithinCap` |
| | `FailureCapExact` | `FailureCapUntouched` implies `Spec => []FailureCapKept` |
| | `StartsInTime` | `Spec => NothingStartedLate` |

In every module the invariants follow from one inductive invariant `IInv`, which
TLC checked on the instances of section 3 before it was proved; the action
properties and the refinements take it as the hypothesis of a step.

**Catalog.** *Assumptions*: `TokenAssumption` (the token of a missing record is no
token), `LeaseDurationAssumption` (positive), `CatalogAssumption` (bounds are
naturals). *Argument*: `IInv` is `TypeOK`, `Sound(entry)` (the record is missing or
accepted, and its pong has a member) and `TimesArePast` (a caller that decides
holds a time no later than the clock). The last is what the action properties
need: the code decides with a time it read earlier, and since the clock only
advances, a lease over at that time is over when the write lands. A
compare-and-swap succeeds only on the record the caller read, so at that moment
what it read is sound. For every operation a lemma shows that it takes a sound
record to a sound one by one of four moves: admit, keep the owner, close, or hand
over once every lease is over; `StepMoves` lifts this to a step of the system. The
health theorems use the same operation lemmas: within one token and epoch an
operation either keeps the routable membership from emptying and filling again, or
moves to a new epoch, and it never lowers `lastPong`. `EvidenceIsCurrent` takes a
second invariant, `EvidenceInv`: a caller that records a pong names a ping that was
sent, under whatever membership, and a pong in the record answers one of the
record's own token and epoch. `RecordPong` compares the two identities at its
compare-and-swap, and no other operation brings evidence (`BringsNone`).

**CallTool.** *Assumptions*: `CallRecordAssumption` and `CallRoutingAssumption`
(leases belong to admissions, the execution timeout is shorter than the life of
the record, bounds are naturals). *Argument*: record, stream and answers are
written in different steps, and the record may expire between any two, so `IInv`
relates them by generation. `StreamInv`: a generation has one request at most, and
the current one has it exactly when the record says published. `AnswersInv`:
answers of one generation are equal, agree with a record that is still there and
with the request in the stream. `OpenedInv` is the strengthening that makes the
others inductive: a handler that has published, or found the call published,
carries what every other caller of that record is told, even once the record is
gone. `HandlersInv`: what a handler ensures it validated. The scripts enter through
the lemmas of `CallRecord_proofs` only. 377,328 states of the `routing` instance.

**Execution.** *Assumptions*: `CallRecordAssumption`, `CallExecutionAssumption`.
*Argument*: a grant is a message in flight, so `AtMostOnce` is not inductive alone.
`GrantOnce`: a generation has at most one granted item, in one provider's hands,
and none once its handler was started; `GrantsAreDispatched`: nothing is granted or
started of a record that is not dispatched, or of one to come, which is where the
claim script's single dispatch is used; `RequestsOwned` and `ItemsPublished` tie
every item to a request of its generation; `RecordInv` is the well-formedness the
scripts keep. Redelivery, crashes, lost replies and expiry then cannot make a second
grant. 1,291,120 states of the `execution` instance.

**Registration.** *Assumption*: `ProviderLeaseAssumption`, in particular that a
lease is longer than margin, attempt and retry together, which `leaseSafetyBudget`
enforces. *Argument*: `ServingInv` says that the next thing `Serve` does is due
before its cutoff and that the registry's expiry is no earlier than the local
deadline; `GrantInv` that a reply under way grants no more than the registry still
has, because the attempt's age is subtracted; `AttemptInv` bounds an attempt and
rules one out once the drain began. *Hypothesis* of
`AuthorityOutlastsSettlement`: `LateRenewalIsLongEnough`, no renewal given up on the
wire can land after the drain, or the shutdown timeout is shorter than the lease;
row 22 of section 5 is what happens otherwise. 298,108 states.

**Runs.** *Assumption*: `ConstantsAssumption` (readers run in processes, identities
are distinct, flags and bounds have their types). *Argument*: `OutcomeIsWorkflows`
is not inductive, because callers hold copies of the store that they write back
later. `IInv` says what each copy may claim: a record loaded by an activity, an
event built by a workflow or a reader, and a log entry claim no end but the
workflow's own (`TrueMeta`, `TrueEvent`, `TrueLog`, `TrueRecord`, `TrueReader`), and
what `CancelRun` and the gate write back is active (`ActiveCancel`, `GoodWorkflow`).
It is stable because workflows only advance: one that has decided keeps its status
(`Advances`, and the `...Stable` lemmas). `OneLateTurn` needs that a workflow that
planned late is not about to plan again and that its session is not active
(`GoodWorkflow`).

The refinement of `RunContract` takes a second invariant, `ContractInv`, on who may
still append a terminal event: the workflow itself while it is ending, to a log
whose terminal entries are its own, where the event key keeps a retry from
appending again (`OwnRecord`, `OwnEntries`); or, once it is closed, the reader that
holds the repair mutex, which has seen no terminal entry under it and whose failed
record is not retried (`OwnRepair`). `AppendFresh` draws the conclusion: a terminal
event is appended to a log without one only. *Hypotheses*: `OneRepairLock`, the
readers share one process, and `~Abandons`, no workflow closes while its own
terminal record is still under way. Both are needed: TLC finds two terminal events
when either is dropped (row 11). `ContractInv` was checked with two readers, on
1,572,401 states.

**Loop.** *Assumption*: `ConstantsAssumption` (finitely many calls, numbered; classes,
outcomes and decisions of the kinds the code knows). *Argument*: a step is spread
over several workflows and its calls over five places (to start, in flight, in the
batch's results, queued for an answer, recorded), so `IInv` has eight parts.
`ResultInv`, `Shapes` and `PhaseInv` say which of these exist in which phase;
`OpenInv` that a committed call without a result is always waited for somewhere,
which gives `PlannerSeesAnswers` and `FailureClosesCalls` when nothing is waited for
any more; `AnswersInv` that history and batch agree; `CapInv` that calls admitted
and not yet started reserve the cap, so `spent` plus what is left never exceeds it;
`FailInv` that failures counted and failures left stay within the cap, and make it
up when no decision tightens it; `TimeInv` that the clock and what is left of the
budget make up the budget. The order of a batch is `InOrder`, whose
existence the proof derives from a minimal counterexample among finite sets
(`LeastExists`), since induction over data is out of reach. *Hypothesis* of
`FailureCapExact`: `FailureCapUntouched`, no policy decision tightens the failure
cap; one that does stops the run earlier, as it asks. `FailuresBounded` needs no
hypothesis. 299,349 and 158,100 states of `loop` and `loop_parallel`.

*Only model-checked*: `StaleBounded` of `SchemaCache` and `NoStepLost` of
`RateLimiter`, for which no proof has been written; all liveness (`HandlersReturn`,
`ClaimIsSettled`, `RunEnds`, `EndedRunsStop` and the others), which with `ENABLED` is
out of the prover's reach. No module about which something is proved has a
`RECURSIVE` operator.

## 7. Abstractions and limits

* One clock. Leases and deadlines are compared with Redis TIME in the code; a
  handler's local timer is taken to agree with it, and a provider's counts from
  the start of its attempt.
* Redis commands and scripts are atomic and durable, except that `ProviderLease`
  lets Redis lose the catalog.
* Outside `Catalog`, catalog operations take effect at their compare-and-swap.
* One toolset, one tool-use identity, one session. Batches of settlement, the
  trimming of the bounded stream, the content of the result stream, migration of
  older records and the restoration of a trimmed terminal are not modelled.
* The ping lease that elects a replica and the repair of replicated maps are not
  modelled.

**Not modelled.** The registry executor, the client's side of a protocol whose
other sides are modelled, is next in the plan. The rest has no protocol of its own
or is out of reach of a small model: the design language and code generation
(`dsl/`, `expr/`, `codegen/`), which run at compile time, and the code they
generate (`registry/gen/`); model clients, which translate vendors' formats;
MongoDB stores, whose queries implement the store interface `RunLifecycle` uses;
MCP callers; wire formats and schema validation; evaluation tools, the quickstart
and the integration tests. Together these are most of the repository's 95,000
lines, so the mapped lines, about 7,900, are a small share of it: they are the
files in which several actors meet.

## 8. Plan

1. `Executor`: the result stream, overload retry and `outcome_unknown`, composed
   with `CallRecord`: every tool call of an agent ends once.
2. `SettlementBatch`: several identities in one scan, a member that cannot be
   read, the lease index.
3. Proofs: `StaleBounded` of `SchemaCache`, from the invariant that an entry's age
   and its schema's staleness together stay within a lifetime and a fetch;
   `NoStepLost` of `RateLimiter`; the theorems of `Executor` once it is modelled.

## 9. Running

    tlc -config MCCatalog.cfg MCCatalog
    tlc -config MCRuns.cfg MCRunLifecycle
    tlc -config MCLoop.cfg MCWorkflowLoop
    tlapm WorkflowLoop_proofs.tla

PROJECT.json names the module and configuration of every run; `cleanup` is
expected to end in a counterexample. The longest runs, `runs` and `execution`,
take about three minutes on two workers. The longest proof from nothing,
`WorkflowLoop_proofs`, takes about four minutes.
