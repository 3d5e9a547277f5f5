# LoadCoach: formal models

LoadCoach queues, routes and runs generation jobs on local model providers. This
directory holds TLA+ models of its core, the TLC configurations that check them on
small instances and TLAPS proofs for instances of every size. Paths below are relative
to `src/loadcoach/` unless they start with `docs/`.

## 1. Inventory

### Parts, their state and their operations

| Part | State | Operations that change it |
|---|---|---|
| Job state machine (`domain/queue_state.py`) | none: the table `TRANSITIONS` | `check_transition`, `recovery_target`, `cancel_target` |
| Job table (`services/queue.py`) | table `jobs` | `enqueue`, `claim`, `transition`/`move`, `cancel_job`, `renew_leases`, `reap_expired_leases`, `expire_max_wait`, `ageing_sweep` |
| Worker threads (`services/worker.py`) | local variables across transactions, an `InFlightEntry` each | `process`, `_run`, `_attempts` and what they call |
| Scheduler thread (`services/worker.py`) | `_last`, one instant per sub-step | `tick`: keeper, reaper, max wait, re-evaluation, watchdog, ageing, residency, breakers, retention, evidence |
| Startup recovery (`services/recovery.py`) | `jobs` | `recover` |
| Synchronous generation (`services/execution.py`, `web/routes/generate.py`) | a row of `jobs` without a lease, the producer thread of a stream | `reserve_sync_job`, `execute`, `_persist`, `_backstop` |
| Circuit breaker (`domain/circuit_breaker.py`) | one `BreakerVerdict` per model, in memory | `update`, `allow_probe`, `release_probe` |
| Job events (`services/job_events.py`) | table `job_events`; per job a counter and a live buffer, in memory | `write`, `publish_live`, `forget`, `replay` |
| Submission intake (`services/queue.py`, `services/execution.py`) | key columns of `jobs` | `enqueue`, `existing_job_for_key`, `reserve_sync_job` |
| Claim order (`domain/priority.py`, `services/queue.py`) | `effective_priority`, the affinity streak | `ageing_sweep`, `claim` |
| Routing (`services/routing.py`, `domain/routing/`) | none: reads registry, evidence, statistics, telemetry and breakers | `route` |
| Admission and retries (`domain/admission.py`, `domain/retry_policy.py`, `services/worker.py`) | the deferral record of a waiting job | `classify_rejections`, `reevaluate_waiting`, the attempt loop |
| Residency (`services/residency.py`) | table `residency`, what the provider has loaded | `ensure_loaded`, `record_use`, `evict_idle`, `sync` |
| Reliability and feedback (`domain/reliability.py`, `services/reliability.py`, `services/feedback.py`) | tables `reliability_stats`, `feedback` | `recompute_pair`, `record_feedback`, `record_breaker_verdicts` |
| Evidence (`services/evidence.py`, `domain/evidence_policy.py`, `infrastructure/freeweight_client.py`) | tables of evidence and of its sources | `import_evidence`, `refresh`, `rebind_evidence`, `mark_source_unreachable` |
| Model and adapter registry (`services/models.py`, `services/adapters.py`) | tables `models`, `adapters` | `discover_models`, `sync_adapters` |
| Retention (`services/retention.py`) | the text columns of finished jobs | `scrub_content` |
| Settings, tokens, rate limit | a table or a map each | overrides, lookups |
| Web, command line, dashboards, logging | none of their own | call the services above |

### How they interact

Everything durable is in one SQLite database, and a write transaction is atomic.
`sink.write` commits a row and its event together and publishes the event afterwards.
Worker threads and the scheduler thread share, in memory, the in-flight registry, the
breakers and the event sink. The scheduler reads the registry, writes the database and
then writes the registry back. HTTP handlers and command-line processes reach the same
rows. A provider call runs outside every transaction and can take longer than a lease.

### What is hard

* **Fencing.** A lease can expire while its worker is in a provider call. The row is
  then requeued, claimed by another worker or failed, and the late worker goes on with
  a state it read long ago.
* **Cancels** reach a row at any step of its worker, from any process, and reach the
  worker later through a token.
* **Crashes.** A kill between two transactions leaves leases behind; so does a thread
  that dies. Non-idempotent work may not run twice.
* **Timing.** Keeper and reaper run on one thread that may be late or fail in the middle
  of a tick.
* **Stale reads.** Breakers are refreshed with clocks and samples read earlier; bounds
  are counted before the insert; evictions use a set of models in use read before the
  provider is called.
* **Numbers** of events are shared by what is stored and what is only streamed, and
  only the first survive a restart.
* **Idempotency keys** are looked up, released and inserted in separate transactions.
* **Admission** rests on a reading of the machine that is old when it is acted on, and a
  deferred job is woken by a second predicate that must agree with the first.
* **Mirrors.** Statistics, residency rows and evidence bindings copy what is true elsewhere;
  each is refreshed in a transaction of its own that may fail, overlap or come late.
* **Sweeps** work in batches and on the clock of the tick that started them.

`hazards` in `PROJECT.json` lists these at their lines with the property that covers
each, or the reason there is none.

### What makes each part correct

* Table and workers: a lease is set exactly while the job is in flight; a holder's view
  of its row is wrong only because of a cancel; no illegal transition is asked for;
  attempt numbers agree; a verdict is final; a result is written only by the holder;
  non-idempotent work is in at most one call; nothing stays in flight or cancelling.
* Lease timing: a live worker keeps its lease through the missed renewals it is meant to
  survive; a dead worker's job is recovered in bounded time.
* Synchronous jobs: one execution per key; a stream that got its producer thread ends with
  exactly one terminal frame; which rows can stay in flight without a handler; an ended row
  stays as it is.
* Breaker: instants fit the state, stale refreshes undo nothing, no exclusion is
  permanent, old failures do not open it twice.
* Events: rows are numbered in commit order, nothing rolled back is seen, a reconnecting
  client gets what it missed.
* Intake: a key names one job while it is reserved; the bounds hold up to the requests
  under way at the same time.
* Claim order: an older equal is not overtaken; affinity passes over a job a bounded number
  of times.
* Routing: what is chosen satisfies request, profile, memory and adapter gate, and a score
  without `low_evidence` rests on measurements that describe the execution or on manual scores.
* Admission: a failure is permanent, a deferral neither bounces nor outlives its reason;
  attempts are bounded and never return to a candidate.
* Residency: a model is taken from a job only if the job came after the set was read or is not
  registered under that model; rows of models nobody holds are closed.
* Reliability: when every refresh is done the rows are those of a full recomputation, and the
  breaker columns show the verdict last noted, except where two refreshes overlapped.
* Evidence: a row is bound only to what was measured, says its source is unreachable only
  while that is so, and the store falls behind in three known ways only.
* Retention: a sweep makes progress while it can reach a job whose time has passed.

## 2. Modules

| Module | Models | Extends / instantiates |
|---|---|---|
| `JobTable` | states, transition table, compare-and-set of one row | |
| `JobQueue` | table, workers, scheduler, registry, crash and recovery | `JobTable`, `JobLifecycle` |
| `JobLifecycle` | what a caller is promised of a job (abstract) | |
| `LeaseKeeper` | the instants of claim, renewal and reaping | |
| `SyncExecution` | synchronous requests and streams | `JobTable` |
| `CircuitBreaker` | the breaker of one model and the threads around it | |
| `JobEvents` | the event stream of one job and its followers | |
| `Intake` | keys and bounds of submissions | |
| `ClaimOrder`, `Retention` | ageing and the claim; what a retention sweep takes (operators) | |
| `Backlog` | a job's turn and its text, with the sweeps | `ClaimOrder`, `Retention` |
| `ExecutionSubjects` | candidates: model, adapter, runtime profile, served context (operators) | |
| `EvidencePolicy` | identities, binding, staleness (operators) | |
| `CapabilityScoring` | scores and factors (operators) | `ExecutionSubjects`, `EvidencePolicy` |
| `HardConstraints` | memory estimates, context budget, hard constraints (operators) | `CapabilityScoring` |
| `Routing` | one routing decision (operators) | `HardConstraints` |
| `Dispatch` | one job from claim to end over a changing machine | `Routing` |
| `Residency` | which models are loaded on a device | |
| `ReliabilityStats` | windows, factor, regression, percentile, ledger (operators) | |
| `Reliability` | attempts, feedback, selections and refreshes | `ReliabilityStats` |
| `BreakerMirror` | the breaker columns of the statistics and the threads that write them | |
| `SourceFetch` | what one request to an evidence source comes to (operators) | |
| `ModelRegistry` | the rows discovery leaves (operators) | |
| `EvidenceStore` | imports, pulls, bindings and badges beside discovery | `EvidencePolicy`, `SourceFetch`, `ModelRegistry` |
| `MC...` | symmetry sets and small worlds for TLC | the module of that name; `MCReliability` runs `Reliability` and `BreakerMirror` side by side |
| `RuntimeProofs` | theorems about `JobEvents`, `SyncExecution` and `LeaseKeeper` | these three, `TLAPS` |
| `RoutingProofs` | theorems about `EvidenceStore` and `Dispatch` (with `Routing` and what it extends) | these two, `TLAPS` |
| `ReliabilityProofs` | theorems about `Reliability` and `BreakerMirror` | these two, `TLAPS` |
| `...Proofs` | theorems | the module of that name, `TLAPS` |

### JobQueue

`jobs` is the table, reduced to state, lease owner, attempt counter, cancel flag and
idempotence. `pc`, `wjob`, `wst`, `watt` and `out` are where a worker thread stands and its
local variables `job`, `state`, `attempt_number` and `outcome`; `entry` is its entry in the
registry. `keeper` is where the scheduler stands in `keep_leases`, which is not atomic.
`up` is whether the process runs.

Every action is one committed transaction or one step between two. Its guard is the
compare-and-set of `transition` (state, and lease owner where the code passes one);
a refusal rolls back and ends the worker's interest in the job (`Refused`). The labels
follow `Worker.process`, `_run` and `_attempts`: `Register`, `CheckFlag`,
`Admit`/`Defer`/`FailAdmission`, then per candidate `EnterCandidate` or `RequeueForProbe`,
per attempt `TakeNumber`, `CheckBeforeCall`, `StartExecuting`, `ProviderReturns`, and from
there `StopCancelled`, `RecordFailedAttempt`, `ValidateAttempt`, `Complete`, `RetrySame`,
`FallBack`, `BeginRetry`, `CheckAfterBackoff`, `Readmit`, `Fail`. `WorkerError` is an
exception anywhere, `FailAfterCrash` its handler, `ThreadDies` the handler failing.
What routing, admission, residency and the retry policy answer is a free choice, and so is
the order of claims. Time is left out: any lease may expire. The model has therefore more
behaviours than the code, and its safety properties do not depend on those parts.

`JobLifecycle` has neither leases that expire nor threads. `ImplementsLifecycle` maps a
row to the phase, the holder, the number of attempts and whether a cancel was accepted.

### LeaseKeeper

Integers for the clock, the tick, `Scheduler._last` and the expiry of each lease. `Gap` is
the longest time between the starts of two ticks: the code's poll interval plus whatever
delays the thread. A keeper pass that raises is `KeeperFails`: `_due` has recorded the
attempt, so it is not repeated before the next interval.

### SyncExecution

A request creates at most one row, so rows are named by requests. The route reserves the row
and then builds the context and hands over (`Start`), to `execute` or to the producer thread of a
stream; if the context or the thread fails (`StartFails`) there is a row, no `_drive` and no
backstop. `Write` is what
`_persist` and `_fail_reserved` do: the state is written whatever it was. `Backstop` is the
stream's last resort. `Moves` is `transition` as the cancel route, the watchdog and
recovery use it. The key expiring is an action of its own here; its instants are in `Intake`.

### CircuitBreaker

`evaluate` is composed from operators in the order of its statements. A refresh is two
actions: `ReadSamples` takes clock and samples, `Update` applies them later. Workers pass
the gate (`PassGate`, `AllowProbe`), answer, record, retry, are cancelled (`Cancel` hands
the probe back) or stop in between (`Abandon` does not).

### JobEvents

`Allocate` takes a number inside a transaction, `Commit` or `RollBack` ends it, `Publish`
fans out and `Forget` follows a terminal event. A synchronous row cancelled while it runs gets
events after its terminal one (`Late`); a client stops at the first terminal frame. `PublishLive` numbers a frame that is not
stored. `WriteElsewhere` is another process, without the counter. `Restart` loses
everything in memory. A client subscribes, replays and follows as MirrorWall's loop does;
that loop is a library and is modelled from how `JobEventSource` is used.

### Intake

`Arrive`, `FirstLookUp`, `CountAll`, `CountSource`, `Insert`, `SecondLookUp` are the
transactions of `enqueue`; a synchronous request skips the counts. A request's instant is read
once, so requests with different clocks interleave. `asked` and `at` of a row remember the
submission after its key was released; only properties read them.

### Backlog

The table in two parts: active rows with the columns a claim orders by, finished rows with
the columns retention reads. `Claim` evaluates both statements of `claim`; `GiveBack` and
`Defer` return a held job with the priority it was claimed with. `tick` is the instant the
scheduler hands to all its sweeps. Two variables belong to the properties only: `returned`,
the jobs given back since the last sweep, and `bypassed`, the claims in a row that did not
take the job first in line.

### Dispatch

`Route` is the whole of `route()`: the pool of candidates, subjects, runtime profiles and
served context, scores, hard constraints in their order, ranking, fallbacks, budget and
flags. `Dispatch` calls it with a machine (devices, memory, resident models, other jobs'
reservations, breakers) that changes between the routing and what is done with the answer, and
between the reads of the routing itself: `ReadSnapshot` (telemetry and reservations),
`ReadLoaded`, `ReadExcluded`, `ReadDevices` (where models are resident) and `RouteJob` (the details
of the breakers, then the routing) are five steps, and `view` keeps what each has read. `admission_snapshot` is one
step, though it takes telemetry and reservations one after the other.
The loops of `_read_candidates`, `_signals_for` and `rank_candidates` are folds in the order of
the code, and the hard constraints a sequence of checks of which the first that fails names the
rejection. Scores, weights and factors are tenths, and quotients are compared by
cross-multiplication. Attempts follow `classify_failure` and `next_action`. `quiet` says that
nothing has changed since the routing; properties of the decision itself are stated then.
`IsStored`, `IsRequest` and `IsMachine` say which worlds there are: what the loaders, the columns
of the tables and telemetry let through. `ExclusionNeutral` compares with a store that keeps what
`Concerns` an execution, confident or not: `collapse_evidence` takes the newest record of a
profile before anybody looks at its confidence, so a newest record of too little confidence hides
an older one that could have been used. That record is no stranger to the execution, and dropping
it would change the score.

### Residency

Every provider call and every write of `ensure_loaded`, `_unload`, `evict_idle` and `sync` is
a step; a thread keeps what it has read in `task`. Workers register job and model in `inflight`,
synchronous callers do not. `Admit` registers the primary; when its probe is busy (`Probed`) the
worker runs a fallback and the entry still names the primary (`past`), until `Readmit` registers
what is run. `InUseModelIds` leaves out every entry of the reader's job, as the code does by job id. `Restart` loses the threads and keeps table and provider.
`fresh` remembers which workers came after an in-use set was read.

### Reliability

`Persist` commits an attempt, `Refresh` recomputes later at the clock read in between and may
be lost. `missed` is set by whatever the code does not follow with a refresh. The ledger of
`domain/reliability.py` is fed beside the table and compared with it. Rates are pairs of
integers. `Select` gives a job its model and `MoveAway` takes it away again, as a fallback or a
second admission does, while feedback on the job is accepted at any time.

### BreakerMirror

`refresh_breakers` in the steps its threads can interleave at: `FindChanged` compares a breaker
with `persisted_verdicts`, `RecordBreakerVerdicts` writes the rows in one transaction (or
`PersistFails`), `NoteVerdict` notes one subject after the other. `RecomputeRow` is what a
recomputation does to the columns: defaults on insert, nothing on update. `Restarted` empties what
is in memory. `young`, `writer` and `noter` belong to the property only.

### EvidenceStore

A pull reads its `since`, asks the source (`SourceFetch`: URL checks, redirects, versions,
content type and size, each with its exception) and writes; a failure writes twice. File
imports, `Discover` and `SyncAdapters` come at any time, and rebinding is part of each of
them. A pass may have no registration to ask, and then still retires the rows of disabled ones and
rebinds. A record's version is the producer's clock. An export may hold records that the
importer rejects, a saved file may be complete or filtered (`Filters`), and a transport error in
the middle of a body is an outcome of its own (`escaped`): no translation, nothing recorded.
There is one producer behind one URL.

## 3. Runs

| Run | Instance | Shows |
|---|---|---|
| `queue_safety` | 2 workers, 1 job, 2 attempts; 1.5 million states | the inductive invariant of the proofs, accepted writes, single side effects, immutability, completion by the holder, and the refinement of `JobLifecycle` |
| `queue_liveness` | 1 worker, 1 job, 2 attempts | no job stays in flight or in cancelling |
| `keeper_margin` | 2 workers, lease 6 = 3 x renewal 2, ticks up to 1 late | one missed renewal is survived; a dead lease is recovered in time |
| `sync_safety` | 3 requests, 1 key; 0.7 million states | one execution per key, one terminal frame per stream that got its thread, orphans only by a request that did not start or a plain one that raised, one way an ended row can change |
| `breaker_safety` | 2 workers and the scheduler, 5 instants | consistent verdicts, nothing taken back, no permanent exclusion |
| `events_safety` | 2 writers, another process, 1 client, 1 restart, 3 numbers, a live buffer of 1, 1 late event; 0.6 million states | rows numbered in commit order, nothing rolled back is seen, no shared numbers |
| `intake` | 2 requests at a time, 2 callers, 1 key, 3 rows; 3.9 million states | keys stay reserved, losers find winners, the bounds with their overshoot |
| `backlog` | 3 jobs in 2 bands, 2 workers, 3 instants, streaks of 1, sweeps of 1 in 2; 1.1 million states | the order of claims, bounded affinity, progress of retention |
| `dispatch` | worlds of one job each: contexts (576), a changing device (4), a host without a device (3), evidence (2336), constraints (144), attempts (15); 0.2 million states | sound choices and evidence, bounded attempts, permanent failures, deferrals that neither bounce nor last |
| `residency` | 1 worker, 1 job, 1 caller, the scheduler, 2 models on 2 registrations, one of them with a probe that may be busy, room for 2; 1.0 million states | bounded rows, whose model may be evicted, ghost rows closed |
| `reliability` | 2 threads, 1 job, 1 caller, base and 1 adapter, 2 attempts, windows of 1 and 2; beside them 2 refreshers, 2 breakers, 2 profiles, 2 verdicts; 0.7 million states | incremental equals full, exact statistics, true annotations, honest factor and percentile |
| `evidence` | 2 pulls, files by hand and from the producer (complete or filtered), 2 keys, listings by name, by digest and of nothing, the registration enabled or not, 2 publications; 0.35 million states | honest bindings, true badges, passes that settle, the three ways to a gap |

Some invariants are conjunctions whose parts have names of their own, with a comment each:
`WritesAccepted` (`NeverIllegal`, `NumberingAgrees`), `KeeperSafe`, `SyncSafe`, `StreamSafe`,
`KeyedOnce`, `OrderSafe`, `ChoiceSound`, `EvidenceSound`, `RowsBounded`, `StatisticsExact`,
`ReadingsHonest`, `BindingsSound`, and the inductive invariants of the proofs.

### Why the bounds are enough

* Workers of one job interact pairwise: a holder and one who lost the lease. Two workers
  give every pair, and a worker that is reused gives a third hold. Two attempts reach
  retry, fallback and exhaustion. Jobs share nothing but the workers; the proofs cover any
  number of both.
* The lease run has four renewals in its horizon; the theorem covers all lengths.
* Three requests are one that holds a key, one that lost the race and one that comes after
  the expiry.
* Five instants give an opening, its cool-down, a probe, its overdue release and a second
  probe.
* Three numbers hold a live frame below an open transaction, the terminal event it commits and
  one event after that; two restarts add nothing, since a restart loses all there is to lose.
* Three jobs are one first in line and one for each worker to prefer to it. A sweep that reads
  two rows and scrubs one shows skipping and the edge of its reach; the code's 500 and 2000
  only scale that. Two minutes bring a batch job level with a fresh normal one.
* The worlds of `dispatch` are chosen one per question (what is served, asked and accepted; residency, other
  jobs and breakers that move; no device, or an adapter to probe; whose measurement it is, of
  what, under which profile, on which machine and with how much confidence; constraints of profile and request, remote
  models and pins; budgets over candidates of different contexts); each has one job, as jobs
  meet only through the machine, which may change at every step.
* Two models and room for two make every load compete with every other; the second provider
  registration is the one whose models the scheduler's reconciliation does not see. More clock
  readings only add order, and two already give a stale one. One worker cannot hold a job that
  another still holds; that exception of `InUseSpared`, like any number of workers, is the
  theorem's.
* Two attempts reach the thresholds of the windows, which are scaled down with them, and let
  two refreshes overlap; samples may lie one instant in the future. Two refreshers are one that
  writes and one that overtakes it; two breakers are one with rows and one without.
* Two pulls are one scheduled and one by hand, so that one can start before and end after the
  other; two publications make one newer than the other.
* Three rows and a depth of two let the bound be passed; three hours of clock let a key
  expire under a request that arrived earlier.
* Deadlock checking is off in `intake`, `dispatch`, `reliability` and `evidence`: they stop when
  their rows, moves, instants or pulls are used up.

### Fairness

`queue_liveness` assumes weak fairness of a worker's steps after a claim: a thread of a live
process runs, and a provider call returns by its timeout. It assumes nothing of claims,
which can be paused. The watchdog and the reaper of a lease nobody renews get strong
fairness: `tick` runs each sub-step whenever it is due, but cancels and crashes can take the
work away in between. A dead process is started again (weak fairness of `Recover`). Crashes,
errors and cancels are never assumed to stop or to happen.

`dispatch` assumes weak fairness of `Reevaluate` alone: the scheduler re-evaluates waiting
jobs every few seconds. Nothing is assumed of the machine, so `DeferralEnds` speaks only of a
machine that has come to admit a candidate for good. `residency` assumes that the calls the
scheduler makes return (weak fairness of its steps) and that it comes back to `sync` (strong
fairness, since its other tasks take turns with it); workers, callers and providers owe
nothing.

## 4. Proofs

All theorems are for every value of the constants under the `ASSUME` of the module, which
says that bounds are naturals, sets are disjoint from `None`, and settings are those the
validators accept.

* **`JobQueueProofs`**: `Invariance`, then `TypeCorrect`, `LeaseSound`, `HolderSound`,
  `LeasesAccounted`, `CancelFinal`, `AlwaysLegal`, `NumberingSound`, `AllWritesAccepted`. None
  of the properties is inductive alone: that a compare-and-set is legal depends on what the
  worker believes at each label (`Believes`), on which variables are set there (`Remembers`),
  and on what its counter says while the lease is its own (`Numbers`); that nobody else writes
  depends on `LeaseIffInFlight` and `HolderView` together. `IInv` is their conjunction. The
  proof has one lemma per shape of step (local, refused, committed with the lease, committed
  without it) and one per action.
  In the same module: `Immutable`, `OnlyLegalMoves`, `OnlyHolderCompletes`, `SingleCall` and
  `Refinement`. `Allowed` says what one step may write to a row, starting from `IInv`; every
  transaction of every actor is shown to keep to it, and the three action properties follow.
  `SingleCall` needs one more invariant, `Sole`: two workers engaged with one job means the job
  is idempotent. A worker becomes engaged only by a claim, a claim needs a queued row, and by
  `Excludes` anyone still engaged with a queued row is there because it is idempotent.
  `Refinement`: `JobQueue` implements `JobLifecycle`. The initial rows map to the promised
  initial state, and each action, seen through the mapping, is one step of the promise or leaves
  what the caller sees as it was.
* **`CircuitBreakerProofs`**: `Invariance`, `Consistency`, `Monotone`, `EveryExclusionEnds`,
  `NewEvidence`. The
  strengthening says that no instant lies in the future, so an older clock sees an older
  decision. It also rests on decisions being taken by the last attempt after an opening
  (`after[-1]`), not by the first as the docstring of `evaluate` has it. `NewEvidence`
  (`OpensOnNewEvidence`, an action property) adds `ReadIsRecorded`: what a refresh has read stays
  in the table, so the attempts after a closing that open a breaker again are in it, and there
  are at least `MinSamples` of them.
* **`IntakeProofs`**: `Invariance`, `Depth`, `Share` and `Keyed`. The requests past the count
  are added to the jobs they will become; inserting moves one unit between the summands, and
  passing the count needs fewer than `max_depth` active rows at that instant. `Share` is the
  same argument for one caller (`ShareInv`). `Keyed` (`KeyedOnce`) needs ages: a released key is
  past its time (`KeyLife`), a request is at most `Duration` old (`Timely`), and a row a request
  loses to was inserted after its first lookup (`Contended`), so it cannot expire before the
  second one. `IntakeAssumption` asks that a key lives longer than two requests take: hours
  against a request's seconds.
* **`RuntimeProofs`** holds three components. Of `JobEvents`: `Invariance` and `Stream`
  (`StreamSafe`), for any writers, clients, buffer and number of restarts. The rows ascend because
  a number taken inside a transaction is above every stored one until it ends (`Committing`); a frame a client has seen is stored
  because only committed frames are published (`Broadcast`); live frames and rows share no
  number while this process alone writes and the job runs (`CounterAhead`).
  Of `SyncExecution`: `SyncInvariance`, `SyncSafety` (`SyncSafe`), `StreamsEnd` and
  `VerdictKept`, for every set of requests and keys. That one key has one execution depends on
  the unique index (`KeyNamesOne`) and on which handlers have a row at all
  (`RowBehindHandler`); that a stream whose producer thread ran ends with one terminal frame
  depends on nobody but a cancel and the watchdog moving the row under a handler
  (`HandlerOwnsJob`). What a failed start leaves behind is in both statements. `VerdictKept`
  proves that the overwrite named in section 5 is the only one.
  Of `LeaseKeeper`: `KeeperInvariance`, `Margin` and `DeadLeases`. The age of a lease is bounded
  by the misses since its last renewal:
  `last.keeper + Lease <= expires + missed * (Renewal + Gap)`.
  `Margin`: if `Lease >= n * (Renewal + Gap) + Renewal`, a renewed live hold survives n missed
  renewals in a row. With n = 0 no stall of the scheduler alone costs a lease, because the
  keeper runs before the reaper. With n = 2 and the accepted minimum `Lease = 3 * Renewal` the
  condition fails for every late tick, although the docstring of the validator (`config.py:749`)
  speaks of two missed renewals.
  `DeadLeases` (`KeeperSafe`): a lease nobody renews is reaped within the reaper's interval and
  two ticks of its expiry, provided `Gap < Renewal`. The hypothesis is needed: a keeper that
  raises ends the tick before the reaper, so ticks that are always late enough for the keeper to
  be due again can all be cut short. With it the tick after a failed keeper reaches the reaper,
  which is what `Lapse` says of each place in a tick. The defaults (a poll interval below a
  renewal interval) satisfy it as long as the thread is not held up for longer.
* **`ReliabilityProofs`**: `Invariance`, `Incremental` (`IncrementalEqualsFull`), `Annotation`
  (`AnnotationTrue`), `Exact` (`StatisticsExact`) and `Readings` (`ReadingsHonest`). Every step
  that changes the samples of the base leaves a refresh to do or sets `missed`, and a refresh
  reads the tables as they are, so the order of the refreshes does not matter. `Annotation` is a
  theorem of `MirrorSpec`, for any number of refreshers, subjects, profiles and verdicts. It needs
  `WrittenShown`: what the last writer of a subject has not noted yet is what the older rows show,
  so that its note closes the gap; equality then survives every step but the note of a slower
  thread, and that is the exception the property names. What the ledger
  has trimmed is behind the window for ever (`LedgerKeeps`). `Exact` opens `StatsOf` as far as
  the counts: what `detect_regression` gets by subtracting two rows is the count of a difference
  of sets.
  `Readings` adds `CountsFit`: the counts of a stored row fit together also while a refresh is
  outstanding, which bounds the factor. For the percentile the sorted sequence is shown to exist
  and to be sorted by looking at a least counterexample, and the nearest rank is counted on it.
* **`BacklogProofs`**: `Invariance`, `Order` (`OrderSafe`) and `Sweeps` (`SweepContinues`). The
  order of claims is not inductive: it holds because all effective priorities in the table date
  from one sweep (`AgedAt`), a later arrival is never above what ageing gives an older equal, and
  only a job given back since then may differ. How often affinity passes over the job first in
  line is counted over the workers' streaks (`Affine`): every such claim uses up one place in one
  streak, and the claim of the first in line resets the count. `Sweeps` compares the rows a sweep
  reads with the rows within its reach: a scan that leaves one of them out read fewer than its
  limit, and that it does only when it reads all there are.
* **`ResidencyProofs`**: `Invariance`, `Bounded` (`RowsBounded`) and `SparesInUse`
  (`InUseSpared`), for any models, workers and callers. Duplicates are counted as rows plus
  threads about to insert one: a thread looks for a row of its model before it sets out to add
  one, so neither summand grows past the number of threads. `Placed` says what a thread knows at
  each place, `Registered` that a worker that did not skip its primary has the model it runs in the
  registry from admission to the end, and `Spared` that a victim chosen from an in-use set is
  nobody's model but that of a worker that came after the set was read, skipped its primary or
  holds the same job. One lemma per shape of step.
* **`RoutingProofs`** holds two components. Of `EvidenceStore`: `Invariance`, `Bindings`
  (`BindingsSound`), `Badges` (`BadgeTrue`), `Settles` (`PassSettles`) and `Gap`
  (`GapOnlyFromLoss`), for any keys, listings, configurations, filters, directories, answers and pulls. Imports and passes are loops, so the module first proves what a
  loop over a sequence does: a fold is a fixpoint that exists, its value after n steps comes from
  its value after n - 1, and what holds at the start and survives every step holds at the end (a
  least counterexample takes the place of the induction rule). `EvidenceInv` has the tables
  (`Tables`), which source row may have a URL (`Sourced`), which rows a badge can be on
  (`Badged`), and that a bundle under way is a snapshot of the producer, however old (`Snapshot`,
  `Fetched`). For `Settles`, a pass that adds neither rows nor digests keeps every digest it meets
  (a digest can only be filled in, never changed, so equal ends mean equal between), and each row
  is then evaluated against the final registry. `Bindings` has a hypothesis, `OneBuildPerName`:
  the registrations of one kind that answer a pass list no name under two digests. It is needed,
  since two hosts of one kind may well serve different builds of a name and the code then keeps
  both rows available; `MCEvidence` checks that its listings satisfy it. The other four theorems
  do without it.
  Of `Dispatch`: `Dispatching`, `Attempts` (`AttemptsBounded`), `Refusals` (`FailureIsPermanent`),
  `Deferrals` (`NoBounce`), `Selections` (`ChoiceSound`), `Neutrality` (`ExclusionNeutral`) and
  `Grounds` (`EvidenceSound`), for any models, adapters, providers, evidence, profiles, requests
  and machines. `DispatchInv` has the state of the attempt loop (`AttemptInv`: the places tried
  never fall, and each is tried at most as often as its counter says), where the loop stands in
  the candidates (`Indexed`), that a decision the machine has not overtaken is what `Route` returns
  there (`Current`), and what a refusal or a deferral was based on (`Verdicts`). Everything else is
  about `Route`:
  - `Selections`: every element of the pool comes from a row and perhaps an adapter, ranking only
    reorders those without a rejection, and the checks that did not
    fail give the conjuncts of the property one by one. The device is the step that needs sums: `DeviceHolds` is about
    what other jobs were promised and what idle models hold, `AdjustSnapshot` about clamped usage.
  - `Refusals` and `Deferrals` relate two evaluations. A candidate whose first failing check is
    not about memory fails that check on every machine of the world, whatever its devices hold, as
    long as the breakers are those the refusal was based on; one that was deferred has an
    estimate, and the estimate did not fit then and does not fit now. `Refusals` says of every
    machine, and of every end of a probe that was seen in both reads of the breakers, that routing
    would again find nothing.
  - `Neutrality` runs two stores in step, the whole one and the one with the strangers removed.
    Their pools agree place by place (`Paired`); the signals of a subject differ only in records that
    are excluded either way (`Swappable`), and that leaves every resolved number equal though the
    name of an exclusion may differ (`SameScore`, `SameFit`); so each outcome has a twin (`Twins`),
    no comparison of two candidates changes, and every insertion goes to the same place
    (`RankedAlike`).
  - `Grounds` follows a score back to the record it came from, a measurement that describes the
    subject (for quality from any machine, for speed from this one) or a manual score of the bare
    model, and has a hypothesis, `Weighed`: no
    weight of the task is negative. `_validate_one` (`domain/task_profile.py:131-145`) checks that
    the weights add up to one and nothing of their signs; with a negative weight the share of the
    measured capabilities can exceed that of a set containing them. The shipped profiles have
    positive weights.

  The assumptions name what the code cannot produce: `None` among the reasons of a rejection, the
  routing errors and the exclusions, an activation overhead of nought (it is 256 MiB), two evidence
  rows with one id, or one without a machine (a NOT NULL column).

Only model-checked: liveness under fairness (`EveryHoldEnds`, `CancellingEnds`, `DeferralEnds`,
`GhostRowsClosed`), which is out of the prover's reach. Every other property a run checks is a theorem, four of them under the
hypotheses named above (`Margin`, `DeadLeases`, `Bindings`, `Grounds`).

## 5. Where code and documentation disagree

The models follow the code. Where a docstring or a document promises more, the property that
is checked states the exception, and this list says what the exception is.

**Jobs and leases**
* `_persist` (`services/execution.py:1520`) writes without a compare-and-set, so a cancelled
  synchronous job whose handler still runs becomes completed; `queue_state.py:59` calls a
  terminal job immutable. `TerminalKept` names this one exception.
* `post_generate_stream` reserves the row before it evaluates `_context(request)` and starts the
  producer thread (`generate.py:520-546`). If either fails, the row stays executing and no terminal
  frame is ever written, although the docstring says that the terminal event is always `result` or
  `error` (`generate.py:511`); only the next start of the process recovers the row. `SyncSafe` and
  `StreamEnds` leave out exactly these requests.
* `recover` (`recovery.py:134`) requeues a synchronous row whose `queued_at` is NULL; the
  assertion in `_claimed` (`queue.py:728`) then fails for every worker that picks it.
* `keep_leases` (`worker.py:1878-1893`) can mark a new hold lost, when its worker gave the job
  back for a busy probe and claimed it again during the pass; the registry's docstring
  (`worker.py:177`) says otherwise.
* A lease of three renewal intervals does not survive the two missed renewals of
  `config.py:749` once ticks are late (section 4).
* A job given back by a worker keeps its old effective priority until the next ageing sweep, so
  a younger equal can come first; `claim` says FIFO among equals. `scheduled_for` is never later
  than the write, although the docstring speaks of backoff.
* A retention sweep reads the oldest `batch_size * 4` finished jobs, scrubbed ones included, and
  rows are never deleted: behind 2000 scrubbed jobs no text is removed any more, although
  `scrub_content` says that the next sweep continues. `SweepContinues` holds within that reach.

**Breaker and events**
* `release_probe` (`circuit_breaker.py:340`) looks at `probe_in_flight` only, so a cancelled
  overdue probe hands back the next one; `docs/apps/loadcoach/queue-and-scheduling.md:237` promises a single job.
* The event counter restarts at the stored maximum (`job_events.py:202`): a client that reconnects
  with the number of a live frame can miss the terminal event (compare `job_events.py:6`).
* A synchronous row cancelled while it runs gets events after its terminal one; a client that
  stops at the terminal frame, as the streams do, never sees them.

**Routing, admission and retries**
* The reduced `max_output_tokens` of `context_budget.py:8` is never sent (`sampling_for`,
  `execution.py:783`).
* `reevaluate_waiting` (`worker.py:1800`), said to be never more optimistic than routing, is so on
  machines without a device and for adapter probes.
* `_route` asks the breakers for what they exclude and then for its details, under two locks with
  a query in between (`worker.py:825-831`). A probe that ends in between is excluded without its
  half-open detail, and the job is refused for good, although waiting would have cured it.
  `FailureIsPermanent` names this one exception.
* Production rows of `model_capabilities` are never used: `_signals_for` (`routing.py:387-397`) sets
  no `sample_count`, the table has no such column, and `resolve_capability` (`scoring.py:349-352`)
  drops a production signal without enough samples.
* A model that is excluded as well as too large for the memory left defers its job
  (`admission.py:50`).
* A fallback chosen for its context can be followed by one with a smaller context.
* `max_latency_p95_seconds` is read by no constraint.
* A job deferred for memory is not woken when the breaker of another candidate closes.
* Ties between a base and its adapter, constraints that do not tighten, and `evidence_summary`,
  which counts rejected records too, differ in detail from the docstrings of `ranking.py`,
  `routing.py` and `explanation.py`.

**Residency**
* The in-use set is read before the provider calls, and synchronous callers are never in it;
  `residency.py:10` says a model is never evicted from under a job. `InUseSpared` states for which
  jobs that holds.
* A primary that is skipped because its probe is busy stays in the worker's entry while a fallback
  runs (`worker.py:1060-1078`: `_readmit` is called from the second candidate on), so the model that
  runs is in nobody's in-use set. The set also leaves out every entry of the reader's job id
  (`worker.py:534`), that of a late holder included.
* Two concurrent loads leave two open rows, on which `record_use` raises and fails the job.
* `sync` can close the row of a model that has just been loaded.
* With several registrations the scheduler's `sync` and `evict_idle` use the first, over rows of all
  of them, against the comment at `worker.py:2033`.

**Reliability**
* No refresh passes an adapter and nothing calls `recompute_all`, so adapters never get rows;
  `selected_adapter_id` is never written, so feedback on their jobs counts for the base.
* Stored windows do not age, a refresh with an older clock overwrites a newer one, a verdict for a
  subject without rows counts as persisted, and cancelled attempts cause no refresh. A job with
  feedback that moves to another model (`worker.py:1356-1361`) leaves its judgement in the rows of
  the first until something else refreshes them.
* `refresh_breakers` runs on every worker and on the scheduler, with no lock around comparing,
  writing and noting (`worker.py:508-527`). When two overlap, one can write last and the
  other note last, and the page then shows another verdict than the one noted until the breaker
  changes again. A row inserted after the last write shows closed,
  whatever its breaker says. `AnnotationTrue` states both.

**Evidence and registry**
* The store falls behind for good in three ways, none of which the source is asked about again
  (`GapOnlyFromLoss`): `since` is read before the fetch, and an older export imported
  before the answer is written takes the store back further than the answer reaches; a record that fails validation is dropped while `_upsert_source`
  still advances `generated_at` (`evidence.py:546-560`, `475`); a filtered file advances it too.
  `since` is kept by URL, so a replaced source is asked for too little; the models have one producer
  per URL.
* A transport error while the body is read (`freeweight_client.py:618`) is not translated into the
  client's exceptions, so the refresh records neither a failure nor a badge.
* Discovery retires by provider kind, so an unreachable registration loses its models when another
  of its kind answers.
* Two registrations of one kind that serve different builds under one name leave two available rows
  of that kind and name (`_upsert_model` looks for kind, name and digest). `NoTwins` is proved for
  listings without such a pair.
* For a provider without digests, evidence upgrades a name-only row; the next discovery inserts
  it again and retires the upgraded one.
* Rows evaluated before an upgrade in the same pass keep the name-only binding until the next pass.
* A failed refresh after a file import leaves a placeholder source; badge and failure are two
  transactions.
* No caller passes `current_environment`, so a changed environment is never noticed.

## 6. Not modelled

* Response validation is a function of text; wherever its verdict matters the models let it
  be either. Prompts, tool calls and the shape of a response are data.
* Overrides of settings at run time and the pause and drain flags. Settings are constants; a paused
  queue is one in which no claim happens, which the models allow at any time.
* Access control and the rate limiter: a lookup, and a token bucket under one lock that
  nothing else reads.
* The queue and telemetry streams poll snapshots. Web pages, dashboards, health reports and
  the command line call the services above.
* Migrations, provider clients, HTTP, formatting and logging.

`components` in `PROJECT.json` lists every part with its status.

## 7. Plan

1. Composition of `Intake` and `JobQueue`.
2. Queue flags and runtime settings beside the workers; rate-limit buckets.
