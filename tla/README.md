# IHADRS in TLA+

A verification project for IHADRS, an endpoint detection and response agent in Python
(`src/ihadrs`): TLA+ modules of its parts and of their composition, TLC configurations that check
them on small instances, and theorems that the TLA+ proof system checks for every instance.
Line numbers below refer to files under `src/src/ihadrs` unless a path says otherwise.

## 1. The system

Monitors sample the operating system, each on a thread of its own, and publish what they see
on the **event bus**. The bus dispatches every event to its subscribers, two pool threads per
subscriber: the **detection engine**, the **event store**, and, for the threats the engine
publishes back onto the bus, the **notifier** and the **SOC exporter**. A scheduler runs
periodic jobs, a resource manager samples the agent's own load, and an API server on its own
thread reads the store and changes settings. `app.py` starts all of this in order and stops it in
another.

Almost all state is shared between threads; locks are local to each component and often do not
span a whole operation. That is where this project looks.

| Component | State | Operations | Interacts with | Hard behaviours | What makes it correct |
|---|---|---|---|---|---|
| Event bus `core/event_bus.py` | heap, sequence, counters, subscribers, executors, dead letters, `_running` | publish, publish_many, subscribe, unsubscribe, start, stop; dispatch loop; callbacks | everything | unlocked `_running` test; executor used outside the lock; stop with timeout; restart | order, bound, books balance, nobody skipped, graceful stop |
| SOC export `integrations/secureops.py` | SQLite queue, bad-key flag, settings file, key, uploader thread | handle_event, update_settings, test_connection, start, stop, one upload round | bus, API, remote server | crash between send and record; lost answers; settings changed in mid-round; closed queue | accepted alerts kept, confirmed ones not resent, a rejected key halts |
| Detection engine `detection/engine.py` | dedup cache, whitelist, metrics | initialize, process_event, should_emit, emit_threat | bus (both ways), rule engine, detectors | no lock around the cache, two workers; publish may raise; a stage may raise | repeats suppressed, new threats emitted, cache bounded |
| Rule engine `detection/rule_engine.py` | rules, active rules | load, evaluate | engine | none (one caller), but a lenient loader | enabled rules report, conditions mean what they say |
| Behavioral detector `detection/behavioral.py` | sliding windows per entity, cooldowns | process_event | engine | exact-threshold crossing against cooldown; cooldown unlocked | every burst reported once |
| Correlation engine `detection/correlation.py` | pending chains, history, cooldowns | process_event | engine | records made outside the lock, pruning, cooldown keys | complete chains reported, expired ones not |
| Scheduler `core/scheduler.py` | jobs, timers | add, remove, enable, disable, trigger, start, stop | app | a job that ends re-schedules itself after an unlocked test | one timer chain per enabled job, none for others |
| Polling monitors `monitors/` (process, network, registry, service) | thread, stop event, status, baselines | initialize, start, stop, poll, health check | bus, app | thread outliving stop; dropped event after the baseline moved; items a snapshot misses | changes reported once, status true |
| File monitor `monitors/file_monitor.py` | observer, deque of renames | callback, check, start, stop | bus | callback against count and clear | rename bursts reported |
| Authentication monitor `monitors/auth_monitor.py` | nothing but its thread | poll | bus, system log | no position in the log | every entry reported, none twice |
| Event store `storage/event_store.py` | SQLite, one connection | bus handlers, queries, updates, prune, migration, close | bus, API | handlers and coroutines share one transaction; crash in a migration | what was written stays written |
| Caches `storage/cache.py` | LRU map with expiry | get, set, get_or_set, delete, sweep | store, monitors | factory outside the lock | bounded, LRU |
| Notifier `alerting/notifier.py` | recent alert times, cooldowns | handle_event | bus | tests and records in separate steps, two workers | limits kept |
| Auto responder `response/auto_responder.py` | action records | respond, confirm, cancel, rollback | engine, system | one of several actions fails; a pid changes hands | what was done is recorded and can be undone |
| Resource manager `core/resource_manager.py` | throttle state, history | sampling thread, analyze, health check | app | throttling derived from a rolling average | throttling ends with its cause |
| API server `api/server.py` | rate-limit buckets, server thread | routes, start, stop | store, engine, export | Retry-After and window boundaries | a client that waits is let in |
| Application `app.py` | order of components | run, supervision, shutdown | all | events and threats in flight at start and shutdown | no component used after it stopped, shutdown ends |
| Configuration, models, classification, logging, UI, web, command line | data and presentation | | | none | not modelled |

`PROJECT.json` lists every component with its status, and 40 hazards with the line where each
one bites and the properties that cover it.

## 2. The plan and where it stands

Ordered so that what everything else depends on, and what loses data, came first. All modules of
the plan exist:

1. **EventBus** with the abstract **Delivery** it implements; **SecureOps** with the abstract
   **Outbox** it implements. *Proved.*
2. **DetectionDedup**, **Behavioral**, **Correlation**, **RuleEngine**. *Proved.*
3. **Scheduler**, **Monitor** (life cycle, poll and compare), **FileMonitor**, **AuthMonitor**.
   *Proved.*
4. **EventStore**, **TTLCache**, **Notifier**, **AutoResponder**, **ResourceManager**,
   **ApiServer**. *Proved.*
5. **Application**, the composition in the order of `app.py`. *Proved.*

*Proved* means that every safety and action property that a run checks of the module is also a
theorem; liveness is model-checked (section 5). What could follow: the quarantine and address
blocking of the auto responder; pruning of the event store by age and its status updates;
an abstract specification of the scheduler (one chain of timers per job) and a proof that it is
implemented.

## 3. What is modelled

Every module has one action per step that another thread can observe. Mutants, plausible bugs of
the code that a property must notice, stand next to the operator they would replace (`\* Mutant:
...`). Variables listed under "what the properties remember" are history, read by no guard.

### EventBus (`EventBus.tla`, `MCEventBus.tla`)

| Code | Actions |
|---|---|
| `publish()` | `PublishRefused` (not running), `PublishBegin` (past the unlocked test), then under the queue lock `PublishFull` or `PublishEnqueue` |
| `publish_many()` | `PublishMany`: one step, since it holds the lock throughout; tests neither `_running` nor the rate |
| `_dispatch_loop()` | `Dequeue`, `Expire`, `Snapshot` (subscribers lock), `SkipTarget`/`TakeExecutor` and `Submit`/`SubmitRaises` per subscriber (no lock), `FinishDispatch`, `ExitLoop` |
| pool workers | `StartCallback`, `CallbackReturns`, `CallbackRaises` (dead letter) |
| control thread | `Subscribe`, `Unsubscribe`, `Start`, `StopBegin`, `StopJoin` (with timeout), `StopPool` per executor, `StopReturn` |

The heap is the set `queue` with `Precedes` as its order; `seqOf` is the sequence number of an
entry. An event is a model value with a priority, its age is abstract: a popped entry may turn
out expired. `finished`, `owed`, `lost` and `pending` only remember the past for the properties.

`Delivery.tla` states the promise: events are accepted in some order, those of a batch one after
the other, and turned away only when the bus is full or closed; the most urgent, and among equals the
first accepted, is taken and given to whoever wants it, once; every subscriber begins with its events
in the order in which it got them. `EventBus` implements it (`KeepsPromise`) under `waiting` = the
heap, `before` = the order of the sequence numbers on it, `current` = the event in hand, `inbox` =
what an executor has not started, `begun` = callbacks in progress or over. Expiry and the death of the
dispatch thread let an event go, `unsubscribe()` empties an inbox: the promise allows for both, and
`NothingSkipped` and `GracefulStop` say when neither happens.

Left out: the token bucket (it delays a publisher by a millisecond and refuses nothing), latency
and throughput figures, the `timeout` argument of `publish()` (unused by the code), registering a
name again after `unsubscribe()`, `start()` while an old dispatch thread survives a timed-out
`stop()`, and a `subscribe()` or `unsubscribe()` during `stop()`'s walk over the executors.

### SecureOps (`SecureOps.tla`, `Outbox.tla`, `MCSecureOps.tla`)

| Code | Actions |
|---|---|
| `handle_event()` | `HandleEvent` (settings), then `Enqueue` (upsert) or `EnqueueRaises` (closed queue or SQLite error, swallowed) |
| `_upload_due_alerts()` | `LoadSettings`, `CheckBadKey`, `GetKey`, `TakeDue`, each its own step; `GiveUp` at any of them |
| server (external) | `AnswerSuccess`, `AnswerUnauthorized`, `AnswerInvalid`, `AnswerFailure` (perhaps after it took the alerts) |
| `_handle_upload_response()` | `RecordSuccess`, `RecordUnauthorized`, `RecordInvalid`, `RecordFailure`, or `RecordRaises` when the queue was closed meanwhile |
| `update_settings()` | `SaveKey`, `SaveSettings`, `ClearBadKey` in this order, or `SetEnabled` |
| `test_connection()` | `TestConnection` |
| application | `Start`, `StopBegin`, `CloseQueue`, `EndProcess` (orderly or a crash) |

`status`, `born`, `badKey`, `enabled` and `key` are on disk and survive `EndProcess`; threads and
memory do not. SQLite transactions are atomic. An empty new key deletes the stored one and leaves
the flag, any other clears it. A bookkeeping statement of the uploader that SQLite fails on an open
queue is left out (`secureops.py:683` swallows it; the alerts stay queued). An alert is its
`alert_id`; the payload, URL validation, the number of attempts and the length of the backoff are
abstracted (a retried alert rests for some time), as is the wake-up event, which only shortens the
second between two rounds. The ingest key taken from the environment behaves as a stored key nobody
changes.

`Outbox.tla` states the promise: what was accepted is held until the other side has it or refused
it. `SecureOps` implements it under `held` = queued rows, `taken` = what the server has,
`refused` = rows parked as permanent errors.

### DetectionDedup (`DetectionDedup.tla`, `MCDetectionDedup.tla`)

Stage 4 of `_run_detection_pipeline()`: `_should_emit()` and `_emit_threat()`, run by several
pool workers with no lock around `_dedup_cache`. The look-up (`TooWeak`, `LookUpNew`,
`LookUpDuplicate`), `Refresh`, `Insert`, the eviction (`Fits`, `ScanBegin`, `ScanEnd`, `Delete`)
and publication (`Publish`, `PublishFails`) are separate steps; `Raise` is the RuntimeError or
KeyError of an eviction that met another worker, caught in `process_event()`. `current` tells
whether the record a worker looked up is still the cached one, so that a refresh of a replaced
record has no effect. What the rules and detectors find is an input (`Reports`).

One simplification: a scan that meets a dict of a changed size always raises, while CPython would
not notice an insertion and a deletion that cancel out; the model compares sizes, as it does.

### Behavioral, Correlation, RuleEngine (`MCDetection.tla`)

`MCDetection` runs the three side by side: `detector` says whose behaviour it is, the others rest.

**Behavioral.** `process_event()` on several workers: `LookUp` in the unlocked dictionary of
trackers, `Create` when it has none (a `defaultdict` calls its factory and stores the result in
separate steps, so two workers may both create), `Stamp` (the clock is read before the lock),
`Add` and `Count` under the tracker's lock, then the unlocked cooldown test (`Suppress`, `Pass`)
and `Report`, which sets it. A tracker is the sequence of the times in its deque. The four patterns
have one shape; the ransomware key differs in that its tracker exists from the start and it fires
again at round counts (`Ongoing`). Which events a pattern counts, and the match, are abstracted.

**Correlation.** `MakeRecord` (outside the lock) and `ProcessEvent` (under it: append, prune, the
patterns in the code's order), so that records arrive late and out of order. `OfficeMatches`,
`DownloadMatches`, `StuffingMatches`, `PersistenceMatches` say what an event completes,
`OfficeAfter`, `DownloadsAfter`, `FailuresAfter` what becomes of the chains. `PartOf` keeps the
substring test of the code, by which an unknown program is part of every path.

**RuleEngine.** `Initialize` reads the rules file and the whitelist with the loader's lenient spots:
aliases of operators (`Spelled`), a clause with an unknown operator dropped from a rule that is
kept, an invalid rule skipped, a malformed whitelist that ends half read. `ProcessEvent` is the
pipeline: whitelist (a signature by Microsoft is a matter of its own), rules, detectors' patterns, a
stage that raises. `ApplyOperator` has every operator; a text is the set of words in it. Rules with
a condition `threshold` are loaded and evaluated by nobody, as in the code.

### Scheduler (`Scheduler.tla`, `MCScheduler.tla`)

| Code | Actions |
|---|---|
| public methods, one at a time under `_jobs_lock` | `AddJob`, `RemoveJob`, `EnableJob`, `DisableJob`, `TriggerNow`, `Start`, `StopBegin` then `StopCancel` per timer, `StopCancelled`, `StopClear`, or `StopRaises` |
| `_schedule_job()` called by them | `SchedulePop`, `ScheduleArm` |
| timer and job threads, without the lock | `Fire`, `RunEnds`, `RescheduleTest`, `ReschedulePop`, `RescheduleArm`, `OneShotEnds` |

A `threading.Timer` is a thread, so a thread is in one place of the cycle waiting, running, test,
pop, arm; the thread that arms the next timer ends at once and is modelled as becoming it. The two
tests of `_running` (lines 380 and 346) are one step: nothing happens between them. `StopRaises` is
the RuntimeError of `stop()`'s loop over `_timers` when a job's thread changes its size meanwhile;
`app.py:673` does not catch it. Left out: counters and durations, the public methods called by
several threads at once, and `add_job()` with the id of another job.

### Monitor and Application (`MCSystem.tla`)

`MCSystem` runs one polling monitor in full, or the application as a whole (`which`).

**Monitor** is the life cycle of `BaseMonitor` with the poll of its four children; `kind` selects
what differs between them: how the first baseline is taken, whether a batch or single events are
published, whether a snapshot can miss an item, whether versions are compared.

| Code | Actions |
|---|---|
| `initialize()`, `start()`, `stop()` | `Initialize`, `InitializeFails`; `StartThread` and `SetRunning` (the flag is set after the thread was started); `StopBegin`, `StopEnd` (the thread is joined or left behind, then the baseline is cleared) |
| `_check_monitor_health()` of `app.py` | `HealthCheck`: restart of a monitor that is not running though initialized |
| `_run_monitor_loop()`, `_poll_once()` | `LoopCheck`, `Look` or `LookFails`, `Compare`, `PublishMany` or `PublishOne` (what the bus takes and what it drops), `Commit` (the new baseline), `Wake`, `LoopCrashes`, `ThreadEnds` |
| operating system | `Change` |

**Application** has the order of `_initialize()` and `_shutdown()` as sequences (`InitOrder`,
`StopOrder`) and one action per part (`StartBus`, ..., `StopApi`, `StopPart`, `StopMonitor`,
`BusStops`, ...), a failed start where the code goes on without the part (`LeftOut`; if monitors are
enabled and none starts, it does not), supervision (`Crash`, `Restart`), the request to stop and a
scheduler whose `stop()` raises. Meanwhile monitors publish (`Observe`), the bus dispatches to
whoever has subscribed, and the engine may find a threat (`Handle`). The parts' insides are the
other modules.

### EventStore, FileMonitor, AuthMonitor, ResourceManager, TTLCache, Notifier, AutoResponder, ApiServer (`MCComponents.tla`)

`MCComponents` runs these side by side (`component`), each with its own threads and failures.

| Module | Code | Actions |
|---|---|---|
| EventStore | `initialize()`, migration | `Open`, `OpenFails`, `ReadVersion`, `Migrate` (a statement at a time: `sqlite3` does not put DDL into a transaction) |
| | bus handlers, no lock | `Insert`, `InsertFails`, then `Commit` or `CommitFails` |
| | coroutines under `asyncio.Lock` | `MarkFlag`, `MarkRecord`, `MarkCommit`, `MarkFails`; `Prune`, `PruneCommit` |
| | `close()`, kill | `Close`, `Closed`, `Crash` |
| FileMonitor | `initialize()`, `start()`, `stop()` | `Initialize`, `StartObserver`, `StartLoop`, `Stop` |
| | watchdog thread | `Stamp` (the clock is read), `Renamed` (the time is appended) |
| | `_check_ransomware_pattern()` | `Begin`, `Count` or `CountFails`, `Report`, `Clear`, `Wake`: no lock between them |
| AuthMonitor | a poll | `Poll` or `PollFails`, `Publish`, `Wake`; the log is external (`Write`) |
| ResourceManager | `_monitor_loop()` | `Collect` or `CollectFails`, `Analyze` (`Remembered`, `Violations`, `Level`), `Wake`; `Start`, `Stop`; `HealthStatus` |
| TTLCache | operations under the lock | `DoGet`, `Delete` (also for a prefix, `clear()`), `Has`, `Sweep` |
| | `set()` | `SetBegins` (the clock is read before the lock is taken), `Set` |
| | `get_or_set()` | `Miss`, `Computed`, then `Set`: the factory runs in between |
| Notifier | `handle_event()` on a worker | `Receive` (the clock is read), `Rate`, `Look` and `Pop` for each time that has gone by, `CountTimes`, `Cool`, `Record`: no lock between them |
| AutoResponder | `respond()` | `Begin`, `Approve`, `Cancel`, `Suspend`, `Kill`, `BlockProcessNetwork`, `CollectForensics`, `AlertUser` or `ActionFails`, `Finish`; `RollBack`; a threat may name no process; processes end and pids are reused (`Exit`, `Reuse`) |
| ApiServer | thread | `Start`, `RunServer`, `ServerEnds`, `StopBegin`, `StopReturns` |
| | middleware and routes | `Unlimited`, `Admit`, `Refuse`; `AnswerListing`, `AnswerOverview`, `AnswerThreat`, `AnswerMark`, `AnswerSettings`, `AnswerExecute` |

In the store `view` is what the one connection sees and `disk` what is committed; the difference is
the transaction that all writers share, which is the point of the module. A rename, a log entry or
a cached value is its number or the time it was born.

**Filters** has `Kept(s, T)`, what a list comprehension with a condition leaves of a list. In
TTLCache, ApiServer and RuleEngine it stands for the standard `SelectSeq`, which takes its test as
an operator parameter, something the provers cannot instantiate.

## 4. What is checked

| Run | Shows |
|---|---|
| `bus_order` | `Accounting`: published = processed + expired + queued + in hand + lost; `AtMostOnce`; `KeepsPromise`: the bus implements `Delivery` - with expiry, raising callbacks, unsubscription, a dying dispatch thread and stop timeouts |
| `bus_stop` | `NothingSkipped`: every snapshotted subscriber gets the event; `GracefulStop`; `QueuedEventsSettle` (liveness) |
| `secureops` | `NothingLost`, `NoResend`, `HaltsOnBadKey`, `ImplementsOutbox` over crashes, restarts, lost answers, settings changes; `QueuedAlertsSettle`: a queued alert leaves the queue unless the export is visibly halted (liveness) |
| `dedup` | `RepeatsSpaced`: one worker never emits the same threat twice in a window; `SilencedBehindAnother` |
| `detection` | `BurstReported`: a burst that was handled has been reported, and not before the cooldown that may have silenced it; `CountHonest`: a window holds no more outdated events than there are other workers; `AlertsSpaced`: one worker does not report twice within the cooldown; `EndedChainsReported`: the event that ends a chain is matched, whatever was pruned in between, told from the whole past; `StuffingGrounded`: a log-in match rests on enough failures of the window; `EnabledRulesReported`: an enabled rule that is valid and whose operators all exist is named when it holds, whatever else is in the file |
| `scheduler` | `ChainAlive`: an enabled job's chain never breaks; `CancelReaches`: one chain per job and its timer in `_timers`, unless the job was enabled while it ran or outlived a stop; `EnabledJobsRun`, `OffSettles` (liveness) |
| `components` | `LostOnlyByRollback`: a row written without an error is lost by nothing but another writer's rollback; `MigrationCompletes`: a start after a crash completes the migration; `BurstNotOverlooked`: a check finds every rename of its window; `NoEntryEscapes`: no log entry falls between two polls; `ThrottleLifts`: a minute without readings above 80% of the budget ends the throttling; `RecentlyUsedKept`: the cache drops what was used least recently; `MinuteBounded`, `RepeatsOverlap`: how far alerts can exceed their limits; `SuspensionsUndoable`: what a response suspended it recorded; `WaitingHelps`: a client that waits is let in |
| `system` | `CreatedOnlyWhatWasAbsent`: no item is reported created that was there all the time; `BaselineWasReported`: what a monitor compares with is what it told; `RunningIsTrue`; `LastingChangesNoticed` (liveness, over crashes and restarts); `ThreatsReachAll`, `StoreOutlivesEvents` over start and shutdown; `ShutdownCompletes` (liveness) |

Every property of these runs has a mutant in `PROJECT.json` under which TLC finds it violated.
The type invariants, `QueueBounded`, `PriorityFIFO`, `HighestPriorityFirst` and `CacheBounded` are
proved and are in no run.

**Bounds.** *Bus:* three events (one CRITICAL, two NORMAL) and a queue of two give a full queue, a
batch that fits in part, ties and overtaking; two publishers race for the last place; one worker per
pool makes a backlog; `MaxStarts = 1`: what a restart does is told below. *Export:* two alerts of
different severity, a batch of two, a good and a bad key, two starts, a crash and a stop that times
out. *Dedup:* three keys, a cache of one and two workers - the number the bus gives a subscriber;
`MaxEvents` and `MaxTime` cap the run. *Detection:* two workers everywhere; for bursts one key of
each kind, a threshold of two, a history of three, a cooldown longer than the window, four events;
for chains one office application with two shells, one of them downloaded, and one source of
log-ins, a history of two so that records are pushed out, four events over three instants; for rules
files of two rules in both orders, with a clause for every operator and spelling, four whitelists,
three settings, and events that have, lack or mistype a field. *Scheduler:* one job and four threads
make a chain, a twin, a third and a one-shot at once; six calls allow add, start, enable while
running, stop, start, remove. *Components:* two events, two threats, two workers, a migration of two
statements, one failing statement, one kill, two marks or prunes; four renames over four instants
with a threshold of two and a tracker of three, so that it overflows; three log entries with two
read back; CPU readings of 0, 80% and 100% of the average budget, above it and above the peak, a
history of three, two starts; three keys for two places, entries that live for one or two instants;
two workers, two classes and four threats against one alert a minute; two threats, with and without
a pid, and one pid that changes hands once, in all modes on both platforms; one client with four
requests against two in three seconds, at half-second steps. *System:* one watched and one ignored
item in two versions, two changes, one misread snapshot, one crash; two monitors, a bus of two
places, two items, so that an event and the threat found in it are in flight at once. The values
that bound a run are constants of the modules, named `Max...`; the proofs hold for all values.

**Symmetry** is used in safety runs only: pool workers, and in Behavioral its trackers.

**Deadlock** is not checked: a stopped bus, a closed export, a bounded clock that has run out and an
engine without events are meant to stop.

**Fairness.** `EventBus!FairSpec`: the dispatch thread and each pool are scheduled and each
callback ends; nobody has to publish, subscribe or stop. `SecureOps!FairSpec`: the uploader is a
thread, every request ends (urllib has a timeout), time passes, and a server asked again and again
does not fail forever (strong fairness of a definite answer: this is an assumption on the
server, without which no client can promise delivery). No fairness for the API or the application.
`Scheduler!FairSpec`: threads are scheduled, timers fire and jobs end; nobody has to call a method.
`MCSystem!SystemSpec`: the monitor's thread is scheduled (WF of `Poll`) and its snapshots do not
fail for ever (SF of `Look`, an assumption on the operating system); the application goes on with
what it has begun, start-up steps and the health check, and an initialization that is tried again
and again does not fail for ever; for the application, its main thread, the dispatch thread and the
callbacks are scheduled. Nobody has to stop the agent, and the system does not have to change.

### Where the code and its documentation disagree

Runs that expect a violation; each states what a doc, a comment or a test says.

| Run | What happens |
|---|---|
| `rules_exclusions` | "not contains_any" is read as NOT_CONTAINS, which looks at `value` while the list is in `values`: the exclusion clauses of four shipped rules exclude nothing (`rule_engine.py:374`) |
| `auth_repeats` | a poll returns entries it has returned before ("Returns authentication events since last poll", `auth_monitor.py:118`) |
| `store_shared_transaction` | a writer that fails rolls back the row of another, which then ends without an error ("We serialize access via asyncio.Lock", `event_store.py:223`) |
| `dedup_race` | two workers emit the same threat in one window ("emits only one threat") |

Stated in a module, violated by the code, and not a run of their own:

- an event accepted by `publish()` while `stop()` begins stays on the stopped bus
  (`DrainedWhenStopped` of EventBus, `event_bus.py:606`);
- `unsubscribe()` during dispatch ends the dispatch thread, so that the bus runs and dispatches
  nothing (`RunningMeansDispatching`, `event_bus.py:805`; the application never unsubscribes);
- the exporter is stopped before the bus, so that later threats are not exported (`NoneDropped` of
  SecureOps, `secureops.py:594`);
- threats found while the bus drains are refused, as the bus no longer accepts
  (`DrainedThreatsHeard` of Application, `event_bus.py:606`, `app.py:692`);
- a job removed while it runs arms its next timer and is run for ever (`RemovedSettles` of
  Scheduler, `scheduler.py:380`; the application never removes a job);
- a clause whose operator is unknown is dropped and its rule kept, which then holds more often,
  where "Operator values are valid" is validated and "Invalid rules are logged and skipped"
  (`UnreadableRulesSkipped` of RuleEngine and MCDetection, `rule_engine.py:182`, `:185`, `:384`;
  `EnabledRulesReported` asks nothing of such a rule);
- a minute of readings above 80% of the average budget throttles nothing, as only whole budgets are
  compared with, where the docstring says "Level 1 (light throttle): >80% of budget for 10s"
  (`ThrottledNearBudget` of ResourceManager and MCComponents, `resource_manager.py:316`, `:342`;
  `ThrottleLifts` speaks of readings below that).

Named as an invariant in `Detection.cfg` and `Components.cfg`, the last two are violated within
seconds.

Met while modelling, and visible in the modules:

- *Bus and engine.* `stop()` clears the executors and keeps the subscribers, so that after `stop()`
  and `start()` every old subscriber is skipped (`NothingSkipped` fails with `MaxStarts = 2`);
  `max_queue_depth` is never read; evictions that raise leave the deduplication cache above its
  limit for good (`raised` in `CacheBounded`); a threat that could not be published stays in that
  cache and silences its repetitions (`failed` in `SilencedBehindAnother`); an exception in a later
  stage drops the threats the earlier ones found (`ProcessEvent`).
- *Detectors.* A source whose first two events meet in the unlocked dictionary has its count split
  over two trackers (`split` in `BurstReported`); an attack that goes on above the threshold is not
  reported again, as only reaching it exactly counts; an office chain that completes during a
  cooldown is used up; a process whose program is unknown matches every service path (`PartOf`).
- *Rules.* Five shipped threshold rules are evaluated by nobody; a clause's `monitor` field is never
  used, although `evaluate()` says it filters by it; trusted paths with a `*` in the middle never
  match; a malformed number in the whitelist leaves its `disabled_rules` enabled.
- *Scheduler.* `stop()` and `disable_job()` miss a timer that a run past its test arms a moment
  later, which then fires once (`OffSettles` says it is the last).
- *Monitors.* A loop that ends before `start()` sets the flag leaves a dead monitor marked as
  running (`early`); `stop()` clears the baseline a slow poll is still to compare with (`doubted`);
  a dropped event is not repeated, as the baseline has moved on (`excused`); the network monitor
  reports no closed connections; a logoff (4634) is published as a failed log-in
  (`auth_monitor.py:160`); the handler at `auth_monitor.py:182` names a module that is not imported
  yet when the command times out, so that the poll ends with another error, which the loop swallows;
  renames recorded between the count and the clearing are forgotten (`raced`).
- *Store and services.* `get_threats()` returns the threat as first written, not its later marks;
  the job that would prune is a stub; marking an unknown threat succeeds; a failing store answers
  404 or an empty list; "Execute a migration within a transaction" (`event_store.py:285`) does not
  hold, but `MigrationCompletes` does. The notifier counts alerts that no channel shows, and a
  worker may remove a time another looked at (`overpopped`). Rollback data of a firewall rule names
  no action that `rollback_action()` knows, and a pid may belong to another process by then.
  Throttling reaches nobody, as the application hands the manager to no monitor. Retry-After is cut
  to whole seconds, so that obeying it exactly may be refused again (`WaitingHelps` grants a
  second); `/response/execute` answers "queued" and queues nothing; a server that cannot bind ends
  its thread while `start()` reports success; buckets of clients are never forgotten.
- *Application.* A failed `_initialize()` stops nothing; a scheduler whose `stop()` raises ends the
  shutdown before monitors, bus and store are stopped (`ShutdownCompletes` names it); the
  once-a-minute report may be skipped or doubled, as it compares whole seconds of the uptime.

## 5. What is proved

Every safety invariant and every action property that a run checks is a theorem as well, for every
value of the constants that satisfies the modules' assumptions. Assumed are typed constants,
distinct events in a batch, positive sizes and limits, and finite sets of workers, trackers and
cache keys: `BusAssumption`, `BatchAssumption`, `ExportAssumption`, `DedupAssumption`,
`SchedulerAssumption`, `StoreAssumption`, `MonitorAssumption`, `BehavioralAssumption`; in
`MCDetection` `ChainsAssumption` (inputs are event records, limits are numbers, a chain needs a
failure) and `RulesAssumption` (a file has a list of rules); in `MCComponents` `FilesAssumption`,
`AuthAssumption`, `ResourcesAssumption`, `CacheAssumption`, `AlertsAssumption`, `ApiAssumption`; in
`MCSystem` `SystemAssumption`. TLC evaluates all of them in the runs. `BehavioralAssumption` asks
for a worker and for a cooldown above zero (30 seconds, `behavioral.py:213`), without which no
report would ever be in force.

Each proof has the same shape: an inductive invariant (`IInv` of the module, and what is said
below), found and first checked with TLC, then the properties as its consequences. The modules
`Correlation`, `RuleEngine` and those of `MCComponents` but EventStore are instances there, and so
is `Application` in `MCSystem`. A step of the composition is a step of one instance while the others rest, so
that `[Next]_vars` of the composition implies `[Next]_vars` of each instance (`ChainsStep`,
`EngineStep`, `AlertsStep`, `FilesStep`, ...), which carries its invariant to the specification the
runs check.

**`EventBusProofs.tla`** - `BooksBalance` (`Accounting`), `QueueNeverOverflows`
(`QueueBounded`), `DispatchIsFIFO` (`PriorityFIFO`), `UrgentFirst` (`HighestPriorityFirst`).
None of the invariants is inductive alone. `IInv` adds: an event is in one place only - fresh, in
a publisher's hands, queued, in the dispatch thread's hand, lost (`OnePlace`), without which a
push could count an event twice; a hand is full exactly in the positions that use it
(`HandMatchesPc`); sequence numbers on the heap are distinct and below the next one
(`SequenceSound`), without which a new entry could overtake an old one. The argument groups the
actions by what they do to the queue: nothing (`FrameRest`, `CarryRest`), push (`EnqueueRest`),
push a batch (`BatchRest`, resting on lemmas about how much of a batch fits), pop (`DequeueRest`),
let go of what was popped (`ReleaseRest`).

`PromiseKept` (`KeepsPromise`) is the refinement of Delivery, from `IInv`, `OnceInv` and the fact
that a snapshot is of those who want the event (`TargetsWant`), with unsubscription, timeouts and
restarts allowed: publishers' steps are `Offer`s (`PublishKeeps`; that sequence numbers make an order
of acceptance is `Accepting`), the dispatch thread takes, gives and lets go (`DispatchKeeps`), pools
begin (`WorkKeeps`), the control thread opens, closes and empties (`ControlKeeps`).

`NobodyGetsItTwice` (`AtMostOnce`) needs `OnceInv`: nobody was given an event that is not
dispatched yet or that is still to be submitted to it (`NoneGivenEarly`). It holds with
unsubscription, timeouts and restarts. `StopIsGraceful` (`GracefulStop`) is proved for
`MayUnsubscribe = FALSE` and `MayTimeOut = FALSE`, `NobodyIsSkipped` (`NothingSkipped`) for a bus
that is started once besides. These are hypotheses of the theorems, and the values of `bus_stop`,
because without them the properties are false of the code: `unsubscribe()` and a `stop()` that gave
up the join shut an executor down under the dispatch thread, which dies of it, and after a restart
the old subscribers have no executor. The application never unsubscribes and never restarts the bus.
`StopInv` says where the dispatch thread can be while the control thread is somewhere
(`LifeMatchesPc`), that executors are open while it is alive, that what was accepted before `stop()`
is drained when it has exited; `SkipInv` that until the only stop everybody registered has an
executor (`PoolsComplete`).

**`SecureOpsProofs.tla`** - `AcceptedAlertsKept` (`NothingLost`), `ConfirmedOnce`
(`NoResend`), `HaltHolds` (`HaltsOnBadKey`) and `Refinement` (`ImplementsOutbox`). `IInv` adds:
alerts not yet enqueued have no row (`NotYetQueued`), a request consists of queued rows and a
definite answer tells the truth about it (`RequestSound`), a round past the flag's test is the
only one that may send after the flag was raised (`FlagSound`). The refinement maps each action
to `Accept`, `Take`, `Release`, `Refuse` or a stutter.

**`DetectionDedupProofs.tla`** - `CacheStaysBounded` (`CacheBounded`),
`NoSilenceAlone` (`SilencedBehindAnother`), `WorkerSpacesRepeats` (`RepeatsSpaced`). `IInv` adds:
every cached record stands for a threat that was handled (`RecordsHandled`), and what a worker
decided to emit is cached, no older than the decision (`ShownCached`), which is why another worker's
insert or refresh cannot make it repeat too soon. The size is a balance: an insert adds an entry
and an eviction in progress, a deletion removes both, an error trades the eviction for `raised`.

**`DetectionProofs.tla`** - three detectors.
*Behavioral:* `WorkerSpacesAlerts` (`AlertsSpaced`) from `OwnAlertsKept` (a worker's own report is
among those the cooldown is kept by) and `PassedCooldown` (who is past the cooldown's test found its
own last report old enough, which others cannot undo, as they only renew `_last_detection`).
`CountsHonest` (`CountHonest`) from `HonestInv`: for each event of a window, the older ones behind
it and the workers about to add an older one are together fewer than the workers; who stamps a time
now is no such worker, as nothing has been stamped with a time to come. `BurstsReported`
(`BurstReported`) from `BurstInv`: who saw the threshold reached is on its way to the report or
finds one in force (`ReachedTold`); trackers are not shared (`TrackersOwned`); until its count
reaches the threshold, the window of a key that was not split holds every event that is not too old
(`NothingForgotten`), so that the recent ones are too few for a burst (`FewRecent`).
*Correlation:* `ChainsAreReported` (`EndedChainsReported`) and `StuffingRestsOnFailures`
(`StuffingGrounded`) from `Chains!IInv`, which relates the chains that are kept to the whole past: a
shell or file is remembered until it is too old or used up (`OfficeRemembered`,
`DownloadsRemembered`), failures that are all young are all counted (`FailuresCounted`), and what is
counted was handled since the count began (`CountsGrounded`); the history is the end of the past
(`HistoryIsLast`).
*RuleEngine:* `RulesAreReported` (`EnabledRulesReported`) from `Engine!IInv`: the active rules are
what `load_rules()`, `get_active_rules()` and the whitelist make of the file (`ActiveAreChosen`),
and the threat built from the rules comes first (`RulesComeFirst`). The rest is about the pipeline
of filters: no valid, readable, enabled rule is lost in it (`ValidAreLoaded`, `EnabledAreActive`,
`OthersAreSuppressed`, `HoldingAreEvaluated`), and the threat of several rules names them all and is
as severe as the worst, which exists (`WorstExists`, `ThreatNamesAll`).

**`SchedulerProofs.tla`** - `ChainsNeverBreak` (`ChainAlive`), `TimersWithinReach`
(`CancelReaches`). `IInv` adds: a timer in `_timers` belongs to its job's chain (`TimerSound`), so
that cancelling one job's timer breaks no other chain; who schedules finds the scheduler running
(`ControlSound`); between the old timer and the new a job has no chain, or gets a twin
(`ArmingAlone`).

**`ComponentsProofs.tla`** - the components of `MCComponents`.
*EventStore:* `WritesLast` (`LostOnlyByRollback`), `MigrationEnds` (`MigrationCompletes`). `IInv`
adds: what is in the file is in the connection's view but for what a prune took out (`ViewCovers`),
so that committing somebody else's transaction loses nothing; a writer between its statement and its
commit has its own row pending, pruned or swept away by a rollback (`WritersPending`,
`MarkPending`), so that its commit writes it or the property's exception applies; the statements
made are a prefix and the version comes last (`MigrationOnCourse`).
*Notifier:* `MinutesBounded` (`MinuteBounded`), `RepeatsAreOverlaps` (`RepeatsOverlap`): the times
kept are the end of the history (`OldDropped`), and they and the workers past the test are at most
the limit and the other workers (`SlotsBounded`); the cooldown has the last alert of a class
(`LastIsLast`), and who is about to record found it gone by, but for alerts recorded since it began
(`Cooled`).
*AutoResponder:* `SuspensionsCanBeUndone` (`SuspensionsUndoable`): what resumes a suspended process
is in the results of a response under way or in the record of one that is over (`SuspensionKnown`).
*FileMonitor:* `RenamesAreCounted` (`BurstNotOverlooked`): every rename is in the tracker, in a
summary, too old, or lost in one of the ways the module names (`EachAccountedFor`).
*AuthMonitor:* `EntriesAreFound` (`NoEntryEscapes`): what no poll has read is no older than the last
one that read (`UnreadIsRecent`).
*ResourceManager:* `SpikesAreForgotten` (`ThrottleLifts`): the throttling is that of the latest
sample analyzed (`ThrottleIsOfSample`), and an average of readings none of which is above 80% of the
budget is not above the budget.
*TTLCache:* `RecentKeysAreKept` (`RecentlyUsedKept`): no key twice, and the entries stand in the
order of their last use, so that behind an entry are only keys used since, and one that was pushed
out had as many behind it as the cache has places (`InOrderOfUse`).
*ApiServer:* `WaitingIsEnough` (`WaitingHelps`): a refusal stands for a full bucket whose first
request leaves the window less than a second after Retry-After (`RefusalEnds`).

**`SystemProofs.tla`** - the monitors and the application.
*Monitor:* `FlagIsTrue` (`RunningIsTrue`), `BaselineIsTold` (`BaselineWasReported`),
`CreationsAreReal` (`CreatedOnlyWhatWasAbsent`). `IInv` adds: how the flag follows the thread
while `start()` is at it (`FlagFollows`); in mid-poll what was told is the new snapshot for the
items done and the old baseline for the others (`ToldSoFar`); what is not there, was not seen, or
was last told to be gone has been absent, or a snapshot missed it (`AbsenceKnown`), which is what
makes a reported creation a real one.
*Application:* `ThreatsReachEverybody` (`ThreatsReachAll`), `StoreIsClosedLast`
(`StoreOutlivesEvents`). `App!IInv` adds: what is left to start or to stop is the end of
`_initialize()`'s or `_shutdown()`'s order (`OnCourse`), so that the part whose turn it is says how
many are left; until the monitors' turn nothing was published (`QuietBefore`), which is why no
threat can be under way while somebody still subscribes; the store's turn to stop comes when the
bus is down and no callback is left (`StoreServes`). The steps are grouped by what they do: start,
stop, supervise, publish, dispatch, handle.

**`FilterProofs.tla`** - what `Kept` is for any list and set (`KeptKeeps`): a list of elements of
the set, at the places of the old one where they stood, and the old list itself when nothing was
left out. The library's induction theorems take an operator as a parameter, which the provers
cannot instantiate; `NatSetInduction` takes a *set* of numbers, and follows from the minimum of what
is missing from it. With it the theorem, the sum of the resource manager's average and the worst of
several rules are proved by induction.

**Only model-checked** is liveness, which is out of the prover's reach, as ENABLED is:
`QueuedEventsSettle`, `QueuedAlertsSettle`, `EnabledJobsRun`, `OffSettles`,
`LastingChangesNoticed`, `ShutdownCompletes`.

## 6. What is not modelled

The notes of the components in `PROJECT.json` say what each module leaves out. Whole parts left out:
configuration, constants and exceptions (data and its validation at start-up), data models
(dataclasses), classification and intelligence (floating-point formulas and tables over one
threat), the command line, logging, user interfaces and the web front end, and what a monitor reads
from the operating system beyond whether an item is there and in which version. Of modelled parts:
metrics and statistics everywhere; the queries of the event store, pruning by age and the update of a
response status; quarantine and address blocking of the auto responder; the ML stage and the hot
reload of the detection engine, which nothing calls; the token bucket of the bus.
