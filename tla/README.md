# Zyrnix: specifications, model checking and proofs

Zyrnix is a C++ logging library. A `Logger` passes messages to sinks; sinks write to
files, memory or the network, some of them through a queue and a thread of their own.
Loggers, sinks and queues are shared by all threads of a program and are managed while
messages flow, and that is where the library is hard to test. This directory holds TLA+
specifications of its components, TLC configurations that check small instances, and
TLAPS proofs for every size of the instance. Paths below are relative to the
repository.

## 1. Inventory of the system

| Component | State | Operations | Interaction | Hard behaviour | What makes it correct |
|---|---|---|---|---|---|
| **Logger sink registry** (`src/logger.cpp`, `include/Zyrnix/logger.hpp`) | list of reference-counted `SinkEntry`, per-position and per-name level overrides, `sinks_mtx_` (shared), `mtx_` | `add_sink`, `remove_sink` by name and by index, `clear_sinks`, `set_sink_level`, `clear_sink_level_overrides`, `log` | calls `LogSink::log` of each sink | two-phase removal beside writers, two locks, an unguarded map | no write to a removed sink, none lost or removed twice, counts exact, no deadlock |
| **Logger level control** (`src/logger.cpp`) | atomic level, temporary level, history, callbacks, `mtx_` | `set_level`, `set_level_dynamic`, `set_level_temporary`, `cancel_temporary_level`, history operations, `handle_level_change_request` | `log` checks and ends a temporary period | atomic changed with and without the mutex; expiry | the history is a trail, a period ends at the level it replaced |
| **AsyncQueue** (`src/async/async_queue.cpp`) | queue, shutdown flag, drop counter, mutex, two condition variables | `push`, `pop`, `shutdown`, destructor | producers and consumers are the program's threads | flag outside the mutex, drain timeout | nothing lost or duplicated, everybody stops |
| **ThreadPool** (`src/async/thread_pool.cpp`) | task queue, running flag, workers | `enqueue`, worker loop, destructor | runs callables | flag outside the mutex; tasks left at the end | join returns, tasks run once |
| **SignalSafeSink** (`src/sinks/signal_safe_sink.cpp`) | ring buffer, two positions, flush flag, drop counter | `log`, `flush` | called from nested signal handlers | reserve-then-copy, concurrent flushes | each byte written once, in order, or counted |
| **CloudWatchSink, AzureMonitorSink** (`src/sinks/cloud_sinks.cpp`) | bounded queue, batch, counters, worker | `log`, `flush`, worker loop, retries, destructor | HTTP service | shutdown with a backlog, retry, overflow | sent + failed + dropped + queued = logged |
| **LokiSink** (`src/sinks/loki_sink.cpp`) | buffer, time of the last flush | `log`, `flush`, `send_batch` | HTTP service, metrics | failing sends under the mutex | no record sent twice |
| **RotatingFileSink**, **CompressedFileSink** (`src/sinks/`) | current file and size, rotated files | `log`, `rotate`, compress, auto-tune | file system | cascades of renames that may fail | newest data kept, number of files as documented (it is not, section 5) |
| **Rate limiting** (`src/rate_limiter.cpp`) | tokens, counters | `try_log`, `should_log`, `reset` | in front of logging | refill arithmetic, counters read apart | rate and sample bounds, counters agree |
| **Hot reload** (`src/config_watcher.cpp`, `hot_reload_manager.cpp`, `config.cpp`) | watched time stamp, map of loggers, last error | `start`, `stop`, `watch_loop`, `reload` | watcher thread calls `reload` | missed changes, reload beside use | loggers in force are those of a document that was saved, the file as it stays is read; a change within a second is missed (section 5) |
| **LogContext, ScopedContext** (`src/log_context.cpp`) | thread-local map, keys of a scope | `set`, `remove`, scopes | filters and formatter read it | nesting | a scope leaves the keys that it found; overwritten values are not restored (section 5) |
| **HealthRegistry**, **LogMetrics**, **filters** (`src/log_health.cpp`, `log_metrics.cpp`, `log_filter.cpp`) | registry of weak pointers; atomic counters; cache of filters | checks, callbacks, snapshots, `get_or_create` | `Logger` factories register themselves | separate reads, key collisions | trouble recorded of a logger is reported (it is not, section 5), maxima kept |
| Formatter, colours, paths, plain sinks, structured logger, macros, experimental code, examples, tools | none of interest | text conversion, output | | | not modelled |

Callbacks: level-change callbacks and filters run under `mtx_`, health callbacks and the
watcher's `on_change` on the thread that found the change. The test files of the
repository are empty stubs, so documentation and header comments are the only statement
of intent besides the code.

## 2. Modules

| Module | Content |
|---|---|
| `SinkSet` | abstract: a set of live sinks and the writes in progress; a sink leaves only while nobody writes to it |
| `LoggerSinks` | the sink registry at the grain of its two locks; refines `SinkSet` |
| `WorkQueue` | abstract: items wait in order, are taken one by one or thrown away together; few come in after the end |
| `Delivery` | abstract: messages are settled in batches, in order; between the first attempt and its end one batch is posted and no other |
| `LevelControl` | the level, temporary levels, the history, the level test of `log` |
| `Admission` | filters, redaction settings, and what `log` decides, copies, redacts and delivers |
| `AsyncQueue` | the queue at the grain of its mutex, its flag and its condition variables; refines `WorkQueue` |
| `ThreadPool` | workers, queue and destructor of the pool at the same grain; refines `WorkQueue` |
| `SignalSafeSink` | the lock-free ring buffer, reservation, copy and flush as separate steps, threads and nested handlers |
| `CloudSink` | queue, worker, batches and retries of the CloudWatch and Azure sinks; refines `Delivery` |
| `LokiSink` | buffer, triggers, attempts; refines `Delivery` |
| `RotatingFile`, `CompressedFile` | the cascades of renames with failures and crashes; compression and its automatic level |
| `Limiters` | token bucket, sampling, and both combined |
| `ConfigLoader`, `HotReload` | the scanner of configuration files; the watcher's thread and the reload |
| `ScopedContext` | the thread's context and nested scopes |
| `RegexCache` | the cache of filters and their statistics |
| `HealthChecker`, `Metrics`, `HealthRegistry` | thresholds; atomics, reset and snapshot of one logger, checked; the registry of loggers |
| `MetricsRegistry` | metrics by name, exported and reset while others record |
| `LoggerSinksProofs`, `LevelControlProofs`, `AsyncQueueProofs` (with `ThreadPool`), `SignalSafeSinkProofs`, `CloudSinkProofs`, `RotatingFileProofs` (with `CompressedFile`), `HotReloadProofs`, `ComponentsProofs` (the components that interact with no other) | TLAPS proofs |
| `MCLoggerSinks`, `MCCloudSink`, `MCConfig` | programs, values and symmetry for TLC |
| `MCQueues` (`AsyncQueue`, `CloudSink`), `MCShared` (`MCConfig`, `SignalSafeSink`), `MCComponents` (twelve others) | components that do not interact, side by side; the variable `part` says which one runs |

Operators named `Faulty...` are mistakes the code does not make. Substituted for the
definition that follows them they must break a property; they keep the properties honest
and are never part of `Next`.

### 2.1 LoggerSinks

The operations that a program calls are a set `ops`, chosen from `Programs` at the start.
A thread's call is one record: where it is (`pc`) and the locals of the C++ function. A
critical section that cannot block and that no unlocked access can overlap is one action.
The cuts are these:

* `remove_sink` is `RemoveByName`/`RemoveByIndex` (find and mark), `Drained` (the polling
  loop, which may give up after five seconds and so may end in any state) and
  `EraseByName`/`EraseUnused`. With `wait_for_completion = false` the drain is skipped.
  A search that finds nothing returns false and changes nothing; it is not an action.
* `clear_sinks` is `ClearMark`, `ClearList`, `ClearMaps`: it keeps `sinks_mtx_` from the
  first step to the last and asks for `mtx_` before the last.
* `set_sink_level(index)` takes `mtx_`, then a shared `sinks_mtx_`, then writes the map.
* `log` is `LogCall`, `LogAdmit` (both sections under `mtx_`; redaction works on a copy of
  the message and is left out), `LogLockSinks`, and per entry `LogSkip` or `LogSelect`,
  `LogGuard` (count up, test), `LogRelease` (the write ends, count down), then `LogReturn`.

The map `sink_level_overrides_` is read by `log` without `mtx_`. Where the read overlaps a
change (`setWrite`, `clearWrite`) the C++ program has a data race; `Found` then yields any
level or none. The by-name map is written and never read, as in the code. The destructor
calls `clear_sinks`; that no thread uses the logger any more is the caller's duty.

`Entries` are `SinkEntry` objects; `Fresh` lets one be reused once it is neither listed nor
held by a call, as `make_shared` may reuse memory. So the state space is finite without a
bound on the number of additions.

### 2.2 LevelControl

`min_level_` is an atomic. `set_level` and `set_level_dynamic` change it without `mtx_`;
`set_level_temporary`, cancel and expiry access it twice under `mtx_` (load, then exchange
or store), so each is two actions. `Tick` takes one unit from what is left of the period.
Two history variables: `replaced`, the level that the first change of the period exchanged
away, and `raced`, set when an unlocked change falls between the two accesses of a locked
section, when a change overtakes another one that is not recorded yet, and at every
`set_level`, which leaves no record. `raced` delimits exactly where the audit trail and
the reverting of levels hold; without it a dynamic change is undone for good by the end of
a temporary period.

### 2.3 AsyncQueue

`push` tests the flag (`PushCheck`), inserts under the mutex and notifies outside it. A
consumer is the loop `while (pop(r))`; it keeps the mutex between finding its predicate
false (`PopMustWait`) and blocking (`PopBlock`), because `shutdown` stores the flag and
notifies without the mutex and may do both in between. `asleep` is the set of threads on
a condition variable that nobody has notified; `SpuriousWakeup` may wake any of them.
`shutdown` waits for the drain or times out (`DrainTimeout`), at any moment of the wait,
which covers every value of `shutdown_timeout_ms_`. Records are numbered as they enter.

`Work` is the instance of `WorkQueue` that the queue implements. What has left the queue is
`gone`, what `pop` took `handed`, what a timed-out shutdown threw away `thrown`, with the drop
counter as its report, and a consumer whose loop is over has `left`, which it may do only when
nothing waits (`Drains`). `late` counts what came in since the first shutdown stored the flag
(`cutoff`), at most one record of each producer (`Latecomers`). The instance `PoolWork` of
`ThreadPool` has no latecomers, throws nothing away, and lets a worker leave with tasks queued.

### 2.4 SignalSafeSink

Every access to an atomic is a step: `write_to_buffer` is `LoadWrite`, `LoadRead` (enough
room, or the first or second time too little), `TryFlush` and `Unflag` around the flush
that the flag guards, `Reserve` or `ReserveFails` (the weak compare-exchange may fail for
no reason), and `Copy`, byte by byte. `flush_buffer` is `FlushWrite`, `FlushRead`,
`FlushLoop` (one `safe_write`, which may fail after any number of bytes) and `FlushStore`.
`log` writes three pieces, each of which may be dropped alone; `Parts` has their lengths, and two
pieces of different length show all there is to the loop. A byte is named by the position
reserved for it, so order, loss and duplication in the file can be read off it. `nested`
chooses between threads and handlers of one thread: `stack` then lets only the innermost
handler run. Subtractions wrap at `Word`; `read_pos_` may be newer than the `write_pos_` it
is compared with, and the model shows that the compare-exchange then fails. `raced` is set
when a flush begins beside another one or beside a copy: up to there the file is exact;
afterwards bytes may reach it twice. The steps are sequentially
consistent; reorderings that `memory_order_relaxed` would allow in addition are not modelled.

### 2.5 CloudSink

`log` and the worker's move from queue to batch are single critical sections; `flush` is not,
since it sleeps with `queue_mutex_` (`FlushSleep`, `FlushAwake`; `holder`). `wait_for` ends after
100 ms at the latest, so `WorkerTake` needs no notification and a lost one costs nothing. The
worker is `WorkerTest` (the loop's condition), `WorkerStop` or `WorkerTake`, `WorkerKeep` or
`WorkerSend`, and `WorkerLast`; `send_batch` is `PostAccepted`, `PostPartly`, `PostRejected`,
`Backoff` and `Account`. `due` says that the batch's time is over; it is reset at the decision,
because `last_send` takes the time read there. The service is external, and `Parts` says what of
a batch may reach it: CloudWatch takes all or nothing and its answer may be lost; Azure may
take any part, answered (206) or not, and the code counts such a batch as sent in full.
`arrived` is the set of what it has received. Who destroys a sink must have stopped using it (`Destroy`).
`get_stats` holds both mutexes, so `EventsConserved` is what it can see. The map names
lines of both classes, whose code is the same up to the event's text and the accepted answers.

`Promise` is the instance of `Delivery`: what is counted as sent is `settled`, and `front` is the
size of the batch from its first post to `Account`. A step of `Delivery` that changes `front`
is an attempt or settles, so a batch cannot grow, shrink or be put aside between two attempts.
`whole` is true of CloudWatch: of a batch that it settles the service then has everything. `lost`
stays empty, because `send_batch` never gives up (see `cloud_retries`).

### 2.6 Files: RotatingFile and CompressedFile

The bytes logged are numbered; a file is the set of those in it, and a file that does not
exist is an empty one. A line is a block of bytes of any length in `LineSizes`, and the size is
tested after it has been written, so a file may exceed `max_size` by less than a line.
`RotatingFile` is `RotLog` (write, size, test),
`RotClose`, one `Shift` per index of the cascade, `ShiftCurrent` and `Open`. Each rename may
fail, and the code ignores it (`rotFailed`); any beginning of what the stream buffers reaches the
file at any time, also a part of a line (`RotFlush`); `Crash` may fall between any two steps and loses the buffer, `Restart` is
the constructor on the files that are left. `CompressedFile` follows the same plan
(`ZipClose`, `ZipRemoveOldest`, `ZipShift`, `Compress`, `Account`, `ZipReopen`); `Compress`
may leave nothing, an empty archive or a beginning, and `Account` deletes the source of any
archive that has bytes, as the code does. `OptimalLevel` is the automatic level, with the
ratio and the speed in the three classes that its thresholds distinguish.

### 2.7 ThreadPool and LokiSink

A worker is `LoopHead`, `Test` (predicate under the mutex, and pop), `Block`, `RunTask`;
between `Test` and `Block` it has the mutex, so `Enqueue` cannot fall there, but the
destructor, which clears the flag and notifies without the mutex, can. `late` is the set of
workers for which it did. `AsyncLogger` is no part of this: each of its functions calls the logger
it holds, in the caller's thread (`async_logger.hpp`), and nothing in the library uses the pool. In `LokiSink` the caller of `log` or `flush` keeps the mutex through all
attempts (`lokiPc`); time passes meanwhile. The service may take a batch and its answer be
lost (`PostFails`), and `CURLE_OK` includes an answer with an HTTP error (`Posted`).
`LokiPromise` is its instance of `Delivery`: what was logged and is not in the buffer is settled,
the batch is always the whole buffer, and `lost` is what was dropped, arrived or not.

### 2.8 Limiters

Tokens are thousandths, the clock ticks in fractions of a millisecond, so that a refill
rounds as in the code. `CombinedLimiter::should_log` is `Sample`, `TryLog`, `CountLogged`,
its `reset` three steps too, and callers interleave between them.

### 2.9 Configuration: ConfigLoader and HotReload

A text is a sequence of tokens; `Parse` does what the scanner does, which looks for braces,
brackets and quoted keys and has no grammar. `Meaning` is written without it and says what a
document of the documented form amounts to in this code. `written` is how much of the
document an editor has written. `HotReload` adds time in seconds of `st_mtime`, saving in
blocks, removal, the application's `Start`, `Stop` (the join is `Join`) and the watcher's
rounds: `Test` of `running_`, then `Poll` or `Unmoved`, a step of their own because `stop` may
come between; and `Reload`, which both threads run under `mtx_`. `BeginningsAreLoggers` is what the
proofs assume of the scanner: the loggers read from a beginning of a text are the first ones of
its document. `unseen` says that the file has
changed within a second that the watcher had seen, which no poll can tell.

### 2.10 Admission, RegexCache, ScopedContext

A message is the set of fragments that patterns match, a pattern one of them ("(" is an
expression that does not compile). `Decide` is the section that decides and copies the
settings; `Deliver` gives the text to the cloud sinks and the others. The record given to
the filters has no message, as in the code. `RegexCache` keeps patterns and field names as
sequences of characters, since the cache's key joins them with a separator. `ScopedContext`
has the stack of scopes with the keys each has added, and for the properties the context it found
and the keys that it or a scope within it has set since (`found`, `set`).

### 2.11 Metrics and health

`Metrics` has every atomic as a field and every load, store and compare-exchange as a step;
`DetermineStatus` of `HealthChecker` compares in percent without division. `MetricsRegistry`
has the recorders of several objects beside an export or a `reset_all`, which hold its mutex
and load or store one atomic at a time; a write is recorded before its duration, as
`examples/metrics_example.cpp:119` does. The atomics are relaxed; the models let them take
effect in the order of the program, as x86 does. `HealthRegistry` has the factories that
test the flag of automatic registration before they register, loggers that expire, and
`export_json`, which checks all loggers twice. `recorded` is what `MetricsRegistry` holds under the
name of a logger. A check makes new metrics (`NewMetrics`) and never looks there, so its
answer is always the same; the module states the one property a reader of the
documents would expect, `TroubleReported`, and its run shows that it fails.

## 3. Runs

| Run | Instance | What it shows |
|---|---|---|
| `sinks` | 3 threads, 3 entries, 2 names, indices 1..2, symmetry; either program: add, remove, clear, levels by name, log; or add, remove by name, levels by index, log | `CountsRight`: the types, and `RefCountExact`; `ScanStable`: the entry being written stays put and unmarked; `NoLockCycle`; `RemovedIsGone`: a removal that returns has taken effect; `ImplementsSinkSet` |
| `sinks_deadlock` (violated) | 2 threads, 1 entry; a program with both calls | `clear_sinks` and `set_sink_level(index)` deadlock |
| `queues`, part `queue` | 2 producers, 2 consumers, a thread that calls `shutdown` twice, 3 records | `RecordsKept`: the types, `NoLossInOrder` with a drop count that is exact for one shutdown, and `LateRecords`, that few come in late and consumers leave only such; `RecordsConsumed`: no lost wakeup before the shutdown; `ShutdownReturns`; `ImplementsWorkQueue` |
| `queues`, part `cloud` | 2 callers, queue and batch of 2, 1 retry, 3 events, both services | `CloudInv`: events conserved, and what is counted as sent has arrived; `ArrivesInOrder`: an answered or lost request brings only events after those that have arrived before, except within a batch taken in part; `Delivered`: each sent while the sink lives; `CallsReturn`: `flush` and the destructor; `ImplementsDelivery` |
| `cloud_retries` (violated) | 1 caller, 1 retry | a failing batch is posted for ever |
| `shared`, parts of `MCConfig` | every prefix of every document; 2 documents saved in blocks of 9 tokens, 3 seconds, 2 saves, 2 starts | `ScannedAsMeant`: whole documents mean what `Meaning` says, torn ones a prefix of it; `OneDocumentInForce`: the loggers in force are always those of one document; `CallsComplete`: `start` and `stop` return; `ReloadInv`: nothing reloads after `stop`; `ReadInTheEnd` |
| `shared`, part `signal` | 2 threads or nested handlers, ring of 2 bytes, lines of 2 + 1 bytes, 2 calls | `RingIntact`: the types hold, reservations are disjoint and nothing unflushed is overwritten; `FileExact` unless flushes overlap; `CallsReturn` |
| `components` | the twelve components of the next table, one at a time; the last states nothing here | see there |
| `config_read` (violated) | the documented example | the sinks of a logger are not read and end the list of loggers |
| `message_filter` (violated) | 1 message, 1 filter | message filters decide on an empty text |
| `rotation_files` (violated) | the part `rotating`, files of 1 byte | max_files + 1 rotated files are kept |
| `archive_files` (violated) | the part `compressed`, files of 1 byte | one compressed file is kept, whatever max_files says |
| `scope_values` (violated) | the part `context` | an outer scope's field loses its value to an inner scope |
| `health_report` (violated) | the part `registry` | a logger that has dropped messages is reported healthy |

The components of `queues`, of `shared` and of `components` do not interact; `part` chooses the
one that runs, so that the state space is the sum of theirs and not the product. In `queues` the
threads of the two parts have one fairness condition per pair (`Either`), which is that of the
part that runs: the other one never has a step to take.

A part of `components` has one property, the conjunction of its type invariant and of the named statements below
(`FilesKept`, `ArchivesKept`, `LokiInv`, `PoolSafe`, `LimiterInv`, `ScopesClean`, `CacheInv`,
`AdmissionInv`, `HistoryKept`, `MetricInv`, `TablesInv`, in the order of the table); `RotationKeeps`
is a second one of the first part and `TemporaryLevelEnds` of `levels`, and the parts `loki` and
`pool` also implement an abstract specification. The part `registry` has no property that holds and says anything: its checks
return a constant, which `health_report` shows.

| Part | Instance | Statements |
|---|---|---|
| rotating | `max_files` and `max_size` 2, lines of 1 and 2 bytes, 9 bytes and the last line, 1 crash | `FilesOrdered` through failures and crashes; `NewestKept`: a rotation deletes only the oldest; `RotationKeeps`: undisturbed, what max_files full files hold stays, and a rotated file has reached max_size and exceeds it by less than a line |
| compressed | 2 files, every type, two start levels, lines of 1 and 2 bytes, 5 bytes and the last line, 1 crash | `PlainOrdered`, `ZipNewestKept`, `ZipRotationKeeps` (without compression max_files full files stay), `LevelInRange` |
| loki | batches of 1 and 2, intervals 0 and 1, 3 messages, options changed once | `LokiConserved`, `BufferBounded`, `GivenUpAfterThree`; `LokiImplementsDelivery` |
| pool | 2 workers, 3 tasks | `TasksOnce`, `NoTaskForgotten`, `NobodyLeftWaiting`; `PoolImplementsWorkQueue` |
| limits | 2 callers, 500 per second, burst 2, every 2nd or every message, 5 calls, 6 half milliseconds, 1 reset | `RateBounded`, `HalfRateKept`, `StatsAddUp` |
| context | 2 keys, 2 values, 2 scopes, 6 calls | `NoKeyLeaks`; `ScopeRestored`: the keys a scope found, and the values of those that nobody in it has set |
| cache | patterns of at most one character, fields with the separator, 3 calls | `CachedAsAsked`, `MissesAddUp` |
| log | 2 filters, 3 changes, 1 record | `SecretsStayIn` |
| levels | 2 threads, 2 levels, period of at most 1 tick, capacities 1 and 2, all operations | `TrailUnlessRaced`; `TemporaryLevelEnds`: a period ends at the level it replaced unless raced, and admits nothing after its time |
| metrics | 2 threads, 3 counters, 2 maxima, 4 calls | `MaximaExact`, `NoMissedAlarm` |
| tables | 2 clients, a logger and a sink, 5 calls | `RecordedIsListed`, `AverageBounded`, `CountsSince` |
| registry | 1 user beside the factories, 1 name, 2 loggers, counters up to 1 | none |

**Bounds.** Three threads let one write, one remove and one add or clear at a time; two
entries of one name make the `erase` of one removal meet another's entry, a third entry
makes positions shift under a running loop. With two producers and two consumers a
notification can reach the wrong or no thread; three records give both ends of the queue
something to do. Two levels distinguish admitted from dropped, and two capacities let the
history be trimmed by a change and by `set_max_history_entries`. A ring of two bytes makes a
line of three go through the full-ring path, cross the end of the ring and meet the other
caller's flush within two calls. A queue and a batch of two are filled, overflow and are left
over with three events. Nine bytes and a line fill the current and three rotated files of two
bytes and push the oldest out, with a crash anywhere, and lines of one and two bytes make files
that end exactly at the size and beyond it; five fill two compressed ones and the
archive and overwrite it. Two tasks more than one worker can hold, and one worker asleep, give a notification somebody
to miss. Six half milliseconds are more than the three whole ones a refill can round, at a
rate that needs two for a token. Two scopes nest; with six calls both add and remove the same
key. Two clients are a recorder and an exporter. The bounds on what happens are `MaxRecords`, `MaxShutdowns`, `MaxIndex`,
`MaxDuration`, `Capacities`, `MaxCalls`, `Word`, `MaxLogged`, `MaxBytes`, `MaxCrashes`, `MaxLogs`,
`MaxDeaths`, `MaxLines`, `MaxTime`, `MaxOptions`, `MaxTasks`, `MaxTicks`, `MaxAsked`, `MaxResets`, `MaxScopes`,
`MaxContextCalls`, `MaxCacheCalls`, `MaxFilters`, `MaxChanges`, `MaxMetricCalls`, `MaxTableCalls`, `MaxRecorded`,
`MaxSeconds`, `MaxSaves` and `MaxStarts`; no run cuts executions off elsewhere.

**What the properties exclude.** Some properties hold only short of a behaviour of the code that
breaks them, and a name says which: `raced` (a level changed without the mutex; a flush
beside another or beside a copy), `failed`, `rotFailed` and `zipFailed` (a write or rename), `late` (a
worker that has tested and not yet blocked), `mixed` (resets that overlap), `unseen` (a change no poll
can tell), `Separated` (a field name without the separator of cache keys), `shutdown` (in
`RecordsConsumed`). The behaviour is then in the model, and the property is what remains
true beside it: it does not say that the behaviour is harmless, and no run shows the behaviour. The
hazard in `PROJECT.json` says so, and section 5 lists what the code does there, with the sentence of a
document or comment that promises otherwise where there is one.

**Fairness.** A call in progress goes on: the scheduler runs every thread. Starting a call is
never fair: nobody is obliged to log, push, save or shut down; only a consumer calls `pop` until it
returns false, which is the use the header documents. Beyond that each component has what its
code needs:

* `AsyncQueue` (in `MCQueues`): a mutex that is free again and again is granted in the end to the
  consumers and to `shutdown` (strong fairness; a producer that is kept waiting keeps nobody else
  waiting, and weak fairness is enough). The timeout of the drain is strongly fair by itself, because the
  deadline of `wait_for` is absolute.
* `CloudSink` (in `MCQueues`): the worker and each flushing thread are strongly fair, as they need
  `queue_mutex_`; time passes, and a batch that is posted again and again is accepted once. Without
  the last assumption, as `cloud_retries` shows, neither `Delivered` nor the return of the destructor holds.
* `SignalSafeSink` (`SignalFairness`): weak fairness of each caller, and a reservation that could
  succeed again and again succeeds once; since only a successful reservation spoils another one, calls
  return as long as finitely many are made.
* `HotReload` (`ReloadFairness`): the watcher and a call in progress are weakly fair. Neither of them can be
  overtaken for ever at the only mutex, which the other leaves without waiting.

No liveness is stated of `LoggerSinks` and `LevelControl`. Whether `log` gets a
`std::shared_mutex` that others keep taking is for the standard library to answer (glibc prefers
readers by default), and fairness of every acquisition would only assume the answer.

**Deadlock.** TLC checks it in `sinks`; `NoLockCycle` finds a cycle of two threads also while a third one
goes on. The other runs disable the check: their threads may all have stopped, or made
the calls allowed, and in `queues` and `components` a thread may sleep for ever after a lost
wakeup of the end, which `LateRecords` and `NobodyLeftWaiting` delimit.

## 4. Proofs

### 4.1 LoggerSinks

`LoggerSinksProofs` proves, for any finite set of threads and any sets of entries, names
and levels:

| Theorem | Statement |
|---|---|
| `TypeInvariant`, `RegistryCounts` | `Spec => []TypeOK`, and with it `RefCountExact` (`CountsRight`) |
| `LockInvariant` | `Spec => []LockInv`: the program counter tells which locks a thread holds |
| `ScanInvariant` | `Spec => [](RemovalInv /\ ScanStable)` |
| `RefCountInvariant` | `Spec => []RefCountExact` |
| `RemovalTakesEffect` | `Spec => RemovedIsGone` |
| `EraseIsSilent` | `Spec => EraseKeepsCount` |
| `NoDeadlock` | `Spec => []NoLockCycle` if no program in `Programs` uses both `clear_sinks` and `set_sink_level(index)` |
| `Refinement` | `Spec => ImplementsSinkSet` |

The argument: `LockInv` turns each lock into a statement about program counters. With it,
`ScanStable` is preserved because every step that marks an entry or changes the list needs
`sinks_mtx_` free of readers (`CanWrite`) or held exclusively, while the threads the
property speaks of are readers. `RemovalInv` is needed beside it: entries are listed once
(so an index and an entry determine each other), a removal in progress still refers to a
marked entry of its name, and the list being cleared has no live entry. `RefCountExact`
follows: counts change only under the shared lock and only on live entries; its proof
counts guards with the library's theorems on cardinality, which is where the assumption
that `Threads` is finite is used. The inductive invariant of the refinement is the
conjunction `TypeOK /\ LockInv /\ RemovalInv /\ ScanStable`, with `RefCountExact` for
`RemovedIsGone` (an entry marked by index is erased because its count is zero). Facts
about `Survivors`, the result of `erase(remove_if)`, are lemmas cited by name. Each step
theorem has one step per action of `Next`.

### 4.2 RotatingFile and CompressedFile

For every number and size of files and every number of crashes, `RotatingFileProofs` proves:

| Theorem | Statement |
|---|---|
| `RotTypeCorrect`, `FilesOrderedAlways`, `NewestKeptAlways`, `FilesKeptAlways` | the types, `FilesOrdered`, `NewestKept` and their conjunction `FilesKept` |
| `RotationKeepsAlways` | `RotationKeeps`, for lines of any lengths, if `MaxSize # 0` |
| `ArchivesKeptAlways` | `ArchivesKept` of `CompressedFile`, if the levels a process starts with are levels of its library (`StartsInRange`) |

`FilesOrdered` becomes inductive with `OnlyLogged` (every stored byte has been logged, so
that a new one is newer than all). `NewestKept` needs `GapFollows` in addition: without failures
the index that a cascade is about to fill is free, except the last one, whose bytes
`FilesOrdered` shows to be older than all others. A crash in a cascade leaves a gap anywhere; the
next cascade begins at the last index again, so `GapFollows` survives it. The types rest on
`OnlyLogged` as well, because the size of a reopened file is the cardinality of a set that has
to be finite.

`RotationKeeps` counts bytes and so needs an exact account, `Keeping`: while nothing fails the
current file holds the newest bytes and nothing else (`CurrentNewest`), the file of index i
comes after at least as many bytes as i full files hold (`FilesBehind`), every rotated file has reached
`MaxSize` and exceeds it by less than a line (`FilesFilled`), and everything is stored that
full files have room for (`NewestStored`). What a cascade overwrites then has no
room any more (`Overwritten`). The code tests the size after the write, so a file is larger than
`MaxSize` by any length below that of a line; with `MaxSize = 0` the bound by less than a line
fails, and the theorem excludes it.

`CompressedFile` needs more of the same, in the invariant `ZipInv`: `ZipPlaces` (where a rotation
is tells what is closed), `ZipGaps` (what the truncating open will meet has been moved) and
`OneForm`: there is only an archive or only plain files, except between the cascade and the
removal of the file compressed, and then both are the same bytes. `ZKeeping` is its account,
and `LevelInv` the automatic level's. Both invariants are guarded by the absence of failures;
`PlainOrdered` and the types are not.

### 4.3 AsyncQueue and ThreadPool

`AsyncQueueProofs` proves, for any finite set of producers, any consumers and closers, and any
number of records and of shutdown calls: `QueueTypeCorrect`, `QueueKeepsRecords` (`NoLossInOrder`),
`QueueLateRecords` (`LateRecords`), which `QueueCorrect` joins (`RecordsKept`), and `QueuePushWakes`. `Numbered` makes the first one inductive:
the queue is the last numbers given out, so what leaves it is new to all that left. `Counted`
says when the drop counter is exact: until a shutdown that threw records away has returned, since
a later one overwrites the counter. `Late` bounds the records that enter after the flag by the
producers that passed its test before. `PushWakes` has no run: beside `Mutex` (the queue is empty
as long as a consumer holds the mutex on its way to sleep) it says that a queued record always
has a consumer awake or a push about to notify one. It is the safety half of `RecordsConsumed`,
whose other half is fairness; only the wakeup of the end can be lost.

`QueueRefinement` proves that the queue implements `WorkQueue`. A take is the pop of the number after
those that are gone, by `Numbered`; a throw is a timed-out shutdown, which finds the flag set because
`ClosesShut` says that every closer not idle has set it. That `late` never exceeds the number of
producers is not a guard of the code: it is `Late` after the step, which bounds the records
that have come in since the flag. A consumer leaves with the mutex and an empty queue.
`PoolRefinement` proves the same of the pool from `TasksOnce`: the tasks handed out are those
up to the oldest one queued, before and after each step, and an `Enqueue` finds the pool running.

The first five theorems about `ThreadPool` hold for any set of workers, finite or not;
`NoTaskForgottenAlways` and `PoolSafeAlways`, which joins all, for pools that have a worker (a pool
constructed with 0 threads keeps its tasks for ever). `TasksOnce` is inductive beside the
types: the queue holds the last numbers in order, so the one taken is new to all workers and to
what has run. `WakeInv` says why no notification is lost: who goes to sleep has seen an empty
queue, and it stays empty until it sleeps (`BlocksOnEmpty`), because `Enqueue` needs the mutex;
nobody leaves a pool that lives (`AllStay`). For the destructor, which does not take the mutex,
`LateSleepers` is the exact remainder.

### 4.4 LevelControl

`LevelTypeCorrect`, `HistoryIsTrail`, `HistoryKeptAlways`, which joins the two, and `TemporaryEnds` hold for any levels, capacities, durations
and threads. The invariant is `LevelInv`: `Mutex`; `Period` (a running period remembers the level
its first change took over from, also between the two accesses of that change); `LateCalls`
(who began after the period's time is not past the check while it is active); and `Joined`:
unless raced, one change at most waits for its record, what was loaded under the mutex is still
in force, and the history ends where the next change starts. The trail follows from `Joined`,
and it is `Joined`, not the trail, that each step preserves: a trail says nothing of the change
that has been made and not recorded.

### 4.5 SignalSafeSink

`RingStaysIntact` and `FileStaysExact` hold for any callers, any capacity below `Word` and
any lengths of the parts of a line. `Positions` and `Apart` need nothing: a reservation is disjoint from all
others whatever races. `Ring`, `OneFlush` and `Flushed` hold until `raced`: every position between
the two is held by a copy in progress or by the ring, one caller flushes and only up to where
nobody copies, and the file ends at the position the flush has come to. The stale `read_pos_` of
`LoadRead` is harmless because `Ring` speaks of the reservation only if `write_pos_` is still the
one loaded, which is what the compare-exchange tests. The one assumption about the environment is
`GarbageAssumption`: what the ring holds before it is written is not a position.

### 4.6 CloudSink

`CloudSinkCorrect` (`CloudInv`) and `CloudSinkInOrder` (the action property `ArrivesInOrder`) hold for
both services, any sizes, callers and retries. `Lined` numbers the events in the order of their
acceptance: those counted as sent, then the batch, then the queue. `Arrivals` says what the service
can have: nothing beyond the batch, and beyond what is counted only while the batch is being sent;
CloudWatch has whole batches. A lost answer leaves the batch where it was, so the retry repeats
only events of one batch and the order across batches stays.

`CloudRefinement` proves that the sink implements `Delivery`. Beside `SinkInv` it needs `PostsSomething`:
a batch that is being sent is not empty, which its two ways to the post ensure differently
(`Ready`, and the test behind the loop). `BatchInLine` joins the two views of a batch, the sequence
and the numbers after those that are settled. A settled CloudWatch batch has arrived by the last part
of `Arrivals`, and a refusal meets a queue with `MaxQueue` events of the unsettled ones.

### 4.7 HotReload

`ReloadCorrect` (`ReloadInv`) and `OneDocumentAlways` (`OneDocumentInForce`) hold for any documents, block
sizes, numbers of saves, starts and stops. `Owned` ties `mtx_` to the thread inside `reload`, and
`Threads` ties the watcher to the application: it exists only while the application is idle or
waits for it, and `running_` is set only while the application is idle. `LoadedWhole` says that what
one thread has parsed is still there when it makes the loggers of it, which is the mutex's work.
What the scanner makes of a beginning of a text is recursive, and so a hypothesis of both theorems:
`BeginningsAreLoggers`, that it is nothing or the first loggers of the document. `MCConfig` assumes it,
so that TLC evaluates it for the documents that are saved in the runs; `ScannedAsMeant` checks
more, of more documents.

### 4.8 The other components

`ComponentsProofs` proves the property of the part of `components` for every value of the constants:

* `LokiConserves`: `LokiInv`. It is inductive but for the batch size, which must be one that was set.
* `LokiRefinement`: the sink implements `Delivery`. `LinesInOrder` says that the buffer is the last
  messages logged, in order, so that the whole of it is the next batch (`BufferInLine`); an attempt
  brings all of it or nothing (`BufferReaches`), and the three ways in which a call returns settle it.
* `LimiterCorrect`: `LimiterInv`. `RefillBounded` is `RateBounded` as of the last refill; it survives a
  refill because what is added is at most the elapsed time times the rate, rounded down twice, and
  the lemmas on the rounding (`WholeMilliseconds` and those after it) bound the loss by half.
  `StatsKept` counts the calls that sampling has let pass and that are not counted yet.
* `SecretsStay`: `AdmissionInv`. A call on its way has the settings of its decision.
* `CacheCorrect`: `CacheInv`. Two requests have one key only if a field holds the separator (`KeysTell`);
  `TextAssumption` says that texts are sequences of characters.
* `ScopesLeaveNothing`: the action property `ScopesClean`. `ScopesKnow` says of every scope left alone that each key is
  from before it or on the list of exactly one scope within it, which is what makes the lists of
  nested scopes safe to remove in order, and `ValuesKnown` that a key set neither through it nor
  through a scope within it still has the value that it found.
* `MetricsCorrect`: `MetricInv`. `MaximaOwed`: a maximum is stored or a thread is about to store it (its
  compare-exchange fails only against a larger value or an older one that it will reload).
  `ChecksSoFar`: the status a check would find if it loaded the rest at once never falls below the
  one at its beginning, because counters grow and a better status needs smaller ones
  (`NoBetterStatus`).
* `TablesCorrect`: `TablesInv`. `DurationsOwed`: the total of an object, with the longest duration
  for every recorder that has counted and not yet added its own, is within what its count allows.
  `CountFollows` and `TotalsKept`: an export has the count of every total that it loads still to
  load, or has loaded it after the total. `CountsKept`: a count is exact until a reset, and where it is
  above what came since the reset, the reset has still to store it. `AllListed`: the maps list every
  object ever made.

### 4.9 Model-checked only

Every liveness property, since fairness and `ENABLED` are outside the prover's reach:
`RecordsConsumed`, `ShutdownReturns`, the two called `CallsReturn`, `Delivered`, `CallsComplete` and
`ReadInTheEnd`. `ScannedAsMeant`, because the scanner is recursive over the text and
what it computes is proved by induction over data.

## 5. Findings

The violated runs are behaviours of the code that contradict a document or a comment. Each
finding of `PROJECT.json` quotes the line it contradicts.

| Run | What happens |
|---|---|
| `sinks_deadlock` | `clear_sinks` (`logger.cpp:74`) and `set_sink_level` (`logger.cpp:213`) take the two locks in opposite orders |
| `cloud_retries` | a batch is posted for ever after its last retry (`cloud_sinks.cpp:105`) |
| `config_read` | the loggers of a file end at its first sink (`config.cpp:213`) |
| `message_filter` | filters see no message (`logger.cpp:392`) |
| `rotation_files` | the cascade begins at index max_files and ends at 0 (`rotating_file_sink.cpp:36`), which makes one rotated file more than asked for |
| `archive_files` | no archive is ever renamed (`compressed_file_sink.cpp:89`): the next one replaces it, and one of the files asked for is left |
| `scope_values` | a scope removes at its end the keys it has added (`log_context.cpp:51`); an outer scope's field that it has set again keeps the inner value |
| `health_report` | a registered logger is checked with metrics made for the check (`log_health.cpp:242`): whatever was recorded of it, it is healthy |

Noted while modelling, in the models, and not runs of their own. The first list has what a document or a
comment promises otherwise, the second what none speaks of:

* A push that tested the flag before the shutdown inserts after the last consumer has left
  (`async_queue.cpp:17`): it returns true, and the record is neither popped nor counted, also when the
  shutdown has waited and found the queue empty. `README.md:99` has "Async queues drain completely with
  configurable timeout". `LateRecords` bounds such records.
* The flag is stored and the wakeup given without the mutex (`async_queue.cpp:62`): a consumer between its
  test and its wait misses both, and `pop` does not return. `async_queue.hpp:39` has "false if queue
  is shutting down".
* A dynamic change is recorded after it was made (`logger.cpp:189`): two of them may be recorded in the other
  order, and the history ends at a level not in force. `RELEASE_NOTES_v1.1.1-beta.2.md:126` has "Audit
  trail of all level changes".
* A handler's `flush` takes up to `write_pos_` (`signal_safe_sink.cpp:122`), also bytes that the
  interrupted call has only reserved, and never looks at `flush_in_progress_`, so it repeats what an
  interrupted flush has written. `signal_safe_sink.hpp:73` has "Now fully reentrant".
* A change of a file in the second of the one before has the same `st_mtime`, and a change before the
  watcher's first round is taken for what `start` has loaded (`config_watcher.cpp:28`): the text is never
  read. `RELEASE_NOTES_v1.1.3.md:213` has "waiting for the watcher interval will update the behaviour".

And:


* Registry of sinks: `ScanStable` and `RefCountExact` together show that the reference
  counts are redundant, because guards live only under the shared lock;
  `wait_for_sink_drain` never waits, and `wait_for_completion = false` still waits for all
  writes in progress, in the second acquisition of `sinks_mtx_`. A second removal by index
  of a marked entry reports success again. A level override belongs to a position and
  follows it to another sink after a removal (`logger.cpp:215`); `log` reads the map
  without its mutex (`logger.cpp:465`).
* Levels: `set_level` leaves no record; a change during a temporary period is undone at
  its end (`logger.cpp:303`). Callbacks and filters run under `mtx_`, which is not recursive.
* Queues and pools: a second shutdown that times out overwrites the drop count of
  the first. A worker between its test and its wait misses the wakeup of the end
  (`thread_pool.cpp:15`), and the join does not return; tasks still queued when the pool ends
  are not run (`thread_pool.cpp:29`).
* `SignalSafeSink`: overlapping flushes of threads do what those of handlers do; what a failed write
  leaves out counts as flushed (`signal_safe_sink.cpp:167`); the
  pieces of a line are dropped one by one, so a line may lose its text and keep its line
  end, and `dropped_count` counts it up to three times.
* Network sinks: the destructor of a cloud sink leaves what is queued beyond the batch in
  hand unsent and uncounted (`cloud_sinks.cpp:67`), and its `flush` does not wait for that batch
  (`cloud_sinks.cpp:56`). The time trigger of `LokiSink` is tested only
  by the next `log`; an answer with an HTTP error drops the batch; its buffer is not flushed
  at the end.
* Files: a failed rename lets the next one overwrite a file (`rotating_file_sink.cpp:50`); a file is
  larger than max_size by what its last line exceeds it.
* Limiters: within a sample `dropped_count` counts the message that passed.
* Configuration: the `async` of a logger is also taken from a later `redact_cloud_only`.
* Filters: two pairs of pattern and field that contain the separator share one cache key
  (`log_filter.cpp:139`), and the tracking of statistics is not part of the key.
* Metrics and health: a reset stores the counters one by one (`log_metrics.cpp:100`), so a check may mix
  two resets; nobody calls `notify_state_change`; `reset_all` does not reset the metrics of sinks.

## 6. Plan and limits

Every safety property that a passing run checks is proved, but for `ScannedAsMeant`, and the abstract
specifications of the registry, the queues and the deliveries are implemented by proof. What the next
work would add: fairness in `WorkQueue` and `Delivery`, so that the refinements also carry
`RecordsConsumed` and `Delivered`, which TLC could check; and `handle_level_change_request`, whose
answer reads the level again after the change.

Limits of the models: in `ConfigLoader` the options of a logger stand before its sinks, as in
the documented examples; `config.cpp:213` drops options behind the sinks without a word, and no document of
the model has them. The run `config_read` shows the loss of the sinks themselves. The ring's accesses
in `SignalSafeSink` and the counters of the metrics are sequentially consistent. In `rotation_files`, `archive_files`,
`scope_values` and `health_report` only the part concerned runs.

Not modelled: text (formatting, colours, the wording of JSON and Prometheus exports), plain
output sinks, platform paths, the structured logger, the statistics of `CompressedFileSink`
and `CompressionUtils`, rates over time, disabled experimental code, examples and tools,
because nothing in them depends on order, failure or shared state.
