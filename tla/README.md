# Verification of rust-py-monitor

`rust-py-monitor` is a Rust extension module (PyO3) that monitors a Python web
application from inside: Django and FastAPI middlewares hand every request to
`record_request()`; `aggregate()`, `snapshot()`, `check_alerts()` and
`metrics_text()` read back statistics. With `RPY_MULTIPROC_DIR` set, every worker
process of a gunicorn or uvicorn deployment maps a *shard* file and any worker can
merge the shards of all. This directory holds TLA+ models of that code, TLC runs
and TLAPS proofs. Paths below are those of `PROJECT.json`: `src/` is the root of
the repository, so its Rust sources are `src/src/*.rs`.

## 1. Inventory

| Component | State | Operations | Status |
|---|---|---|---|
| Worker shards, `multiproc.rs` | per process: `STATE` (Uninit, Disabled, Enabled with a mapping); shared: the directory, the shard files, the process table | `ensure_init`, `open_writer`, `record`, `merged`, `merge_one` (prunes), `set_dir`, `dir` | modelled: `ShardLayout`, `Shards` |
| Request store, `request_metrics.rs` | `STORE` (deque behind a mutex), `MAX_REQUESTS` (atomic) | `record`, `set_max_requests`, `clear`, `get_all`, `max_requests` | modelled: `RequestStore`, `RetainedLog` |
| Aggregation, `aggregator.rs`, and `histogram_quantile` of `multiproc.rs` | none | `compute`, `percentile`, `aggregate_from_merged`, `histogram_quantile` | modelled: `Aggregator` |
| Snapshot, `snapshot.rs` | `STATE`: the last (CPU time, instant), sysinfo's entry of the process | `collect` | modelled: `Snapshot` |
| Alerts, `alerts.rs` | none of its own, moves the snapshot's | `evaluate`, `check_alerts` | modelled: `Snapshot` |
| Prometheus text, `prometheus.rs` | none | `render` | modelled: `Monitor` (HTTP families), `Snapshot` (process families); the text layout is not |
| Django middleware, `django.py` | one call's locals while the handler runs | `__call__`, `__acall__` | modelled: `Middleware`, composed in `Monitor` |
| FastAPI middleware, `fastapi.py` | one call's locals while the handler is awaited | `dispatch` | modelled: `Middleware`, composed in `Monitor` |
| Bindings, `lib.rs`, `__init__.py` | none | wrappers, field-by-field conversions | partly: the wrappers are actions of `Monitor`, `Snapshot` and `RequestStore`; the conversions are left out |
| Examples, packaging scripts | none of the library's | | not modelled |

How they interact. `record_request()` calls `multiproc::record()` and then pushes
onto the store. `aggregate()` and `metrics_text()` call `multiproc::merged()` and
fall back on the store when multiproc mode is disabled; `metrics_text()` also takes
a snapshot, as `check_alerts()` does, and all three share one CPU baseline.
Processes interact only through the shard directory, the shard files and the
process table; nothing locks them out of one another.

What must hold of each component, and what is hard about it:

* *Shards.* A live worker's shard is its own and stays listed; a scrape loses no
  finished request of a live worker; a shard nobody is in the middle of updating
  adds up; dead workers' shards go away. Hard, because workers start, die in the
  middle of any call, have their pid reused, fork, and scrape, prune and record
  while the others do.
* *Store.* It holds the newest requests, as many as the capacity, however the
  capacity moves. Hard, because the capacity lives outside the mutex.
* *Aggregation.* Counts are exact, percentiles are in order, and an estimate is in
  the bucket of the exact value, on empty buckets, rank boundaries and the overflow
  bucket. Hard, because the extremes are truncated, the buckets are not, and a worker
  without requests must not count as one with a minimum of 0.
* *Snapshot and alerts.* `snapshot()`, `check_alerts()` ("stateless", says
  `alerts.rs`) and every scrape move one CPU baseline: each measures from the last
  call of any of them. Between them no CPU time may be missed or counted twice, and
  an alert must not be false. Hard, because a refresh may fail and a fork inherits
  the baseline.
* *Middlewares.* Each request is recorded exactly once, with the status its client
  got, whether the handler returns, raises or is cancelled, sync or async.

* *The whole.* What a worker reports is what its clients were answered, and a counter
  does not fall from one scrape to the next. Hard, because a scrape reaches any worker,
  is itself a request in flight, and between two of them workers die, are reaped, and
  have their shards pruned.

`PROJECT.json` lists the hazards line by line, each with the properties about it.

## 2. The modules

### ShardLayout and Shards (`src/src/multiproc.rs`)

`ShardLayout` is the shard as data: its slots, what one request does to each of
them (`RecordSlots`, `Added`), which bucket a latency is counted in, and how
readings add up (`Merged`). `Shards` is the processes that access it, one slot at
a time; `Aggregator` takes the same operators a whole call at a time.

One process of the model is one worker and its one thread. That is not a
simplification: PyO3 0.25 without `gil_used = false` holds the GIL for the whole
of every call, and no function of the extension releases it, so the calls of a
process never overlap and `STATE`'s mutex is never contended. Between processes
every access to shared memory, and every system call, is a step.

| Model | Code |
|---|---|
| `mode[p]`, `writer[p]` | `STATE` of a process and the file it has mapped |
| `dir`, `gen`, `file` | the directory (which file a name leads to), files created, their slots |
| `proc`, `used` | the process table as `kill(pid, 0)` sees it, pids handed out so far |
| `pc`, `call`, `todo`, `scan` | where a process is in a call and that call's local state |
| `Invoke` | a call arrives: `ensure_init()`'s fast path, or `open_writer()` first |
| `Open`, `StoreHeader` | `open_writer()`: open or create, size, map, `same` test, zeroing, the header stores |
| `AddToShard` | one `fetch_add` / `fetch_min` / `fetch_max` of `record()` |
| `ReadDir`, `Visit` | `read_dir()` and the loop over its entries, `File::open` included |
| `CheckVersion`, `CheckOwner`, `Unlink`, `ReadSlot` | `merge_one()`: version, `pid_alive`, `remove_file`, the loads |
| `Return` | `merged()` returns; `Merged(view)` is its result |
| `Disable`, `Degrade` | `set_dir(None)`; `open_writer()` failing, or no directory configured |
| `Start`, `Crash`, `Reap`, `Fork`, `StartForeign` | the operating system and the process manager (external) |

`begun`, `done`, `own`, `scan[r].floor`, `scan[r].base` are history variables: they are written and
never read by the actions, and the properties compare the shards with them. `floor`
is what each shard had finished when a scrape read the directory, `base` what could
be read in it then, of every file, whether its worker lives, is dead or has left
multiproc mode. Of a worker that lives on a scrape must report at least both, so that
no scrape reports less than an earlier one, by whichever worker; and whatever shard a
scrape does read, it is off from `floor` by no more than the requests that overlapped
the scrape or were cut short before it.

The constants choose the world: `Env` says which of crashes, failures to open,
reuse of pids, foreign processes and forks happen; `Calls` which calls each
process makes; `Ordered` whether the relaxed atomics of one call take effect in
program order (x86-64, a total store order) or in any order (AArch64, for which
wheels are built too). `MaxRecords`, `MaxStarts` and `MaxGen` bound the runs; no
proof uses their values.

Abstractions.

* One directory. `set_dir()` always names the same one; a process that goes from
  one directory to another simply starts over there.
* The heartbeat slot is left out: it is stored and never loaded.
* A latency is an integer of half microseconds ("ticks"), so that a latency strictly
  between two microseconds exists: the bucket is chosen before the truncation and
  the extremes after it. Negative latencies are kept, and clamped as the code does.
* A new file is shorter than a shard until `set_len()`. `merge_one()` skips a short
  file and skips version 0, so an unsized file is one with version 0.
* Zeroing the slots of a file that is not ours is one step. Such a file holds at
  most header slots (a worker died in `open_writer()`), whose partial zeroing cannot
  be told from the header stores that follow.
* A foreign program that was given a pid is nobody's child here: `Reap` takes it from
  running to gone. A worker's pid is a zombie's in between.
* An operation of one call does not drift into the next one: a call returns through
  the interpreter, and its slots are read-modify-writes.
* `read_dir()` returns each name at most once, each name present throughout exactly
  once, and others perhaps.
* `read_error` in `Env` makes `read_dir()`, or opening and mapping an entry, fail:
  `merged()` goes on without what it could not read. The runs about completeness
  leave it out.
* On AArch64 the loads of `merge_one()` may be reordered too (`Due` is any slot), but
  not before the version and pid checks: their branches and a system call are between.
* Slots are unbounded numbers. A `u64` of microseconds of latency takes 580,000
  years to overflow, so no bound of a run reaches it and none is modelled.

### RequestStore and RetainedLog (`src/src/request_metrics.rs`)

`RequestStore` has the deque, the capacity and, per thread, the two steps of
`record()` (`LoadCap`, `Push`) and of `set_max_requests()` (`StoreCap`, `Shrink`);
`clear` is one step, `get_all()` and `max_requests()` only read. Requests are
numbers in the order of the calls. The constant `GIL` says whether calls may
overlap: the module itself does not forbid it, the interpreter does.

`RetainedLog` is what the callers may rely on: a log that keeps the newest
`cap` requests, each operation at one moment. The refinement mapping is
`kept <- Evicted(STORE, MAX_REQUESTS)`: `set_max_requests()` takes effect when the
capacity is stored, and what `Shrink` is about to evict is already gone.

### Aggregator (`src/src/aggregator.rs`, `histogram_quantile`)

The state is what the aggregates are made of: the store of each worker, its shard,
and whether multiproc mode is on; `counted` is the history of the requests behind a
shard. The actions are whole calls: `record`, `clear` (which empties the store and
not the shard), `set_dir`. No worker comes or goes, `Shards` does that.

`compute` and its two ways, `percentile` and `histogram_quantile` are operators. A
quantile is a percentage and a latency a rational number, so comparisons are exact;
the code's floats agree up to rounding, which no property is about. The index of
`percentile()` rounds half up, as `f64::round` does for positive numbers. The
references the properties compare with are not derived from the code: the k-th
fastest of all the requests counted anywhere (`KthFastest`), their sum and number.

An estimate may exceed the maximum observed: `histogram_quantile()` interpolates to
the bound of its bucket, and only the overflow bucket is cut at the maximum. So
`EstimateInBucket` says which bucket the estimate is in, and `PercentilesOrdered`
compares percentiles with the extremes for the store only.

### Snapshot (`src/src/snapshot.rs`, `src/src/alerts.rs`, process part of `src/src/prometheus.rs`)

`prev` is the process's baseline; `known` and `seen` are the CPU time and the memory
in sysinfo's entry of the process, which a failed refresh leaves as they were (or
missing): `collect()` does not look at the result of the refresh. `Run` lets a unit of
wall time pass in which some number of cores is busy for the process, and its memory
change. `snapshot`, `render` and `check_alerts` are `collect` and what they make of
it; without an entry the first and the last fail, and a page goes out without the
process families. A usage is kept as the pair (CPU time, wall time), and `Exceeds`
multiplies out the comparison; memory is in bytes and thresholds in megabytes of `MB`
bytes, so that half a megabyte exists. A call that comes at the very instant of the
one before reports a usage of 0 and moves the baseline all the same. `clock_error` is
the call that fails before anything else, on a system clock before 1970. `Fork` goes on
with the child: its CPU time
starts at 0, sysinfo has no entry for its pid, and `prev` is the parent's.

`busy`, `held`, `origin`, `reported`, `gapless` and `fresh` are history variables: how
many cores were busy since the baseline, what memory was occupied since the last refresh
that worked, what has been reported since this process took its first sample, and
whether each sample since was taken over some time or right after an up-to-date one.
If one was not, the CPU time a failed refresh kept back is lost (section 4). A child's
first reading goes by its parent's baseline and reports 0 (`saturating_sub`); a stale
entry moves CPU time into the next interval, which may then show more than all cores
can do. Both are outside `AlertsJustified` and inside `NothingMissed`. A stale entry
may keep a memory alert up, or hold one back, until a refresh works again, although
`alerts.rs:4` speaks of "a freshly collected" snapshot: `MemoryAlertsJustified` says
exactly how old the memory it goes by may be.

### Middleware (`src/python/rust_py_monitor/django.py`, `fastapi.py`)

A request is cut where the middleware waits for the application: `begin` is
everything up to the call of `get_response()` or `call_next()`, `handle` is the
application (external), `finish` the `finally` block, which awaits nothing. In
between, other requests of the same worker pass, and the worker may be killed.

`app` is the way the middleware is run. `wsgi`: Django calls `__call__()`, a view that
raises has become a 500 response before the middleware sees it, nothing is cancelled.
`acall`: `__acall__()` called as the docs say Django does. `fastapi`: `dispatch()`, to
which exceptions come through, as Starlette converts them outside. `asgi`: what Django
does: it finds the middleware marked as a coroutine function, calls `__call__()` and
awaits the result. `get_response()` then returns a coroutine nobody awaits, reading
`status_code` of it raises, 500 is recorded and answered (finding 4). That Django
never calls `__acall__()` is knowledge about Django, not in this repository: the
repository's tests only call it directly.

Methods, paths and durations are passed on unread and are left out.

### Monitor (`src/src/lib.rs`, `src/src/prometheus.rs`)

The composition: `HTTP == INSTANCE Middleware`, `Stats == INSTANCE Aggregator`. A
request that finishes in the middleware is `record`ed by the bindings in its worker's
store and, in multiproc mode, shard; one of the things an application answers is
`GET /metrics`, whose page is `render(compute)` at that moment, while the scrape
itself is still under way and is recorded after it. `clear_requests` and
`set_multiproc_dir` may be called at any time. Here the calls of the extension are
atomic; their interleaving is the subject of `Shards`.

Each worker is a process. `proc` says whether it runs and, once it does not, whether
anything answers `kill(pid, 0)` for it ("taken") or nothing does ("free"); `dir` is the
set of workers whose shard is in the directory. `kill` ends a worker: the requests in its
hands and its store are lost, its shard stays. `leave` frees its pid (the zombie is
reaped, the stranger exits) and `take` gives the pid to a stranger. A merge, in
`metrics_text` or in an `aggregate` call, adds up the shards in `dir` whose pid is not free
(`Merging`; the instance `Merge` of `Aggregator` sees those shards and no others) and
takes the rest out of `dir`. So a dead worker is reported until it is reaped, and
again when a stranger gets its pid before a merge has found the shard without an owner. A
worker that replaces another is one of `Worker` that has done nothing yet; that it may get
the *same* pid is left to `Shards`, where it leads to findings 2 and 3. That a running
worker with multiproc mode on is in `dir`, and that its shard counts its own requests,
are `LiveShardListed` and `OwnCounts` of `Shards`. A `set_multiproc_dir` that fails
leaves the mode off, as one without a directory does.

`page` is the last page scraped. `served` and `shared` (which requests a worker was done
with), `touched` (has a store been cleared or the mode switched since a page of a store)
and `freed` (which pids have become free since a page of the shards) are history
variables; the properties compare reports with them and with what clients were answered
(`Reply`), never with what was recorded.

## 3. The runs

Every run takes about three minutes or less. `CHECK_DEADLOCK FALSE` is said in the shard
runs only: when every pid has been used and every worker has died, or the bounds
are reached, the system may really stop. The other runs check for deadlock.

| Run | Question | Answer |
|---|---|---|
| `shards_isolated` | Two workers make every call, fail to open, crash at any point; every pid is used once. Are shards apart (`OwnShardOnly`) and listed (`LiveShardListed`), scrapes complete and never behind earlier ones (`NoLostRequests`), counters those of the process (`OwnCounts`), readings off by no more than the requests that overlapped them (`SkewBounded`), quiescent shards coherent (`QuiescentCoherent`), and shards without a complete header empty (`HeaderFirst`)? | yes |
| `shards_skew` | Workers are killed, also inside `record()`, and fork, the directory or an entry cannot be read, and atomics take effect in any order; the shards of the dead are read as well. How far can the fields of one reading disagree (`SkewBounded`)? | by the requests that overlapped the scrape or were cut short before it |
| `shards_liveness` | Pids are reused by workers and strangers. Is the shard of a dead worker pruned eventually (`DeadShardPruned`)? Does a counter ever go down (`CountersNeverReset`)? | yes; no |
| `store_gil` | Does the ring buffer implement the abstract log (`Retention`), keep the newest (`NewestKept`), respect the capacity (`WithinCap`)? | yes |
| `aggregator` | Two workers record, clear their stores, leave and join multiproc mode. Are merged counts, extremes and average those of all requests (`MergedExact`), estimates in the right bucket (`EstimateInBucket`), percentiles in order (`PercentilesOrdered`)? | yes |
| `snapshot` | Callers take turns, refreshes fail, the process forks. Is no CPU time reported twice, and none left out but by a call over no time after a failed refresh (`NothingMissed`); are alerts neither false nor withheld (`AlertsJustified`, `MemoryAlertsJustified`)? | yes |
| `monitor` | Two workers serve, raise, are cancelled, scraped, cleared, switched; they die, are reaped, and their pid is given away. Is every request recorded once, as its client was answered (`RecordedAsAnswered`), are reports of exactly the requests served by those merged (`ReportsWhatWasServed`), do shared counters fall only by what workers had shared whose pid became free (`SharedCountersRise`)? | yes |
| `shards_fork` | Does every worker write only its own shard, with forks? | no, finding 1 |
| `shards_prune_race` | Does a live shard stay listed, with reused pids? | no, finding 2 |
| `shards_inherited` | Are a dead worker's counts excluded, with reused pids? | no, finding 3 |
| `asgi` | Under ASGI, does the view behind the Django middleware run? | no, finding 4 |
| `counter_falls` | Without multiproc mode, do the counters of one worker rise? | no, finding 5 |

Bounds, and why they are enough. Two pids: every property relates one writer to
one scraper or two writers to each other, and a scrape visits names one by one;
the theorems of section 5 hold for any number. Three starts let one pid be reused
while the other process runs, and two generations let a file be unlinked and
created again under a mapping of the old one. Two `record()` calls let a scrape
overlap the second with the first complete. One finite bucket and two requests, a
success in the bucket and a failure half a microsecond over its bound, tell apart
the two buckets, the error count, and truncated from exact latencies; the runs
that do not look at buckets have the overflow bucket alone. In the store, a
capacity of 3 that moves among 1 (asked for as 0 or 1), 2 and 4 with seven requests
shrinks by one and by more, grows, is clamped, and evicts at all sizes. In
`aggregator`, two finite bounds and four requests put a latency inside each bucket,
just over a bound, exactly on one, and in the overflow bucket; the store is smaller
than the number of requests. In `snapshot`, two cores and thresholds of 0, 100 and
150 per cent make an average equal, below and above a threshold, memory meets its
limit exactly or exceeds it by half a megabyte, and four units of time leave room for
calls before, between and after a fork and a failed refresh. In `monitor`, three
requests let two scrapes have a request between them, or one be under way during the
other two; a store of one request evicts; two workers let the second scrape reach
another one. `shards_skew` has two requests, so that one
that is finished or cut short can be told from one that overlaps the scrape, and
one scraper, which reads the other's shard alive, dead, or shared with a child. In
`shards_liveness` a reused pid records again, in the dead worker's shard or, once that
is pruned, in a new one. That more of each make no difference to `CountersNeverReset` and
`SkewBounded` is proved. In `shards_liveness`
one process is scraped and the other records: it is the other's shard that is pruned.

Fairness (`FairSpec`). Weak fairness of every step inside a call: the operating
system schedules every running process and no call waits for another. Strong
fairness of "some live worker that may be scraped starts a scrape": Prometheus
scrapes periodically, and the load balancer sends the scrape to any worker that is
there; which one, fairness does not say. Nothing is assumed about starts, crashes,
reaping, or requests. `DeadShardPruned` supposes that from some time on there
always is somebody to scrape and the pid is free (a zombie, or a stranger that was
given the pid, answers `kill(pid, 0)`); then what is left under the name is nothing or
a shard whose header is not complete. No other run has or needs fairness.

## 4. Findings

1. `shards_fork`: `ensure_init()` acts on `Uninit` only, so a child forked after the
   parent's first use of the module (gunicorn `--preload`, `multiprocessing`) writes
   the parent's shard, which is pruned under it when the parent dies.
   `multiproc.rs:19`: "each worker writes only to its own shard".
2. `shards_prune_race`: `merge_one()` reads the pid, finds it dead and unlinks by
   name; a new worker with that pid may have taken the file over in between. Its
   shard is then in no directory and its requests in no scrape.
3. `shards_inherited`: a new worker with a dead worker's pid finds "its" shard and
   goes on from the dead worker's counters. Pids come back soon in containers.
4. `asgi`: under ASGI Django calls the middleware, that is `__call__()`, and awaits what
   it returns; every request is answered and recorded as a 500 and no view runs.
   `django.py:34`: "Django detects the coroutine marker and calls `__acall__`";
   `README.md:152`: the middleware "supports both WSGI and ASGI".
5. `counter_falls`: without multiproc mode `compute()` covers the requests the store
   retains, so evicting a failed request takes it out of `rpy_errors_total` again. It is
   declared a counter (`prometheus.rs:42`, `README.md:166`), where a fall means a restart
   to Prometheus, and documented to cover all requests "since startup (or last
   `clear_requests()`)" (`README.md:209`).

More disagreements are plain from the code, and the models have them without a run of
their own:

* The version, which makes a shard readable, is stored before the sentinel of the
  minimum: a scrape in between reads a minimum of 0 where `multiproc.rs:191` says
  `u64::MAX`. It is reported if other workers have recorded (which is why `HeaderFirst`
  excepts the minimum).
* A worker killed inside `open_writer()` leaves version 0, skipped before the pid is
  looked at, or pid 0, and `kill(0, 0)` always succeeds: the file stays for good,
  although "Shards of dead workers are pruned" (`README.md:294`). By `HeaderFirst` it
  contributes no requests; `DeadShardPruned` excepts it.
* With multiproc mode `clear_requests()` has no effect on `aggregate()`. The total
  falls when the pid of a dead worker becomes free: not when the worker dies, but when it
  is reaped, or when the stranger that was given its pid exits. `SharedCountersRise` says
  that nothing else makes it fall, and by how much it may.
* A `collect()` whose refresh fails finds the old CPU time and moves the baseline's
  instant. A call at that very instant (`wall_ms` of 0) whose refresh works
  reports 0.0 and moves the baseline over all of that CPU time (`snapshot.rs:94-103`):
  no call ever reports it. `NothingMissed` excepts exactly this.
* `set_dir(Some)` "Resets this process's shard" (`multiproc.rs:344`) but keeps its
  counters (`Same` in `Open`).
* A stranger that is given a dead worker's pid keeps the dead shard in every merge for
  as long as it lives (`pid_alive`).

The passing runs say how far these reach: without reuse of pids and forks the
shards are right (`shards_isolated`), and even with them no counter is ever reset
(`shards_liveness` with reuse; proved for forks too, and for either memory order).

## 5. What is proved

Every safety invariant and action property that a passing run checks is a theorem
here, for every value of the constants; only `DeadShardPruned` is not. In the table,
*pids* are any set, bounds any increasing sequence, and so on.

| Module | Theorem | Says | Assumes |
|---|---|---|---|
| `ShardsProofs` | `TypeCorrect` | types: no call ever accesses a slot outside the shard or a file that is not there | nothing about `Env` |
| | `OwnShardsOnly` | two live workers never write one shard | `Unshared` |
| | `LiveShardsListed` | no pruning detaches a live worker's shard | `Unshared` |
| | `HeadersFirst` | a shard without a complete header counts nothing | nothing about `Env` |
| | `CountersNeverFall` | no counter of a shard ever goes down | nothing about `Env` |
| `ShardsCountProofs` | `WorkersCountTheirOwn` | between calls a live worker's total is the number of its own requests (`OwnCounts`) | `Unshared` |
| | `QuiescentShardsCohere` | a shard nobody is adding to adds up (`QuiescentCoherent`) | `Unshared` |
| `ShardsScanProofs` | `ReadingsSkew` | each field of a reading of any shard, the sum of latencies included, is off by at most the requests that overlapped it or were cut short (`SkewBounded`) | nothing about `Env` |
| | `ScrapesLoseNothing` | a scrape misses no request that was finished, or could be read, when it began (`NoLostRequests`) | `Unshared`, `Readable` |
| `RequestStoreProofs` | `StoreTypeCorrect` | types; the capacity is never 0 | nothing |
| | `StoreKeepsNewest` | the store is the end of the log | nothing: calls may overlap |
| | `StoreWithinCap` | between calls, at most the capacity | `GIL` |
| | `StoreImplementsLog` | `Spec => Retention`: the store implements `RetainedLog` | `GIL` |
| `SnapshotProofs` | `SnapshotTypeCorrect` | types; a reported usage is never negative | nothing |
| | `NothingIsMissed` | no CPU time is reported twice; the usages reported add up to all of it unless a call over no time followed a failed refresh | nothing |
| | `AlertsAreJustified` | no CPU alert is false or withheld | nothing |
| | `MemoryAlertsAreJustified` | a memory alert goes by memory occupied since the last refresh that worked | nothing |
| `AggregatorProofs` | `AggregatorTypeCorrect` | types; stores stay within their capacity | nothing |
| | `MergedReportExact` | in multiproc mode counts, extremes and average are those of all requests (`MergedExact`) | `Measured` |
| | `EstimatesNearExact` | an estimated quantile lies in the bucket of the exact one (`EstimateInBucket`) | `Measured` |
| | `ReportsOrdered` | percentiles are in order, the average between the extremes (`PercentilesOrdered`) | nothing |
| `MonitorProofs` | `MonitorTypeCorrect` | types of the composition | nothing |
| | `AnsweredIsRecorded` | each request is recorded once, as its client was answered | nothing |
| | `ReportsAreServed` | reports are of exactly the requests served by the workers merged, running or dead (`ReportsWhatWasServed`) | nothing |
| | `SharedFallsAccountedFor` | shared counters fall at most by what workers had shared whose pid became free (`SharedCountersRise`) | nothing |

Assumptions. Those on constants are declared in the modules and evaluated by TLC:

* `PidAssumption`: pids are positive, and finitely many (`pid_max`): sums over the
  processes need that. `AggregatorAssumption` and `MonitorAssumption` say so of workers
  and requests.
* `BoundsAssumption`: bucket bounds increase. `SentinelAssumption`: no latency exceeds
  `u64::MAX`, to which the conversion saturates.
* `MonitorAssumption`: status codes have three digits. A request recorded with a code
  below 100 would be neither an answer nor an error to its client.
* `LayoutAssumption` of `Monitor` repeats those of the modules it instantiates, which
  an `INSTANCE` leaves to the module that makes it.

Those of theorems describe the world:

* `Unshared`: pids are not reused and workers do not fork. Without it findings 1 to 3
  refute `OwnShardOnly`, `LiveShardListed` and `OwnCounts`. `QuiescentCoherent` needs it
  too: a worker killed between storing its pid and the sentinel of the minimum leaves a
  header that the next worker with that pid takes for a complete one of its own, and the
  minimum stays 0.
* `Readable`: `read_dir()` and opening an entry do not fail.
* `GIL`: the calls of one process do not overlap.
* `Measured`: latencies are not negative and are less than the sentinel. A negative one
  is clamped to 0 in a shard, so the average of a shard may exceed the exact one; a
  minimum equal to the sentinel is reported as 0. `ReportsOrdered` holds for such
  latencies too.

The invariants.

* `TypeOK` is not inductive: where a process is in a call must agree with its local
  state. `Control` says how (inside `open_writer()` there is a call to come back to,
  in `record()` the slots left are not the header's, an enabled process has a file),
  and `IType == TypeOK /\ Control` is.
* `OwnShardOnly` and `LiveShardListed` follow from `Isolation`. Its heart is that a
  shard names its own worker or nobody, and that a process about to unlink a name
  does so for a pid that is free *and used*: as no pid comes back, nobody can have
  the name by then. Findings 1 and 2 are exactly what happens without `Unshared`.
* `HeadersFirst` and `CountersNeverFall` follow from `Headed`, which holds in every
  environment: whoever is in `record()` on a file, or has it mapped, does so under a
  complete header, and a file being given its header holds nothing but header slots.
  The only step that clears slots is `Open`, and it clears a file that is not `Same`,
  that is, one without the header of this pid; such a file, says `HeaderFirst`, counts
  nothing yet. Two processes that share a file after a fork do not disturb this, as
  the header once complete never changes.
* `Tally` balances each shard's counters against what the processes in `record()` still
  owe it: the counter and what is owed lie between the requests done plus those under
  way and the requests begun. It is a sum over the processes, and holds whoever shares
  the file. `Accounts` says the same of a worker's own total, exactly, with `Unshared`.
* `SumTally` does for the sum of latencies what `Tally` does for the counters: with
  what is still owed it lies between the least and the greatest latency times the
  requests.
* `SkewBounded` follows from `Readings`: a reading, its slots not read yet taken as they
  are now, lies between the requests done when the scrape began and what the shard
  counts by now; counters only rise, so that each slot may be read at its own time. `NoLostRequests` follows from `Scrapes`: every worker
  the scrape owes a reading is still to be visited, being read, or in the view with
  at least what it had, and by `Isolation` its file cannot be unlinked or replaced.
* `QuiescentCoherent` follows from `Opening` (how much of a header is there, at each
  step of `open_writer()`, down to the sentinel) and `Books` (each shard that nobody
  adds to sums up as many requests as it has counted; one being added to will, once the
  slots left are updated). Updates of different slots commute, so the order they take
  effect in does not matter. A shard on which a `record()` was cut off never has as many
  done as begun again, and is excepted.
* `WithinCap` and `Retention` follow from `Serial`: at most one call is under way,
  the capacity it goes by is the one in force, and only between the two steps of
  `set_max_requests()` can the store be over it. Each step of the store then maps
  to a step of the log (`Push` to `LogRecord`, `StoreCap` to `LogSetMax`, `clear` to
  `LogClear`) or leaves the abstract state alone (`LoadCap`, `Shrink`).
* The theorems about `Snapshot` share `Baselined`. Besides the sum that
  `NothingMissed` states, it bounds the CPU time since the baseline for every
  threshold: if no unit of time was over it, neither is their sum, and if each was,
  so is the sum (`Rate`). That is a statement about averages, inductive over the
  units of time, and `AlertsJustified` is its value at the threshold asked for. For
  memory it says that the entry holds a value occupied since its last refresh.
* The theorems about `Aggregator` share `Ledger`: each slot of each shard is what the
  requests counted in it amount to. The rest is about the operators: the values of
  ranks exist and rise with the rank (`RankedIs`, `RankMonotone`), sums over
  requests may be taken worker by worker (`SumOfClasses`) and cut to microseconds each
  (`SumCut`), the first bucket to reach a rank holds the request at that rank
  (`RankBucketIs`, `ExactBucket`), and interpolation stays in the bucket and rises with
  the quantile (`Interpolated`, `EstimatesOrdered`).
* In `Monitor` the types of the two components make up `TypeInv`, each step being one of
  the middleware's, of the statistics', of both, or of the operating system
  (`StepsOf`, `KillType`, `OsStep`). `RecordedAsAnswered` is inductive with it.
  `ReportsWhatWasServed` follows from `Kept`, worker by worker: its shard counts the
  requests it shared and those that failed, its store is the end of the list of those it
  served, and all of them are done, so that their outcome no longer changes; and from
  `AllListed`: a running worker that has shared anything is in the directory. Merging a
  view of the shards is then counting a union of sets (`SharedTotals`).
* `SharedCountersRise` follows from `PageBelow`: the last page of the shards says no more
  than what has been shared by the workers a merge would now count, and by those whose
  pid has become free since. The next page says exactly the former. The step to look
  at is a merge that drops a shard: its pid is free, so it was free already at the last
  page, which did not count it, or has become free since (`Present`, `PresentGrow`).

Induction over finite sets, which sums need, is done in `ShardLayoutProofs` by way of a
minimal counterexample (`MinimalSubset`), a set and not an operator; order statistics
are stated with cardinalities, so that no recursive definition is needed for sorting.

Only model-checked: `DeadShardPruned`, as liveness under fairness is out of the
prover's reach. That a call which is one step of `Aggregator` and `Monitor` stands for the many steps
`Shards` takes it apart into is no theorem either; section 2 says which theorems about
`Shards` speak for it.

## 6. Plan

Done, in this order: the shards, the store, aggregation, snapshot and alerts, the
middlewares, the monitor they make up; then the proofs, in the same order. What is left:

1. A refinement between `Shards` and `Aggregator`: while no scrape overlaps a
   `record()`, `Merged(view)` of a scrape is `Merged(shard)` of the abstract one, and
   each completed `record()` is one abstract step.
2. `HandlerServes` for the ways to run the middleware other than `asgi`; `NewestKept`
   and `Kept` from one lemma about the end of a log.

## 7. Not modelled

The conversions of the bindings, field by field, with getters, `__repr__` and
`to_dict`; the layout of the Prometheus text and its content type; thread counts and
timestamps, which nothing depends on; the examples and the packaging scripts, which
keep no state of the library; the heartbeat slot, stored and never loaded; the
non-Unix `pid_alive()`, which always answers true (there no shard is ever pruned).
