# stormdb in TLA+

stormdb is a load generator for PostgreSQL, written in Go. It runs a workload
(a plugin) with a number of workers and connections, once or in a *progressive*
test of many such *bands*, and reports throughput and latency. Around that core
the repository has libraries for worker pools, circuit breakers, checkpoints,
backpressure and plugins.

This directory specifies the parts of it whose correctness depends on the order
in which goroutines, timers, failures and crashes meet, and what the plugins do
to the database as far as that is a matter of order too. Every module is
translated from the Go code; `PROJECT.json` ("map") gives the lines each
definition stands for.

## 1. Inventory

"Live" parts are reached from `cmd/stormdb`. The packages workerpool,
circuitbreaker, resilience, concurrency and core/usecases are libraries that
nothing in `cmd` imports; what uses them is the caller their API documents.

| part | state | operations | what is hard | what makes it correct |
|---|---|---|---|---|
| Ring buffer `plugins/bulk_insert_plugin/ring_buffer.go` (live) | two atomic indices, a flag and a record per slot, counters, closed | Push, Pop, PopBatch, Close, Reset, Stats | many producers and consumers, no locks; a slot is shared by laps | first-in first-out between claims; nothing lost, torn or taken twice; "full" and "empty" are true when said |
| Bulk-insert generator `generator.go` (live) | the ring, goroutines of each band, a context per band | runBand, producer, consumer | bands end by timeout while inserts run on; consumers outlive their band and the ring is reused | each popped record is inserted once; bands mix by a batch of a straggler at most; a band ends |
| Worker pool `internal/workerpool` | running, channels, counters | Start, Submit, SubmitPriority, Results, Shutdown, Stats | Submit races Shutdown; jobs panic or never return; shutdown gives up | accepted jobs are run; results closed last; counters agree; Shutdown returns |
| Circuit breaker `internal/circuitbreaker` | state, failures, half-open successes, metrics | Execute, ExecuteWithContext, Reset | results come back in a later state than requests were let in | the open state holds; the breaker recovers; statistics add up |
| Circuit breaker `internal/resilience/circuit_breaker.go` | state and four counters | the same | the same; counters reset at different times | state machine kept; the failure rate is a rate |
| Checkpoints `internal/resilience/checkpoint.go` | current checkpoint, files, tracker | StartTest .. CompleteTest, periodic routine, cleanup, RestoreFromCheckpoint | crash during a save; copies saved late; cleanup by time stamp | what was acknowledged stays on disk until enough later ones are there |
| Scaling sequence `internal/progressive/engine.go` 205-445 (live) | the bands | five strategies | integer and float division, loops with computed steps, empty ranges | inside the limits, growing, reaching the limits, ending |
| Scaling engine `engine.go` 101-202, 453-647, 926-946 and `cmd/stormdb/main.go` 268-335 (live) | stored bands, channels of errors and results, contexts | Execute, executeBand, run | a workload that fails or stays, a signal at any point, selects with several ready channels | pools of bands not used at a time; success is complete and without failures; run() returns |
| Workload plugins `plugins/*` but bulk insert (live) | the tables of the database, a transaction and a connection per worker | Setup, Cleanup, the operations of each mode, Run with its workers | a run or a load cut off at any statement; commits without an answer; row locks of many workers; a pool smaller than the workers; ids drawn from ranges another file fills | a rebuild recovers from anything; a prepared run finds its rows; operations are atomic and never stuck |
| Regular run `cmd/stormdb/main.go` 240-476 (live) | phase, contexts, the signal | run | timeout and signal against workers in an operation; the process started again | a database prepared from anything; see the plugins |
| Plugin loader `pkg/plugin/loader.go` (live) | plugins by name, workload types, failed files, Loaded | DiscoverPlugins, LoadPlugin, LoadAllPlugins, UnloadPlugin, UnloadAllPlugins, GetWorkload | a lock given up and taken again in GetWorkload; files in conflict | a type has one owner; a plugin is initialised once |
| Registry, context loader, bounded memory `pkg/plugin` (made, but not loaded through, by the `plugins` command) | registered plugins, instances, loads under way | SafeLoad, Register, UnloadPlugin, LoadPluginWithContext, Stop | the instance of a file is shared; a lock given up before the path is recorded; retries against contexts that end | nothing initialised is forgotten; what is handed out is ready; no retry after the end |
| Workload manager `internal/concurrency/workload.go` | a queue for each priority, a dispatcher, workers with a channel each | Start, SubmitJob, Stop, the adaptive routine | closing of channels in use, retries, workers reused after they were removed | counts agree with the queues; failures were retried; every job ends |
| Backpressure controller and connection pool `internal/concurrency/backpressure.go` | slots, queue size, latency, pressure, limits; the pool's channel | AcquireConnection, ReleaseConnection (of both), AcquireWorker, EnqueueRequest, UpdateLatency, Close, cleanup | counts taken down before the lock is taken; limits that move while slots are in use; slots lost on a miss | every slot is held or lost by a miss; limits cover what is in use; the pressure is that of the counts |
| Test execution `internal/core/usecases/test_execution.go` | executions, the record of each in a repository | ExecuteTest, CancelExecution | the record is read, changed and written by two goroutines; the repository fails | results stand for whole tests; nothing is left running; cancelling stops the bands |
| Database, metrics, results backend, statistics, configuration, display | – | – | SQL, floating-point statistics, input and output | see section 6 |

How they interact: `run()` starts `ScalingEngine.Execute` in a goroutine and
waits on its channels and on signals; Execute makes the scaling sequence, then for
each band opens a pool, starts the workload's `Run` in another goroutine and
samples shared counters. The bulk-insert plugin is such a workload, and runs
bands of its own: producers Push into the ring buffer, consumers Pop batches and
insert them. The tracker of the resilience package owns a checkpoint manager,
whose periodic goroutine shares the current checkpoint with it. Before either
branch of `run()` the plugin loader has found the plugins, its GetWorkload has
made the workload, and the workload's Cleanup and Setup have prepared the
database, as the command line asks. Worker pool, workload manager and
backpressure controller do not know of one another.

The hazards of the code, each at its line and with the properties that watch it,
are listed in `PROJECT.json`.

## 2. Modules

| module | models | checked by |
|---|---|---|
| `BoundedQueue` | abstract: a bounded first-in first-out queue | `RingBuffer` refines it, `BulkInsertBand` uses its actions |
| `RingBuffer` | `ring_buffer.go`, one step per access to shared memory | `RingBufferLap`, `RingBufferNoLap`, `RingBufferLapIntact` |
| `BulkInsertBand` | `runBand`, producers and consumers of `generator.go`, over the abstract queue | `BulkInsertBandSafe` |
| `WorkerPool` | `workerpool.go` | `WorkerPoolShutdown` |
| `CircuitBreaker` | `internal/circuitbreaker` | `CircuitBreakerSafe` |
| `ResilienceBreaker` | `internal/resilience/circuit_breaker.go` | `ResilienceSafe` |
| `Checkpoint` | `internal/resilience/checkpoint.go` with its files and crashes | `ResilienceSafe` |
| `ScalingSequence` | `generateScalingSequence` and `validateConfig` | `ScalingSequenceSafe`, `ScalingSequenceBands` |
| `ScalingEngine` | Execute, executeBand, the workload's goroutine and `run()` | `ScalingEngineSafe` |
| `SqlOperation` | external: what a statement needs of the tables, does to them and holds, as pgx and PostgreSQL have it | used by the next seven |
| `Ecommerce`, `EcommerceBasic`, `Imdb`, `Tpcc`, `Simple`, `ConnectionOverhead`, `VectorSearch` | one plugin each: Setup, Cleanup and every operation as scripts of statements | `WorkloadsSafe` |
| `Workloads` | the regular branch of `run()`, the workers of a plugin, a pool and row locks; composes the seven | `WorkloadsSafe` |
| `PluginLoader` | `pkg/plugin/loader.go` and the factory's call of it | `LibrariesSafe` |
| `ConnectionSlots` | `internal/concurrency/backpressure.go` | `LibrariesSafe` |
| `WorkloadManager` | `internal/concurrency/workload.go` | `LibrariesSafe` |
| `TestExecution` | `internal/core/usecases/test_execution.go` | `LibrariesSafe` |
| `PluginRegistry` | `registry.go` and `context_loader.go` of `pkg/plugin` | `LibrariesSafe` |

`MC*` modules instantiate them for TLC, `*Proofs` modules hold the theorems.
`MCLibraries` holds five libraries that do not interact: a behaviour picks one at
the start, and is of that one only. `MCResilience` does so with the breaker and the
checkpoints of the resilience package.
Definitions in a module that a comment calls a "plausible mistake" are variants
of the definition after them, with a bug of a likely kind; no specification uses
them. Each shows that a property can be violated.

### How state and actions correspond to the code

**RingBuffer.** `writeIndex`, `readIndex`, `writeComplete`, `buffer`,
`produced` and `consumed` are the fields. A goroutine's `pc` names the next
access: Push is loadWrite, loadRead, cas, clearFlag, two halves of the write,
setFlag, count; Pop is loadRead, loadWrite, loadFlag, cas, two halves of the
read, clearFlag, count. A failed compare-and-swap or a clear flag goes back to
the first load, as the loops do. A record is named by its claim, so that a wrong
record can be told from the right one, and has two halves, so that a copy can be
torn. Reset writes the indices and the counters, not the flags; it is called when no
producer runs, and in the model when no goroutine is in a call. Capacity is a power of two and the position is `i % Capacity`, which is
what the mask computes.

**BulkInsertBand.** `phase` is where runBand is: started, stopping (the context
is done, producers leave), grace (closed, waiting for consumers), between bands.
A consumer looks at the context, pops up to `BatchSize` records, and inserts
them with a context that never ends. When the 30 seconds of grace are over,
runBand goes on to the next band, wherever the consumers it leaves are: in an insert,
or in a Pop, which may spin on a flag without looking at the context. Reset opens the
buffer for the next band under them, so that one in a Pop takes records of that band.
`strays` remembers how many each has taken. As the queue is the abstract one, a Pop
takes effect in one step: a straggler that is between its loads of the indices and its
compare-and-swap when Reset writes them is in neither module: RingBuffer resets when
no goroutine is in a call.

**WorkerPool.** Channels are sequences with a bound and a closed flag; sending
on a closed channel panics. Submit is two steps, the test of `running` under the
read lock and the send without it. A worker is two goroutine lives at most (one
for each Start). Shutdown is split at its waits: close the jobs, wait for workers
or the timeout, cancel and wait again, close the results.

**CircuitBreaker and ResilienceBreaker.** One step per critical section. Time is
the variable `cooled`: the reset timeout has passed since the last failure (first
breaker) or the last change of state (second). Failures are counted up to
MaxFailures in the first, because the code only asks whether that is reached;
statistics count modulo a small number, so that callers may go on for ever.

**Checkpoint.** The disk is a sequence of files, last modified last, each
complete or cut off. A save of the tracker is: make and stamp the checkpoint, which
is done without the manager's lock, replace the current one by it under the lock,
create the file, encode it, clean up file by file. A routine reads the current
checkpoint, stamps its copy, and saves that; it may do so any number of times
between two steps of the tracker. A save may fail
after the creation and the process may crash anywhere; Restore takes the last
modified file, as the code does.

**ScalingSequence.** One step per iteration of a strategy's loop. Integers are
exact; the one float expression, `int(float64(i) * (range / (bands-1)))`, is
exact division, lowered by a member of `Rounding` where it leaves no remainder: only
there can an error of the last bits bring the product below a whole number.
Configurations are those validateConfig lets through, among them a negative number of
bands where a test duration is set, and then steps of any sign.

**ScalingEngine.** `pc` is where Execute is, with executeBand inside: connect,
warmup, sampling, finalWait, closing (deferred calls: cancel, close of the
pool), next. `main` is where run() is. A select with several ready channels is
a choice. The workload and pgxpool are external: queries take connections of
the band's pool while its context lasts, and closing a pool waits until
every connection is back, which is what pgxpool documents. The connection plugin
also opens connections of its own (connection.go:364), for which nobody waits:
`OwnQuery`. The context of a band ends by a signal, or by its own deadline, ten seconds
after the run (`timedOut`), as sleeps and goroutines can take longer than they should. Each round of the
sampling loop sleeps, so its number is bounded by the duration over the
interval. The five-second timer of the last select is only taken
when the channel of the error is empty: a value that was in it before the
select began wins against a timer that starts with it.

**SqlOperation and the plugins.** A table is absent, empty, short (it has some of
the rows operations draw from) or full. A statement is a verb, the tables it
changes and those it needs rows of, the row it locks, what the code does with its
error ("next", passed over, a fallback) and its connection (that of the open
transaction or one of the pool). An operation is the set of scripts it may send:
one for each way its conditions may go. What it reads decides which of them it
is, and is left open. Loops over rows are one or two statements; a trigger is
part of the statement that fires it. Setup and Cleanup are scripts too, with the
tests of the loaders ("is the table filled already") as statements.

**Workloads.** `program.phase` is where run() is: cleanup, setup, start, run, over.
`worker` holds the script of the operation and the statement it is at. A
statement waits for a connection, if its operation has none, and for row locks;
it is then executed, refused by what the tables hold, or fails (at most
`MaxFaults` times) for no reason of the model. A commit may be done and its
answer lost. After the end of the context the statement under way may fail, and
a worker leaves when its operation has ended. run() returns when Run does, or
five seconds after a signal. The process is then started again, on the database
that is left. The tables keep their status when a transaction is rolled back;
other transactions see its writes from its commit on.

**PluginLoader.** One step per critical section. Discovery keeps the lock for many
files and takes a step for each; no caller runs meanwhile. GetWorkload is three
steps: the look under the read lock, LoadPlugin, and the call of the plugin. A
file is what plugin.Open and the symbol in it make of it.

**ConnectionSlots.** A release is two steps, the atomic decrement and the update of
the pressure under the lock. Pressure is the code's weighted sum, in integers,
compared with the default thresholds. Scaling comes with a report of latency
and when its delay is over. Requests are only a count, and anybody takes one
down, below zero too, as in the code.

**WorkloadManager.** Every channel operation is a step, and so is each half of
what is done before and after a lock: SubmitJob counts and then sends; the
dispatcher chooses a worker under the lock and sends without it. A worker that
was removed goes to a sync.Pool with its channel closed and may be taken from it
again, as in the code. Sends on closed channels set `managerCrashed`. Two assumptions
are the model's: queues have room for a job at least (the code makes channels of the
configured size, and with 0 a submission would need a dispatcher that waits), and a
manager is started again only when its old dispatcher has gone.

**TestExecution.** Every access to the repository is a step, which may fail; both
writers of the record hold a copy of it between Get and Store.

**PluginRegistry.** A package is a plugin file with its one instance, which is
plugin.Open's for everybody. An attempt of SafeLoad is opening with Initialize,
Register under the lock, and then Cleanup or the recording of the path, each a
step; Register may refuse for any reason of the code. `ended` is the context of
a load. Three variables remember what the properties speak of: `late` attempts,
loaded packages with another caller (`overlapped`), names unloaded before their
path was there (`cutShort`).

## 3. What the runs check

| run | instance | what it shows |
|---|---|---|
| `RingBufferLap` | 2 producers, 2 consumers, 2 slots, 3 records, 1 Reset | Claims by compare-and-swap are exclusive and the indices are first-in first-out; full and empty are true when returned although two indices are loaded one after the other; counters account for every call; seen at the claims it is the bounded queue |
| `RingBufferNoLap` | 2 and 2, 4 slots, 3 records, fair | While no slot is used twice, records arrive whole and each is popped in the end |
| `RingBufferLapIntact` (violation) | 1 and 1, 2 slots, 3 records | Once it wraps round, Pop can return an overwritten record |
| `BulkInsertBandSafe` | 2 producers, 2 consumers a band, 2 bands, 2 slots, batches of 2, 3 records, fair | No popped record is lost or inserted twice; nothing is pushed after Close; a straggler of band 1 takes a batch of band 2 at most; a band ends |
| `WorkerPoolShutdown` | 2 workers, 3 jobs, 1 with a priority, 2 callers of Shutdown, channels of 1, jobs that succeed, panic or return nil, fair | Accepted jobs are in one place; a graceful Shutdown drains; results closed last; Shutdown returns |
| `CircuitBreakerSafe` | 3 callers, 2 failures, 2 half-open successes, statistics modulo 2, fair | Counters fit the state, requests add up, the open state holds, recovery |
| `ResilienceSafe` | breaker: 3 callers, 2 failures, 2 half-open requests, 10 requests; checkpoints: 2 routines, 2 files kept, 2 bands, 5 checkpoints, 1 failed save | Counters fit the state; state machine kept; what was acknowledged stays until two later ones are there |
| `ScalingSequenceSafe` | every configuration with limits up to 6, steps -1, 0 or 2, bands -1, 0, 3 or 4, fair | Limits, order, goals, termination of the five strategies |
| `ScalingSequenceBands` (violation) | limits up to 6, 3 bands asked for | Exponential makes two bands of three |
| `ScalingEngineSafe` | up to 3 bands of 2 samples, 2 connections of the pool and 1 other, fair | Pools do not overlap, complete successes, failures seen, run() returns |
| `WorkloadsSafe` | every plugin in every mode, 2 workers, 2 connections, 2 rows to lock, 1 fault, 2 operations | Rebuilds recover from whatever was left; after a clean rebuild nothing an operation needs is missing; operations keep all or none of their writes; the transactions of TPC-C never deadlock; no operation is stuck |
| `LibrariesSafe` | loader: 6 files, 2 callers; slots: 2 users, 11 connections, 1 worker, 1 in the queue and the pool; manager: 2 jobs, 2 queues of 1, 2 workers, 1 retry, 1 start, and 1 job with 2 starts, fair; execution: 3 bands, 2 cancellers; registry: 2 packages of one name, 2 callers, 2 attempts | What each library keeps in several places agrees, in one invariant of named parts each; every job ends |

### Bounds

Two producers and two consumers make every race of two on one index, one slot
or one flag; the third record meets a slot for the second time with Capacity 2,
and the Reset adds the flags left over from before it. In the generator two
bands are what it takes for a consumer to be left over, and three records more
than a batch and more than the buffer. Three callers of a breaker are one that
is late, one that changes the state, and one that is let in by it; two
half-open successes tell counting from closing. Two workers and two callers of
Shutdown make each of them meet the other's closing of a channel; buffers of one
are full at once. With MaxFiles = 2 two routines, or one that
ticks twice, can put two copies of an older state after an acknowledged checkpoint.
Three bands have a first, one in the middle and a last; Execute refuses results of fewer than two. Limits up
to 6 contain four Fibonacci numbers, three powers of two and every remainder for
three and four bands; the smallest range at which the float expression
was found to differ from exact division is 13 (24 bands), so with `Rounding = {0, 1}`
the run also covers what only larger limits would show; it differs by one, where the
division leaves no remainder, and nowhere else.

Two workers are what a deadlock, a wait for a connection and a commit of
another's take; two connections for two workers are short as soon as an operation
wants a second one. Two operations of a run meet in every pair. One fault cuts
a preparation off at any statement; a process may be started any number of
times, so faults of an earlier start are followed by whole starts. Two rows of
inventory and two districts are one in common and one not. Of the files one is
new, one is in conflict by a type, one by name, one is no plugin, one does not
open and one has a type a refused file had. Eleven connections are the fewest at
which ScaleDown acts (it stops at ten), and one worker slot the fewest at which
ScaleUp rounds to nothing. Two jobs and queues of one make a queue full, a
worker's channel full and a retry refused; a manager that is started again, whose
context has ended already, is checked with one job, since what the properties say of
several ends with Stop. Three bands are a first, one that
starts late and one that must not. Two packages of one name, of which the second
wants the first, and two callers are a load in conflict, a load twice and a path of
another; the second attempt is the one after which a late one would be a second.

MaxRecords, MaxResets, MaxStarts, MaxStamps, MaxFaults, MaxOperations, MaxScalings,
MaxEmptyDequeues, MaxClosedReads, MaxRequests, OwnConnections, Modulus, MaxBands and MaxLimit are the bounds of counters; they appear in guards and are
named in the modules.

Deadlock is checked where the system runs for ever: the first breaker, the ring
buffer, and the program that is started again and again. In the others it may stop: bands are over, the pool is shut down,
the process has ended, the generator has returned.

### Fairness

Goroutines that can go on do (weak fairness per goroutine): the Go scheduler is
preemptive. Timers fire. Nothing obliges a user to Submit, Reset, call Shutdown
or send a signal, a producer to push again, a job's Execute to return, an insert
or a Pop of a band's consumer to return, or a workload's Run to return; the liveness
properties hold without it. ScalingEngine does assume that queries on a pool return,
for the pool's Close waits for them, and nothing of queries on other connections. RecoversWhenHealthy assumes that
operations no longer fail, in its premise, and that each ends or its context does.
EveryJobEnds needs the manager's own goroutines to go on (ManagerFairness: each
submission, which has room or times out, the dispatcher, each worker), and is
stated for managers that are neither stopped nor crashed; nobody has to Start one,
to scale it or to submit. Workloads has no liveness property: OperationsProceed
says instead, as an invariant, that an operation under way always leaves somebody
who can take a step; scripts are finite.

### Where code and documentation disagree

Two runs show statements of the repository's documents that the code does not
keep (`PROJECT.json`, "findings"):

* the ring buffer is called thread-safe, but Pop gives a slot up before it has
  copied the record out (`RingBufferLapIntact`);
* `bands` is documented as the number of configurations that are tested
  (docs/PROGRESSIVE_SCALING.md:171, with examples of exponential at 237 and fibonacci at
  219 and 273), but exponential, fibonacci and synchronized do not look at it
  (`ScalingSequenceBands`). Nor is a fibonacci sequence scaled to fit the range (lines
  211, 220): it is every combination of the Fibonacci numbers in both ranges, which is
  what ReachesItsGoal says of it, and the code makes 30 bands of the example that asks
  for 12.

Others are plain from the code and the models, and have no run of their own:

* the linear strategy is documented (docs/PROGRESSIVE_SCALING.md:180, 190) as
  equal increments up to the maximum; with `bands` set and no steps it can spend
  them all on connections (engine.go:280), so that ReachesItsGoal asks less of it;
* an interrupted progressive test is said to print a summary of all it collected
  (docs/SIGNAL_HANDLING.md:7-10); run() waits for a result only (main.go:328), and
  an error of Execute is never read;
* `--setup` logs "Ensuring schema exists (no data load)" (main.go:271), and Setup
  of most plugins loads data.

More limits of the code that are no promises of it are noted with the hazards:
Submit may panic against Shutdown, jobs with a priority are never taken, a
restore fails on a cut-off newest file, the half-open limits bound
the finished requests and not those under way. Of the parts added since:

* the loaders make fewer rows at a small scale than operations draw from, and
  Setup after a load that failed looks at the first table only: operations then
  miss rows (PreparedRunsFindTheirRows is about rebuilds at full scale);
* the COPY of the vector plugin gives ids and does not move the sequence they
  come from, so that its own inserts, and a second Setup, collide with it; four
  of its five tests return without waiting for their workers;
* a consumer of the bulk-insert plugin that outlives its band can take a batch of the
  next one, and insert it by the wrong method, counted for the wrong band;
* a checkpoint that was acknowledged can be removed soon after, in favour of copies of
  the state before it with later Timestamps;
* a query of the connection plugin on a connection of its own can be in the database
  when the next band is measured;
* after a signal, and with four of the five vector tests always, results are reported
  while workers are in an operation;
* two new orders of the ecommerce plugin can make a deadlock, which the server ends;
* a pool that is empty costs a slot for each request; after Close it hands out
  connections that are none, and a release panics;
* Stop of the manager makes the dispatcher read empty jobs and may make it, or a
  submitter, send on a closed channel; a worker out of the sync.Pool may have its
  channel closed; a retry that finds the queue full loses its job without a word;
  a MaxConcurrency of 1 gives no workers, ever;
* GetWorkload calls a nil plugin if somebody unloads it in the wrong moment;
* Cancelled may be stored over Completed, and Failed over Cancelled;
* SafeLoad and Register both call Initialize, which interface.go:118 says is called
  once; loading a registered file again cleans up the instance that is in use, once
  for each attempt; LoadPluginWithContext compares the absolute path that was recorded
  with the path it was given, so that a relative one is loaded and "not found";
* CreateBoundedCollection of memory.go takes its lock and calls RegisterPlugin,
  which takes it again, for a plugin that is not registered; the recovery of the
  database waits longer between its attempts (35 s) than its timeout (30 s).

## 4. What is proved

TLAPS checks the theorems for every value of the constants, from the named
assumptions of each module and what a theorem assumes for itself (IntactWithoutLap,
ClosedLast). Where a property counts threads, callers
or users, a named assumption says that there are finitely many.

* **RingBufferProofs.** `IInv` adds to the types and OccupancyBounded what each
  goroutine knows: an index loaded is no larger than the shared one, an index
  that passed the full (empty) test was less than a capacity (record) away, an
  index past the compare-and-swap lies below the shared one, and two goroutines
  past it hold different ones. OccupancyBounded alone is not inductive: the
  compare-and-swap keeps it only because the index it was given was tested. From
  it follow TypeOK, OccupancyBounded, ClaimsAreExclusive, FullAndEmptyAreExact
  and ImplementsQueue. The refinement maps a producer's compare-and-swap to Put,
  a consumer's to Take, Reset to clearing the queue, all else to a stutter.
  StatsAccountForClaims follows from counting: one thread at a time joins or leaves
  the set between claim and count, in the step that moves the index or the count.
  IntactDelivery is proved for MaxRecords <= Capacity and MaxResets = 0, which
  RingBufferNoLap has too: a flag that is set tells of a record that is complete, with
  its producer gone (`IntactInv`). Without that assumption it is false, which is the
  finding of RingBufferLapIntact.
* **BulkInsertBandProofs.** BandsMixLittle, for
  any number of goroutines and bands. The strengthening: consumers of later
  bands are not born, the context of a band that is no longer running has ended, and
  what a consumer has taken of later bands is in the batch it is at, as it looks at
  its context before the next.
  RecordsAreAccountedFor, which adds up cardinalities, is replaced in `RInv` by what
  it amounts to: no record is at two places of the buffer or of the batches, no two of
  buffer, batches, inserted and failed share one, every record that was pushed since
  `first` is in one of them.
* **CircuitBreakerProofs, ResilienceProofs.** TypeOK, CountersFitState,
  OpenHolds; TypeOK, CountersFitState, FailureRateIsARate, ChangesOfState.
  Type correctness needs the others: that a half-open count stays within its
  limit follows from the breaker closing when it is reached. RequestsAddUp (of
  CircuitBreaker) is an equation modulo the width of the counters; the lemmas on `%`
  show that each step adds one to both sides or moves one within the sum.
* **ResilienceProofs**, for Checkpoint: AckedStaysKept, for any number of routines and
  of files kept. `CheckpointInv` adds: no saver is about to write the Timestamp of
  a file or of another saver (StampsDiffer), what the tracker has written is kept, or on
  its way to be acknowledged (TrackerSaves), and of every file that is doomed enough newer
  ones are not (DoomedAreOld), which is what makes a cleanup that crashes half-way, and
  files that are created meanwhile, do no harm. That the newer files are of a later
  state does not follow, and is not so: routines copy the checkpoint before the current
  one between its Timestamp and its replacement.
* **ScalingSequenceProofs.** TypeOK and WithinLimits for limits, steps and bands
  of any size and for rounding down by one. `IInv` adds that the loop variables
  are within the limits from below, and that the lists of Fibonacci numbers lie
  within them. Lemmas: the integer square root of the linear strategy exists and is
  positive, no step is zero, a scaled part of a range is a natural number. For BandsGrow,
  `GInv` says for each strategy how the last band compares with the loop variables, and
  that the lists of Fibonacci numbers grow. However balanced steps are rounded, none comes
  before the last (PartsGrow): one that is lowered would be a whole number, and the one
  before it is below that. SequencesReachTheirGoals
  compares a finished sequence with its reference for limits of any size: the loop of
  each strategy carries the reference up to its place, and the recursive functions
  (the Fibonacci numbers) exist and are the only ones, which is proved by the least
  counterexample.
* **RunProofs**, for ScalingEngine: TypeOK, PoolsDoNotOverlap, SuccessCoversSequence,
  FailedWorkloadFailsTest. `IInv` adds: bands are stored in order and as many as
  were left behind; a result is sent only for a complete or cancelled
  sequence, and ctx is not cancelled while run() still waits; as long as nobody
  cancels, an early failure is on its way to Execute: in the channel, received
  as the error of the band, or sent to run().
* **RunProofs**, for Workloads, for every plugin, mode, number of workers and size of
  the pool. That the scripts of all plugins are WellFormed (one transaction, from its
  begin to its commit, with every write inside it, or a single write outside) is a lemma
  for each plugin, and an invariant of the operations under way.
  WritesAllOrNothing: `OperationInv` says which writes of a script are pending and
  which are kept at each statement. OperationsAlwaysProceed: if nobody can go on,
  everyone waits for somebody who waits; the smallest non-empty set of workers that is
  closed under waiting then waits in circles (WaitsGoRound, by the least size of
  such a set). A pool is no obstacle, as who holds a connection needs no
  second one. TpccNeverDeadlocksAlways: no two workers hold a lock on one row, and the
  scripts of TPC-C lock rows in the order of their rank, so that of a circle
  the one who holds the highest row waits for a higher one.
* **RunProofs**, for Workloads and its tables: RebuildRecoversAlways and
  PreparedRunsFindAlways. What a table holds at some point of a script is read off
  positions: the last statement before it that brings the status about, and none
  between them that undoes it (`Holds`). So a script runs through (`RunsThrough`) if every
  statement that can be reached finds what it needs; that a script of Setup or Cleanup
  runs through on a database, and what it makes of it (`Clears`, `Completes`, `Keeps`),
  is shown once for each plugin, for scripts of which only a few statements matter. The
  lemmas AfterFirst and GoesOn carry all of it from a script to its rest when the
  first statement has been executed, so that `DataInv` can say that what is left of the
  script of a rebuild is on course on the tables as they are: any tables will do for
  Cleanup, which is what "whatever an earlier one has left" means. For the run it
  says that operations draw ids only from tables that Setup fills, and delete from none
  of those (`Suited`, a lemma for each plugin). WorkloadsTyped follows with the
  bounds of the counters and of the scripts.

* **WorkerPoolProofs.** TypeOK, for which a worker past its select must have a job;
  and ResultsClosedLast, for a pool that is started once. The strengthening:
  whoever is in Shutdown shuts down a pool that was started, and whoever is about
  to close the results has found no worker alive; none is born after the last
  Start. A second Start while a Shutdown is at its end can leave a worker with
  closed results, so the assumption is needed (`MaxStarts = 1`, as in the run).
  AcceptedJobsAreTracked needs no such assumption; `JInv` says that no job is twice in
  the channel, with two workers or in two of channel, hands and outcome.
  GracefulShutdownDrains holds for any number of Starts. `GInv` adds that a worker stops
  by itself only on a channel that is closed and empty, which then stays so; that
  whoever waits for the workers has closed it; and that when one is past its wait
  every accepted job was executed or the workers of the first Start have panicked
  (NothingIsLeft), which no later Submit or Start undoes.
* **LibraryProofs.** LoaderConsistent, with one conjunct more: what GetWorkload
  has loaded is loaded still or was cleaned up since. ExecutionConsistent, with
  what each place of ExecuteTest knows: bands are left before one starts and none
  when the results are stored; results are seen, in the record or in a copy of
  it, only after that; nobody can cancel what has no record; and a band that
  starts late finds its context ended at the next look. SlotsConsistent: the count of
  connections is that of the users who hold slots plus the slots lost, and the count
  of workers that of the users who have one, so that counting down never goes below
  zero; the step that counts, the step that stores the pressure and the scaling of
  the limits are separate, and `Halfway` names the users between the first two.
  RegistryConsistent: a loaded package that is not marked as shared is in nobody's
  hands, whoever is about to record a path has a loaded plugin or one cut short, and a
  late attempt has the check of the context before it. JobsAreConsistent: who
  has a job (a queue, the dispatcher, the channel of a worker, a worker) agrees with the
  place the job is at, so that nobody else has it; the depth of a queue counts what is in
  it and what is about to be counted; channels are closed by Stop and scaling only.

## 5. What is only model-checked

Every liveness property (EveryPushIsPopped, BandsEnd, ShutdownReturns,
RecoversWhenHealthy, Terminates, MainReturns, EveryJobEnds): TLAPS does not prove
liveness under fairness. The library's induction theorems, which take an operator
as a parameter, are out of reach; where a proof needs induction (the recursive
functions of ScalingSequence, sets of workers that wait) it takes a least
counterexample in a set of natural numbers. Every
invariant and every action property of the runs that pass is a theorem.

Type invariants are proved for every module that has proofs, or are parts of the
invariants of the libraries. Those of BulkInsertBand, Checkpoint and Workloads (TypeOK,
CheckpointTypeOK, WorkloadsTypeOK) are in no cfg, as they say little that a run would
find: BandsTyped, CheckpointsTyped and WorkloadsTyped prove them.

Two theorems assume a little more than the specification does, and state it:
ResultsClosedLast a pool that is started once, IntactDelivery no lap and no Reset. The
properties are false without.

## 6. What is not modelled

* What rows hold: a table is absent, empty, short or full, and a value read from it
  is any value. `internal/database` only sends SQL and scans rows.
* The results backend, whose writes are single transactions.
* The metrics that workers of a plugin count (and the errors they do not):
  no property is about them.
* `schema.go` and `data_generator.go` of the bulk-insert plugin.
* Health checks, Shutdown and manifests of the plugin registry; memory.go, whose limits
  are byte counts read from the runtime.
* Floating-point statistics: analysis, analytics, visualisation, percentiles.
* Configuration parsing, logging, progress bars, export formats: input and output.
* Managers that are a locked map of modelled objects: MultiCircuitBreaker,
  CircuitBreakerManager. RecoveryManager and ResourceMonitor are planned.
* In the modelled parts: what the note of each component in `PROJECT.json` names.
* The `rand` jitter, latencies and sizes: no property depends on them.

## 7. Plan

Done, in the order of importance: ring buffer and generator (the concurrency core
of the live program), the two breakers, worker pool, checkpoints, scaling
sequence, scaling engine; then the plugins with the regular run that drives them,
and five libraries: plugin loader, backpressure controller with its pool,
workload manager, test execution, plugin registry.

Next, to extend the model: RecoveryManager and ResourceMonitor, and
`BulkInsertBand` composed with the real `RingBuffer`, for what the wrap-round
does to a band.

## 8. Running

    tlc -config RingBufferLap.cfg MCRingBuffer.tla
    tlapm RingBufferProofs.tla

Each `.cfg` belongs to the MC module that `PROJECT.json` names for the run. The
longest runs (`BulkInsertBandSafe`, `LibrariesSafe`) take two to two and a half minutes with two workers.
