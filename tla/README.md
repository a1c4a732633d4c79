# Verification of the task execution engine

TLA+ modules, TLC runs and TLAPS proofs about the Go backend of this repository: a MySQL table used as a job queue, claimed with `SELECT ... FOR UPDATE SKIP LOCKED` by several identical backend instances, each with a fair scheduler, a worker pool and a watchdog, and a rate limit kept in Redis. Paths below are relative to `src/`.

To check a module: `tlc -config MCEngine_fleet.cfg MCEngine` or `tlc -config MCConsole.cfg MCConsole` for a run, `tlapm EngineQueueProofs.tla` (or another `*Proofs` module) for the proofs. `PROJECT.json` lists the runs, the source lines each definition stands for, the mutated definitions that show each property can fail, and the hazards the properties are aimed at.

## 1. The system

| Component | State | Operations | Interacts with |
|---|---|---|---|
| Task service, `backend/services/task_service.go` | tables `tasks`, `dead_letter_queue` | create, batch, demo seed, claim, start, complete, fail (retry or dead-letter), cancel, clear, requeue orphans, find stale, list | called by every other part; the only shared writer |
| Scheduler, `backend/scheduler` | `deficits`, `isScheduling`, WaitGroup, context | tick, pass (list clients, turns of dequeue and submit), stop | claims rows, sends to the pool's channel, blocks when it is full |
| Worker pool, `backend/worker/pool.go` | channel of `numWorkers` tasks, worker goroutines, busy states | submit, receive, process (mark started, handler, record), draining stop | receives from the scheduler, writes rows, publishes events |
| Watchdog, `backend/watchdog` | the list of the current sweep | sweep (find stale, fail each), stop | fails tasks of any instance |
| Process life cycle, `backend/main.go` | order of starts and deferred stops | startup recovery, SIGTERM, kill, restart | all of the above |
| Task controller, `backend/controllers/task_controller.go` | none | submit, batch, list, get, cancel, demo | rate limiter, then task service |
| Rate limiter, `backend/ratelimit` | one Redis sorted set per client | `AllowN` | Redis, clocks of the instances |
| SSE hub, `backend/sse` | set of subscribers, one buffered channel each | subscribe, unsubscribe, publish | workers publish, HTTP streams read |
| Worker registry, `backend/worker/registry.go` | one Redis key with a TTL per instance | heartbeat, delete on stop, list | reads the pool's states |
| Analytics, listing | none | throughput chart, status counts; pages of tasks | reads `tasks` |
| Seed and migration, `backend/database` | tables | check-then-insert at start | before the life cycle above |
| Benchmark client, `bench/main.go` | its counters | clear, inject, poll until drained | the HTTP API |
| Authentication, routing, error mapping; configuration, connections, logging; dashboard | none of the system's own | | section 7 |

The instances never talk to each other; they meet in MySQL and in Redis. Inside an instance the only hand-over is the channel from the scheduler's pass to the workers.

What is hard here: every goroutine acts on a copy of a row that it read earlier, and most `UPDATE`s have no condition but the id; a process can die, or lose a database answer, between any two statements; claimed tasks sit in memory where no other instance can see them; a pass can be blocked in `Submit` when it is told to stop; ticks overlap; the limiter and the chart decide with clocks that differ; what a client or a dashboard sees is put together from several statements, between which everything may change.

What makes each part correct:

* queue: one holder per claimed task; no claimed task is forgotten; retries within budget; final states final; a dead letter exactly for a failed task;
* scheduler: one pass at a time, no starvation and bounded overtaking, no hoarded credit, a stop that is complete and that returns;
* pool and life cycle: bounded channel, drained on shutdown, no deadlock between pass, channel and workers;
* watchdog and startup recovery: every started task of a dead process comes back, no task of a live one does;
* rate limiter: no more than `max` tasks in any window up to the clocks' error, no undeserved denial, bounded memory;
* hub: no send on a closed channel, no worker held up by a dashboard, only a client's own events and in order, drops only when behind, every connection cleaned up;
* registry: a live instance is listed, a stopped one is not, a dead one fades;
* seed and migration: starts do not trip over each other, and nobody serves before the data is there;
* cancel, pages, load test, chart: the answer is true of the queue, although it is not read in one piece.

## 2. The modules

| Module | Models | Used by |
|---|---|---|
| `TaskService` | the statements of `task_service.go` as operators on the tables | `Engine` |
| `Engine` | N instances running those statements: pass, channel, workers, watchdog, boot, kill, shutdown, API | `MCEngine`, `EngineProofs` |
| `Scheduler` | one instance's ticks, passes, guard, deficits and stop | `MCScheduler`, `SchedulerProofs` |
| `RateLimiter` | one client's window over several instances | `MCRateLimiter`, `RateLimiterProofs` |
| `JobQueue` | abstract specification: jobs that wait, are leased to one holder, end, wait again, are given up | `EngineQueue` |
| `EngineQueue` | the refinement mapping from `Engine` to `JobQueue` | `MCEngine` |
| `Requests` | requests of several statements around the running `Engine`: cancel, the walk over the pages, the load test | `MCConsole` |
| `Feed` | one instance's SSE hub, its streams and the workers that publish | `MCConsole`, `FeedProofs` |
| `Registry` | heartbeats over commands of any duration, the TTL, Stop and the panel | `MCConsole` |
| `Startup` | schema, seed and recovery of instances that start, with kills and failing statements | `MCConsole`, `StartupProofs` |
| `Throughput` | the chart over MySQL's and Go's clocks | `MCConsole` |
| `EngineProofs` | what each statement does to a row, as lemmas; types, tracked claims, drain | `EngineQueueProofs` |
| `JobQueueProofs` | what the abstract queue promises | `EngineQueueProofs` |
| `EngineQueueProofs` | who holds a task; the refinement of `JobQueue` and what follows from it; the deployment in which the watchdog never acts | `ConsoleProofs` |
| `FeedProofs`, `StartupProofs` | theorems about the module of that name | `ConsoleProofs` |
| `ConsoleProofs` | theorems about `Registry`, `Throughput`, `Requests`, and about all parts of `MCConsole` together | |
| `SchedulerProofs`, `RateLimiterProofs` | theorems about the module of that name | |
| `MC*` and `.cfg` | TLC instances | |

`Engine` composes five components over the queue. `Scheduler` and `RateLimiter` look closer at points `Engine` leaves open, on an environment small enough for that: which client is served, overlapping passes, and whether a submission is let through.

### TaskService

A table is a function from ids to rows, so an `UPDATE` that matches nothing changes nothing, as in the code. Each operator is one statement or one transaction. Columns no statement reads back are left out. `started_at` is `NULL`, `"fresh"` or `"stale"` (older than now minus timeout), because `started_at < cutoff` is the only comparison made with it, and a `NULL` satisfies no comparison. `created_at` is what the clock of some backend says (`CreatedAt`), read once for a bulk insert and in no relation to the order of the ids or of earlier inserts: rows may appear anywhere in an order, and may tie. A row gets its id and becomes visible in one step; in MySQL the id is drawn at the `INSERT` and the row is visible from the `COMMIT` on, which the choice of `created_at` stands for where an order matters. A submitted `max_retries` of 0 becomes 3 (`Defaulted`), because GORM leaves a zero to the column's default. A `Snapshot` is the struct a goroutine keeps after a `SELECT`; `FailTask` decides on it, not on the row.

### Engine

| State | Code |
|---|---|
| `inst` | where `main()` is: `up`, `stopping` (the deferred stops up to `sched.Stop`), `draining` (`pool.Stop`), `stopped`, `crashed` |
| `pass` | the pass behind `isScheduling`: idle, in a claim transaction, or in `Submit` |
| `queue` | `Pool.queue` |
| `worker` | `process()`: picked, or running its handler |
| `sweep` | stale tasks the watchdog has read and not yet failed |
| `stops`, `faulted` | bounds on kills and shutdowns, and on failing statements (each kind once) |
| `reclaimed` | history variable: the ids a watchdog has failed; properties that hold only without a reclaim are stated on the others |

Decisions of the model:

* The claim is two steps, `SELECT ... FOR UPDATE SKIP LOCKED` and `UPDATE` with `COMMIT`. In between the row is locked: other claims skip it, other writes wait. InnoDB may lock more rows than the selected one while it scans; such a claim may pass over a row it could have had and leave it to a later pass, which none of the properties tells apart from a claim of another client first, so this is left out.
* `Shutdown` is one step for the end of the HTTP server, `wd.Stop` and the `cancel` of `sched.Stop`: each of them only takes away steps of this instance, and the steps that finish in between are steps that could have been taken before. An in-flight request is a request made before it.
* `Submit`'s second case (`ctx.Done`) cannot be ready, because `pool.Stop` cancels its context after the scheduler and all workers have ended.
* A handler succeeds or fails; a panic becomes an error in `runHandler`, so it is a failure.
* If the answer to `CompleteTask` or `FailTask` is lost after its commit, the worker logs and goes on as after a success: no separate action. If the statement itself fails, that is `RecordFails`.
* `ListenAndServe` failing ends the process with `os.Exit`, which is `Crash`.
* Bulk inserts of one row are `Create`.
* `Init` is all instances up with empty tables, the state after `POST /demo/clear`; where the seeded rows come from, and what becomes of those that say "running", is in `Startup`.
* `SlowHandlers = FALSE` is the deployment `config.go` asks for, a watchdog timeout "comfortably larger than the longest real task".

### Scheduler

A client is a number, its place in the order of `sort.Strings`, and its queue is a count. `pass` has one entry per goroutine a tick has started: `enter` (before the guard), `list`, `serve`, `submit`; `todo` is the rest of the round. Peers claim in two steps too, so that `ClientsWithPendingTasks` can list a client all of whose tasks are locked, which `DequeueTaskForClient` then reports as an empty queue. The pool is the number of tasks it can take before `Submit` blocks. A `select` that finds the context cancelled may still take the one tick the ticker's channel buffers (`loop = "late"`). The test of the context before a dequeue is part of the dequeue, since `cancel` commutes with everything between them. `overtaken` is a history variable.

### RateLimiter

Time is in ticks of Redis' clock; `Skew` is how far each instance's clock is ahead of it (only differences between instances matter, so the slowest is at 0). A request reads the clock in one step and has its script run in a later one, at most `MaxDelay` ticks later. The script is atomic, as Lua in Redis is. Its answer may be lost, after which go-redis may send the same command again, with the same members and any number of times, or give up; any error makes `rateLimited` admit the request. What is charged is charged before the insert; the insert is not part of the module. An expired key reads as an empty set. `Allow` and its script are called by nothing and equal `AllowN` with `n = 1`.

### JobQueue and EngineQueue

`JobQueue` is what somebody who submits tasks may rely on, with no instance, statement or channel in it; it stands for no code of its own. A job waits, is leased, and ends or waits again as its holder reports; leases can be lost without a word; a job that a watchdog fails in its holder's place is given up, and nothing is promised of it from then on (what goes wrong there is `double_run` and `dead_letter_alone`). `EngineQueue` maps the rows no watchdog has failed to jobs (`status`, `retry_count`, `max_retries`) and every place in a process's memory to a lease: a pass past its commit, the channel, a worker. `ImplementsJobQueue` then says that a claim never takes a row somebody holds, that `RequeueOrphanedTasks` at a startup touches no row a live process holds, that a failure counts one attempt on the row's own budget although it is decided on a copy, and that an ended row stays as it is unless it was cancelled under its holder.

### Requests

It extends `Engine`; between any two statements of a request every process takes any number of steps.

* `CancelTask`: the guarded `UPDATE` and, after it, a `SELECT` for the answer. When the row was not updated the same `SELECT` decides between 404 and 409, so a task inserted between the two is answered 409 although it could be cancelled. `UnheldCancelAnswer` is about the row of which nobody had a copy at the `UPDATE`, no instance that claimed it and no sweep that read it as stale: 200 then says "cancelled", also of a task that watchdogs have failed before. With a copy about, the row can be overwritten between the two statements; that is what the code does.
* `ListTasks`: COUNT, then SELECT of a page, page after page until the dashboard's "next" is disabled. `WalkMissesNothing` is about the rows that are in the table from the first page to the last. It excepts two cases in which the code does lose rows: ties (the rows of one batch share a `created_at`, the only column of the default order, and those of two backends may, so MySQL may order them differently for each page), and an insert between the COUNT and the SELECT of the last page, which may move an old row to a page the response says is not there. The latter is excepted whatever the order: a new row may come before old ones in every one of them.
* `bench/main.go`: clear, inject, poll, each request failing or not. `DrainVerdict` says that "drained" is reported only when every row has ended and no instance holds one of them, although tasks from before the clear are still being executed and written back. It is checked where no task is cancelled, no instance is killed, no handler outlasts the timeout, every outcome is recorded and nobody else submits; a task cancelled under its worker, for one, has ended although it is still held. A request that ran into the client's timeout is executed at once or never.

### Feed

`writer` and `pub[p].pc` are Go's `RWMutex`: one writer at a time, a waiting writer keeps new readers out, `Unlock` lets in all that wait. The range loop takes a subscriber out of the map in one step (`Pick`) and sends to it in another (`Send`), and `Unsubscribe` closes the channel two steps after its request for the lock, so `NoSendOnClosed` depends on the lock and not on the grain of the model. `PublishTaskEvent` runs outside the `recover` of `runHandler`: a send on a closed channel would end the process. `published` counts a worker's events, `owed` is a history variable. A worker publishes "failed" also when the task goes back to wait; what an event says is left out.

### Registry, Startup, Throughput

`Registry` counts seconds. A Set blocks the loop for any number of them (`redis.go:17-21` leaves go-redis its timeouts and resends, together longer than the TTL); Redis executes it once, several times or not before it is answered, an error does not tell which, and one that was given up may be executed later (`lateSet`), after a restart or a Del too. While the loop is in `publish()` its ticker fires once into a channel of one. A Del may fail, and may be executed later (`lateDel`), when the instance runs again. Of each, one is outstanding at a time. So a live instance can leave the panel, and `LiveIsListed` says when it cannot: as long as the heartbeats since the last executed Set have cost less than the TTL, each its period or, if longer, the time of its command. With 2 s and 6 s, one heartbeat may fail at once and the next be executed within 2 s. `heard` says that Redis has executed a Set since the start and since the last Del. `StoppedIsUnlisted` excepts the Set that the loop gave up before the Del and that Redis executes after it (`revived`), and nothing else. `main()` deletes the key before it drains the pool: a draining instance still runs tasks and is no longer on the panel. `AllInstances` reads KEYS and then each key; a key that is there throughout is listed and a listed one was there at its GET, so a set of keys stands for the list.

`Startup` has one action per statement of `AutoMigrate` and `Seed`, so two starts can interleave at each; what keeps them apart is only the order of `docker-compose.yml`. Every statement may fail, which ends the start (`StartFails`). A kill or a failing insert between the keys and the samples leaves a database that every later start takes for seeded (`cut`). A failing `RequeueOrphanedTasks` is only logged: the instance serves, and the samples that say "running" stay until a watchdog's sweep fails them (`ServeUnrecovered`, `SweepOrphans`).

`Throughput` reads MySQL's clock for the `WHERE` and Go's afterwards for the buckets; `completed_at` is stamped before its `UPDATE` commits. Backends and the MySQL session have the same time zone (an assumption; the conversions `UNIX_TIMESTAMP` and `parseTime` are made in different places). As in the code, the window is as long as the buckets together. `ChartIsComplete` holds for clocks one second apart and fails for two seconds.

## 3. Runs

| Run | Instance | Checks | States |
|---|---|---|---|
| `faults` | 1 task, 2 instances, 1 worker each, 1 retry, slow handlers, cancel, clear, 1 kill or shutdown, every fault once | the nine safety properties of `Engine`, `ImplementsJobQueue` | 606,917 |
| `fleet` | 2 tasks, 2 clients, 2 priorities, 2 instances, bulk inserts, 1 kill or shutdown | types, `StopLeavesNothingRunning`, `ImplementsJobQueue` with competition for claims | 1,126,210 |
| `restart` | 1 instance, 3 tasks, 2 stops, a lost outcome | `EveryTaskSettles` and `ShutdownTerminates` when stopped processes are started again | 93,626 |
| `rescue` | 2 instances, one of which may die for good | `StartedTaskIsRescued` | 352,735 |
| `rounds` | 2 clients, quantum 2, 1 peer, 2 overlapping passes, pool of 1, 2 pending each, 1 fault, stop at any time | guard, credit, overtaking, starvation, stop | 297,360 |
| `limit` | 3 requests of 1 to 3 tasks, 2 instances one tick apart, window 4, delay 1, limit 2 | window, denials, size | 6.1 M |
| `console` | the parts below, one per behaviour | the properties of `Feed`, `Startup`, `Registry`, `Requests`, `Throughput` | 380,151 |

The parts of `console` do not interact, so `MCConsole` chooses one at the beginning (`part`) and lets the others rest: the feed with 2 workers, 2 connections of one client, events of two clients, 3 in all, a buffer of 2 (141,244 states); the start of 3 instances with 2 kills and any number of failing statements (2,822); one instance's heartbeats with 2 kills or signals (37,479); a cancel around 2 tasks, with a kill or a clear and a failing outcome (57,684); a walk over the pages by three queries while tasks are inserted, anywhere in the order, and started (111,581); a load test with one batch of two (16,164); and the chart with 2 tasks and 3 buckets of 2 seconds (13,177).

Five runs show a disagreement between the code and what the repository says of it; each finds the violation (findings in `PROJECT.json` quote the sentences):

* `lost_claim`: a peer killed after its claim and before `MarkStarted`, and not restarted, leaves a row that is `running` for ever, because `started_at` is `NULL` and `FindStaleRunningTasks` compares with it. "Every accepted task eventually completes or dead-letters" holds only if the same instance id comes back (`restart`) or the handler had begun (`rescue`).
* `double_run`: a restart between a watchdog's `SELECT` and its unguarded `UPDATE` puts a task that runs again back into the queue; two workers run it. `SKIP LOCKED` does not exclude it, and no handler exceeds the timeout.
* `cancel_overwritten`: a cancelled task that is held by a worker leaves the terminal state.
* `dead_letter_alone`: a late `CompleteTask` makes a dead-lettered row `completed`.
* `outage`: without Redis there is no limit at all, not a per-instance one.

### The properties

`Engine`, invariants: `ClaimIsTracked` (zero loss: a row running for an instance that was not killed is on its way to a handler there, or visible to every watchdog; the database faults that break it are named in it), `StopLeavesNothingRunning` (graceful drain), `ExclusiveClaim`, `DeadLetterOnce`, `RetryBudgetKept` (also of copies still to be written back), `CompletedAtIffTerminal`. Action properties: `OutcomeIsFinal` and `RetryCountMonotone` (both of tasks no watchdog has failed; of the others a late write may revive an outcome or set the count back), `UnheldCancelIsFinal` (a cancelled row of which no instance and no sweep has a copy stays cancelled and gets no holder, whether or not watchdogs have failed the task). Liveness: `EveryTaskSettles`, `StartedTaskIsRescued`, `ShutdownTerminates`.

`Scheduler`: `OnePassAtATime`, `StopIsQuiescent`, `NoHoarding` (credit is at most one quantum in a round and none between rounds, one quantum more for each failed dequeue: the error path keeps the credit), `BoundedOvertaking` (two quanta, not one: a client may become active just after a round has listed the others, and then waits through the rest of it and through a turn of the next one; one quantum is violated), `NoStarvation`, `StopTerminates`.

`Engine` against `JobQueue`: `ImplementsJobQueue`.

`Feed`: `NoSendOnClosed`, `OwnEventsInOrder`, `LostOnlyWhenBehind` (a stream that has lost an event still has a full buffer of earlier ones to read, so it is never left with nothing to wake it), `PublishEnds`, `StreamEnds`. `Startup`: `SeededBeforeServing` (schema and keys always; samples unless some start ended between the two inserts; no orphans unless backend-1's last recovery failed). `Registry`: `LiveIsListed`, `StoppedIsUnlisted`, `GhostsFade`. `Requests`: `UnheldCancelAnswer`, `WalkMissesNothing`, `DrainVerdict`. `Throughput`: `ChartIsComplete`.

`RateLimiter`: `SlidingWindow` (the promised limit holds for a window shortened by clock difference plus delay, and not for one a tick longer), `DenialIsDeserved` (a denied request really was over the limit of a window lengthened by as much, counting what was admitted in it and those of its requests that lost an answer, which may have been charged whatever the client was told; a denied request that lost an answer itself is excepted, it may meet its own charge), `LogIsBounded`.

### Bounds, and why they are enough

Holders of one task can be at most two instances, one of them restarted, and a watchdog; one task with two instances has them all, and a second client, priority and task adds the competition of claims (`fleet`). One retry gives both branches of `FailTask`. One worker with a channel of one makes the channel full at three tasks, which is what `restart` uses to block `Submit`. One kill or shutdown is enough for a claim to be orphaned, drained or requeued; `restart` and `rescue` allow two. Faults of the same kind do not help each other, so each occurs at most once. In `rounds`, quantum 2 with at most 2 pending tasks lets a turn end for either reason, and a pool of one blocks every second `Submit`. In `limit`, times 0 to 4 with a window of 4 and a clock one tick ahead let members fall out of it, a batch of three exceeds the limit of two by itself, and the tightness of `SlidingWindow` (one more tick violates it) shows that skew and delay both bite. In `console`, three events overfill a buffer of two while two workers, and so two readers of the lock, meet a subscription and a departure; three instances let two of them start together after the first; a TTL of three heartbeats is the code's, with commands of up to the TTL and longer (the count stops there, as nothing distinguishes longer ones); a page size of 2 cuts 3 tasks into two pages, with a size above the cap and one left to the default; and the chart's second 8 lies beyond its window. Three readings of the clock put a row before, between or with the others; where the order of the rows is of no account (`cancel`, `bench`, and one client's task in most runs of `Engine`) all tie, which leaves every order of claims open.

Symmetry is used for instances and clients in `faults` and `fleet`, and for requests in `limit` (no liveness property is checked there). Deadlock is not checked, since a system whose tasks are all settled, or that has been stopped, has nothing left to do under the bounds.

### Fairness

`Engine`: weak fairness of the scheduler, the watchdog, each worker, the passing of the timeout and the steps of a shutdown: tickers keep firing, `simulatedWork` always returns, and stops wait for goroutines that end. Clients, kills, signals and faults have none. Restarts are fair only in `RestartSpec`, for the claim about an instance whose operator starts it again under its `INSTANCE_ID`, the case startup recovery is written for (`docker-compose.yml` has no restart policy, so nothing in the repository guarantees it); `FairSpec` lets a dead process stay dead. Weak fairness of the scheduler's step is enough: a pass that is disabled because a peer has locked the row is enabled again when that transaction rolls back, and has nothing left to do when it commits.

`Feed`: weak fairness of publishers and of each connection's own steps, of a write to a connection whose client has gone (the kernel ends it), and strong fairness of noticing the cancelled context, because `select` chooses at random among ready cases and heartbeats and events compete with it. A connected client owes nothing: it may never read, and `PublishEnds` holds all the same. `Registry`: seconds pass, a command comes back some time, with an answer or an error (go-redis has a timeout and a number of resends, whatever they are), a waiting tick is taken, and a stop that has begun goes on; nobody is obliged to start a process, and late executions may never come.

`Scheduler`: weak fairness of ticks, of each goroutine, of workers ending their tasks, of the loop noticing the cancelled context, and of `Wait` returning. `RateLimiter` has no liveness property.

## 4. What is proved

All for every number of instances, workers, clients, tasks, peers, passes, requests and faults, and every value of the bounds, from the assumptions `TaskServiceAssumption`, `EngineAssumption`, `SchedulerAssumption`, `RateLimiterAssumption`, `FeedAssumption`, `StartupAssumption`, `RegistryAssumption`, `ThroughputAssumption` and `RequestsAssumption`. They give the types of the constants, finiteness and a channel of at least one. One of them also relates numbers, as the code's constants do: buckets that together fit into the chart's window up to the clock difference (30 buckets of 10 s, one second, 300 s). TLC evaluates all of them in the runs.

### The engine

`EngineProofs!TypeCorrect`, `ZeroLoss` (`ClaimIsTracked`), `CleanDrain` (`StopLeavesNothingRunning`). The lemmas at its beginning say for each statement which rows it touches and what becomes of their columns; one step per action of `Next` then follows the task from pass to channel (`SubmitKeeps`) to worker (`ReceiveKeeps`). Both invariants turn out to be inductive with `TypeOK` alone, because they speak of one row and the memory of one instance, and because `Exit` requires an empty channel and idle workers while `ClosePool` requires an idle pass.

`EngineQueueProofs` proves the properties of several instances: `ClaimsAreExclusive` (`ExclusiveClaim`), `DeadLettersAreUnique` (`DeadLetterOnce`), `BudgetIsKept` (`RetryBudgetKept`), `CompletionIsStamped` (`CompletedAtIffTerminal`), the action properties `OutcomesAreFinal`, `UnheldCancelsAreFinal` and `RetriesAreCounted` (`RetryCountMonotone`; the first and the last of tasks no watchdog has failed), and the refinement `EngineImplementsQueue` (`ImplementsJobQueue`). None of these is inductive: whether a second claim is possible depends on the status of the row, which depends on what the first holder writes, which it decides on a copy. The invariant `ClaimInv` says what a copy knows about its row:

| Conjunct | Why it is needed |
|---|---|
| `ClaimsAreLocked` | a row between `SELECT ... FOR UPDATE` and `COMMIT` is pending, as read, and claimed once; so the commit moves a pending row |
| `HeldRowsAreCurrent` | a held task no watchdog has failed runs on behalf of its holder (or was cancelled under it), has as many retries as its copy and no dead letter; so nobody holds a pending task, and a report writes what an up-to-date copy would |
| `CopiesAreInBudget`, `RowsAreInBudget` | every copy, stale ones included, is of a row with the same `max_retries` and within it; so `FailTask` never exceeds the budget |
| `DownHoldsNothing` | a process that is down holds nothing; so the rows startup recovery requeues are nobody's |
| `FreshIdsAreClean` | an id not given out yet was neither swept nor dead-lettered; so a new row starts clean |
| `ExclusiveClaim`, `DeadLetterOnce`, `CompletedAtIffTerminal`, `TypeOK` | the properties themselves |

Two lemmas carry the rest: `MemoryCases` (every step moves the copies in one of nine ways) and `RowStep` (every step does one of nine things to a row, and to which copy that is due). Each conjunct, and each action property, is then a case analysis over these instead of over all actions. For the refinement, each action gets a lemma that names the step of `JobQueue` it is (`EnqueueStep`, `LeaseStep`, `SucceedStep`, `GiveBackStep`, `LoseStep`, `WithdrawStep`, `GiveUpStep`, `RecoverStep`, `DeleteAllStep`) or that it is a stutter (`SilentStep`). Before the proof TLC checked `ClaimInv` on the instance of `faults` (606,917 states) and on one with two tasks, two clients, cancels, clears and a lost commit (163,534 states), with copies of at most three retries.

**What the abstract queue promises.** `JobQueueProofs` proves of `JobQueue` alone that a held job is neither on offer nor ended, unless it was cancelled under its holder, and that a job fails exactly when its attempts are spent (`QueueIsSafe`); and that ended jobs stay as they are, attempts are counted only when a holder gives the job back, and a deleted or given-up job never returns (`QueueGoesOn`). These proofs know nothing of statements, instances or faults. The refinement (`EngineIsQueue`) makes them theorems of the engine: `FailuresAreExhausted`, a row no watchdog has failed is `failed` only with `retry_count = max_retries`, however many startups requeued it; and `AttemptsAreReported`, its `retry_count` changes only as its holder reports a failure and lets it go. (`RetryCountMonotone` says that no failure is forgotten, this one that nothing else is taken for one.) Proving `QueueIsSafe` showed a gap in `JobQueue`: `Enqueue` asked only for `next' > next`, and outside the numbers that says nothing, so that ids could have been given out twice; it now says that `next'` is a number. TLC checked both formulas on the engine beforehand, on the instance of `faults`.

**Without a reclaim.** Except for the budget, `completed_at` and `UnheldCancelsAreFinal`, all this is promised of tasks no watchdog has failed; of the others the contrary is shown by `double_run` and `dead_letter_alone`. The last part of the module says when there are no others. If no handler outlasts the timeout (`config.go:39-40`), nobody is killed and every outcome is recorded, then no sweep ever finds a task (`WatchdogStaysAtRest`), through graceful restarts, cancels, clears, lost commits and every other failed statement; so no task runs twice at once (`NoTaskRunsTwice`, the sentence of `docs/BENCHMARKS.md` that `double_run` refutes) and, if nothing is cleared either, a task is failed exactly if it has a dead letter (`BothOrNeither`, the sentence of `task_service.go:402-403` that `dead_letter_alone` refutes; a task that is deleted under its holder can still be dead-lettered). So neither finding can occur unless one of these conditions is broken. The invariant is `WatchdogRests`: nothing was reclaimed, no sweep has a list, a pending row has no `started_at` (every statement that puts a row back clears it), and a running row has one only while a live worker runs its handler, and then a fresh one. `TimeoutElapses` then has no row to age. TLC checked it on 2 instances with 2 tasks, 2 graceful stops, cancels, clears and all faults but `record` (269,446 states).

### The scheduler

`TypeCorrect`, `Exclusion`, `QuiescentStop`, `BoundedCredit` and `OvertakingIsLimited` (`BoundedOvertaking`). The invariant `Inv` adds to the types and to `OnePassAtATime`: `WaitGroupCounts` (`wg` is the number of goroutines alive, plus one for the loop; needed for `wg = 0` to mean anything), `TurnHasCredit` (the client whose turn it is has a positive deficit; needed for `deficits` to stay natural after `--`), and `CreditOfClients` (the bound of `NoHoarding` refined to who has the turn).

For the overtaking, `OvertakingInv` is a potential: what client d has overtaken c by, plus what d can still claim in this turn or round (its credit, `Claimable`), plus one more quantum if c has still to come and d could come again before it (`Ahead`), is at most two quanta, and one more quantum for each failed statement, since the error path keeps the credit. Serving d moves one unit from the second term to the first; a new round can only begin after c's turn, in which c is served or has nothing to claim; and the lists of clients are sorted, so c's place in a round does not depend on the others. TLC checked it on the instance of `rounds` (297,360 states) and on one with three clients, quantum 1 and two faults (1,071,468).

### The rate limiter

`BoundedLog`: the log stays finite and within `max` through pruning, expiry, admission and a script that runs again for one request, however often. `LimitPerWindow` (`SlidingWindow`) and `DenialsAreDeserved` (`DenialIsDeserved`), both with any number of resends, need the invariant `WindowInv`: a request under way has read its clock at most `MaxDelay` ticks ago (`InFlight`), what was decided was decided at a time that is at most skew and delay away from the true one (`Decided`), a key expires only after all its members are outside every window (`ExpiryIsLate`), whatever was charged and is recent by any instance's clock is still in the log (`RecentIsLogged`), and the log holds nothing else (`LogIsOwed`). An admission then sees at least what was charged in the shortened window and a denial at most what was charged in the lengthened one. TLC checked `WindowInv` on the instance of `limit` (6,128,897 states). `SlidingWindow` speaks of the window less difference and delay: with a window shorter than those it promises nothing, which is as it must be.

### What clients and dashboards are told

* `FeedProofs!SafeClose` (`NoSendOnClosed`), `OwnFeed` (`OwnEventsInOrder`), `DropsOnlyBehind` (`LostOnlyWhenBehind`). The invariant of the first is what the lock is for: a worker that is about to send holds the read lock, and the subscriber it took out of the map is still in it (`HeldSubscriber`); a subscriber in the map has not been closed (`Subscribed`). For the order, `Fresh` adds that an event in a channel is older than the one its worker is publishing if that one has still to go to this channel.
* `ConsoleProofs!LiveStaysListed` (`LiveIsListed`), `StoppedLeavesPanel` (`StoppedIsUnlisted`), for any period, TTL and duration of commands. What is left of a key's time to live and what the heartbeats since the last executed Set have cost make up the whole of it; between two heartbeats the last one has been charged for up to the next tick (`KeyIsRecent`, on `SendingIsRecent`: a command under way was sent at the last tick, unless one is waiting). And a stop that has deleted the key has joined the loop, so that only a Set given up before can set it again (`DeletedIsSilent`).
* `ConsoleProofs!ChartIsWhole` (`ChartIsComplete`). What the `SELECT` returned is exactly the committed rows of the window at a second that is at most the clock difference ahead (`SelectedIsExact`); the first bucket of the timeline begins within that window (`FirstBucket`, where the assumption on the constants is used), so no bucket is cut.
* `ConsoleProofs!CancelsAreAnswered` (`UnheldCancelAnswer`). The statements of a request write tables that no action of `Engine` needs to have written, so the first part shows that they keep `ClaimInv` (`RequestWrite`, `ClaimInvRequest`). Between the `UPDATE` and the `SELECT` the task is then `OutOfReach`: nobody has a copy and its row is cancelled or gone for good, which no step changes, because a claim takes pending rows, recovery and sweeps look for running ones, a report needs a copy, and ids are not given out twice. `UnheldCancelsAreFinal` is the same argument about the engine alone.
* `ConsoleProofs!WalksAreComplete` (`WalkMissesNothing`). A row that is there from the beginning and is on no page yet has at least as many rows before it as the earlier pages hold (`UnseenIsAhead`): rows are only deleted all at once, no statement sets the columns that order them (`TableGoesOn`, one step per action), so the rows before it can only become more (`BeforeGrows`), and a page takes the next ones in order (`PageFacts`, a counting argument on finite sets). Behind the last page lies nothing that was counted (`LastPage`). That a new row does not push it there is the condition of the property: at the last SELECT there were no more rows than at its COUNT. Nothing is assumed of where in the order new rows come.
* `StartupProofs!OrderedStart` (`SeededBeforeServing`). The invariant says what each point of a start has found in the database (`Reached`), that until the first instance is healthy no other one has run (`FirstAlone`), that keys without samples mean a start that ended between the inserts or one that is about to make them, and that orphans outlive a start of backend-1 only if its recovery failed (`SeedState`).
* `ConsoleProofs!DrainedWhenReported` and `DrainedInTheRun` (`DrainVerdict`), of a load test during which nobody cancels, no handler outlasts the timeout, nobody is killed and every outcome is recorded. The first conditions the behaviour of `Requests`, the second is the run's own specification, in which the load test is alone. Each condition is needed: a task cancelled under its holder has ended for `GetSummary` while its handler runs on, and of a task that a watchdog has failed (which takes a late handler, a kill or an unrecorded outcome) one holder can end the row while another still has it. The invariant `DrainInv` adds to `ClaimInv` that the watchdog rests (as above), that no row is cancelled (`NoneCancelled`), and that as long as every request was obeyed the table holds at most what was injected (`OnlyItsRows`). A task somebody holds is then a running row, so a poll that counts none in flight has nobody holding one. The poll adds up five counts and compares the sum with a number; that the sum counts no row twice is `CountsAreRows`, an argument on finite sets, and with `OnlyItsRows` it leaves no room for a missing row.
* `ConsoleProofs!ConsoleTypes` (`ConsoleTypeOK`) joins the type invariants (through `PartsOfTheRun`: the steps of the composition are steps of its parts), those of `Requests` from the invariants of the cancel and of the walk, and that of `Feed` with bounds of its own (`FeedBounds`).

TLC checked the invariants of `StartupProofs` and of the parts of `ConsoleProofs` (`RegistryInv`, `ClaimInv`, `UpdatedIsOutOfReach`, `WalkFacts`, and those of the load test) on the instance of `console` (380,151 states).

### Only model-checked

The liveness properties `EveryTaskSettles`, `StartedTaskIsRescued`, `ShutdownTerminates`, `NoStarvation`, `StopTerminates`, `PublishEnds`, `StreamEnds` and `GhostsFade`: fairness and `ENABLED` are outside this prover. Every safety and action property of a passing run is a theorem.

## 5. Mutants

Every property of a passing run has at least one definition, next to the original and marked `\* mutant`, that changes it as a plausible slip in the code would (a dropped guard, a missing reset, a forgotten `WHERE`), and under which TLC finds that property violated. They are used nowhere in the specifications.

## 6. Hazards

`PROJECT.json` lists what a test of this code would hardly reach, with the line where it bites and the properties that watch it. Four have no property: tokens charged for an insert that then fails; time zones that differ between the backends and MySQL; a batch above the rate limit, which is always denied by the definition of the limit (the run `limit` has such batches); and a submitted `max_retries` of 0, which becomes 3 (`task.go:36`) although `task_service.go:55` says it is taken as given. Two are covered in part, as their notes say: a stale sweep entry that overwrites a row which has ended, and a `retry_count` that two holders set back. Both are what the code does.

## 7. Not modelled, and why

* Configuration, connections, logging: set-up of drivers; the values are constants here.
* Authentication and routing: stateless; a request that reaches a handler has the client id of an active key, which is how `Engine` chooses inputs. Error mapping is modelled where a client acts on it, in the answer of a cancel.
* Dashboard: it keeps no state of the system; what it asks for is in the inputs of `Requests` and `Feed`.
* The other analytics (averages, success rate, breakdown by type): one aggregate query each, which nothing acts on.
* The worker states on the panel (`setBusy`, `setIdle`): values under one mutex that nothing acts on.
* `srv.Shutdown` waits up to ten seconds for open requests, and an open event stream keeps it waiting; that duration is not modelled, and the steps after it are the same.
* The content of tasks, events and answers, and the order of timestamps of a task run twice (a second holder's late `MarkStarted` can put `started_at` after `completed_at`).

## 8. Plan

Done: the queue and its processes, the scheduler's rounds, the rate limiter, the hub, the registry, start-up, requests of several statements, the chart, the abstract queue with its refinement and its own promises, and a theorem for every safety and action property of a passing run. What could follow:

1. The charge of the limiter together with the insert it pays for: tokens charged for an insert that fails are the one partial failure of section 6 no property watches.
2. The instance's scheduler inside the engine: `Engine` leaves the choice of the client open, so that `Scheduler` is compatible with it is read off the code and not proved.
