------------------------------- MODULE Engine -------------------------------
(***************************************************************************)
(* The execution engine: N backend processes that share one database, each *)
(* with a scheduler pass, a bounded channel, worker goroutines and a       *)
(* watchdog (backend/main.go, scheduler, worker and watchdog packages),    *)
(* over the statements of module TaskService.                              *)
(*                                                                         *)
(* What runs in one step.  One SQL statement or transaction with the local *)
(* work around it; the claim transaction is split in two, SELECT and       *)
(* UPDATE+COMMIT, so that row locks and SKIP LOCKED matter.  Everything an *)
(* instance has read and not yet written back is state here (pass, queue,  *)
(* worker, sweep), so every interleaving of stale reads and late writes is *)
(* explored.                                                               *)
(*                                                                         *)
(* Abstraction.  Which client a pass serves next is left open here (any    *)
(* client with pending work): the deficits are the subject of module      *)
(* Scheduler.  A handler's outcome is open: it succeeds, or it fails or    *)
(* panics, which runHandler turns into an error.                           *)
(*                                                                         *)
(* Time.  started_at goes from "fresh" to "stale" when the watchdog's      *)
(* timeout has passed.  SlowHandlers = FALSE is the deployment the code    *)
(* asks for (config.go: the timeout is "comfortably larger than the        *)
(* longest real task"): no row goes stale while a live worker runs it.     *)
(* With SlowHandlers = TRUE it may.                                        *)
(***************************************************************************)
EXTENDS TaskService, FiniteSets

CONSTANTS
    Workers,       \* the worker goroutines of an instance
    NumWorkers,    \* their number, also the capacity of the pool's channel
    MaxBatch,      \* bound: rows in one bulk insert
    SlowHandlers,  \* may a handler outlive the watchdog's timeout?
    Crashable,     \* the instances that may be killed
    Stoppable,     \* the instances that may get a SIGTERM
    MaxStops,      \* bound: kills and shutdowns in a behaviour
    FaultPoints,   \* the statements that may fail, each at most once in a behaviour
    Cancels,       \* do clients cancel tasks in this instance of the model?
    Clears         \* is POST /demo/clear used?

FaultKinds == {"claim", "commit", "mark", "record", "recover", "requeue"}

ASSUME EngineAssumption ==
    /\ NumWorkers \in Nat \ {0}
    /\ NumWorkers = Cardinality(Workers)
    /\ MaxBatch \in Nat
    /\ SlowHandlers \in BOOLEAN
    /\ Crashable \subseteq Instances
    /\ Stoppable \subseteq Instances
    /\ MaxStops \in Nat
    /\ FaultPoints \subseteq FaultKinds
    /\ Cancels \in BOOLEAN
    /\ Clears \in BOOLEAN

VARIABLES
    inst,      \* instance -> where main() is
    pass,      \* instance -> the scheduler pass, at most one by isScheduling
    queue,     \* instance -> Pool.queue, the buffered channel
    worker,    \* instance -> worker -> the state of process()
    sweep,     \* instance -> the watchdog's list of stale tasks not yet handled
    stops,     \* kills and shutdowns so far
    faulted,   \* the kinds of database fault that have happened
    reclaimed  \* history: the ids a watchdog has failed at least once

procVars == <<pass, queue, worker, sweep>>
vars == <<dbVars, inst, procVars, stops, faulted, reclaimed>>

InstState == {"up", "stopping", "draining", "stopped", "crashed"}

NoSnapshot == Null
IdlePass   == [pc |-> "idle", task |-> NoSnapshot]
IdleWorker == [pc |-> "idle", task |-> NoSnapshot]

(* Rows under an open claim transaction are locked: SKIP LOCKED steps over *)
(* them and any other UPDATE or DELETE of them waits.                      *)
Locked == {t \in DOMAIN tasks :
             \E i \in Instances : pass[i].pc = "claiming" /\ pass[i].task.id = t}

(* The HTTP server runs on an instance that is up; nginx picks any. *)
ApiUp == \E i \in Instances : inst[i] = "up"

Init ==
    /\ InitDB
    /\ inst = [i \in Instances |-> "up"]
    /\ pass = [i \in Instances |-> IdlePass]
    /\ queue = [i \in Instances |-> << >>]
    /\ worker = [i \in Instances |-> [w \in Workers |-> IdleWorker]]
    /\ sweep = [i \in Instances |-> {}]
    /\ stops = 0
    /\ faulted = {}
    /\ reclaimed = {}

-----------------------------------------------------------------------------
(* Clients, through the task controller. *)

Create ==
    /\ ApiUp
    /\ \E in \in Input : CreateTask(in)
    /\ UNCHANGED <<inst, procVars, stops, faulted, reclaimed>>

CreateBatch ==
    /\ ApiUp
    /\ \E n \in 2..MaxBatch : \E ins \in [1..n -> Input] : BatchCreateTasks(ins)
    /\ UNCHANGED <<inst, procVars, stops, faulted, reclaimed>>

SeedDemo ==
    /\ ApiUp
    /\ \E n \in 2..MaxBatch : \E ins \in [1..n -> Input] : AddDemoTasks(ins)
    /\ UNCHANGED <<inst, procVars, stops, faulted, reclaimed>>

Cancel(c, t) ==
    /\ Cancels
    /\ ApiUp
    /\ t \notin Locked
    /\ CancelTask(c, t)
    /\ UNCHANGED <<inst, procVars, stops, faulted, reclaimed>>

ClearDemo ==
    /\ Clears
    /\ ApiUp
    /\ Locked = {}
    /\ ClearAllData
    /\ UNCHANGED <<inst, procVars, stops, faulted, reclaimed>>

-----------------------------------------------------------------------------
(* The scheduler's pass. *)

(* scheduleOnce: not shutting down, and the SELECT of the claim finds a row. *)
Dequeue(i) ==
    /\ inst[i] = "up"
    /\ pass[i].pc = "idle"
    /\ \E c \in Clients : \E t \in NextPending(c, Locked) :
          pass' = [pass EXCEPT ![i] = [pc |-> "claiming", task |-> SnapshotOf(t)]]
    /\ UNCHANGED <<dbVars, inst, queue, worker, sweep, stops, faulted, reclaimed>>

(* The UPDATE and the COMMIT. *)
DequeueCommit(i) ==
    /\ pass[i].pc = "claiming"
    /\ Claim(pass[i].task.id, i)
    /\ pass' = [pass EXCEPT ![i].pc = "submitting"]
    /\ UNCHANGED <<inst, queue, worker, sweep, stops, faulted, reclaimed>>

(* A statement of the claim fails: the transaction rolls back, the pass    *)
(* logs it and goes on with the next client.                               *)
DequeueRollsBack(i) ==
    /\ "claim" \in FaultPoints \ faulted
    /\ pass[i].pc = "claiming"
    /\ pass' = [pass EXCEPT ![i] = IdlePass]
    /\ faulted' = faulted \cup {"claim"}
    /\ UNCHANGED <<dbVars, inst, queue, worker, sweep, stops, reclaimed>>

(* MySQL commits but the answer is lost: DequeueTaskForClient returns an   *)
(* error and the pass drops the task it has just claimed.                  *)
DequeueCommitUnacknowledged(i) ==
    /\ "commit" \in FaultPoints \ faulted
    /\ pass[i].pc = "claiming"
    /\ Claim(pass[i].task.id, i)
    /\ pass' = [pass EXCEPT ![i] = IdlePass]
    /\ faulted' = faulted \cup {"commit"}
    /\ UNCHANGED <<inst, queue, worker, sweep, stops, reclaimed>>

\* mutant: a pass that is told to stop drops the task it has claimed
SubmitUnlessStopping(i) ==
    /\ pass[i].pc = "submitting"
    /\ Len(queue[i]) < NumWorkers
    /\ queue' = IF inst[i] = "up"
                  THEN [queue EXCEPT ![i] = Append(@, pass[i].task)]
                  ELSE queue
    /\ pass' = [pass EXCEPT ![i] = IdlePass]
    /\ UNCHANGED <<dbVars, inst, worker, sweep, stops, faulted, reclaimed>>

\* mutant: a send that does not wait for room in the channel
SubmitUnbounded(i) ==
    /\ pass[i].pc = "submitting"
    /\ queue' = [queue EXCEPT ![i] = Append(@, pass[i].task)]
    /\ pass' = [pass EXCEPT ![i] = IdlePass]
    /\ UNCHANGED <<dbVars, inst, worker, sweep, stops, faulted, reclaimed>>

(* Pool.Submit blocks while the channel is full.  Its other case, ctx.Done, *)
(* cannot be ready: Pool.Stop cancels the context after the scheduler and   *)
(* all workers have ended.                                                  *)
Submit(i) ==
    /\ pass[i].pc = "submitting"
    /\ Len(queue[i]) < NumWorkers
    /\ queue' = [queue EXCEPT ![i] = Append(@, pass[i].task)]
    /\ pass' = [pass EXCEPT ![i] = IdlePass]
    /\ UNCHANGED <<dbVars, inst, worker, sweep, stops, faulted, reclaimed>>

-----------------------------------------------------------------------------
(* A worker: for task := range queue { process(task) }. *)

\* mutant: a worker that watches the shutdown signal instead of draining
ReceiveWhileUp(i, w) ==
    /\ inst[i] = "up"
    /\ worker[i][w].pc = "idle"
    /\ queue[i] # << >>
    /\ worker' = [worker EXCEPT ![i][w] = [pc |-> "picked", task |-> Head(queue[i])]]
    /\ queue' = [queue EXCEPT ![i] = Tail(@)]
    /\ UNCHANGED <<dbVars, inst, pass, sweep, stops, faulted, reclaimed>>

Receive(i, w) ==
    /\ worker[i][w].pc = "idle"
    /\ queue[i] # << >>
    /\ worker' = [worker EXCEPT ![i][w] = [pc |-> "picked", task |-> Head(queue[i])]]
    /\ queue' = [queue EXCEPT ![i] = Tail(@)]
    /\ UNCHANGED <<dbVars, inst, pass, sweep, stops, faulted, reclaimed>>

\* mutant: the worker runs the handler without stamping started_at
StartUnstamped(i, w) ==
    /\ worker[i][w].pc = "picked"
    /\ worker[i][w].task.id \notin Locked
    /\ worker' = [worker EXCEPT ![i][w].pc = "running"]
    /\ UNCHANGED <<dbVars, inst, pass, queue, sweep, stops, faulted, reclaimed>>

Start(i, w) ==
    /\ worker[i][w].pc = "picked"
    /\ worker[i][w].task.id \notin Locked
    /\ MarkStarted(worker[i][w].task.id)
    /\ worker' = [worker EXCEPT ![i][w].pc = "running"]
    /\ UNCHANGED <<inst, pass, queue, sweep, stops, faulted, reclaimed>>

(* "mark started failed" is logged and the handler runs all the same. *)
StartUnmarked(i, w) ==
    /\ "mark" \in FaultPoints \ faulted
    /\ worker[i][w].pc = "picked"
    /\ worker' = [worker EXCEPT ![i][w].pc = "running"]
    /\ faulted' = faulted \cup {"mark"}
    /\ UNCHANGED <<dbVars, inst, pass, queue, sweep, stops, reclaimed>>

(* The handler returns nil and the worker records it. *)
Complete(i, w) ==
    /\ worker[i][w].pc = "running"
    /\ worker[i][w].task.id \notin Locked
    /\ CompleteTask(worker[i][w].task.id)
    /\ worker' = [worker EXCEPT ![i][w] = IdleWorker]
    /\ UNCHANGED <<inst, pass, queue, sweep, stops, faulted, reclaimed>>

(* The handler returns an error or panics. *)
Fail(i, w) ==
    /\ worker[i][w].pc = "running"
    /\ worker[i][w].task.id \notin Locked
    /\ FailTask(worker[i][w].task)
    /\ worker' = [worker EXCEPT ![i][w] = IdleWorker]
    /\ UNCHANGED <<inst, pass, queue, sweep, stops, faulted, reclaimed>>

(* Recording the outcome fails: it is logged and the worker moves on. *)
RecordFails(i, w) ==
    /\ "record" \in FaultPoints \ faulted
    /\ worker[i][w].pc = "running"
    /\ worker' = [worker EXCEPT ![i][w] = IdleWorker]
    /\ faulted' = faulted \cup {"record"}
    /\ UNCHANGED <<dbVars, inst, pass, queue, sweep, stops, reclaimed>>

-----------------------------------------------------------------------------
(* The watchdog. *)

RunsLive(t) == \E i \in Instances, w \in Workers :
                  worker[i][w].pc = "running" /\ worker[i][w].task.id = t

(* The timeout passes. *)
TimeoutElapses(t) ==
    /\ t \in DOMAIN tasks
    /\ tasks[t].status = "running"
    /\ tasks[t].started_at = "fresh"
    /\ SlowHandlers \/ ~RunsLive(t)
    /\ Updates({t}, [started_at |-> "stale"])
    /\ UNCHANGED <<dlq, nextId, inst, procVars, stops, faulted, reclaimed>>

\* mutant: a watchdog that looks at its own instance's rows only
SweepFindOwn(i) ==
    /\ inst[i] = "up"
    /\ sweep[i] = {}
    /\ {s \in FindStaleRunningTasks : tasks[s.id].processed_by = i} # {}
    /\ sweep' = [sweep EXCEPT ![i] =
                   {s \in FindStaleRunningTasks : tasks[s.id].processed_by = i}]
    /\ UNCHANGED <<dbVars, inst, pass, queue, worker, stops, faulted, reclaimed>>

(* sweep(): read the list of stale tasks ... *)
SweepFind(i) ==
    /\ inst[i] = "up"
    /\ sweep[i] = {}
    /\ FindStaleRunningTasks # {}
    /\ sweep' = [sweep EXCEPT ![i] = FindStaleRunningTasks]
    /\ UNCHANGED <<dbVars, inst, pass, queue, worker, stops, faulted, reclaimed>>

(* ... and fail them one by one, on the copies just read. *)
SweepFail(i) ==
    /\ inst[i] = "up"
    /\ \E s \in sweep[i] :
         /\ s.id \notin Locked
         /\ FailTask(s)
         /\ sweep' = [sweep EXCEPT ![i] = @ \ {s}]
         /\ reclaimed' = reclaimed \cup {s.id}
    /\ UNCHANGED <<inst, pass, queue, worker, stops, faulted>>

(* FailTask fails: it is logged and the sweep goes on with the next task. *)
RecoverFails(i) ==
    /\ "recover" \in FaultPoints \ faulted
    /\ inst[i] = "up"
    /\ \E s \in sweep[i] : sweep' = [sweep EXCEPT ![i] = @ \ {s}]
    /\ faulted' = faulted \cup {"recover"}
    /\ UNCHANGED <<dbVars, inst, pass, queue, worker, stops, reclaimed>>

-----------------------------------------------------------------------------
(* The life of a process. *)

(* kill -9: everything in memory is gone, an open transaction rolls back. *)
Crash(i) ==
    /\ i \in Crashable
    /\ inst[i] \in {"up", "stopping", "draining"}
    /\ stops < MaxStops
    /\ stops' = stops + 1
    /\ inst' = [inst EXCEPT ![i] = "crashed"]
    /\ pass' = [pass EXCEPT ![i] = IdlePass]
    /\ queue' = [queue EXCEPT ![i] = << >>]
    /\ worker' = [worker EXCEPT ![i] = [w \in Workers |-> IdleWorker]]
    /\ sweep' = [sweep EXCEPT ![i] = {}]
    /\ UNCHANGED <<dbVars, faulted, reclaimed>>

\* mutant: a restart without startup recovery
BootWithoutRecovery(i) ==
    /\ inst[i] \in {"stopped", "crashed"}
    /\ inst' = [inst EXCEPT ![i] = "up"]
    /\ UNCHANGED <<dbVars, procVars, stops, faulted, reclaimed>>

(* main(): startup recovery, then pool, scheduler and watchdog start. *)
Boot(i) ==
    /\ inst[i] \in {"stopped", "crashed"}
    /\ OrphansOf(i) \cap Locked = {}
    /\ RequeueOrphanedTasks(i)
    /\ inst' = [inst EXCEPT ![i] = "up"]
    /\ UNCHANGED <<procVars, stops, faulted, reclaimed>>

(* "requeue orphaned tasks" fails: it is logged and main() goes on. *)
BootUnrecovered(i) ==
    /\ "requeue" \in FaultPoints \ faulted
    /\ inst[i] \in {"stopped", "crashed"}
    /\ inst' = [inst EXCEPT ![i] = "up"]
    /\ faulted' = faulted \cup {"requeue"}
    /\ UNCHANGED <<dbVars, procVars, stops, reclaimed>>

(* SIGTERM: the HTTP server stops, then Watchdog.Stop (the rest of a sweep *)
(* is dropped) and the cancel() of Scheduler.Stop.  A pass ends before its *)
(* next dequeue, not before the Submit of a task it has claimed.           *)
Shutdown(i) ==
    /\ i \in Stoppable
    /\ inst[i] = "up"
    /\ stops < MaxStops
    /\ stops' = stops + 1
    /\ inst' = [inst EXCEPT ![i] = "stopping"]
    /\ sweep' = [sweep EXCEPT ![i] = {}]
    /\ UNCHANGED <<dbVars, pass, queue, worker, faulted, reclaimed>>

(* Scheduler.Stop has waited for the pass; Pool.Stop closes the channel. *)
ClosePool(i) ==
    /\ inst[i] = "stopping"
    /\ pass[i].pc = "idle"
    /\ inst' = [inst EXCEPT ![i] = "draining"]
    /\ UNCHANGED <<dbVars, procVars, stops, faulted, reclaimed>>

\* mutant: Stop waits for the workers' current tasks but not for the channel to drain
ExitWithoutDraining(i) ==
    /\ inst[i] = "draining"
    /\ \A w \in Workers : worker[i][w].pc = "idle"
    /\ inst' = [inst EXCEPT ![i] = "stopped"]
    /\ queue' = [queue EXCEPT ![i] = << >>]
    /\ UNCHANGED <<dbVars, pass, worker, sweep, stops, faulted, reclaimed>>

(* The workers have drained the channel and ended; main() returns. *)
Exit(i) ==
    /\ inst[i] = "draining"
    /\ queue[i] = << >>
    /\ \A w \in Workers : worker[i][w].pc = "idle"
    /\ inst' = [inst EXCEPT ![i] = "stopped"]
    /\ UNCHANGED <<dbVars, procVars, stops, faulted, reclaimed>>

-----------------------------------------------------------------------------
Api == Create \/ CreateBatch \/ SeedDemo \/ ClearDemo
       \/ \E c \in Clients, t \in TaskId : Cancel(c, t)

SchedulerStep(i) == Dequeue(i) \/ DequeueCommit(i) \/ Submit(i)

WorkerStep(i, w) == Receive(i, w) \/ Start(i, w) \/ Complete(i, w) \/ Fail(i, w)

WatchdogStep(i) == SweepFind(i) \/ SweepFail(i)

Stopping(i) == ClosePool(i) \/ Exit(i)

Faults == \E i \in Instances :
             \/ DequeueRollsBack(i)
             \/ DequeueCommitUnacknowledged(i)
             \/ RecoverFails(i)
             \/ BootUnrecovered(i)
             \/ Crash(i)
             \/ \E w \in Workers : StartUnmarked(i, w) \/ RecordFails(i, w)

Next ==
    \/ Api
    \/ \E i \in Instances :
         \/ SchedulerStep(i)
         \/ \E w \in Workers : WorkerStep(i, w)
         \/ WatchdogStep(i)
         \/ Boot(i)
         \/ Shutdown(i)
         \/ Stopping(i)
    \/ \E t \in TaskId : TimeoutElapses(t)
    \/ Faults

Spec == Init /\ [][Next]_vars

(* What the code's goroutines guarantee: tickers keep firing, so a pass and *)
(* a sweep that can do something eventually do; a worker that has a task   *)
(* goes on (simulatedWork always returns); time passes; a shutdown that    *)
(* can go on does.  Clients, kills, signals and faults owe nothing.        *)
Fairness ==
    /\ \A i \in Instances :
         /\ WF_vars(SchedulerStep(i))
         /\ WF_vars(WatchdogStep(i))
         /\ WF_vars(Stopping(i))
         /\ \A w \in Workers : WF_vars(WorkerStep(i, w))
    /\ \A t \in TaskId : WF_vars(TimeoutElapses(t))

(* A killed process may stay down for ever. *)
FairSpec == Spec /\ Fairness

(* The operator starts it again. *)
RestartSpec == FairSpec /\ \A i \in Instances : WF_vars(Boot(i))

-----------------------------------------------------------------------------
(* Where a claimed task can be in the memory of instance i. *)
InPass(i, t) == pass[i].pc = "submitting" /\ pass[i].task.id = t
InQueue(i, k, t) == k \in 1..Len(queue[i]) /\ queue[i][k].id = t
AtWorker(i, w, t) == worker[i][w].pc # "idle" /\ worker[i][w].task.id = t
Picked(i, w, t) == worker[i][w].pc = "picked" /\ worker[i][w].task.id = t

Waits(i, t) ==
    \/ InPass(i, t)
    \/ \E k \in 1..Len(queue[i]) : InQueue(i, k, t)

Holds(i, t) == Waits(i, t) \/ \E w \in Workers : AtWorker(i, w, t)

(* Does anybody have a copy of the row that may still be written back: an  *)
(* instance that has claimed it, or a sweep that has read it?              *)
Copied(t) == \E i \in Instances : Holds(i, t) \/ \E s \in sweep[i] : s.id = t

RunningBy(t, i) == /\ t \in DOMAIN tasks
                   /\ tasks[t].status = "running"
                   /\ tasks[t].processed_by = i

-----------------------------------------------------------------------------
PassState == {IdlePass} \cup [pc : {"claiming", "submitting"}, task : Snapshot]
WorkerState == {IdleWorker} \cup [pc : {"picked", "running"}, task : Snapshot]

(* Every variable has its type, and a channel holds at most NumWorkers     *)
(* tasks.                                                                  *)
TypeOK ==
    /\ DBTypeOK
    /\ inst \in [Instances -> InstState]
    /\ pass \in [Instances -> PassState]
    /\ queue \in [Instances -> Seq(Snapshot)]
    /\ \A i \in Instances : Len(queue[i]) <= NumWorkers
    /\ worker \in [Instances -> [Workers -> WorkerState]]
    /\ sweep \in [Instances -> SUBSET Snapshot]
    /\ stops \in 0..MaxStops
    /\ faulted \subseteq FaultPoints
    /\ reclaimed \subseteq TaskId

(* Zero loss, for live instances (task_service.go MarkStarted, pool.go      *)
(* process, scheduler.go Submit): a row that is running on behalf of an    *)
(* instance that has not been killed is either on its way to a handler in  *)
(* that instance's memory, or it has a started_at, and only then can       *)
(* FindStaleRunningTasks ever see it.  A lost COMMIT answer, a failed      *)
(* MarkStarted and a failed startup recovery are the database faults that  *)
(* break this; a failed claim, CompleteTask or FailTask is not.            *)
ClaimIsTracked ==
    faulted \subseteq {"claim", "record", "recover"} =>
      \A i \in Instances, t \in TaskId :
        RunningBy(t, i) /\ inst[i] # "crashed" =>
          \/ tasks[t].started_at # Null
          \/ Waits(i, t)
          \/ \E w \in Workers : Picked(i, w, t)

(* Graceful drain (pool.go Stop, scheduler.go Stop, the defer order of     *)
(* main.go): unless a COMMIT's answer was lost or an outcome or a startup  *)
(* recovery could not be written, a row is running on behalf of an         *)
(* instance that was not killed only while that instance holds the task;   *)
(* so an instance that has stopped leaves none behind.                     *)
StopLeavesNothingRunning ==
    faulted \subseteq {"claim", "mark", "recover"} =>
      \A i \in Instances, t \in TaskId :
        RunningBy(t, i) /\ inst[i] # "crashed" => Holds(i, t)

(* SKIP LOCKED (DequeueTaskForClient): a task that no watchdog has ever    *)
(* failed is held in at most one place of at most one instance, through    *)
(* kills, restarts, shutdowns, cancels and database faults.                *)
ExclusiveClaim ==
    \A t \in TaskId \ reclaimed : \A i, j \in Instances :
      /\ InPass(i, t) /\ InPass(j, t) => i = j
      /\ \A k \in 1..Len(queue[j]) : ~(InPass(i, t) /\ InQueue(j, k, t))
      /\ \A v \in Workers : ~(InPass(i, t) /\ AtWorker(j, v, t))
      /\ \A k \in 1..Len(queue[i]), l \in 1..Len(queue[j]) :
            InQueue(i, k, t) /\ InQueue(j, l, t) => i = j /\ k = l
      /\ \A k \in 1..Len(queue[i]), v \in Workers :
            ~(InQueue(i, k, t) /\ AtWorker(j, v, t))
      /\ \A w, v \in Workers :
            AtWorker(i, w, t) /\ AtWorker(j, v, t) => i = j /\ w = v

(* deadLetter's transaction: as long as no watchdog has failed the task,   *)
(* it has at most one row in the dead letter queue, and has one exactly    *)
(* when its own row says "failed".                                         *)
DeadLetterOnce ==
    \A t \in TaskId \ reclaimed :
      /\ dlq[t] <= 1
      /\ t \in DOMAIN tasks => (dlq[t] = 1 <=> tasks[t].status = "failed")

(* The fork of FailTask is on a copy of the row that may be stale, yet no  *)
(* row, and no copy that is still going to be written back, ever exceeds   *)
(* its budget of retries, reclaimed by a watchdog or not.                  *)
RetryBudgetKept ==
    /\ \A t \in DOMAIN tasks : tasks[t].retry_count <= tasks[t].max_retries
    /\ \A i \in Instances : \A s \in sweep[i] : s.retry_count <= s.max_retries

(* The data rule of FailTask, deadLetter, CompleteTask and CancelTask:     *)
(* completed_at is set exactly on the rows in a terminal state, whatever   *)
(* late writes have done to the row.                                       *)
CompletedAtIffTerminal ==
    \A t \in DOMAIN tasks : tasks[t].completed_at = "set" <=> tasks[t].status \in Terminal

-----------------------------------------------------------------------------
StatusAfter(t) == IF t \in DOMAIN tasks' THEN tasks'[t].status ELSE "deleted"

(* CompleteTask and deadLetter are final for a task no watchdog has failed: *)
(* nothing but ClearAllData touches the row any more, although the UPDATEs  *)
(* of the code would overwrite any status.                                  *)
OutcomeIsFinal ==
    [][\A t \in DOMAIN tasks \ reclaimed' :
         tasks[t].status \in {"completed", "failed"} =>
           StatusAfter(t) \in {tasks[t].status, "deleted"}]_vars

(* CancelTask is final once nobody has a copy of the row, neither a worker, *)
(* channel or pass that holds the task nor a sweep that has read it as     *)
(* stale and not yet failed it: then the row stays cancelled and nobody    *)
(* gets a copy again, a task that watchdogs have failed before included.   *)
(* While somebody has a copy, the cancel may be overwritten (see           *)
(* CancelledStaysCancelled).                                               *)
UnheldCancelIsFinal ==
    [][\A t \in DOMAIN tasks :
         tasks[t].status = "cancelled" /\ ~Copied(t) =>
           StatusAfter(t) \in {"cancelled", "deleted"} /\ ~Copied(t)']_vars

(* No failure is forgotten (FailTask writes its copy of retry_count plus   *)
(* one): retry_count never decreases on a task no watchdog has failed, and *)
(* startup recovery leaves it alone.                                       *)
RetryCountMonotone ==
    [][\A t \in (DOMAIN tasks \cap DOMAIN tasks') \ reclaimed' :
         tasks'[t].retry_count \in {tasks[t].retry_count, tasks[t].retry_count + 1}]_vars

-----------------------------------------------------------------------------
Settled(t) == t \in DOMAIN tasks => tasks[t].status \in Terminal

(* docs/INTERVIEW-NOTES.md: "every accepted task eventually completes or   *)
(* dead-letters" (or is cancelled, or cleared).                            *)
EveryTaskSettles == \A t \in TaskId : ~Settled(t) ~> Settled(t)

Started(t) == /\ t \in DOMAIN tasks
              /\ tasks[t].status = "running"
              /\ tasks[t].started_at # Null

(* The watchdog (FindStaleRunningTasks, sweep): a task whose handler had   *)
(* begun leaves "running" even if the process that ran it is killed and    *)
(* never comes back.                                                       *)
StartedTaskIsRescued == \A t \in TaskId : Started(t) ~> ~Started(t)

(* Scheduler.Stop and Pool.Stop: a shutdown comes to its end; the pass     *)
(* blocked in Submit, the full channel and the workers never wait for each *)
(* other for ever.                                                         *)
ShutdownTerminates ==
    \A i \in Instances : inst[i] = "stopping" ~> inst[i] \in {"stopped", "crashed"}

-----------------------------------------------------------------------------
(* What the repository says of the program and the code does not do.       *)

(* docs/BENCHMARKS.md: "no task is ever processed by two workers".         *)
NoTaskRunsTwiceAtOnce ==
    \A t \in TaskId : \A i, j \in Instances : \A w, v \in Workers :
      /\ worker[i][w].pc = "running" /\ worker[i][w].task.id = t
      /\ worker[j][v].pc = "running" /\ worker[j][v].task.id = t
      => i = j /\ w = v

(* task_service.go CancelTask: "terminal state: record when it ended".     *)
CancelledStaysCancelled ==
    [][\A t \in DOMAIN tasks :
         tasks[t].status = "cancelled" => StatusAfter(t) \in {"cancelled", "deleted"}]_vars

(* task_service.go deadLetter: "we never end up with one without the       *)
(* other".                                                                 *)
NeverOneWithoutTheOther ==
    \A t \in TaskId : dlq[t] > 0 <=> t \in DOMAIN tasks /\ tasks[t].status = "failed"
=============================================================================
