-------------------------- MODULE EngineQueueProofs --------------------------
(***************************************************************************)
(* Who holds a task, proved for any number of instances, workers, clients, *)
(* tasks, kills, shutdowns and faults: a claim is exclusive, stale copies  *)
(* agree with the row as long as no watchdog has failed the task, and the  *)
(* engine implements the abstract queue of module JobQueue.                *)
(*                                                                         *)
(* The argument.  Everything an instance has read and not yet written back *)
(* is a copy (struct models.Task).  ClaimInv says what a copy knows about  *)
(* the row it was read from.  MemoryCases lists how a step can move the    *)
(* copies and RowStep how it can change one row and who may do it; each    *)
(* conjunct of ClaimInv, each action property and each step of the         *)
(* refinement follows from these two.                                      *)
(***************************************************************************)
EXTENDS EngineQueue, EngineProofs

-----------------------------------------------------------------------------
(* The inductive invariant. *)

(* Instance i has the copy s of a row under its open claim transaction. *)
Claims(i, s) == pass[i].pc = "claiming" /\ pass[i].task = s

(* Instance i has committed the claim of copy s and not yet reported on it. *)
Holding(i, s) ==
    \/ pass[i].pc = "submitting" /\ pass[i].task = s
    \/ \E k \in 1..Len(queue[i]) : queue[i][k] = s
    \/ \E w \in Workers : worker[i][w].pc # "idle" /\ worker[i][w].task = s

(* A row under an open claim transaction is pending, as it was read, and   *)
(* no other transaction has it.                                            *)
ClaimsAreLocked ==
    \A i \in Instances, s \in Snapshot : Claims(i, s) =>
      /\ s.id \in DOMAIN tasks
      /\ tasks[s.id].status = "pending"
      /\ s = SnapshotOf(s.id)
      /\ \A j \in Instances : pass[j].pc = "claiming" /\ pass[j].task.id = s.id => j = i

(* A copy, stale or not, is of a row that was inserted, carries that row's *)
(* budget and is within it.                                                *)
CopiesAreInBudget ==
    \A i \in Instances, s \in Snapshot : Claims(i, s) \/ Holding(i, s) \/ s \in sweep[i] =>
      /\ s.id < nextId
      /\ s.retry_count <= s.max_retries
      /\ s.id \in DOMAIN tasks => s.max_retries = tasks[s.id].max_retries

(* No row exceeds its budget of retries. *)
RowsAreInBudget ==
    \A t \in DOMAIN tasks : tasks[t].retry_count <= tasks[t].max_retries

(* A held task that no watchdog has failed is not dead-lettered; its row,  *)
(* unless deleted, counts the attempts the copy counts, and runs on behalf *)
(* of the holder, unless it was cancelled under it.                        *)
HeldRowsAreCurrent ==
    \A i \in Instances, s \in Snapshot : Holding(i, s) /\ s.id \notin reclaimed =>
      /\ dlq[s.id] = 0
      /\ s.id \in DOMAIN tasks =>
           /\ s.retry_count = tasks[s.id].retry_count
           /\ \/ tasks[s.id].status = "running" /\ tasks[s.id].processed_by = i
              \/ tasks[s.id].status = "cancelled"

(* A process that is down holds nothing, so its orphans are nobody's. *)
DownHoldsNothing ==
    \A i \in Instances :
      /\ inst[i] \in {"draining", "stopped", "crashed"} => pass[i].pc = "idle"
      /\ inst[i] \in {"stopped", "crashed"} =>
           /\ queue[i] = << >>
           /\ \A w \in Workers : worker[i][w].pc = "idle"

(* An id that was never given out was neither dead-lettered nor swept. *)
FreshIdsAreClean ==
    \A t \in TaskId : nextId <= t => dlq[t] = 0 /\ t \notin reclaimed

ClaimInv ==
    /\ TypeOK
    /\ ClaimsAreLocked
    /\ CopiesAreInBudget
    /\ RowsAreInBudget
    /\ HeldRowsAreCurrent
    /\ DownHoldsNothing
    /\ FreshIdsAreClean
    /\ ExclusiveClaim
    /\ DeadLetterOnce
    /\ CompletedAtIffTerminal

-----------------------------------------------------------------------------
(* The copies in the memory of the instances. *)

(* What is in a place has the place's type. *)
LEMMA PlaceTypes ==
  ASSUME TypeOK, NEW i \in Instances
  PROVE  /\ pass[i].pc # "idle" => pass[i].task \in Snapshot
         /\ queue[i] \in Seq(Snapshot)
         /\ \A k \in 1..Len(queue[i]) : queue[i][k] \in Snapshot
         /\ \A w \in Workers : worker[i][w].pc # "idle" => worker[i][w].task \in Snapshot
<1>1. queue[i] \in Seq(Snapshot)
  BY DEF TypeOK
<1>2. \A k \in 1..Len(queue[i]) : queue[i][k] \in Snapshot
  BY <1>1
<1> QED BY <1>1, <1>2, HeldTypes

(* Holding a task is holding a copy of it. *)
LEMMA HoldsIsHolding ==
  ASSUME TypeOK, NEW i \in Instances, NEW t \in TaskId
  PROVE  Holds(i, t) <=> \E s \in Snapshot : s.id = t /\ Holding(i, s)
<1>1. ASSUME Holds(i, t) PROVE \E s \in Snapshot : s.id = t /\ Holding(i, s)
  <2>1. CASE InPass(i, t)
    BY <2>1, PlaceTypes DEF InPass, Holding
  <2>2. CASE \E k \in 1..Len(queue[i]) : InQueue(i, k, t)
    BY <2>2, PlaceTypes DEF InQueue, Holding
  <2>3. CASE \E w \in Workers : AtWorker(i, w, t)
    BY <2>3, PlaceTypes DEF AtWorker, Holding
  <2> QED BY <1>1, <2>1, <2>2, <2>3 DEF Holds, Waits
<1>2. ASSUME NEW s \in Snapshot, s.id = t, Holding(i, s) PROVE Holds(i, t)
  BY <1>2 DEF Holding, Holds, Waits, InPass, InQueue, AtWorker
<1> QED BY <1>1, <1>2

(* Every step that touches a pass, a channel or a worker is one of these. *)
PassDropped(i) ==
    /\ pass' = [pass EXCEPT ![i] = IdlePass]
    /\ UNCHANGED <<queue, worker>>

WorkerRuns(i, w) ==
    /\ worker[i][w].pc = "picked"
    /\ worker' = [worker EXCEPT ![i][w].pc = "running"]
    /\ UNCHANGED <<pass, queue>>

WorkerDone(i, w) ==
    /\ worker[i][w].pc = "running"
    /\ worker' = [worker EXCEPT ![i][w] = IdleWorker]
    /\ UNCHANGED <<pass, queue>>

LEMMA MemoryCases ==
  ASSUME [Next]_vars
  PROVE  \/ UNCHANGED <<pass, queue, worker>>
         \/ \E i \in Instances : \/ Dequeue(i)
                                 \/ DequeueCommit(i)
                                 \/ PassDropped(i)
                                 \/ Submit(i)
                                 \/ Crash(i)
         \/ \E i \in Instances, w \in Workers : \/ Receive(i, w)
                                                \/ WorkerRuns(i, w)
                                                \/ WorkerDone(i, w)
<1> DEFINE Same == UNCHANGED <<pass, queue, worker>>
<1> USE DEF procVars
<1>1. Api => Same
  BY DEF Api, Create, CreateBatch, SeedDemo, ClearDemo, Cancel
<1>2. ASSUME NEW i \in Instances, DequeueRollsBack(i) \/ DequeueCommitUnacknowledged(i)
      PROVE  PassDropped(i)
  BY <1>2 DEF DequeueRollsBack, DequeueCommitUnacknowledged, PassDropped
<1>3. ASSUME NEW i \in Instances, NEW w \in Workers, Start(i, w) \/ StartUnmarked(i, w)
      PROVE  WorkerRuns(i, w)
  BY <1>3 DEF Start, StartUnmarked, WorkerRuns
<1>4. ASSUME NEW i \in Instances, NEW w \in Workers,
             Complete(i, w) \/ Fail(i, w) \/ RecordFails(i, w)
      PROVE  WorkerDone(i, w)
  BY <1>4 DEF Complete, Fail, RecordFails, WorkerDone
<1>5. ASSUME NEW i \in Instances,
             \/ WatchdogStep(i) \/ Boot(i) \/ Shutdown(i) \/ Stopping(i)
             \/ RecoverFails(i) \/ BootUnrecovered(i)
      PROVE  Same
  BY <1>5 DEF WatchdogStep, SweepFind, SweepFail, Boot, Shutdown, Stopping, ClosePool, Exit,
              RecoverFails, BootUnrecovered
<1>6. ASSUME NEW t \in TaskId, TimeoutElapses(t) PROVE Same
  BY <1>6 DEF TimeoutElapses
<1>7. CASE UNCHANGED vars
  BY <1>7 DEF vars
<1> QED
  BY <1>1, <1>2, <1>3, <1>4, <1>5, <1>6, <1>7
     DEF Next, SchedulerStep, WorkerStep, Faults

(* Who holds a copy after a step held it before, or has just committed its *)
(* claim.                                                                  *)
LEMMA HoldingStep ==
  ASSUME TypeOK, [Next]_vars, NEW i \in Instances, NEW s, Holding(i, s)'
  PROVE  Holding(i, s) \/ (Claims(i, s) /\ DequeueCommit(i))
<1>1. CASE UNCHANGED <<pass, queue, worker>>
  BY <1>1 DEF Holding
<1>2. ASSUME NEW j \in Instances, Dequeue(j) PROVE Holding(i, s)
  BY <1>2 DEF Dequeue, Holding, TypeOK
<1>3. ASSUME NEW j \in Instances, DequeueCommit(j)
      PROVE  Holding(i, s) \/ (Claims(i, s) /\ DequeueCommit(i))
  <2>1. /\ pass[j] \in PassState /\ pass[j].pc = "claiming"
        /\ pass' = [pass EXCEPT ![j].pc = "submitting"]
        /\ UNCHANGED <<queue, worker>>
    BY <1>3 DEF DequeueCommit, TypeOK
  <2>2. pass'[j].task = pass[j].task
    BY <2>1 DEF TypeOK, PassState, IdlePass
  <2>3. i # j => pass'[i] = pass[i]
    BY <2>1 DEF TypeOK
  <2> QED BY <1>3, <2>1, <2>2, <2>3 DEF Holding, Claims
<1>4. ASSUME NEW j \in Instances, PassDropped(j) PROVE Holding(i, s)
  BY <1>4 DEF PassDropped, Holding, TypeOK, IdlePass
<1>5. ASSUME NEW j \in Instances, Submit(j) PROVE Holding(i, s)
  <2>1. /\ pass[j].pc = "submitting" /\ pass' = [pass EXCEPT ![j] = IdlePass]
        /\ queue' = [queue EXCEPT ![j] = Append(@, pass[j].task)]
        /\ worker' = worker
    BY <1>5 DEF Submit
  <2>2. queue[j] \in Seq(Snapshot) /\ pass[j].task \in Snapshot
    BY <2>1, PlaceTypes
  <2>3. ASSUME pass'[i].pc = "submitting", pass'[i].task = s PROVE Holding(i, s)
    BY <2>1, <2>3 DEF Holding, TypeOK, IdlePass
  <2>4. ASSUME NEW k \in 1..Len(queue'[i]), queue'[i][k] = s PROVE Holding(i, s)
    <3>1. CASE i # j
      BY <2>1, <2>4, <3>1 DEF Holding, TypeOK
    <3>2. CASE i = j
      <4>1. queue'[i] = Append(queue[i], pass[i].task)
        BY <2>1, <3>2 DEF TypeOK
      <4>2. \/ k \in 1..Len(queue[i]) /\ queue'[i][k] = queue[i][k]
            \/ queue'[i][k] = pass[i].task
        BY <2>2, <2>4, <3>2, <4>1
      <4> QED BY <2>1, <2>4, <3>2, <4>2 DEF Holding
    <3> QED BY <3>1, <3>2
  <2> QED BY <2>1, <2>3, <2>4 DEF Holding
<1>6. ASSUME NEW j \in Instances, Crash(j) PROVE Holding(i, s)
  <2>1. i # j => pass'[i] = pass[i] /\ queue'[i] = queue[i] /\ worker'[i] = worker[i]
    BY <1>6 DEF Crash, TypeOK
  <2>2. i = j => pass'[i] = IdlePass /\ queue'[i] = << >>
                 /\ worker'[i] = [w \in Workers |-> IdleWorker]
    BY <1>6 DEF Crash, TypeOK
  <2> QED BY <2>1, <2>2 DEF Holding, IdlePass, IdleWorker
<1>7. ASSUME NEW j \in Instances, NEW v \in Workers, Receive(j, v) PROVE Holding(i, s)
  <2>1. /\ queue[j] # << >>
        /\ worker' = [worker EXCEPT ![j][v] = [pc |-> "picked", task |-> Head(queue[j])]]
        /\ queue' = [queue EXCEPT ![j] = Tail(@)]
        /\ pass' = pass
    BY <1>7 DEF Receive
  <2>2. queue[j] \in Seq(Snapshot)
    BY PlaceTypes
  <2>3. ASSUME NEW k \in 1..Len(queue'[i]), queue'[i][k] = s PROVE Holding(i, s)
    <3>1. CASE i # j
      BY <2>1, <2>3, <3>1 DEF Holding, TypeOK
    <3>2. CASE i = j
      <4>1. /\ queue'[i] = Tail(queue[i])
            /\ queue[i] \in Seq(Snapshot) /\ queue[i] # << >>
        BY <2>1, <2>2, <3>2 DEF TypeOK
      <4>2. k \in 1..Len(queue[i]) - 1
        BY <2>3, <4>1
      <4>3. k + 1 \in 1..Len(queue[i]) /\ queue'[i][k] = queue[i][k + 1]
        BY <4>1, <4>2
      <4> QED BY <2>3, <4>3 DEF Holding
    <3> QED BY <3>1, <3>2
  <2>4. ASSUME NEW w \in Workers, worker'[i][w].pc # "idle", worker'[i][w].task = s
        PROVE  Holding(i, s)
    <3>1. CASE i = j /\ w = v
      <4>1. worker'[i][w].task = Head(queue[i])
        BY <2>1, <3>1 DEF TypeOK
      <4>2. 1 \in 1..Len(queue[i]) /\ Head(queue[i]) = queue[i][1]
        BY <2>1, <2>2, <3>1
      <4> QED BY <2>4, <4>1, <4>2 DEF Holding
    <3>2. CASE ~(i = j /\ w = v)
      <4>1. worker'[i][w] = worker[i][w]
        BY <2>1, <3>2 DEF TypeOK
      <4> QED BY <2>4, <4>1 DEF Holding
    <3> QED BY <3>1, <3>2
  <2> QED BY <2>1, <2>3, <2>4 DEF Holding
<1>8. ASSUME NEW j \in Instances, NEW v \in Workers, WorkerRuns(j, v) \/ WorkerDone(j, v)
      PROVE  Holding(i, s)
  <2>1. ASSUME NEW w \in Workers, worker'[i][w].pc # "idle"
        PROVE  worker[i][w].pc # "idle" /\ worker'[i][w].task = worker[i][w].task
    <3>1. CASE WorkerRuns(j, v)
      BY <2>1, <3>1 DEF WorkerRuns, TypeOK, WorkerState, IdleWorker
    <3>2. CASE WorkerDone(j, v)
      BY <2>1, <3>2 DEF WorkerDone, TypeOK, IdleWorker
    <3> QED BY <1>8, <3>1, <3>2
  <2>2. UNCHANGED <<pass, queue>>
    BY <1>8 DEF WorkerRuns, WorkerDone
  <2> QED BY <2>1, <2>2 DEF Holding
<1> QED
  BY <1>1, <1>2, <1>3, <1>4, <1>5, <1>6, <1>7, <1>8, MemoryCases

(* Opens(i, t): the SELECT ... FOR UPDATE SKIP LOCKED of instance i returns *)
(* row t.                                                                  *)
Opens(i, t) ==
    /\ t \in DOMAIN tasks \ Locked
    /\ tasks[t].status = "pending"
    /\ pass' = [pass EXCEPT ![i] = [pc |-> "claiming", task |-> SnapshotOf(t)]]
    /\ UNCHANGED dbVars

LEMMA DequeueOpens ==
  ASSUME NEW i \in Instances, Dequeue(i)
  PROVE  \E t \in DOMAIN tasks : Opens(i, t)
BY DEF Dequeue, Opens, NextPending, Pending

(* An open claim was open before the step, or the step has just opened it. *)
LEMMA ClaimsStep ==
  ASSUME TypeOK, [Next]_vars, NEW i \in Instances, pass'[i].pc = "claiming"
  PROVE  \/ pass'[i] = pass[i]
         \/ \E t \in DOMAIN tasks : Opens(i, t) /\ pass'[i].task = SnapshotOf(t)
<1>1. CASE UNCHANGED <<pass, queue, worker>>
  BY <1>1
<1>2. ASSUME NEW j \in Instances, Dequeue(j)
      PROVE  \/ pass'[i] = pass[i]
             \/ \E t \in DOMAIN tasks : Opens(i, t) /\ pass'[i].task = SnapshotOf(t)
  <2>1. PICK t \in DOMAIN tasks : Opens(j, t)
    BY <1>2, DequeueOpens
  <2>2. i = j => pass'[i].task = SnapshotOf(t)
    BY <2>1 DEF Opens, TypeOK
  <2>3. i # j => pass'[i] = pass[i]
    BY <2>1 DEF Opens, TypeOK
  <2> QED BY <2>1, <2>2, <2>3
<1>3. ASSUME NEW j \in Instances, DequeueCommit(j) PROVE pass'[i] = pass[i]
  <2>1. pass[j] \in PassState /\ pass[j].pc = "claiming"
    BY <1>3 DEF DequeueCommit, TypeOK
  <2>2. pass'[j].pc = "submitting"
    BY <1>3, <2>1 DEF DequeueCommit, TypeOK, PassState, IdlePass
  <2> QED BY <1>3, <2>2 DEF DequeueCommit, TypeOK
<1>4. ASSUME NEW j \in Instances, PassDropped(j) \/ Submit(j) \/ Crash(j)
      PROVE  pass'[i] = pass[i]
  BY <1>4 DEF PassDropped, Submit, Crash, TypeOK, IdlePass
<1>5. ASSUME NEW j \in Instances, NEW w \in Workers,
             Receive(j, w) \/ WorkerRuns(j, w) \/ WorkerDone(j, w)
      PROVE  pass'[i] = pass[i]
  BY <1>5 DEF Receive, WorkerRuns, WorkerDone
<1> QED BY <1>1, <1>2, <1>3, <1>4, <1>5, MemoryCases

(* A copy on a watchdog's list was there before, or the sweep has just     *)
(* read it.                                                                *)
LEMMA SweepStep ==
  ASSUME TypeOK, [Next]_vars, NEW i \in Instances, NEW s \in sweep'[i]
  PROVE  \/ s \in sweep[i]
         \/ /\ UNCHANGED dbVars
            /\ \E t \in DOMAIN tasks : tasks[t].status = "running" /\ s = SnapshotOf(t)
<1> USE DEF procVars
<1>1. CASE UNCHANGED sweep
  BY <1>1
<1>2. ASSUME NEW j \in Instances, SweepFind(j)
      PROVE  \/ s \in sweep[i]
             \/ /\ UNCHANGED dbVars
                /\ \E t \in DOMAIN tasks : tasks[t].status = "running" /\ s = SnapshotOf(t)
  <2>1. s \in sweep[i] \/ s \in FindStaleRunningTasks
    BY <1>2 DEF SweepFind, TypeOK
  <2> QED BY <1>2, <2>1 DEF SweepFind, FindStaleRunningTasks
<1>3. ASSUME NEW j \in Instances,
             SweepFail(j) \/ RecoverFails(j) \/ Crash(j) \/ Shutdown(j)
      PROVE  s \in sweep[i]
  BY <1>3 DEF SweepFail, RecoverFails, Crash, Shutdown, TypeOK
<1>4. Api => UNCHANGED sweep
  BY DEF Api, Create, CreateBatch, SeedDemo, ClearDemo, Cancel
<1>5. ASSUME NEW j \in Instances,
             \/ SchedulerStep(j) \/ Boot(j) \/ Stopping(j) \/ DequeueRollsBack(j)
             \/ DequeueCommitUnacknowledged(j) \/ BootUnrecovered(j)
      PROVE  UNCHANGED sweep
  BY <1>5 DEF SchedulerStep, Dequeue, DequeueCommit, Submit, Boot, Stopping, ClosePool, Exit,
              DequeueRollsBack, DequeueCommitUnacknowledged, BootUnrecovered
<1>6. ASSUME NEW j \in Instances, NEW w \in Workers,
             WorkerStep(j, w) \/ StartUnmarked(j, w) \/ RecordFails(j, w)
      PROVE  UNCHANGED sweep
  BY <1>6 DEF WorkerStep, Receive, Start, Complete, Fail, StartUnmarked, RecordFails
<1>7. ASSUME NEW t \in TaskId, TimeoutElapses(t) PROVE UNCHANGED sweep
  BY <1>7 DEF TimeoutElapses
<1>8. CASE UNCHANGED vars
  BY <1>8 DEF vars
<1> QED
  BY <1>1, <1>2, <1>3, <1>4, <1>5, <1>6, <1>7, <1>8 DEF Next, WatchdogStep, Faults

-----------------------------------------------------------------------------
(* ExclusiveClaim is preserved. *)

(* ExclusiveClaim for one task. *)
HeldOnce(t) ==
    \A i, j \in Instances :
      /\ InPass(i, t) /\ InPass(j, t) => i = j
      /\ \A k \in 1..Len(queue[j]) : ~(InPass(i, t) /\ InQueue(j, k, t))
      /\ \A v \in Workers : ~(InPass(i, t) /\ AtWorker(j, v, t))
      /\ \A k \in 1..Len(queue[i]), l \in 1..Len(queue[j]) :
            InQueue(i, k, t) /\ InQueue(j, l, t) => i = j /\ k = l
      /\ \A k \in 1..Len(queue[i]), v \in Workers :
            ~(InQueue(i, k, t) /\ AtWorker(j, v, t))
      /\ \A w, v \in Workers :
            AtWorker(i, w, t) /\ AtWorker(j, v, t) => i = j /\ w = v

(* reclaimed grows by what is on a watchdog's list, and never shrinks. *)
LEMMA ReclaimedGrows ==
  ASSUME [Next]_vars
  PROVE  /\ reclaimed \subseteq reclaimed'
         /\ \A t \in reclaimed' \ reclaimed :
               \E i \in Instances : \E s \in sweep[i] : s.id = t
<1> USE DEF procVars
<1>1. Api => UNCHANGED reclaimed
  BY DEF Api, Create, CreateBatch, SeedDemo, ClearDemo, Cancel
<1>2. ASSUME NEW j \in Instances,
             \/ SchedulerStep(j) \/ Boot(j) \/ Stopping(j) \/ Shutdown(j) \/ SweepFind(j)
             \/ DequeueRollsBack(j) \/ DequeueCommitUnacknowledged(j) \/ BootUnrecovered(j)
             \/ RecoverFails(j) \/ Crash(j)
      PROVE  UNCHANGED reclaimed
  BY <1>2 DEF SchedulerStep, Dequeue, DequeueCommit, Submit, Boot, Stopping, ClosePool, Exit,
              Shutdown, SweepFind, DequeueRollsBack, DequeueCommitUnacknowledged,
              BootUnrecovered, RecoverFails, Crash
<1>3. ASSUME NEW j \in Instances, NEW w \in Workers,
             WorkerStep(j, w) \/ StartUnmarked(j, w) \/ RecordFails(j, w)
      PROVE  UNCHANGED reclaimed
  BY <1>3 DEF WorkerStep, Receive, Start, Complete, Fail, StartUnmarked, RecordFails
<1>4. ASSUME NEW t \in TaskId, TimeoutElapses(t) PROVE UNCHANGED reclaimed
  BY <1>4 DEF TimeoutElapses
<1>5. ASSUME NEW j \in Instances, SweepFail(j)
      PROVE  \E s \in sweep[j] : reclaimed' = reclaimed \cup {s.id}
  BY <1>5 DEF SweepFail
<1>6. CASE UNCHANGED vars
  BY <1>6 DEF vars
<1> QED
  BY <1>1, <1>2, <1>3, <1>4, <1>5, <1>6 DEF Next, WatchdogStep, Faults

(* Steps that put nothing anywhere. *)
LEMMA HeldOnceShrinks ==
  ASSUME NEW t \in TaskId, HeldOnce(t),
         \A i \in Instances : InPass(i, t)' => InPass(i, t),
         \A i \in Instances : \A k \in 1..Len(queue'[i]) :
            InQueue(i, k, t)' => k \in 1..Len(queue[i]) /\ InQueue(i, k, t),
         \A i \in Instances, w \in Workers : AtWorker(i, w, t)' => AtWorker(i, w, t)
  PROVE  HeldOnce(t)'
BY DEF HeldOnce

(* A task that nobody holds is held once after it is claimed. *)
LEMMA HeldOnceAfterCommit ==
  ASSUME TypeOK, NEW j \in Instances, DequeueCommit(j), NEW t \in TaskId, HeldOnce(t),
         pass[j].task.id = t => \A i \in Instances : ~Holds(i, t)
  PROVE  HeldOnce(t)'
<1>1. /\ pass' = [pass EXCEPT ![j].pc = "submitting"]
      /\ UNCHANGED <<queue, worker>>
      /\ pass[j] \in PassState /\ pass[j].pc = "claiming"
  BY DEF DequeueCommit, TypeOK
<1>2. pass'[j].task = pass[j].task
  BY <1>1 DEF TypeOK, PassState, IdlePass
<1>3. \A i \in Instances \ {j} : pass'[i] = pass[i]
  BY <1>1 DEF TypeOK
<1>4. /\ \A i \in Instances : \A k \in 1..Len(queue'[i]) :
            InQueue(i, k, t)' => k \in 1..Len(queue[i]) /\ InQueue(i, k, t)
      /\ \A i \in Instances, w \in Workers : AtWorker(i, w, t)' => AtWorker(i, w, t)
  BY <1>1 DEF InQueue, AtWorker
<1>5. CASE pass[j].task.id # t
  <2>1. \A i \in Instances : InPass(i, t)' => InPass(i, t)
    BY <1>2, <1>3, <1>5 DEF InPass
  <2> QED BY <1>4, <2>1, HeldOnceShrinks
<1>6. CASE pass[j].task.id = t
  <2>1. \A i \in Instances : /\ ~InPass(i, t)
                             /\ \A k \in 1..Len(queue[i]) : ~InQueue(i, k, t)
                             /\ \A w \in Workers : ~AtWorker(i, w, t)
    BY <1>6 DEF Holds, Waits
  <2>2. \A i \in Instances : InPass(i, t)' => i = j
    BY <1>3, <2>1 DEF InPass
  <2>3. \A i \in Instances : /\ \A k \in 1..Len(queue'[i]) : ~InQueue(i, k, t)'
                             /\ \A w \in Workers : ~AtWorker(i, w, t)'
    BY <1>4, <2>1
  <2> QED BY <2>2, <2>3 DEF HeldOnce
<1> QED BY <1>5, <1>6

(* Submit moves a task from the pass to the end of the channel. *)
LEMMA HeldOnceAfterSubmit ==
  ASSUME TypeOK, NEW j \in Instances, Submit(j), NEW t \in TaskId, HeldOnce(t)
  PROVE  HeldOnce(t)'
<1> DEFINE last == Len(queue[j]) + 1
<1>1. /\ pass[j].pc = "submitting" /\ pass' = [pass EXCEPT ![j] = IdlePass]
      /\ queue' = [queue EXCEPT ![j] = Append(@, pass[j].task)]
      /\ worker' = worker
  BY DEF Submit
<1>2. queue[j] \in Seq(Snapshot) /\ pass[j].task \in Snapshot
  BY <1>1, PlaceTypes
<1>3. \A i \in Instances : InPass(i, t)' => i # j /\ InPass(i, t)
  BY <1>1 DEF InPass, TypeOK, IdlePass
<1>4. ASSUME NEW i \in Instances, NEW k \in 1..Len(queue'[i]), InQueue(i, k, t)'
      PROVE  \/ k \in 1..Len(queue[i]) /\ InQueue(i, k, t)
             \/ i = j /\ k = last /\ InPass(j, t)
  <2>1. CASE i # j
    BY <1>1, <1>4, <2>1 DEF InQueue, TypeOK
  <2>2. CASE i = j
    <3>1. queue'[j] = Append(queue[j], pass[j].task)
      BY <1>1 DEF TypeOK
    <3>2. \/ k \in 1..Len(queue[j]) /\ queue'[j][k] = queue[j][k]
          \/ k = last /\ queue'[j][k] = pass[j].task
      BY <1>2, <2>2, <3>1
    <3> QED BY <1>1, <1>4, <2>2, <3>2 DEF InQueue, InPass
  <2> QED BY <2>1, <2>2
<1>5. \A i \in Instances, w \in Workers : AtWorker(i, w, t)' => AtWorker(i, w, t)
  BY <1>1 DEF AtWorker
<1> QED BY <1>3, <1>4, <1>5 DEF HeldOnce

(* The elements of a tail. *)
LEMMA TailIndex ==
  ASSUME NEW S, NEW q \in Seq(S), q # << >>, NEW k \in 1..Len(Tail(q))
  PROVE  k \in Nat /\ k + 1 \in 1..Len(q) /\ k + 1 # 1 /\ Tail(q)[k] = q[k + 1]
<1>1. k \in 1..Len(q) - 1
  OBVIOUS
<1> QED BY <1>1

(* Receive moves a task from the head of the channel to an idle worker. *)
LEMMA HeldOnceAfterReceive ==
  ASSUME TypeOK, NEW j \in Instances, NEW u \in Workers, Receive(j, u),
         NEW t \in TaskId, HeldOnce(t)
  PROVE  HeldOnce(t)'
<1>1. /\ queue[j] # << >>
      /\ worker' = [worker EXCEPT ![j][u] = [pc |-> "picked", task |-> Head(queue[j])]]
      /\ queue' = [queue EXCEPT ![j] = Tail(@)]
      /\ pass' = pass
  BY DEF Receive
<1>2. /\ queue[j] \in Seq(Snapshot)
      /\ \A i \in Instances : Len(queue[i]) \in Nat
  BY PlaceTypes
<1>3. \A i \in Instances : InPass(i, t)' => InPass(i, t)
  BY <1>1 DEF InPass
<1>4. queue'[j] = Tail(queue[j]) /\ \A i \in Instances \ {j} : queue'[i] = queue[i]
  BY <1>1 DEF TypeOK
<1>5. ASSUME NEW k \in 1..Len(queue'[j]), InQueue(j, k, t)'
      PROVE  k \in Nat /\ k + 1 \in 1..Len(queue[j]) /\ k + 1 # 1 /\ InQueue(j, k + 1, t)
  <2>1. /\ k \in Nat /\ k + 1 \in 1..Len(queue[j]) /\ k + 1 # 1
        /\ Tail(queue[j])[k] = queue[j][k + 1]
    <3>1. k \in 1..Len(Tail(queue[j]))
      BY <1>4, <1>5
    <3>2. queue[j] \in Seq(Snapshot) /\ queue[j] # << >>
      BY <1>1, <1>2
    <3> QED BY <3>1, <3>2, TailIndex
  <2>2. queue'[j][k] = queue[j][k + 1]
    BY <1>4, <2>1
  <2> QED BY <1>5, <2>1, <2>2 DEF InQueue
<1>6. ASSUME NEW i \in Instances \ {j}, NEW k \in 1..Len(queue'[i]), InQueue(i, k, t)'
      PROVE  k \in 1..Len(queue[i]) /\ InQueue(i, k, t)
  BY <1>4, <1>6 DEF InQueue
<1>7. ASSUME NEW i \in Instances, NEW w \in Workers, AtWorker(i, w, t)'
      PROVE  \/ AtWorker(i, w, t)
             \/ i = j /\ w = u /\ 1 \in 1..Len(queue[j]) /\ InQueue(j, 1, t)
  <2>1. CASE i = j /\ w = u
    <3>1. worker'[i][w].task = Head(queue[j])
      BY <1>1, <2>1 DEF TypeOK
    <3>2. 1 \in 1..Len(queue[j]) /\ Head(queue[j]) = queue[j][1]
      BY <1>1, <1>2
    <3> QED BY <1>7, <2>1, <3>1, <3>2 DEF AtWorker, InQueue
  <2>2. CASE ~(i = j /\ w = u)
    <3>1. worker'[i][w] = worker[i][w]
      BY <1>1, <2>2 DEF TypeOK
    <3> QED BY <1>7, <3>1 DEF AtWorker
  <2> QED BY <2>1, <2>2
<1>8. ASSUME NEW a \in Instances, NEW b \in Instances
      PROVE  /\ InPass(a, t)' /\ InPass(b, t)' => a = b
             /\ \A k \in 1..Len(queue'[b]) : ~(InPass(a, t)' /\ InQueue(b, k, t)')
             /\ \A v \in Workers : ~(InPass(a, t)' /\ AtWorker(b, v, t)')
  BY <1>3, <1>5, <1>6, <1>7 DEF HeldOnce
<1>9. ASSUME NEW a \in Instances, NEW b \in Instances,
             NEW k \in 1..Len(queue'[a]), NEW l \in 1..Len(queue'[b]),
             InQueue(a, k, t)', InQueue(b, l, t)'
      PROVE  a = b /\ k = l
  <2>1. CASE a = j /\ b = j
    <3>1. k + 1 = l + 1 /\ k \in Nat /\ l \in Nat
      BY <1>5, <1>9, <2>1 DEF HeldOnce
    <3> QED BY <2>1, <3>1
  <2>2. CASE a # j \/ b # j
    BY <1>5, <1>6, <1>9, <2>2 DEF HeldOnce
  <2> QED BY <2>1, <2>2
<1>10. ASSUME NEW a \in Instances, NEW b \in Instances,
              NEW k \in 1..Len(queue'[a]), NEW v \in Workers,
              InQueue(a, k, t)', AtWorker(b, v, t)'
       PROVE  FALSE
  <2>1. PICK l \in 1..Len(queue[a]) : InQueue(a, l, t) /\ (a = j => l # 1)
    BY <1>5, <1>6, <1>10
  <2>2. CASE AtWorker(b, v, t)
    BY <2>1, <2>2 DEF HeldOnce
  <2>3. CASE b = j /\ 1 \in 1..Len(queue[j]) /\ InQueue(j, 1, t)
    BY <2>1, <2>3 DEF HeldOnce
  <2> QED BY <1>7, <1>10, <2>2, <2>3
<1>11. ASSUME NEW a \in Instances, NEW b \in Instances, NEW w \in Workers, NEW v \in Workers,
              AtWorker(a, w, t)', AtWorker(b, v, t)'
       PROVE  a = b /\ w = v
  BY <1>7, <1>11 DEF HeldOnce
<1> QED BY <1>8, <1>9, <1>10, <1>11 DEF HeldOnce

(* When a worker is done with a task that was held once, nobody holds it.  *)
LEMMA ReportEndsHold ==
  ASSUME TypeOK, NEW j \in Instances, NEW u \in Workers, WorkerDone(j, u),
         NEW t \in TaskId, worker[j][u].task.id = t, HeldOnce(t),
         NEW i \in Instances
  PROVE  ~Holds(i, t)'
<1>1. AtWorker(j, u, t)
  BY DEF WorkerDone, AtWorker
<1>2. ~InPass(i, t)'
  BY <1>1 DEF HeldOnce, WorkerDone, InPass
<1>3. ASSUME NEW k \in 1..Len(queue'[i]) PROVE ~InQueue(i, k, t)'
  <2>1. queue' = queue
    BY DEF WorkerDone
  <2> QED BY <1>1, <1>3, <2>1 DEF HeldOnce, InQueue
<1>4. ASSUME NEW w \in Workers PROVE ~AtWorker(i, w, t)'
  <2>1. worker' = [worker EXCEPT ![j][u] = IdleWorker]
    BY DEF WorkerDone
  <2>2. CASE i = j /\ w = u
    BY <2>1, <2>2 DEF AtWorker, IdleWorker, TypeOK
  <2>3. CASE ~(i = j /\ w = u)
    <3>1. worker'[i][w] = worker[i][w]
      BY <2>1, <2>3 DEF TypeOK
    <3> QED BY <1>1, <2>3, <3>1 DEF HeldOnce, AtWorker
  <2> QED BY <2>2, <2>3
<1> QED BY <1>2, <1>3, <1>4 DEF Holds, Waits

-----------------------------------------------------------------------------
(* What a step may do to one row, and who may do it. *)

(* The row is left alone, but for started_at. *)
RowKept(t) ==
    /\ t \in DOMAIN tasks' <=> t \in DOMAIN tasks
    /\ dlq'[t] = dlq[t]
    /\ t \in DOMAIN tasks =>
         /\ tasks'[t].status = tasks[t].status
         /\ tasks'[t].retry_count = tasks[t].retry_count
         /\ tasks'[t].max_retries = tasks[t].max_retries
         /\ tasks'[t].processed_by = tasks[t].processed_by
         /\ tasks'[t].completed_at = tasks[t].completed_at

RowCreated(t) ==
    /\ nextId <= t
    /\ t \in DOMAIN tasks'
    /\ dlq'[t] = dlq[t]
    /\ tasks'[t].status = "pending"
    /\ tasks'[t].retry_count = 0
    /\ tasks'[t].completed_at = Null

RowDeleted(t) ==
    /\ Locked = {}
    /\ t \notin DOMAIN tasks'
    /\ dlq'[t] = 0

(* An UPDATE gives the row status st and retry_count n. *)
RowWritten(t, st, n) ==
    /\ t \in DOMAIN tasks /\ t \in DOMAIN tasks'
    /\ tasks'[t].status = st
    /\ tasks'[t].retry_count = n
    /\ tasks'[t].max_retries = tasks[t].max_retries

(* The claim transaction of instance i commits. *)
RowClaimed(t, i) ==
    /\ pass[i].pc = "claiming" /\ pass[i].task.id = t /\ pass'[i].pc # "claiming"
    /\ dlq'[t] = dlq[t]
    /\ RowWritten(t, "running", tasks[t].retry_count)
    /\ tasks'[t].processed_by = i
    /\ tasks'[t].completed_at = tasks[t].completed_at

(* Startup recovery of instance i. *)
RowRequeued(t, i) ==
    /\ inst[i] \in {"stopped", "crashed"}
    /\ dlq'[t] = dlq[t]
    /\ RowWritten(t, "pending", tasks[t].retry_count)
    /\ tasks[t].status = "running" /\ tasks[t].processed_by = i
    /\ tasks'[t].completed_at = tasks[t].completed_at

RowCancelled(t) ==
    /\ t \notin Locked
    /\ dlq'[t] = dlq[t]
    /\ RowWritten(t, "cancelled", tasks[t].retry_count)
    /\ tasks[t].status \in {"pending", "running"}
    /\ tasks'[t].completed_at = "set"

(* A holder of copy s reports on it, which ends its hold: the only one,    *)
(* unless a watchdog has failed the task.                                  *)
Reported(i, s) ==
    /\ Holding(i, s)
    /\ s.id \notin reclaimed => \A j \in Instances : ~Holds(j, s.id)'

(* The watchdog of instance i reports in the holder's place. *)
Swept(i, s) == s \in sweep[i] /\ s.id \in reclaimed'

RowCompleted(s) ==
    /\ s.id \notin Locked
    /\ dlq'[s.id] = dlq[s.id]
    /\ RowWritten(s.id, "completed", tasks[s.id].retry_count)
    /\ tasks'[s.id].completed_at = "set"

RowRetried(s) ==
    /\ s.id \notin Locked
    /\ s.retry_count < s.max_retries
    /\ dlq'[s.id] = dlq[s.id]
    /\ RowWritten(s.id, "pending", s.retry_count + 1)
    /\ tasks'[s.id].completed_at = Null

(* The copy in the dead letter queue is made even if the row is gone. *)
RowDeadLettered(s) ==
    /\ s.id \notin Locked
    /\ dlq'[s.id] = dlq[s.id] + 1
    /\ \/ s.id \notin DOMAIN tasks'
       \/ /\ RowWritten(s.id, "failed", tasks[s.id].retry_count)
          /\ tasks'[s.id].completed_at = "set"

(* A step does nothing else to row t. *)
RowMoves(t) ==
    \/ RowKept(t)
    \/ RowCreated(t)
    \/ RowDeleted(t)
    \/ RowCancelled(t)
    \/ \E i \in Instances : RowClaimed(t, i) \/ RowRequeued(t, i)
    \/ \E i \in Instances, s \in Snapshot :
         /\ s.id = t
         /\ \/ Reported(i, s) /\ (RowCompleted(s) \/ RowRetried(s) \/ RowDeadLettered(s))
            \/ Swept(i, s) /\ (RowRetried(s) \/ RowDeadLettered(s))

(* FailTask on a copy whose row is not locked. *)
LEMMA FailTaskMoves ==
  ASSUME DBTypeOK, NEW s \in Snapshot, s.id \notin Locked, FailTask(s)
  PROVE  RowKept(s.id) \/ RowRetried(s) \/ RowDeadLettered(s)
<1>1. s.id \in TaskId
  BY DEF Snapshot
<1>2. RowWrite(s.id)
  BY FailTaskFacts
<1>3. CASE /\ s.retry_count < s.max_retries
           /\ dlq' = dlq
           /\ s.id \in DOMAIN tasks =>
                    /\ tasks'[s.id].status = "pending"
                    /\ tasks'[s.id].retry_count = s.retry_count + 1
                    /\ tasks'[s.id].completed_at = Null
  BY <1>1, <1>2, <1>3 DEF RowKept, RowRetried, RowWritten, RowWrite, SameTask
<1>4. CASE /\ dlq' = [dlq EXCEPT ![s.id] = @ + 1]
           /\ s.id \in DOMAIN tasks =>
                    /\ tasks'[s.id].status = "failed"
                    /\ tasks'[s.id].retry_count = tasks[s.id].retry_count
                    /\ tasks'[s.id].completed_at = "set"
  <2>1. dlq'[s.id] = dlq[s.id] + 1
    BY <1>1, <1>4 DEF DBTypeOK
  <2> QED BY <1>2, <1>4, <2>1 DEF RowDeadLettered, RowWritten, RowWrite, SameTask
<1> QED BY <1>3, <1>4, FailTaskFacts

(* ... and on the other rows. *)
LEMMA FailTaskKeepsOthers ==
  ASSUME DBTypeOK, NEW s \in Snapshot, FailTask(s), NEW t \in TaskId, t # s.id
  PROVE  RowKept(t)
<1>1. RowWrite(s.id)
  BY FailTaskFacts
<1>2. dlq' = dlq \/ dlq' = [dlq EXCEPT ![s.id] = @ + 1]
  BY FailTaskFacts
<1>3. dlq'[t] = dlq[t]
  BY <1>2 DEF DBTypeOK
<1> QED BY <1>1, <1>3 DEF RowKept, RowWrite

(* The tables do not change. *)
LEMMA TablesKept ==
  ASSUME UNCHANGED dbVars, NEW t
  PROVE  RowKept(t)
BY DEF RowKept, dbVars

LEMMA RowStep ==
  ASSUME TypeOK, ExclusiveClaim, [Next]_vars, NEW t \in TaskId
  PROVE  RowMoves(t)
<1> USE DEF procVars
<1>0. DBTypeOK
  BY DEF TypeOK
<1>1. ASSUME Create \/ CreateBatch \/ SeedDemo PROVE RowMoves(t)
  <2>1. PICK ins \in Seq(Input) : Insert(ins)
    BY <1>1, SubmissionFacts
  <2>2. /\ dlq' = dlq
        /\ DOMAIN tasks' = DOMAIN tasks \cup (nextId .. nextId' - 1)
        /\ \A u \in DOMAIN tasks : tasks'[u] = tasks[u]
        /\ \A u \in DOMAIN tasks' \ DOMAIN tasks :
              /\ nextId <= u
              /\ tasks'[u].status = "pending"
              /\ tasks'[u].retry_count = 0
              /\ tasks'[u].completed_at = Null
    BY <1>0, <2>1, InsertFacts
  <2>3. CASE t \in DOMAIN tasks' \ DOMAIN tasks
    BY <2>2, <2>3 DEF RowMoves, RowCreated
  <2>4. CASE t \notin DOMAIN tasks' \ DOMAIN tasks
    BY <2>2, <2>4 DEF RowMoves, RowKept
  <2> QED BY <2>3, <2>4
<1>2. ASSUME ClearDemo PROVE RowMoves(t)
  BY <1>0, <1>2, ClearAllDataFacts DEF ClearDemo, RowMoves, RowDeleted
<1>3. ASSUME NEW c \in Clients, NEW u \in TaskId, Cancel(c, u) PROVE RowMoves(t)
  <2>1. u \notin Locked /\ CancelTask(c, u)
    BY <1>3 DEF Cancel
  <2>2. CASE t = u
    BY <1>0, <2>1, <2>2, CancelTaskFacts
       DEF RowMoves, RowCancelled, RowWritten, RowWrite, SameTask
  <2>3. CASE t # u
    BY <1>0, <2>1, <2>3, CancelTaskFacts DEF RowMoves, RowKept, RowWrite
  <2> QED BY <2>2, <2>3
<1>4. ASSUME NEW i \in Instances, DequeueCommit(i) \/ DequeueCommitUnacknowledged(i)
      PROVE  RowMoves(t)
  <2> DEFINE u == pass[i].task.id
  <2>1. pass[i] \in PassState /\ pass[i].pc = "claiming" /\ u \in TaskId /\ Claim(u, i)
    BY <1>4, HeldTypes DEF DequeueCommit, DequeueCommitUnacknowledged, TypeOK
  <2>2. pass'[i].pc # "claiming"
    <3>1. CASE DequeueCommit(i)
      BY <2>1, <3>1 DEF DequeueCommit, TypeOK, PassState, IdlePass
    <3>2. CASE DequeueCommitUnacknowledged(i)
      BY <3>2 DEF DequeueCommitUnacknowledged, TypeOK, IdlePass
    <3> QED BY <1>4, <3>1, <3>2
  <2>3. CASE t = u /\ t \in DOMAIN tasks
    <3>1. RowClaimed(t, i)
      BY <1>0, <2>1, <2>2, <2>3, ClaimFacts DEF RowClaimed, RowWritten, RowWrite, SameTask
    <3> QED BY <3>1 DEF RowMoves
  <2>4. CASE t # u \/ t \notin DOMAIN tasks
    <3>1. RowKept(t)
      BY <1>0, <2>1, <2>4, ClaimFacts DEF RowKept, RowWrite
    <3> QED BY <3>1 DEF RowMoves
  <2> QED BY <2>3, <2>4
<1>5. ASSUME NEW i \in Instances,
             \/ Dequeue(i) \/ DequeueRollsBack(i) \/ Submit(i) \/ SweepFind(i) \/ RecoverFails(i)
             \/ Crash(i) \/ BootUnrecovered(i) \/ Shutdown(i) \/ Stopping(i)
      PROVE  RowMoves(t)
  <2>1. UNCHANGED dbVars
    BY <1>5 DEF Dequeue, DequeueRollsBack, Submit, SweepFind, RecoverFails, Crash,
                BootUnrecovered, Shutdown, Stopping, ClosePool, Exit
  <2> QED BY <2>1, TablesKept DEF RowMoves
<1>6. ASSUME NEW i \in Instances, NEW w \in Workers,
             Receive(i, w) \/ StartUnmarked(i, w) \/ RecordFails(i, w)
      PROVE  RowMoves(t)
  <2>1. UNCHANGED dbVars
    BY <1>6 DEF Receive, StartUnmarked, RecordFails
  <2> QED BY <2>1, TablesKept DEF RowMoves
<1>7. ASSUME NEW i \in Instances, NEW w \in Workers, Start(i, w) PROVE RowMoves(t)
  <2>1. worker[i][w].task.id \in TaskId /\ MarkStarted(worker[i][w].task.id)
    BY <1>7, HeldTypes DEF Start
  <2>2. RowKept(t)
    BY <1>0, <2>1, MarkStartedFacts DEF RowKept, RowWrite, SameTask
  <2> QED BY <2>2 DEF RowMoves
<1>8. ASSUME NEW u \in TaskId, TimeoutElapses(u) PROVE RowMoves(t)
  <2>1. dlq' = dlq
    BY <1>8 DEF TimeoutElapses
  <2>2. RowKept(t)
    BY <1>0, <1>8, <2>1, TimeoutFacts DEF RowKept, RowWrite, SameTask
  <2> QED BY <2>2 DEF RowMoves
<1>9. ASSUME NEW i \in Instances, NEW w \in Workers, Complete(i, w) \/ Fail(i, w)
      PROVE  RowMoves(t)
  <2>0. worker[i][w].task \in Snapshot
    BY <1>9, HeldTypes DEF Complete, Fail
  <2> PICK s \in Snapshot : s = worker[i][w].task
    BY <2>0
  <2>1. /\ s.id \in TaskId /\ s.id \notin Locked
        /\ worker[i][w].pc = "running" /\ WorkerDone(i, w)
        /\ CompleteTask(s.id) \/ FailTask(s)
    BY <1>9, HeldTypes DEF Complete, Fail, WorkerDone
  <2>2. CASE t # s.id
    <3>1. CompleteTask(s.id) => RowKept(t)
      BY <1>0, <2>1, <2>2, CompleteTaskFacts DEF RowKept, RowWrite
    <3>2. FailTask(s) => RowKept(t)
      BY <1>0, <2>1, <2>2, FailTaskKeepsOthers
    <3> QED BY <2>1, <3>1, <3>2 DEF RowMoves
  <2>3. CASE t = s.id
    <3>1. Holding(i, s)
      BY <2>1 DEF Holding
    <3>2. t \notin reclaimed => HeldOnce(t)
      BY DEF ExclusiveClaim, HeldOnce
    <3>3. Reported(i, s)
      BY <2>1, <2>3, <3>1, <3>2, ReportEndsHold DEF Reported
    <3>4. CompleteTask(s.id) => RowKept(t) \/ RowCompleted(s)
      BY <1>0, <2>1, <2>3, CompleteTaskFacts
         DEF RowKept, RowCompleted, RowWritten, RowWrite, SameTask
    <3>5. FailTask(s) => RowKept(t) \/ RowRetried(s) \/ RowDeadLettered(s)
      BY <1>0, <2>1, <2>3, FailTaskMoves
    <3> QED BY <2>1, <2>3, <3>3, <3>4, <3>5 DEF RowMoves
  <2> QED BY <2>2, <2>3
<1>10. ASSUME NEW i \in Instances, SweepFail(i) PROVE RowMoves(t)
  <2>1. PICK s \in sweep[i] : /\ s.id \notin Locked
                              /\ FailTask(s)
                              /\ reclaimed' = reclaimed \cup {s.id}
    BY <1>10 DEF SweepFail
  <2>2. s \in Snapshot /\ s.id \in TaskId
    BY HeldTypes
  <2>3. CASE t # s.id
    BY <1>0, <2>1, <2>2, <2>3, FailTaskKeepsOthers DEF RowMoves
  <2>4. CASE t = s.id
    <3>1. Swept(i, s)
      BY <2>1 DEF Swept
    <3>2. RowKept(t) \/ RowRetried(s) \/ RowDeadLettered(s)
      BY <1>0, <2>1, <2>2, <2>4, FailTaskMoves
    <3> QED BY <2>2, <2>4, <3>1, <3>2 DEF RowMoves
  <2> QED BY <2>3, <2>4
<1>11. ASSUME NEW i \in Instances, Boot(i) PROVE RowMoves(t)
  <2>1. inst[i] \in {"stopped", "crashed"} /\ RequeueOrphanedTasks(i)
    BY <1>11 DEF Boot
  <2>2. CASE t \in OrphansOf(i)
    <3>1. RowRequeued(t, i)
      BY <1>0, <2>1, <2>2, RequeueFacts DEF RowRequeued, RowWritten, OrphansOf, SameTask
    <3> QED BY <3>1 DEF RowMoves
  <2>3. CASE t \notin OrphansOf(i)
    <3>1. RowKept(t)
      BY <1>0, <2>1, <2>3, RequeueFacts DEF RowKept
    <3> QED BY <3>1 DEF RowMoves
  <2> QED BY <2>2, <2>3
<1>12. CASE UNCHANGED vars
  BY <1>12, TablesKept DEF vars, RowMoves
<1> QED
  BY <1>1, <1>2, <1>3, <1>4, <1>5, <1>6, <1>7, <1>8, <1>9, <1>10, <1>11, <1>12
     DEF Next, Api, SchedulerStep, WorkerStep, WatchdogStep, Faults

-----------------------------------------------------------------------------
(* ClaimInv is inductive. *)

(* AUTO_INCREMENT never goes back. *)
LEMMA NextIdGrows ==
  ASSUME TypeOK, [Next]_vars
  PROVE  nextId \in Nat /\ nextId' \in Nat /\ nextId <= nextId'
<1> USE DEF procVars
<1>0. DBTypeOK /\ DBTypeOK'
  BY TypeStep DEF TypeOK
<1>1. nextId \in Nat /\ nextId' \in Nat
  BY <1>0, TaskServiceAssumption DEF DBTypeOK
<1>2. ASSUME Create \/ CreateBatch \/ SeedDemo PROVE nextId <= nextId'
  <2>1. PICK ins \in Seq(Input) : Insert(ins)
    BY <1>2, SubmissionFacts
  <2>2. nextId' = nextId + Len(ins) /\ Len(ins) \in Nat
    BY <1>0, <2>1, InsertFacts
  <2> QED BY <1>1, <2>2
<1>3. CASE nextId' = nextId
  BY <1>1, <1>3
<1>4. ASSUME NEW c \in Clients, NEW t \in TaskId, Cancel(c, t) PROVE nextId' = nextId
  BY <1>4 DEF Cancel, CancelTask
<1>5. ClearDemo => nextId' = nextId
  BY DEF ClearDemo, ClearAllData
<1>6. ASSUME NEW i \in Instances,
             \/ SchedulerStep(i) \/ Boot(i) \/ Stopping(i) \/ Shutdown(i)
             \/ DequeueRollsBack(i) \/ DequeueCommitUnacknowledged(i) \/ BootUnrecovered(i)
             \/ RecoverFails(i) \/ Crash(i)
      PROVE  nextId' = nextId
  BY <1>6 DEF SchedulerStep, Dequeue, DequeueCommit, Submit, Boot, Stopping, ClosePool, Exit,
              Shutdown, DequeueRollsBack, DequeueCommitUnacknowledged,
              BootUnrecovered, RecoverFails, Crash, Claim, RequeueOrphanedTasks, dbVars
<1>7. ASSUME NEW i \in Instances, WatchdogStep(i) PROVE nextId' = nextId
  BY <1>7 DEF WatchdogStep, SweepFind, SweepFail, FailTask, retry, deadLetter, dbVars
<1>8. ASSUME NEW i \in Instances, NEW w \in Workers,
             WorkerStep(i, w) \/ StartUnmarked(i, w) \/ RecordFails(i, w)
      PROVE  nextId' = nextId
  BY <1>8 DEF WorkerStep, Receive, Start, Complete, Fail, StartUnmarked, RecordFails,
              MarkStarted, CompleteTask, FailTask, retry, deadLetter, dbVars
<1>9. ASSUME NEW t \in TaskId, TimeoutElapses(t) PROVE nextId' = nextId
  BY <1>9 DEF TimeoutElapses
<1>10. UNCHANGED vars => nextId' = nextId
  BY DEF vars, dbVars
<1> QED
  BY <1>1, <1>2, <1>3, <1>4, <1>5, <1>6, <1>7, <1>8, <1>9, <1>10 DEF Next, Api, Faults

(* A row keeps its budget, and an id that was given out is never inserted. *)
LEMMA BudgetKept ==
  ASSUME TypeOK, NEW t \in TaskId, RowMoves(t), t < nextId, t \in DOMAIN tasks'
  PROVE  t \in DOMAIN tasks /\ tasks'[t].max_retries = tasks[t].max_retries
<1>1. nextId \in Nat /\ t \in Nat
  BY TaskServiceAssumption DEF TypeOK, DBTypeOK, TaskId
<1>2. ~RowCreated(t)
  BY <1>1 DEF RowCreated
<1> QED
  BY <1>2 DEF RowMoves, RowKept, RowDeleted, RowCancelled, RowClaimed, RowRequeued,
              RowCompleted, RowRetried, RowDeadLettered, RowWritten

(* Nobody but its own transaction changes a row under a claim. *)
LEMMA ClaimedRowKept ==
  ASSUME ClaimInv, NEW i \in Instances, NEW s \in Snapshot, Claims(i, s),
         pass'[i] = pass[i], RowMoves(s.id)
  PROVE  RowKept(s.id)
<1>1. /\ s.id \in DOMAIN tasks
      /\ tasks[s.id].status = "pending"
      /\ \A j \in Instances : pass[j].pc = "claiming" /\ pass[j].task.id = s.id => j = i
  BY DEF ClaimInv, ClaimsAreLocked
<1>2. s.id \in Locked
  BY <1>1 DEF Locked, Claims
<1>3. ~RowCreated(s.id)
  <2>1. /\ nextId \in Nat /\ \A t \in DOMAIN tasks : t \in Nat /\ t < nextId
    BY TaskServiceAssumption DEF ClaimInv, TypeOK, DBTypeOK, TaskId
  <2> QED BY <1>1, <2>1 DEF RowCreated
<1>4. ~RowDeleted(s.id) /\ ~RowCancelled(s.id)
  BY <1>2 DEF RowDeleted, RowCancelled
<1>5. ASSUME NEW j \in Instances PROVE ~RowClaimed(s.id, j) /\ ~RowRequeued(s.id, j)
  BY <1>1 DEF RowClaimed, RowRequeued, Claims
<1>6. ASSUME NEW c \in Snapshot, c.id = s.id
      PROVE  ~RowCompleted(c) /\ ~RowRetried(c) /\ ~RowDeadLettered(c)
  BY <1>2, <1>6 DEF RowCompleted, RowRetried, RowDeadLettered
<1> QED BY <1>3, <1>4, <1>5, <1>6 DEF RowMoves

LEMMA ClaimsAreLockedStep ==
  ASSUME ClaimInv, [Next]_vars
  PROVE  ClaimsAreLocked'
<1> SUFFICES ASSUME NEW i \in Instances, NEW s \in Snapshot, Claims(i, s)'
             PROVE  /\ s.id \in DOMAIN tasks'
                    /\ tasks'[s.id].status = "pending"
                    /\ s.retry_count = tasks'[s.id].retry_count
                    /\ s.max_retries = tasks'[s.id].max_retries
                    /\ \A j \in Instances :
                         pass'[j].pc = "claiming" /\ pass'[j].task.id = s.id => j = i
  BY DEF ClaimsAreLocked, SnapshotOf, Snapshot
<1>0. TypeOK /\ ExclusiveClaim /\ s.id \in TaskId
  BY DEF ClaimInv, Snapshot
<1>1. CASE pass'[i] = pass[i]
  <2>1. Claims(i, s)
    BY <1>1 DEF Claims
  <2>2. RowKept(s.id)
    BY <1>0, <1>1, <2>1, RowStep, ClaimedRowKept
  <2>3. /\ s.id \in DOMAIN tasks
        /\ tasks[s.id].status = "pending"
        /\ s.retry_count = tasks[s.id].retry_count
        /\ s.max_retries = tasks[s.id].max_retries
        /\ \A j \in Instances : pass[j].pc = "claiming" /\ pass[j].task.id = s.id => j = i
    BY <2>1 DEF ClaimInv, ClaimsAreLocked, SnapshotOf
  <2>4. ASSUME NEW j \in Instances, pass'[j].pc = "claiming", pass'[j].task.id = s.id
        PROVE  j = i
    <3>1. CASE pass'[j] = pass[j]
      BY <2>3, <2>4, <3>1
    <3>2. ASSUME NEW t \in DOMAIN tasks, Opens(j, t), pass'[j].task = SnapshotOf(t)
          PROVE  FALSE
      <4>1. t = s.id
        BY <2>4, <3>2 DEF SnapshotOf
      <4>2. s.id \in Locked
        BY <2>1, <2>3 DEF Locked, Claims
      <4> QED BY <3>2, <4>1, <4>2 DEF Opens
    <3> QED BY <1>0, <2>4, <3>1, <3>2, ClaimsStep
  <2> QED BY <2>2, <2>3, <2>4 DEF RowKept
<1>2. ASSUME NEW t \in DOMAIN tasks, Opens(i, t), pass'[i].task = SnapshotOf(t)
      PROVE  /\ s.id \in DOMAIN tasks'
             /\ tasks'[s.id].status = "pending"
             /\ s.retry_count = tasks'[s.id].retry_count
             /\ s.max_retries = tasks'[s.id].max_retries
             /\ \A j \in Instances :
                  pass'[j].pc = "claiming" /\ pass'[j].task.id = s.id => j = i
  <2>1. s = SnapshotOf(t)
    BY <1>2 DEF Claims
  <2>2. tasks' = tasks
    BY <1>2 DEF Opens, dbVars
  <2>3. ASSUME NEW j \in Instances, pass'[j].pc = "claiming", pass'[j].task.id = s.id, j # i
        PROVE  FALSE
    <3>1. pass'[j] = pass[j]
      BY <1>0, <1>2, <2>3 DEF Opens, TypeOK
    <3>2. t \in Locked
      BY <2>1, <2>3, <3>1 DEF Locked, SnapshotOf
    <3> QED BY <1>2, <3>2 DEF Opens
  <2> QED BY <1>2, <2>1, <2>2, <2>3 DEF Opens, SnapshotOf
<1>3. pass'[i].pc = "claiming"
  BY DEF Claims
<1> QED BY <1>0, <1>1, <1>2, <1>3, ClaimsStep

LEMMA CopiesAreInBudgetStep ==
  ASSUME ClaimInv, [Next]_vars
  PROVE  CopiesAreInBudget'
<1> SUFFICES ASSUME NEW i \in Instances, NEW s \in Snapshot,
                    Claims(i, s)' \/ Holding(i, s)' \/ s \in sweep'[i]
             PROVE  /\ s.id < nextId'
                    /\ s.retry_count <= s.max_retries
                    /\ s.id \in DOMAIN tasks' => s.max_retries = tasks'[s.id].max_retries
  BY DEF CopiesAreInBudget
<1>0. TypeOK /\ ExclusiveClaim /\ s.id \in TaskId
  BY DEF ClaimInv, Snapshot
<1>1. \/ Claims(i, s) \/ Holding(i, s) \/ s \in sweep[i]
      \/ UNCHANGED dbVars /\ \E t \in DOMAIN tasks : s = SnapshotOf(t)
  <2>1. CASE Claims(i, s)'
    <3>1. pass'[i].pc = "claiming" /\ pass'[i].task = s
      BY <2>1 DEF Claims
    <3> QED BY <1>0, <3>1, ClaimsStep DEF Claims, Opens
  <2> QED BY <1>0, <2>1, HoldingStep, SweepStep
<1>2. CASE Claims(i, s) \/ Holding(i, s) \/ s \in sweep[i]
  <2>1. /\ s.id < nextId
        /\ s.retry_count <= s.max_retries
        /\ s.id \in DOMAIN tasks => s.max_retries = tasks[s.id].max_retries
    BY <1>2 DEF ClaimInv, CopiesAreInBudget
  <2>2. s.id < nextId'
    <3>1. s.id \in Nat
      BY <1>0 DEF TaskId
    <3> QED BY <1>0, <2>1, <3>1, NextIdGrows
  <2>3. RowMoves(s.id)
    BY <1>0, RowStep
  <2> QED BY <1>0, <2>1, <2>2, <2>3, BudgetKept
<1>3. ASSUME UNCHANGED dbVars, NEW t \in DOMAIN tasks, s = SnapshotOf(t)
      PROVE  /\ s.id < nextId'
             /\ s.retry_count <= s.max_retries
             /\ s.id \in DOMAIN tasks' => s.max_retries = tasks'[s.id].max_retries
  <2>1. t < nextId /\ tasks[t].retry_count <= tasks[t].max_retries
    BY DEF ClaimInv, TypeOK, DBTypeOK, RowsAreInBudget
  <2> QED BY <1>3, <2>1 DEF SnapshotOf, dbVars
<1> QED BY <1>1, <1>2, <1>3

(* The types of a row's columns, of the ids and of a copy. *)
LEMMA RowTypes ==
  ASSUME TypeOK, NEW t \in TaskId
  PROVE  /\ t \in Nat /\ nextId \in Nat /\ dlq[t] \in Nat
         /\ t \in DOMAIN tasks =>
              /\ t < nextId
              /\ tasks[t].status \in Status
              /\ tasks[t].retry_count \in Nat
              /\ tasks[t].max_retries \in Nat
              /\ tasks[t].completed_at \in {Null, "set"}
<1>1. t \in Nat /\ nextId \in Nat
  BY TaskServiceAssumption DEF TypeOK, DBTypeOK, TaskId
<1>2. dlq[t] \in Nat
  BY DEF TypeOK, DBTypeOK
<1>3. t \in DOMAIN tasks => t < nextId /\ tasks[t] \in Row
  BY DEF TypeOK, DBTypeOK
<1> QED BY <1>1, <1>2, <1>3, TaskServiceAssumption, LimitsAreNat DEF Row

LEMMA RowsAreInBudgetStep ==
  ASSUME ClaimInv, [Next]_vars
  PROVE  RowsAreInBudget'
<1> SUFFICES ASSUME NEW t \in DOMAIN tasks'
             PROVE  tasks'[t].retry_count <= tasks'[t].max_retries
  BY DEF RowsAreInBudget
<1>0. TypeOK /\ TypeOK' /\ ExclusiveClaim
  BY TypeStep DEF ClaimInv
<1>1. t \in TaskId
  BY <1>0 DEF TypeOK, DBTypeOK
<1>2. RowMoves(t)
  BY <1>0, <1>1, RowStep
<1>3. t \in DOMAIN tasks => tasks[t].retry_count <= tasks[t].max_retries
  BY DEF ClaimInv, RowsAreInBudget
<1>4. CASE RowCreated(t)
  <2>1. tasks'[t].max_retries \in Nat
    BY <1>0, LimitsAreNat DEF TypeOK, DBTypeOK, Row
  <2> QED BY <1>4, <2>1 DEF RowCreated
<1>5. ASSUME NEW s \in Snapshot, s.id = t, RowRetried(s),
             (\E i \in Instances : Holding(i, s) \/ s \in sweep[i])
      PROVE  tasks'[t].retry_count <= tasks'[t].max_retries
  <2>1. t \in DOMAIN tasks => s.max_retries = tasks[t].max_retries
    BY <1>5 DEF ClaimInv, CopiesAreInBudget
  <2>2. /\ s.retry_count < s.max_retries /\ t \in DOMAIN tasks
        /\ tasks'[t].retry_count = s.retry_count + 1
        /\ tasks'[t].max_retries = tasks[t].max_retries
    BY <1>5 DEF RowRetried, RowWritten
  <2>3. s.retry_count \in Nat /\ s.max_retries \in Nat
    BY LimitsAreNat DEF Snapshot
  <2> QED BY <2>1, <2>2, <2>3
<1>6. CASE /\ t \in DOMAIN tasks
           /\ tasks'[t].retry_count = tasks[t].retry_count
           /\ tasks'[t].max_retries = tasks[t].max_retries
  BY <1>3, <1>6
<1>7. RowKept(t) => /\ t \in DOMAIN tasks
                    /\ tasks'[t].retry_count = tasks[t].retry_count
                    /\ tasks'[t].max_retries = tasks[t].max_retries
  BY DEF RowKept
<1> QED
  BY <1>2, <1>4, <1>5, <1>6, <1>7
     DEF RowMoves, RowDeleted, RowCancelled, RowClaimed, RowRequeued,
         RowCompleted, RowDeadLettered, RowWritten, Reported, Swept

(* A task that no watchdog has failed is not dead-lettered while its row   *)
(* is pending or running.                                                  *)
LEMMA LiveIsClean ==
  ASSUME ClaimInv, NEW t \in TaskId \ reclaimed, t \in DOMAIN tasks,
         tasks[t].status \in {"pending", "running"}
  PROVE  dlq[t] = 0
<1>1. dlq[t] \in Nat /\ dlq[t] <= 1 /\ dlq[t] # 1
  BY RowTypes DEF ClaimInv, DeadLetterOnce
<1> QED BY <1>1

(* Nobody holds a task that is pending and that no watchdog has failed. *)
LEMMA PendingIsFree ==
  ASSUME ClaimInv, NEW t \in TaskId \ reclaimed, t \in DOMAIN tasks,
         tasks[t].status = "pending", NEW i \in Instances
  PROVE  ~Holds(i, t)
<1>1. \A s \in Snapshot : ~(s.id = t /\ Holding(i, s))
  BY DEF ClaimInv, HeldRowsAreCurrent
<1> QED BY <1>1, HoldsIsHolding DEF ClaimInv

LEMMA HeldRowsAreCurrentStep ==
  ASSUME ClaimInv, [Next]_vars
  PROVE  HeldRowsAreCurrent'
<1> DEFINE Current(i, s) ==
             /\ dlq'[s.id] = 0
             /\ s.id \in DOMAIN tasks' =>
                  /\ s.retry_count = tasks'[s.id].retry_count
                  /\ \/ tasks'[s.id].status = "running" /\ tasks'[s.id].processed_by = i
                     \/ tasks'[s.id].status = "cancelled"
<1> SUFFICES ASSUME NEW i \in Instances, NEW s \in Snapshot, Holding(i, s)',
                    s.id \notin reclaimed'
             PROVE  Current(i, s)
  BY DEF HeldRowsAreCurrent
<1>0. TypeOK /\ ExclusiveClaim /\ s.id \in TaskId /\ s.id \notin reclaimed
  BY ReclaimedGrows DEF ClaimInv, Snapshot
<1>1. RowMoves(s.id)
  BY <1>0, RowStep
<1>2. Holds(i, s.id)'
  BY DEF Holding, Holds, Waits, InPass, InQueue, AtWorker
<1>3. CASE Holding(i, s)
  <2>1. /\ dlq[s.id] = 0
        /\ s.id < nextId
        /\ s.id \in DOMAIN tasks =>
             /\ s.retry_count = tasks[s.id].retry_count
             /\ \/ tasks[s.id].status = "running" /\ tasks[s.id].processed_by = i
                \/ tasks[s.id].status = "cancelled"
    BY <1>0, <1>3 DEF ClaimInv, HeldRowsAreCurrent, CopiesAreInBudget
  <2>2. RowKept(s.id) => Current(i, s)
    BY <2>1 DEF RowKept
  <2>3. ~RowCreated(s.id)
    BY <1>0, <2>1, RowTypes DEF RowCreated
  <2>4. RowDeleted(s.id) \/ RowCancelled(s.id) => Current(i, s)
    BY <2>1 DEF RowDeleted, RowCancelled, RowWritten
  <2>5. ASSUME NEW j \in Instances PROVE ~RowClaimed(s.id, j)
    <3>1. ASSUME RowClaimed(s.id, j) PROVE Claims(j, pass[j].task) /\ pass[j].task \in Snapshot
      BY <1>0, <3>1, PlaceTypes DEF RowClaimed, Claims
    <3>2. RowClaimed(s.id, j) => tasks[s.id].status = "pending" /\ s.id \in DOMAIN tasks
      BY <3>1 DEF ClaimInv, ClaimsAreLocked, RowClaimed
    <3> QED BY <2>1, <3>2
  <2>6. ASSUME NEW j \in Instances PROVE ~RowRequeued(s.id, j)
    <3>1. RowRequeued(s.id, j) => j = i /\ inst[i] \in {"stopped", "crashed"}
      BY <2>1 DEF RowRequeued, RowWritten
    <3>2. inst[i] \in {"stopped", "crashed"} => ~Holding(i, s)
      BY DEF ClaimInv, DownHoldsNothing, Holding
    <3> QED BY <1>3, <3>1, <3>2
  <2>7. ASSUME NEW j \in Instances, NEW c \in Snapshot, c.id = s.id
        PROVE  ~Reported(j, c) /\ ~Swept(j, c)
    BY <1>0, <1>2, <2>7 DEF Reported, Swept
  <2> QED BY <1>1, <2>2, <2>3, <2>4, <2>5, <2>6, <2>7 DEF RowMoves
<1>4. CASE Claims(i, s) /\ DequeueCommit(i)
  <2>1. /\ s.id \in DOMAIN tasks
        /\ tasks[s.id].status = "pending"
        /\ s.retry_count = tasks[s.id].retry_count
    BY <1>4 DEF ClaimInv, ClaimsAreLocked, SnapshotOf
  <2>2. dlq[s.id] = 0
    BY <1>0, <2>1, LiveIsClean
  <2>3. Claim(s.id, i) /\ DBTypeOK
    BY <1>0, <1>4 DEF DequeueCommit, Claims, TypeOK
  <2> QED BY <1>0, <2>1, <2>2, <2>3, ClaimFacts
<1> QED BY <1>0, <1>3, <1>4, HoldingStep

(* Steps after which an instance is down leave nothing in its memory.     *)
LEMMA DownHoldsNothingStep ==
  ASSUME ClaimInv, [Next]_vars
  PROVE  DownHoldsNothing'
<1> DEFINE Quiet(i) ==
             /\ inst[i] \in {"draining", "stopped", "crashed"} => pass[i].pc = "idle"
             /\ inst[i] \in {"stopped", "crashed"} =>
                  /\ queue[i] = << >>
                  /\ \A w \in Workers : worker[i][w].pc = "idle"
<1> SUFFICES ASSUME NEW i \in Instances PROVE Quiet(i)'
  BY DEF DownHoldsNothing
<1> USE DEF procVars
<1>0. TypeOK /\ Quiet(i)
  BY DEF ClaimInv, DownHoldsNothing
<1>1. CASE UNCHANGED <<inst, pass, queue, worker>>
  BY <1>0, <1>1
<1>2. ASSUME NEW j \in Instances, Dequeue(j) PROVE Quiet(i)'
  BY <1>0, <1>2 DEF Dequeue, TypeOK
<1>3. ASSUME NEW j \in Instances,
             \/ DequeueCommit(j) \/ DequeueRollsBack(j) \/ DequeueCommitUnacknowledged(j)
      PROVE  Quiet(i)'
  <2>1. /\ pass[j].pc # "idle" /\ UNCHANGED <<inst, queue, worker>>
        /\ i # j => pass'[i] = pass[i]
    <3>1. DequeueCommit(j) => pass' = [pass EXCEPT ![j].pc = "submitting"]
      BY DEF DequeueCommit
    <3>2. DequeueRollsBack(j) \/ DequeueCommitUnacknowledged(j)
            => pass' = [pass EXCEPT ![j] = IdlePass]
      BY DEF DequeueRollsBack, DequeueCommitUnacknowledged
    <3>3. pass[j].pc # "idle" /\ UNCHANGED <<inst, queue, worker>>
      BY <1>3 DEF DequeueCommit, DequeueRollsBack, DequeueCommitUnacknowledged
    <3>4. i # j => pass'[i] = pass[i]
      BY <1>0, <1>3, <3>1, <3>2 DEF TypeOK
    <3> QED BY <3>3, <3>4
  <2>2. i = j => inst[i] \notin {"draining", "stopped", "crashed"}
    BY <1>0, <2>1
  <2>3. CASE i = j
    BY <1>0, <2>1, <2>2, <2>3
  <2>4. CASE i # j
    BY <1>0, <2>1, <2>4
  <2> QED BY <2>3, <2>4
<1>4. ASSUME NEW j \in Instances, Submit(j) PROVE Quiet(i)'
  <2>1. /\ pass[j].pc # "idle" /\ inst' = inst /\ worker' = worker
        /\ i # j => pass'[i] = pass[i] /\ queue'[i] = queue[i]
    BY <1>0, <1>4 DEF Submit, TypeOK
  <2>2. i = j => inst[i] \notin {"draining", "stopped", "crashed"}
    BY <1>0, <2>1
  <2> QED BY <1>0, <2>1, <2>2
<1>5. ASSUME NEW j \in Instances, NEW v \in Workers, Receive(j, v) PROVE Quiet(i)'
  <2>1. /\ queue[j] # << >> /\ inst' = inst /\ pass' = pass
        /\ i # j => queue'[i] = queue[i] /\ worker'[i] = worker[i]
    BY <1>0, <1>5 DEF Receive, TypeOK
  <2>2. i = j => inst[i] \notin {"stopped", "crashed"}
    BY <1>0, <2>1
  <2> QED BY <1>0, <2>1, <2>2
<1>6. ASSUME NEW j \in Instances, NEW v \in Workers,
             \/ Start(j, v) \/ StartUnmarked(j, v) \/ Complete(j, v) \/ Fail(j, v)
             \/ RecordFails(j, v)
      PROVE  Quiet(i)'
  <2>1. /\ worker[j][v].pc # "idle" /\ inst' = inst /\ pass' = pass /\ queue' = queue
        /\ i # j => worker'[i] = worker[i]
    BY <1>0, <1>6 DEF Start, StartUnmarked, Complete, Fail, RecordFails, TypeOK
  <2>2. i = j => inst[i] \notin {"stopped", "crashed"}
    BY <1>0, <2>1
  <2> QED BY <1>0, <2>1, <2>2
<1>7. ASSUME NEW j \in Instances, Crash(j) PROVE Quiet(i)'
  <2>1. i # j => /\ inst'[i] = inst[i] /\ pass'[i] = pass[i]
                 /\ queue'[i] = queue[i] /\ worker'[i] = worker[i]
    BY <1>0, <1>7 DEF Crash, TypeOK
  <2>2. i = j => /\ pass'[i].pc = "idle" /\ queue'[i] = << >>
                 /\ \A w \in Workers : worker'[i][w].pc = "idle"
    BY <1>0, <1>7 DEF Crash, TypeOK, IdlePass, IdleWorker
  <2> QED BY <1>0, <2>1, <2>2
<1>8. ASSUME NEW j \in Instances, Boot(j) \/ BootUnrecovered(j) \/ Shutdown(j) PROVE Quiet(i)'
  <2>1. /\ UNCHANGED <<pass, queue, worker>>
        /\ i # j => inst'[i] = inst[i]
        /\ i = j => inst'[i] \in {"up", "stopping"}
    BY <1>0, <1>8 DEF Boot, BootUnrecovered, Shutdown, TypeOK
  <2> QED BY <1>0, <2>1
<1>9. ASSUME NEW j \in Instances, ClosePool(j) PROVE Quiet(i)'
  <2>1. /\ UNCHANGED <<pass, queue, worker>> /\ pass[j].pc = "idle"
        /\ i # j => inst'[i] = inst[i]
        /\ i = j => inst'[i] = "draining"
    BY <1>0, <1>9 DEF ClosePool, TypeOK
  <2> QED BY <1>0, <2>1
<1>10. ASSUME NEW j \in Instances, Exit(j) PROVE Quiet(i)'
  <2>1. /\ UNCHANGED <<pass, queue, worker>> /\ inst[j] = "draining"
        /\ queue[j] = << >> /\ \A w \in Workers : worker[j][w].pc = "idle"
        /\ i # j => inst'[i] = inst[i]
    BY <1>0, <1>10 DEF Exit, TypeOK
  <2> QED BY <1>0, <2>1
<1>11. Api => UNCHANGED <<inst, pass, queue, worker>>
  BY DEF Api, Create, CreateBatch, SeedDemo, ClearDemo, Cancel
<1>12. ASSUME NEW j \in Instances, WatchdogStep(j) \/ RecoverFails(j)
       PROVE  UNCHANGED <<inst, pass, queue, worker>>
  BY <1>12 DEF WatchdogStep, SweepFind, SweepFail, RecoverFails
<1>13. ASSUME NEW t \in TaskId, TimeoutElapses(t) PROVE UNCHANGED <<inst, pass, queue, worker>>
  BY <1>13 DEF TimeoutElapses
<1>14. UNCHANGED vars => UNCHANGED <<inst, pass, queue, worker>>
  BY DEF vars
<1> QED
  BY <1>1, <1>2, <1>3, <1>4, <1>5, <1>6, <1>7, <1>8, <1>9, <1>10, <1>11, <1>12, <1>13, <1>14
     DEF Next, SchedulerStep, WorkerStep, Stopping, Faults

LEMMA FreshIdsAreCleanStep ==
  ASSUME ClaimInv, [Next]_vars
  PROVE  FreshIdsAreClean'
<1> SUFFICES ASSUME NEW t \in TaskId, nextId' <= t
             PROVE  dlq'[t] = 0 /\ t \notin reclaimed'
  BY DEF FreshIdsAreClean
<1>0. TypeOK /\ ExclusiveClaim
  BY DEF ClaimInv
<1>1. RowMoves(t)
  BY <1>0, RowStep
<1>2. nextId <= t
  BY <1>0, NextIdGrows, RowTypes
<1>3. dlq[t] = 0 /\ t \notin reclaimed
  BY <1>2 DEF ClaimInv, FreshIdsAreClean
<1>4. t \notin reclaimed'
  <2>1. ASSUME NEW i \in Instances, NEW s \in sweep[i], s.id = t PROVE t < nextId
    BY <1>0, <2>1, HeldTypes DEF ClaimInv, CopiesAreInBudget
  <2> QED BY <1>0, <1>2, <1>3, <2>1, ReclaimedGrows, RowTypes
<1>5. ASSUME NEW i \in Instances, NEW s \in Snapshot, s.id = t
      PROVE  ~Reported(i, s) /\ ~Swept(i, s)
  <2>1. Holding(i, s) \/ s \in sweep[i] => t < nextId
    BY <1>5 DEF ClaimInv, CopiesAreInBudget
  <2> QED BY <1>0, <1>2, <2>1, RowTypes DEF Reported, Swept
<1> QED
  BY <1>1, <1>3, <1>4, <1>5
     DEF RowMoves, RowKept, RowCreated, RowDeleted, RowCancelled, RowClaimed, RowRequeued

LEMMA ExclusiveClaimStep ==
  ASSUME ClaimInv, [Next]_vars
  PROVE  ExclusiveClaim'
<1> SUFFICES ASSUME NEW t \in TaskId \ reclaimed' PROVE HeldOnce(t)'
  BY DEF ExclusiveClaim, HeldOnce
<1>0. TypeOK /\ t \in TaskId \ reclaimed
  BY ReclaimedGrows DEF ClaimInv
<1>1. HeldOnce(t)
  BY <1>0 DEF ClaimInv, ExclusiveClaim, HeldOnce
<1>2. CASE UNCHANGED <<pass, queue, worker>>
  BY <1>0, <1>1, <1>2, HeldOnceShrinks DEF InPass, InQueue, AtWorker
<1>3. ASSUME NEW j \in Instances, DequeueCommit(j) PROVE HeldOnce(t)'
  <2>1. pass[j].pc = "claiming" /\ pass[j].task \in Snapshot /\ Claims(j, pass[j].task)
    BY <1>0, <1>3, PlaceTypes DEF DequeueCommit, Claims
  <2>2. pass[j].task.id = t => t \in DOMAIN tasks /\ tasks[t].status = "pending"
    BY <2>1 DEF ClaimInv, ClaimsAreLocked
  <2>3. pass[j].task.id = t => \A i \in Instances : ~Holds(i, t)
    BY <1>0, <2>2, PendingIsFree
  <2> QED BY <1>0, <1>1, <1>3, <2>3, HeldOnceAfterCommit
<1>4. ASSUME NEW j \in Instances, Dequeue(j) \/ PassDropped(j) PROVE HeldOnce(t)'
  <2>1. UNCHANGED <<queue, worker>>
    BY <1>4 DEF Dequeue, PassDropped
  <2>2. \A i \in Instances : InPass(i, t)' => InPass(i, t)
    BY <1>0, <1>4 DEF Dequeue, PassDropped, InPass, TypeOK, IdlePass
  <2> QED BY <1>0, <1>1, <2>1, <2>2, HeldOnceShrinks DEF InQueue, AtWorker
<1>5. ASSUME NEW j \in Instances, Submit(j) PROVE HeldOnce(t)'
  BY <1>0, <1>1, <1>5, HeldOnceAfterSubmit
<1>6. ASSUME NEW j \in Instances, Crash(j) PROVE HeldOnce(t)'
  <2>1. \A i \in Instances : i # j => /\ pass'[i] = pass[i] /\ queue'[i] = queue[i]
                                      /\ worker'[i] = worker[i]
    BY <1>0, <1>6 DEF Crash, TypeOK
  <2>2. /\ pass'[j] = IdlePass /\ queue'[j] = << >>
        /\ worker'[j] = [w \in Workers |-> IdleWorker]
    BY <1>0, <1>6 DEF Crash, TypeOK
  <2>3. \A i \in Instances : InPass(i, t)' => InPass(i, t)
    BY <2>1, <2>2 DEF InPass, IdlePass
  <2>4. \A i \in Instances : \A k \in 1..Len(queue'[i]) :
            InQueue(i, k, t)' => k \in 1..Len(queue[i]) /\ InQueue(i, k, t)
    BY <2>1, <2>2 DEF InQueue
  <2>5. \A i \in Instances, w \in Workers : AtWorker(i, w, t)' => AtWorker(i, w, t)
    BY <2>1, <2>2 DEF AtWorker, IdleWorker
  <2> QED BY <1>0, <1>1, <2>3, <2>4, <2>5, HeldOnceShrinks
<1>7. ASSUME NEW j \in Instances, NEW v \in Workers, Receive(j, v) PROVE HeldOnce(t)'
  BY <1>0, <1>1, <1>7, HeldOnceAfterReceive
<1>8. ASSUME NEW j \in Instances, NEW v \in Workers, WorkerRuns(j, v) \/ WorkerDone(j, v)
      PROVE  HeldOnce(t)'
  <2>1. UNCHANGED <<pass, queue>>
    BY <1>8 DEF WorkerRuns, WorkerDone
  <2>2. ASSUME NEW i \in Instances, NEW w \in Workers, AtWorker(i, w, t)'
        PROVE  AtWorker(i, w, t)
    <3>1. CASE WorkerRuns(j, v)
      BY <1>0, <2>2, <3>1 DEF WorkerRuns, AtWorker, TypeOK, WorkerState, IdleWorker
    <3>2. CASE WorkerDone(j, v)
      BY <1>0, <2>2, <3>2 DEF WorkerDone, AtWorker, TypeOK, IdleWorker
    <3> QED BY <1>8, <3>1, <3>2
  <2> QED BY <1>0, <1>1, <2>1, <2>2, HeldOnceShrinks DEF InPass, InQueue
<1> QED
  BY <1>2, <1>3, <1>4, <1>5, <1>6, <1>7, <1>8, MemoryCases

(* The row of a task under a claim is pending. *)
LEMMA ClaimedIsPending ==
  ASSUME ClaimInv, NEW i \in Instances, NEW t \in TaskId, RowClaimed(t, i)
  PROVE  t \in DOMAIN tasks /\ tasks[t].status = "pending"
<1>1. pass[i].task \in Snapshot /\ Claims(i, pass[i].task) /\ pass[i].task.id = t
  BY PlaceTypes DEF ClaimInv, RowClaimed, Claims
<1> QED BY <1>1 DEF ClaimInv, ClaimsAreLocked

LEMMA DeadLetterOnceStep ==
  ASSUME ClaimInv, [Next]_vars
  PROVE  DeadLetterOnce'
<1> DEFINE Agree(t) ==
             /\ dlq[t] <= 1
             /\ t \in DOMAIN tasks => (dlq[t] = 1 <=> tasks[t].status = "failed")
<1> SUFFICES ASSUME NEW t \in TaskId \ reclaimed' PROVE Agree(t)'
  BY DEF DeadLetterOnce
<1>0. TypeOK /\ ExclusiveClaim /\ t \in TaskId \ reclaimed
  BY ReclaimedGrows DEF ClaimInv
<1>1. RowMoves(t)
  BY <1>0, RowStep
<1>2. Agree(t)
  BY <1>0 DEF ClaimInv, DeadLetterOnce
<1>3. RowKept(t) => Agree(t)'
  BY <1>2 DEF RowKept
<1>4. RowCreated(t) => Agree(t)'
  <2>1. RowCreated(t) => dlq[t] = 0
    BY <1>0 DEF RowCreated, ClaimInv, FreshIdsAreClean
  <2> QED BY <2>1 DEF RowCreated
<1>5. RowDeleted(t) => Agree(t)'
  BY DEF RowDeleted
<1>6. RowCancelled(t) => Agree(t)'
  <2>1. RowCancelled(t) => dlq[t] = 0
    BY <1>0, LiveIsClean DEF RowCancelled, RowWritten
  <2> QED BY <2>1 DEF RowCancelled, RowWritten
<1>7. ASSUME NEW i \in Instances, RowClaimed(t, i) PROVE Agree(t)'
  <2>1. dlq[t] = 0
    BY <1>0, <1>7, ClaimedIsPending, LiveIsClean
  <2> QED BY <1>7, <2>1 DEF RowClaimed, RowWritten
<1>8. ASSUME NEW i \in Instances, RowRequeued(t, i) PROVE Agree(t)'
  <2>1. dlq[t] = 0
    BY <1>0, <1>8, LiveIsClean DEF RowRequeued, RowWritten
  <2> QED BY <1>8, <2>1 DEF RowRequeued, RowWritten
<1>9. ASSUME NEW i \in Instances, NEW s \in Snapshot, s.id = t, Reported(i, s),
             RowCompleted(s) \/ RowRetried(s) \/ RowDeadLettered(s)
      PROVE  Agree(t)'
  <2>1. dlq[t] = 0
    BY <1>0, <1>9 DEF Reported, ClaimInv, HeldRowsAreCurrent
  <2>2. RowCompleted(s) \/ RowRetried(s) => Agree(t)'
    BY <1>9, <2>1 DEF RowCompleted, RowRetried, RowWritten
  <2>3. RowDeadLettered(s) => Agree(t)'
    BY <1>9, <2>1 DEF RowDeadLettered, RowWritten
  <2> QED BY <1>9, <2>2, <2>3
<1>10. ASSUME NEW i \in Instances, NEW s \in Snapshot, s.id = t PROVE ~Swept(i, s)
  BY <1>10 DEF Swept
<1> QED
  BY <1>1, <1>3, <1>4, <1>5, <1>6, <1>7, <1>8, <1>9, <1>10 DEF RowMoves

LEMMA CompletedAtIffTerminalStep ==
  ASSUME ClaimInv, [Next]_vars
  PROVE  CompletedAtIffTerminal'
<1> DEFINE Ended(t) == tasks[t].completed_at = "set" <=> tasks[t].status \in Terminal
<1> SUFFICES ASSUME NEW t \in DOMAIN tasks' PROVE Ended(t)'
  BY DEF CompletedAtIffTerminal
<1>0. TypeOK /\ TypeOK' /\ ExclusiveClaim
  BY TypeStep DEF ClaimInv
<1>1. t \in TaskId
  BY <1>0 DEF TypeOK, DBTypeOK
<1>2. RowMoves(t)
  BY <1>0, <1>1, RowStep
<1>3. t \in DOMAIN tasks => Ended(t)
  BY DEF ClaimInv, CompletedAtIffTerminal
<1>4. RowKept(t) => Ended(t)'
  BY <1>3 DEF RowKept
<1>5. RowCreated(t) \/ RowDeleted(t) \/ RowCancelled(t) => Ended(t)'
  BY DEF RowCreated, RowDeleted, RowCancelled, RowWritten, Terminal, Null
<1>6. ASSUME NEW i \in Instances, RowClaimed(t, i) PROVE Ended(t)'
  <2>1. t \in DOMAIN tasks /\ tasks[t].status = "pending"
    BY <1>1, <1>6, ClaimedIsPending
  <2> QED BY <1>3, <1>6, <2>1 DEF RowClaimed, RowWritten, Terminal
<1>7. ASSUME NEW i \in Instances, RowRequeued(t, i) PROVE Ended(t)'
  BY <1>3, <1>7 DEF RowRequeued, RowWritten, Terminal
<1>8. ASSUME NEW s \in Snapshot, s.id = t,
             RowCompleted(s) \/ RowRetried(s) \/ RowDeadLettered(s)
      PROVE  Ended(t)'
  BY <1>8 DEF RowCompleted, RowRetried, RowDeadLettered, RowWritten, Terminal, Null
<1> QED
  BY <1>2, <1>4, <1>5, <1>6, <1>7, <1>8 DEF RowMoves

(* The invariant holds initially ... *)
LEMMA ClaimInvInit == Init => ClaimInv
<1> SUFFICES ASSUME Init PROVE ClaimInv
  OBVIOUS
<1>1. TypeOK
  BY TaskServiceAssumption, EngineAssumption
     DEF Init, InitDB, TypeOK, DBTypeOK, EmptyTable, TaskId, InstState, PassState, WorkerState
<1>2. /\ DOMAIN tasks = {} /\ dlq = [t \in TaskId |-> 0] /\ reclaimed = {}
      /\ \A i \in Instances : /\ inst[i] = "up" /\ pass[i].pc = "idle" /\ queue[i] = << >>
                              /\ sweep[i] = {}
                              /\ \A w \in Workers : worker[i][w].pc = "idle"
  BY DEF Init, InitDB, EmptyTable, IdlePass, IdleWorker
<1>3. ClaimsAreLocked /\ CopiesAreInBudget /\ HeldRowsAreCurrent
  BY <1>2 DEF ClaimsAreLocked, CopiesAreInBudget, HeldRowsAreCurrent, Claims, Holding
<1>4. RowsAreInBudget /\ DownHoldsNothing /\ FreshIdsAreClean /\ DeadLetterOnce
      /\ CompletedAtIffTerminal
  BY <1>2 DEF RowsAreInBudget, DownHoldsNothing, FreshIdsAreClean, DeadLetterOnce,
              CompletedAtIffTerminal
<1>5. ExclusiveClaim
  BY <1>2 DEF ExclusiveClaim, InPass, InQueue, AtWorker
<1> QED BY <1>1, <1>3, <1>4, <1>5 DEF ClaimInv

(* ... and every step preserves it. *)
LEMMA ClaimInvStep == ClaimInv /\ [Next]_vars => ClaimInv'
<1> SUFFICES ASSUME ClaimInv, [Next]_vars PROVE ClaimInv'
  OBVIOUS
<1>1. TypeOK'
  BY TypeStep DEF ClaimInv
<1> QED
  BY <1>1, ClaimsAreLockedStep, CopiesAreInBudgetStep, RowsAreInBudgetStep,
     HeldRowsAreCurrentStep, DownHoldsNothingStep, FreshIdsAreCleanStep,
     ExclusiveClaimStep, DeadLetterOnceStep, CompletedAtIffTerminalStep DEF ClaimInv

LEMMA ClaimInvariant == Spec => []ClaimInv
BY ClaimInvInit, ClaimInvStep, PTL DEF Spec

-----------------------------------------------------------------------------
(* The safety invariants of the engine. *)

(* SKIP LOCKED keeps its promise through the whole engine: a task that no  *)
(* watchdog has failed is in at most one pass, channel or worker of at     *)
(* most one instance (DequeueTaskForClient, Submit, process).              *)
THEOREM ClaimsAreExclusive == Spec => []ExclusiveClaim
<1>1. ClaimInv => ExclusiveClaim
  BY DEF ClaimInv
<1> QED BY <1>1, ClaimInvariant, PTL

(* A task that no watchdog has failed is in the dead letter queue at most  *)
(* once, and exactly when its row says "failed" (deadLetter).              *)
THEOREM DeadLettersAreUnique == Spec => []DeadLetterOnce
<1>1. ClaimInv => DeadLetterOnce
  BY DEF ClaimInv
<1> QED BY <1>1, ClaimInvariant, PTL

(* FailTask decides on a copy that may be stale, yet never gives out more  *)
(* retries than the row allows, for any number of watchdogs.               *)
THEOREM BudgetIsKept == Spec => []RetryBudgetKept
<1>1. ASSUME ClaimInv, NEW i \in Instances, NEW s \in sweep[i]
      PROVE  s.retry_count <= s.max_retries
  <2>1. s \in Snapshot
    BY <1>1, HeldTypes DEF ClaimInv
  <2> QED BY <1>1, <2>1 DEF ClaimInv, CopiesAreInBudget
<1>2. ClaimInv => RetryBudgetKept
  BY <1>1 DEF ClaimInv, RowsAreInBudget, RetryBudgetKept
<1> QED BY <1>2, ClaimInvariant, PTL

(* completed_at is set exactly on the rows in a terminal state, whatever   *)
(* late writes do to a row.                                                *)
THEOREM CompletionIsStamped == Spec => []CompletedAtIffTerminal
<1>1. ClaimInv => CompletedAtIffTerminal
  BY DEF ClaimInv
<1> QED BY <1>1, ClaimInvariant, PTL

-----------------------------------------------------------------------------
(* What a step never does. *)

(* The row of a task that was held by somebody who has just reported on it *)
(* was running or had been cancelled, and the copy's count was the row's.  *)
LEMMA ReportedIsLive ==
  ASSUME ClaimInv, NEW i \in Instances, NEW s \in Snapshot, s.id \notin reclaimed,
         Reported(i, s), s.id \in DOMAIN tasks
  PROVE  /\ Holds(i, s.id)
         /\ tasks[s.id].status \in {"running", "cancelled"}
         /\ s.retry_count = tasks[s.id].retry_count
<1>1. s.id \in TaskId
  BY DEF Snapshot
<1> QED
  BY <1>1, HoldsIsHolding DEF Reported, ClaimInv, HeldRowsAreCurrent

LEMMA OutcomeStep ==
  ASSUME ClaimInv, [Next]_vars, NEW t \in DOMAIN tasks \ reclaimed',
         tasks[t].status \in {"completed", "failed"}
  PROVE  StatusAfter(t) \in {tasks[t].status, "deleted"}
<1>0. TypeOK /\ ExclusiveClaim /\ t \notin reclaimed
  BY ReclaimedGrows DEF ClaimInv
<1>1. t \in TaskId
  BY <1>0 DEF TypeOK, DBTypeOK
<1>2. RowMoves(t)
  BY <1>0, <1>1, RowStep
<1>3. ~RowCreated(t)
  BY <1>0, <1>1, RowTypes DEF RowCreated
<1>4. ~RowCancelled(t) /\ \A i \in Instances : ~RowClaimed(t, i) /\ ~RowRequeued(t, i)
  BY <1>1, ClaimedIsPending DEF RowCancelled, RowRequeued
<1>5. \A i \in Instances, s \in Snapshot : s.id = t => ~Reported(i, s) /\ ~Swept(i, s)
  BY <1>0, ReportedIsLive DEF Swept
<1>6. RowKept(t) \/ RowDeleted(t)
  BY <1>2, <1>3, <1>4, <1>5 DEF RowMoves
<1> QED BY <1>6 DEF RowKept, RowDeleted, StatusAfter

(* "completed" and "failed" are final for a task that no watchdog has      *)
(* failed: CompleteTask, FailTask, a claim, a cancel and startup recovery, *)
(* whose UPDATEs would overwrite any status, never meet such a row.        *)
THEOREM OutcomesAreFinal == Spec => OutcomeIsFinal
<1>1. ClaimInv /\ [Next]_vars =>
        [\A t \in DOMAIN tasks \ reclaimed' :
           tasks[t].status \in {"completed", "failed"} =>
             StatusAfter(t) \in {tasks[t].status, "deleted"}]_vars
  BY OutcomeStep
<1> QED BY <1>1, ClaimInvariant, PTL DEF Spec, OutcomeIsFinal

(* Nobody gets a copy of a row that is cancelled or gone: a claim needs a  *)
(* pending row until it commits, a sweep a running one.                    *)
LEMMA NoNewCopy ==
  ASSUME ClaimInv, [Next]_vars, NEW t \in TaskId, ~Copied(t),
         t \in DOMAIN tasks => tasks[t].status = "cancelled"
  PROVE  ~Copied(t)'
<1>0. TypeOK
  BY DEF ClaimInv
<1>1. ASSUME NEW i \in Instances, NEW s, s.id = t, Holding(i, s)' PROVE FALSE
  <2>1. ~Holding(i, s)
    BY <1>1 DEF Copied, Holds, Waits, InPass, InQueue, AtWorker, Holding
  <2>2. ~Claims(i, s)
    <3>1. Claims(i, s) => s \in Snapshot
      BY <1>0, PlaceTypes DEF Claims
    <3> QED BY <1>1, <3>1 DEF ClaimInv, ClaimsAreLocked
  <2> QED BY <1>0, <1>1, <2>1, <2>2, HoldingStep
<1>2. \A i \in Instances : ~Holds(i, t)'
  BY <1>1 DEF Holds, Waits, InPass, InQueue, AtWorker, Holding
<1>3. ASSUME NEW i \in Instances, NEW s \in sweep'[i], s.id = t PROVE FALSE
  <2>1. s \notin sweep[i]
    BY <1>3 DEF Copied
  <2>2. \A u \in DOMAIN tasks : s = SnapshotOf(u) => u = t
    BY <1>3 DEF SnapshotOf
  <2> QED BY <1>0, <2>1, <2>2, SweepStep
<1> QED BY <1>2, <1>3 DEF Copied

LEMMA UnheldCancelStep ==
  ASSUME ClaimInv, [Next]_vars, NEW t \in DOMAIN tasks, tasks[t].status = "cancelled", ~Copied(t)
  PROVE  StatusAfter(t) \in {"cancelled", "deleted"}
<1>0. TypeOK /\ ExclusiveClaim
  BY DEF ClaimInv
<1>1. t \in TaskId
  BY <1>0 DEF TypeOK, DBTypeOK
<1>2. RowMoves(t)
  BY <1>0, <1>1, RowStep
<1>3. ~RowCreated(t)
  BY <1>0, <1>1, RowTypes DEF RowCreated
<1>4. ~RowCancelled(t) /\ \A i \in Instances : ~RowClaimed(t, i) /\ ~RowRequeued(t, i)
  BY <1>1, ClaimedIsPending DEF RowCancelled, RowRequeued
<1>5. \A i \in Instances, s \in Snapshot : s.id = t => ~Reported(i, s) /\ ~Swept(i, s)
  BY <1>0, <1>1, HoldsIsHolding DEF Reported, Swept, Copied
<1>6. RowKept(t) \/ RowDeleted(t)
  BY <1>2, <1>3, <1>4, <1>5 DEF RowMoves
<1> QED BY <1>6 DEF RowKept, RowDeleted, StatusAfter

(* A cancelled row of which no worker, channel, pass or sweep has a copy   *)
(* stays cancelled, and nobody ever gets a copy of it (CancelTask, the     *)
(* WHERE status = 'pending' of the claim and the WHERE status = 'running'  *)
(* of startup recovery and of the watchdog), whether or not watchdogs have *)
(* failed the task before.                                                 *)
THEOREM UnheldCancelsAreFinal == Spec => UnheldCancelIsFinal
<1>1. ClaimInv /\ [Next]_vars =>
        [\A t \in DOMAIN tasks :
           tasks[t].status = "cancelled" /\ ~Copied(t) =>
             StatusAfter(t) \in {"cancelled", "deleted"} /\ ~Copied(t)']_vars
  <2>1. ASSUME ClaimInv, [Next]_vars, NEW t \in DOMAIN tasks,
               tasks[t].status = "cancelled", ~Copied(t)
        PROVE  StatusAfter(t) \in {"cancelled", "deleted"} /\ ~Copied(t)'
    <3>1. t \in TaskId
      BY <2>1 DEF ClaimInv, TypeOK, DBTypeOK
    <3> QED BY <2>1, <3>1, UnheldCancelStep, NoNewCopy
  <2> QED BY <2>1
<1> QED BY <1>1, ClaimInvariant, PTL DEF Spec, UnheldCancelIsFinal

LEMMA RetryCountStep ==
  ASSUME ClaimInv, [Next]_vars, NEW t \in (DOMAIN tasks \cap DOMAIN tasks') \ reclaimed'
  PROVE  tasks'[t].retry_count \in {tasks[t].retry_count, tasks[t].retry_count + 1}
<1>0. TypeOK /\ ExclusiveClaim /\ t \notin reclaimed
  BY ReclaimedGrows DEF ClaimInv
<1>1. t \in TaskId
  BY <1>0 DEF TypeOK, DBTypeOK
<1>2. RowMoves(t)
  BY <1>0, <1>1, RowStep
<1>3. ~RowCreated(t) /\ ~RowDeleted(t)
  BY <1>0, <1>1, RowTypes DEF RowCreated, RowDeleted
<1>4. ASSUME NEW i \in Instances, NEW s \in Snapshot, s.id = t, Reported(i, s), RowRetried(s)
      PROVE  tasks'[t].retry_count = tasks[t].retry_count + 1
  BY <1>0, <1>4, ReportedIsLive DEF RowRetried, RowWritten
<1>5. \A i \in Instances, s \in Snapshot : s.id = t => ~Swept(i, s)
  BY DEF Swept
<1>6. ASSUME NEW s \in Snapshot, s.id = t, RowCompleted(s) \/ RowDeadLettered(s)
      PROVE  tasks'[t].retry_count = tasks[t].retry_count
  BY <1>6 DEF RowCompleted, RowDeadLettered, RowWritten
<1>7. RowKept(t) \/ RowCancelled(t) \/ (\E i \in Instances : RowClaimed(t, i) \/ RowRequeued(t, i))
        => tasks'[t].retry_count = tasks[t].retry_count
  BY DEF RowKept, RowCancelled, RowClaimed, RowRequeued, RowWritten
<1> QED BY <1>2, <1>3, <1>4, <1>5, <1>6, <1>7 DEF RowMoves

(* No failure is forgotten: retry_count, which FailTask writes from its    *)
(* copy, never decreases and never skips, on a task no watchdog has failed; *)
(* startup recovery leaves it alone.                                       *)
THEOREM RetriesAreCounted == Spec => RetryCountMonotone
<1>1. ClaimInv /\ [Next]_vars =>
        [\A t \in (DOMAIN tasks \cap DOMAIN tasks') \ reclaimed' :
           tasks'[t].retry_count \in {tasks[t].retry_count, tasks[t].retry_count + 1}]_vars
  BY RetryCountStep
<1> QED BY <1>1, ClaimInvariant, PTL DEF Spec, RetryCountMonotone

-----------------------------------------------------------------------------
(* The engine implements the abstract queue. *)

(* Who holds a task after a step held it before, or has just committed its *)
(* claim.                                                                  *)
LEMMA HoldsStep ==
  ASSUME TypeOK, [Next]_vars, NEW i \in Instances, NEW t \in TaskId, Holds(i, t)'
  PROVE  Holds(i, t) \/ (DequeueCommit(i) /\ pass[i].task.id = t)
<1>1. PICK s : s.id = t /\ Holding(i, s)'
  BY DEF Holds, Waits, InPass, InQueue, AtWorker, Holding
<1>2. Holding(i, s) => Holds(i, t)
  BY <1>1 DEF Holds, Waits, InPass, InQueue, AtWorker, Holding
<1> QED BY <1>1, <1>2, HoldingStep DEF Claims

(* Only a report and a kill end a hold. *)
LEMMA HoldsKept ==
  ASSUME TypeOK, NEW i \in Instances, NEW t \in TaskId, Holds(i, t),
         \/ UNCHANGED <<pass, queue, worker>>
         \/ \E j \in Instances : \/ Dequeue(j) \/ DequeueCommit(j) \/ Submit(j)
                                 \/ pass[j].pc = "claiming" /\ PassDropped(j)
         \/ \E j \in Instances, v \in Workers :
              \/ Receive(j, v) \/ WorkerRuns(j, v)
              \/ WorkerDone(j, v) /\ worker[j][v].task.id # t
  PROVE  Holds(i, t)'
<1>1. CASE UNCHANGED <<pass, queue, worker>>
  BY <1>1, MemoryFrame
<1>2. ASSUME NEW j \in Instances,
             Dequeue(j) \/ DequeueCommit(j) \/ (pass[j].pc = "claiming" /\ PassDropped(j))
      PROVE  Holds(i, t)'
  <2>1. pass[j].pc # "submitting" /\ UNCHANGED <<queue, worker>>
    BY <1>2 DEF Dequeue, DequeueCommit, PassDropped
  <2>2. i # j => pass'[i] = pass[i]
    <3>1. Dequeue(j) /\ i # j => pass'[i] = pass[i]
      BY DEF Dequeue, TypeOK
    <3>2. DequeueCommit(j) /\ i # j => pass'[i] = pass[i]
      BY DEF DequeueCommit, TypeOK
    <3>3. PassDropped(j) /\ i # j => pass'[i] = pass[i]
      BY DEF PassDropped, TypeOK
    <3> QED BY <1>2, <3>1, <3>2, <3>3
  <2> QED BY <2>1, <2>2 DEF Holds, Waits, InPass, InQueue, AtWorker
<1>3. ASSUME NEW j \in Instances, Submit(j) PROVE Holds(i, t)'
  BY <1>3, SubmitKeeps DEF Submit, Holds, AtWorker
<1>4. ASSUME NEW j \in Instances, NEW v \in Workers, Receive(j, v) PROVE Holds(i, t)'
  <2>1. ASSUME NEW w \in Workers, AtWorker(i, w, t) PROVE AtWorker(i, w, t)'
    BY <1>4, <2>1 DEF Receive, AtWorker, TypeOK
  <2> QED BY <1>4, <2>1, ReceiveKeeps DEF Holds, AtWorker, Picked
<1>5. ASSUME NEW j \in Instances, NEW v \in Workers, WorkerRuns(j, v) PROVE Holds(i, t)'
  <2>1. ASSUME NEW w \in Workers, AtWorker(i, w, t) PROVE AtWorker(i, w, t)'
    <3>1. worker[j][v] \in WorkerState
      BY DEF TypeOK
    <3> QED BY <1>5, <2>1, <3>1 DEF WorkerRuns, AtWorker, TypeOK, WorkerState, IdleWorker
  <2> QED BY <1>5, <2>1 DEF WorkerRuns, Holds, Waits, InPass, InQueue
<1>6. ASSUME NEW j \in Instances, NEW v \in Workers, WorkerDone(j, v),
             worker[j][v].task.id # t
      PROVE  Holds(i, t)'
  <2>1. ASSUME NEW w \in Workers, AtWorker(i, w, t) PROVE AtWorker(i, w, t)'
    BY <1>6, <2>1 DEF WorkerDone, AtWorker, TypeOK
  <2> QED BY <1>6, <2>1 DEF WorkerDone, Holds, Waits, InPass, InQueue
<1> QED BY <1>1, <1>2, <1>3, <1>4, <1>5, <1>6

(* Such steps neither give nor take a lease. *)
LEMMA LeasesKept ==
  ASSUME TypeOK, [Next]_vars, reclaimed' = reclaimed,
         \/ UNCHANGED <<pass, queue, worker>>
         \/ \E j \in Instances : \/ Dequeue(j) \/ Submit(j)
                                 \/ pass[j].pc = "claiming" /\ PassDropped(j)
         \/ \E j \in Instances, v \in Workers : Receive(j, v) \/ WorkerRuns(j, v)
  PROVE  Leases' = Leases
<1>1. ASSUME NEW i \in Instances, DequeueCommit(i) PROVE FALSE
  <2>1. pass[i].pc = "claiming" /\ pass'[i].pc = "submitting"
    <3>1. pass[i] \in PassState /\ pass[i].pc = "claiming"
      BY <1>1 DEF DequeueCommit, TypeOK
    <3> QED BY <1>1, <3>1 DEF DequeueCommit, TypeOK, PassState, IdlePass
  <2>2. ASSUME NEW j \in Instances,
               Dequeue(j) \/ Submit(j) \/ (pass[j].pc = "claiming" /\ PassDropped(j))
        PROVE  pass'[i].pc # "submitting"
    BY <2>1, <2>2 DEF Dequeue, Submit, PassDropped, TypeOK, IdlePass
  <2>3. UNCHANGED pass => pass'[i].pc # "submitting"
    BY <2>1
  <2> QED BY <2>1, <2>2, <2>3 DEF Receive, WorkerRuns
<1>2. ASSUME NEW i \in Instances, NEW t \in TaskId PROVE Holds(i, t)' <=> Holds(i, t)
  BY <1>1, HoldsStep, HoldsKept
<1> QED BY <1>2 DEF Leases

(* The rows of the promised jobs are left alone. *)
LEMMA JobsKept ==
  ASSUME TypeOK, TypeOK', reclaimed' = reclaimed,
         \A t \in TaskId \ reclaimed : RowKept(t)
  PROVE  PromisedJobs' = PromisedJobs
<1>1. DOMAIN tasks \subseteq TaskId /\ DOMAIN tasks' \subseteq TaskId
  BY DEF TypeOK, DBTypeOK
<1>2. DOMAIN tasks' \ reclaimed' = DOMAIN tasks \ reclaimed
  BY <1>1 DEF RowKept
<1>3. \A t \in DOMAIN tasks \ reclaimed : /\ tasks'[t].status = tasks[t].status
                                          /\ tasks'[t].retry_count = tasks[t].retry_count
                                          /\ tasks'[t].max_retries = tasks[t].max_retries
  BY <1>1 DEF RowKept
<1> QED BY <1>2, <1>3 DEF PromisedJobs

(* The rows of ts get the status st, the others are left alone. *)
LEMMA JobsBecome ==
  ASSUME TypeOK, TypeOK', reclaimed' = reclaimed, NEW ts, NEW st,
         \A t \in TaskId \ reclaimed :
           /\ t \notin ts => RowKept(t)
           /\ t \in ts => \/ RowWritten(t, st, tasks[t].retry_count)
                          \/ t \notin DOMAIN tasks /\ t \notin DOMAIN tasks'
  PROVE  Queue!Becomes(ts, st)
<1>1. DOMAIN tasks \subseteq TaskId /\ DOMAIN tasks' \subseteq TaskId
  BY DEF TypeOK, DBTypeOK
<1>2. DOMAIN tasks' \ reclaimed' = DOMAIN tasks \ reclaimed
  BY <1>1 DEF RowKept, RowWritten
<1>3. \A t \in DOMAIN tasks \ reclaimed :
         /\ tasks'[t].status = IF t \in ts THEN st ELSE tasks[t].status
         /\ tasks'[t].retry_count = tasks[t].retry_count
         /\ tasks'[t].max_retries = tasks[t].max_retries
  BY <1>1 DEF RowKept, RowWritten
<1> QED BY <1>2, <1>3 DEF PromisedJobs, Queue!Becomes

(* A statement on row u leaves every other row alone. *)
LEMMA OthersKept ==
  ASSUME NEW u, RowWrite(u), dlq' = dlq, NEW t, t # u
  PROVE  RowKept(t)
BY DEF RowWrite, RowKept

QStep == Queue!QueueNext \/ UNCHANGED Queue!queueVars

(* A step that changes none of the three is a stutter. *)
LEMMA Stutter ==
  ASSUME PromisedJobs' = PromisedJobs, Leases' = Leases, nextId' = nextId
  PROVE  QStep
BY DEF QStep, Queue!queueVars

(* Create, BatchCreateTasks and AddDemoTasks enqueue.                      *)
LEMMA EnqueueStep ==
  ASSUME ClaimInv, [Next]_vars, Create \/ CreateBatch \/ SeedDemo
  PROVE  QStep
<1>0. TypeOK /\ TypeOK' /\ DBTypeOK
  BY TypeStep DEF ClaimInv, TypeOK
<1>1. PICK ins \in Seq(Input) : Len(ins) > 0 /\ Insert(ins)
  BY <1>0, SubmissionFacts
<1>2. UNCHANGED <<pass, queue, worker, reclaimed>>
  BY <1>0, SubmissionFacts DEF procVars
<1> DEFINE new == nextId .. (nextId' - 1)
<1>3. /\ nextId' = nextId + Len(ins)
      /\ DOMAIN tasks' = DOMAIN tasks \cup new
      /\ \A u \in DOMAIN tasks : tasks'[u] = tasks[u]
      /\ \A u \in DOMAIN tasks' \ DOMAIN tasks : /\ nextId <= u
                                                 /\ tasks'[u].status = "pending"
                                                 /\ tasks'[u].retry_count = 0
  BY <1>0, <1>1, InsertFacts
<1>4. nextId' \in Nat /\ nextId' > nextId
  <2>1. nextId \in Nat /\ Len(ins) \in Nat
    BY TaskServiceAssumption, <1>0 DEF DBTypeOK
  <2> QED BY <1>1, <1>3, <2>1
<1>5. \A u \in new : u \notin DOMAIN tasks /\ u \notin reclaimed
  <2>1. nextId \in Nat /\ DOMAIN tasks' \subseteq TaskId
    BY TaskServiceAssumption, <1>0 DEF TypeOK, DBTypeOK
  <2>2. \A u \in new : u \in TaskId /\ nextId <= u
    BY <1>3, <2>1 DEF TaskId
  <2>3. \A u \in DOMAIN tasks : u \in Nat /\ u < nextId
    BY <1>0, TaskServiceAssumption DEF DBTypeOK, TaskId
  <2> QED BY <2>1, <2>2, <2>3 DEF ClaimInv, FreshIdsAreClean
<1> DEFINE limit == [u \in new |-> tasks'[u].max_retries]
<1>6. limit \in [new -> RowLimits]
  BY <1>0, <1>3 DEF TypeOK, DBTypeOK, Row
<1>7. DOMAIN PromisedJobs' = DOMAIN PromisedJobs \cup new
  BY <1>2, <1>3, <1>5 DEF PromisedJobs
<1>8. PromisedJobs' = [t \in DOMAIN PromisedJobs \cup DOMAIN limit |->
                          IF t \in DOMAIN PromisedJobs THEN PromisedJobs[t]
                          ELSE [state |-> "pending", attempts |-> 0, limit |-> limit[t]]]
  <2>1. \A t \in DOMAIN PromisedJobs :
          t \in DOMAIN PromisedJobs' /\ PromisedJobs'[t] = PromisedJobs[t]
    BY <1>2, <1>3 DEF PromisedJobs
  <2>2. \A t \in new :
          /\ t \in DOMAIN PromisedJobs' /\ t \notin DOMAIN PromisedJobs
          /\ PromisedJobs'[t] = [state |-> "pending", attempts |-> 0, limit |-> limit[t]]
    BY <1>2, <1>3, <1>5 DEF PromisedJobs
  <2>3. PromisedJobs' = [t \in DOMAIN PromisedJobs' |-> PromisedJobs'[t]]
    BY DEF PromisedJobs
  <2> QED BY <1>7, <2>1, <2>2, <2>3
<1>9. Leases' = Leases
  BY <1>0, <1>2, LeasesKept
<1>10. Queue!Enqueue
  BY <1>4, <1>6, <1>8, <1>9 DEF Queue!Enqueue
<1> QED BY <1>10 DEF QStep, Queue!QueueNext

(* ClearAllData deletes all jobs; the holders keep their copies.           *)
LEMMA DeleteAllStep ==
  ASSUME ClaimInv, [Next]_vars, ClearDemo
  PROVE  QStep
<1>0. TypeOK /\ DBTypeOK
  BY DEF ClaimInv, TypeOK
<1>1. /\ DOMAIN tasks' = {} /\ nextId' = nextId
      /\ UNCHANGED <<pass, queue, worker, reclaimed>>
  BY <1>0, ClearAllDataFacts DEF ClearDemo, ClearAllData, procVars
<1>2. PromisedJobs' = [t \in {} |-> "none"]
  BY <1>1 DEF PromisedJobs
<1>3. Leases' = Leases
  BY <1>0, <1>1, LeasesKept
<1> QED BY <1>1, <1>2, <1>3 DEF QStep, Queue!QueueNext, Queue!DeleteAll

(* CancelTask withdraws.                                                   *)
LEMMA WithdrawStep ==
  ASSUME ClaimInv, [Next]_vars, NEW c \in Clients, NEW u \in TaskId, Cancel(c, u)
  PROVE  QStep
<1>0. TypeOK /\ TypeOK' /\ DBTypeOK
  BY TypeStep DEF ClaimInv, TypeOK
<1>1. CancelTask(c, u) /\ UNCHANGED <<pass, queue, worker, reclaimed>>
  BY DEF Cancel, procVars
<1>2. /\ RowWrite(u) /\ dlq' = dlq /\ u \in DOMAIN tasks
      /\ tasks[u].status \in {"pending", "running"}
      /\ tasks'[u].status = "cancelled" /\ tasks'[u].retry_count = tasks[u].retry_count
  BY <1>0, <1>1, CancelTaskFacts
<1>3. Leases' = Leases
  BY <1>0, <1>1, LeasesKept
<1>4. \A t \in TaskId : t # u => RowKept(t)
  BY <1>2, OthersKept
<1>5. CASE u \in reclaimed
  BY <1>0, <1>1, <1>2, <1>3, <1>4, <1>5, JobsKept, Stutter DEF RowWrite
<1>6. CASE u \notin reclaimed
  <2>1. RowWritten(u, "cancelled", tasks[u].retry_count)
    BY <1>2 DEF RowWritten, RowWrite, SameTask
  <2>2. Queue!Becomes({u}, "cancelled")
    BY <1>0, <1>1, <1>4, <2>1, JobsBecome
  <2>3. u \in DOMAIN PromisedJobs /\ PromisedJobs[u].state \notin Queue!Ended
    BY <1>2, <1>6 DEF PromisedJobs, Queue!Ended
  <2>4. nextId' = nextId
    BY <1>2 DEF RowWrite
  <2>5. Queue!Withdraw(u)
    BY <1>3, <2>2, <2>3, <2>4 DEF Queue!Withdraw
  <2> QED BY <2>5 DEF QStep, Queue!QueueNext
<1> QED BY <1>5, <1>6

(* The COMMIT of a claim leases the job, known to the pass or not.         *)
LEMMA LeaseStep ==
  ASSUME ClaimInv, [Next]_vars, NEW i \in Instances,
         DequeueCommit(i) \/ DequeueCommitUnacknowledged(i)
  PROVE  QStep
<1>0. TypeOK /\ TypeOK' /\ DBTypeOK
  BY TypeStep DEF ClaimInv, TypeOK
<1>1. pass[i].pc = "claiming" /\ pass[i].task \in Snapshot /\ pass[i].task.id \in TaskId
  BY <1>0, HeldTypes DEF DequeueCommit, DequeueCommitUnacknowledged
<1> PICK u \in TaskId : u = pass[i].task.id
  BY <1>1
<1>2. Claim(u, i) /\ reclaimed' = reclaimed
  BY DEF DequeueCommit, DequeueCommitUnacknowledged
<1>3. u \in DOMAIN tasks /\ tasks[u].status = "pending"
  BY <1>1 DEF ClaimInv, ClaimsAreLocked, Claims
<1>4. /\ RowWrite(u) /\ dlq' = dlq
      /\ tasks'[u].status = "running" /\ tasks'[u].retry_count = tasks[u].retry_count
  BY <1>0, <1>2, <1>3, ClaimFacts
<1>5. \A t \in TaskId : t # u => RowKept(t)
  BY <1>4, OthersKept
<1>6. nextId' = nextId
  BY <1>4 DEF RowWrite
<1>7. u \in reclaimed => PromisedJobs' = PromisedJobs
  BY <1>0, <1>2, <1>5, JobsKept
<1>8. u \notin reclaimed =>
        /\ Queue!Becomes({u}, "running")
        /\ u \in DOMAIN PromisedJobs /\ PromisedJobs[u].state = "pending"
        /\ u \notin Leases
  <2>1. RowWritten(u, "running", tasks[u].retry_count)
    BY <1>3, <1>4 DEF RowWritten, RowWrite, SameTask
  <2>2. Queue!Becomes({u}, "running")
    BY <1>0, <1>2, <1>5, <2>1, JobsBecome
  <2>3. u \notin reclaimed => u \notin Leases
    BY <1>3, PendingIsFree DEF Leases
  <2> QED BY <1>3, <2>2, <2>3 DEF PromisedJobs
<1>9. CASE DequeueCommit(i)
  <2>1. Holds(i, u)'
    <3>1. pass[i] \in PassState
      BY <1>0 DEF TypeOK
    <3>2. pass'[i].pc = "submitting" /\ pass'[i].task.id = u
      BY <1>0, <1>1, <1>9, <3>1 DEF DequeueCommit, TypeOK, PassState, IdlePass
    <3> QED BY <3>2 DEF Holds, Waits, InPass
  <2>2. ASSUME NEW j \in Instances, DequeueCommit(j) PROVE pass[j].task.id = u
    <3>1. pass[j] \in PassState /\ pass[j].pc = "claiming"
      BY <1>0, <2>2 DEF DequeueCommit, TypeOK
    <3>2. pass'[j].pc = "submitting"
      BY <1>0, <2>2, <3>1 DEF DequeueCommit, TypeOK, PassState, IdlePass
    <3>3. j = i
      BY <1>0, <1>9, <3>1, <3>2 DEF DequeueCommit, TypeOK
    <3> QED BY <3>3
  <2>3. ASSUME NEW j \in Instances, NEW t \in TaskId
        PROVE  /\ Holds(j, t)' => Holds(j, t) \/ t = u
               /\ Holds(j, t) => Holds(j, t)'
    BY <1>0, <1>9, <2>2, HoldsStep, HoldsKept
  <2>4. CASE u \in reclaimed
    <3>1. Leases' = Leases
      BY <1>2, <2>3, <2>4 DEF Leases
    <3> QED BY <1>6, <1>7, <2>4, <3>1, Stutter
  <2>5. CASE u \notin reclaimed
    <3>1. Leases' = Leases \cup {u}
      BY <1>2, <2>1, <2>3, <2>5 DEF Leases
    <3>2. Queue!Lease(u)
      BY <1>6, <1>8, <2>5, <3>1 DEF Queue!Lease
    <3> QED BY <3>2 DEF QStep, Queue!QueueNext
  <2> QED BY <2>4, <2>5
<1>10. CASE DequeueCommitUnacknowledged(i)
  <2>1. PassDropped(i)
    BY <1>10 DEF DequeueCommitUnacknowledged, PassDropped
  <2>2. Leases' = Leases
    BY <1>0, <1>1, <1>2, <2>1, LeasesKept
  <2>3. CASE u \in reclaimed
    BY <1>6, <1>7, <2>2, <2>3, Stutter
  <2>4. CASE u \notin reclaimed
    <3>1. Queue!LeaseUnseen(u)
      BY <1>6, <1>8, <2>2, <2>4 DEF Queue!LeaseUnseen
    <3> QED BY <3>1 DEF QStep, Queue!QueueNext
  <2> QED BY <2>3, <2>4
<1> QED BY <1>9, <1>10

(* Steps that nobody who submits tasks sees. *)
LEMMA SilentStep ==
  ASSUME ClaimInv, [Next]_vars,
         \/ UNCHANGED vars
         \/ \E i \in Instances :
              \/ Dequeue(i) \/ DequeueRollsBack(i) \/ Submit(i) \/ SweepFind(i)
              \/ RecoverFails(i) \/ BootUnrecovered(i) \/ Shutdown(i) \/ Stopping(i)
         \/ \E i \in Instances, w \in Workers :
              Receive(i, w) \/ Start(i, w) \/ StartUnmarked(i, w)
         \/ \E t \in TaskId : TimeoutElapses(t)
  PROVE  QStep
<1> USE DEF procVars
<1>0. TypeOK /\ TypeOK' /\ DBTypeOK
  BY TypeStep DEF ClaimInv, TypeOK
<1>1. SUFFICES /\ reclaimed' = reclaimed /\ nextId' = nextId
               /\ \A t \in TaskId : RowKept(t)
               /\ Leases' = Leases
  BY <1>0, <1>1, JobsKept, Stutter
<1>2. CASE UNCHANGED <<dbVars, pass, queue, worker, reclaimed>>
  BY <1>0, <1>2, TablesKept, LeasesKept DEF dbVars
<1>3. ASSUME NEW i \in Instances, Dequeue(i) \/ DequeueRollsBack(i) \/ Submit(i)
      PROVE  /\ reclaimed' = reclaimed /\ nextId' = nextId
             /\ \A t \in TaskId : RowKept(t)
             /\ Leases' = Leases
  <2>1. UNCHANGED <<dbVars, reclaimed>>
    BY <1>3 DEF Dequeue, DequeueRollsBack, Submit
  <2>2. DequeueRollsBack(i) => pass[i].pc = "claiming" /\ PassDropped(i)
    BY DEF DequeueRollsBack, PassDropped
  <2> QED BY <1>0, <1>3, <2>1, <2>2, TablesKept, LeasesKept DEF dbVars
<1>4. ASSUME NEW i \in Instances, NEW w \in Workers,
             Receive(i, w) \/ Start(i, w) \/ StartUnmarked(i, w)
      PROVE  /\ reclaimed' = reclaimed /\ nextId' = nextId
             /\ \A t \in TaskId : RowKept(t)
             /\ Leases' = Leases
  <2>1. reclaimed' = reclaimed
    BY <1>4 DEF Receive, Start, StartUnmarked
  <2>2. Receive(i, w) \/ WorkerRuns(i, w)
    BY <1>4 DEF Start, StartUnmarked, WorkerRuns
  <2>3. Leases' = Leases
    BY <1>0, <2>1, <2>2, LeasesKept
  <2>4. CASE Receive(i, w) \/ StartUnmarked(i, w)
    <3>1. UNCHANGED dbVars
      BY <2>4 DEF Receive, StartUnmarked
    <3> QED BY <2>1, <2>3, <3>1, TablesKept DEF dbVars
  <2>5. CASE Start(i, w)
    <3>1. worker[i][w].task.id \in TaskId /\ MarkStarted(worker[i][w].task.id)
      BY <1>0, <2>5, HeldTypes DEF Start
    <3>2. nextId' = nextId /\ \A t \in TaskId : RowKept(t)
      BY <1>0, <3>1, MarkStartedFacts DEF RowKept, RowWrite, SameTask
    <3> QED BY <2>1, <2>3, <3>2
  <2> QED BY <1>4, <2>4, <2>5
<1>5. ASSUME NEW u \in TaskId, TimeoutElapses(u)
      PROVE  /\ reclaimed' = reclaimed /\ nextId' = nextId
             /\ \A t \in TaskId : RowKept(t)
             /\ Leases' = Leases
  <2>1. /\ reclaimed' = reclaimed /\ nextId' = nextId /\ dlq' = dlq
        /\ UNCHANGED <<pass, queue, worker>>
    BY <1>5 DEF TimeoutElapses
  <2>2. \A t \in TaskId : RowKept(t)
    BY <1>0, <1>5, <2>1, TimeoutFacts DEF RowKept, RowWrite, SameTask
  <2> QED BY <1>0, <2>1, <2>2, LeasesKept
<1>6. UNCHANGED vars => UNCHANGED <<dbVars, pass, queue, worker, reclaimed>>
  BY DEF vars
<1>7. ASSUME NEW i \in Instances,
             SweepFind(i) \/ RecoverFails(i) \/ BootUnrecovered(i) \/ Shutdown(i) \/ Stopping(i)
      PROVE  UNCHANGED <<dbVars, pass, queue, worker, reclaimed>>
  BY <1>7 DEF SweepFind, RecoverFails, BootUnrecovered, Shutdown, Stopping, ClosePool, Exit
<1> QED BY <1>2, <1>3, <1>4, <1>5, <1>6, <1>7

(* A worker that is done with a task gives up the lease on it, if there is *)
(* one, and no other.                                                      *)
LEMMA LeaseEnds ==
  ASSUME ClaimInv, [Next]_vars, reclaimed' = reclaimed,
         NEW i \in Instances, NEW w \in Workers, WorkerDone(i, w),
         NEW u \in TaskId, worker[i][w].task.id = u
  PROVE  /\ Leases' = Leases \ {u}
         /\ u \notin reclaimed => u \in Leases
<1>0. TypeOK /\ ExclusiveClaim
  BY DEF ClaimInv
<1>1. ASSUME NEW j \in Instances, NEW t \in TaskId, Holds(j, t)' PROVE Holds(j, t)
  <2>1. ~DequeueCommit(j)
    <3>1. pass[j] \in PassState
      BY <1>0 DEF TypeOK
    <3> QED BY <3>1, <1>0 DEF DequeueCommit, WorkerDone, TypeOK, PassState, IdlePass
  <2> QED BY <1>0, <1>1, <2>1, HoldsStep
<1>2. ASSUME NEW j \in Instances, NEW t \in TaskId, t # u, Holds(j, t) PROVE Holds(j, t)'
  BY <1>0, <1>2, HoldsKept
<1>3. u \notin reclaimed => \A j \in Instances : ~Holds(j, u)'
  <2>1. u \notin reclaimed => HeldOnce(u)
    BY <1>0 DEF ExclusiveClaim, HeldOnce
  <2> QED BY <1>0, <2>1, ReportEndsHold
<1>4. Holds(i, u)
  BY DEF WorkerDone, Holds, AtWorker
<1> QED BY <1>1, <1>2, <1>3, <1>4 DEF Leases

(* CompleteTask succeeds; on a task some watchdog has failed it is nothing *)
(* a submitter was promised.                                               *)
LEMMA SucceedStep ==
  ASSUME ClaimInv, [Next]_vars, NEW i \in Instances, NEW w \in Workers, Complete(i, w)
  PROVE  QStep
<1>0. TypeOK /\ TypeOK' /\ DBTypeOK
  BY TypeStep DEF ClaimInv, TypeOK
<1>1. worker[i][w].task.id \in TaskId
  BY <1>0, HeldTypes DEF Complete
<1> PICK u \in TaskId : u = worker[i][w].task.id
  BY <1>1
<1>2. CompleteTask(u) /\ reclaimed' = reclaimed /\ WorkerDone(i, w)
  BY DEF Complete, WorkerDone
<1>3. /\ RowWrite(u) /\ dlq' = dlq
      /\ u \in DOMAIN tasks => /\ tasks'[u].status = "completed"
                               /\ tasks'[u].retry_count = tasks[u].retry_count
  BY <1>0, <1>2, CompleteTaskFacts
<1>4. \A t \in TaskId : t # u => RowKept(t)
  BY <1>3, OthersKept
<1>5. nextId' = nextId
  BY <1>3 DEF RowWrite
<1>6. Leases' = Leases \ {u} /\ (u \notin reclaimed => u \in Leases)
  BY <1>2, LeaseEnds
<1>7. CASE u \in reclaimed
  <2>1. PromisedJobs' = PromisedJobs
    BY <1>0, <1>2, <1>4, <1>7, JobsKept
  <2>2. Leases' = Leases
    BY <1>6, <1>7 DEF Leases
  <2> QED BY <1>5, <2>1, <2>2, Stutter
<1>8. CASE u \notin reclaimed
  <2>1. RowWritten(u, "completed", tasks[u].retry_count)
          \/ (u \notin DOMAIN tasks /\ u \notin DOMAIN tasks')
    BY <1>3 DEF RowWritten, RowWrite, SameTask
  <2>2. Queue!Becomes({u}, "completed")
    BY <1>0, <1>2, <1>4, <2>1, JobsBecome
  <2>3. Queue!Succeed(u)
    BY <1>5, <1>6, <1>8, <2>2 DEF Queue!Succeed
  <2> QED BY <2>3 DEF QStep, Queue!QueueNext
<1> QED BY <1>7, <1>8

(* FailTask by a worker gives the job back: the copy's fork is the fork on *)
(* the row's own count and budget, and its count plus one the row's.       *)
LEMMA GiveBackStep ==
  ASSUME ClaimInv, [Next]_vars, NEW i \in Instances, NEW w \in Workers, Fail(i, w)
  PROVE  QStep
<1>0. TypeOK /\ TypeOK' /\ DBTypeOK
  BY TypeStep DEF ClaimInv, TypeOK
<1>1. worker[i][w].task \in Snapshot
  BY <1>0, HeldTypes DEF Fail
<1> PICK s \in Snapshot : s = worker[i][w].task
  BY <1>1
<1> PICK u \in TaskId : u = s.id
  BY DEF Snapshot
<1>2. FailTask(s) /\ reclaimed' = reclaimed /\ WorkerDone(i, w)
  BY DEF Fail, WorkerDone
<1>3. RowWrite(u)
  BY <1>0, <1>2, FailTaskFacts
<1>4. \A t \in TaskId : t # u => RowKept(t)
  BY <1>0, <1>2, FailTaskKeepsOthers
<1>5. nextId' = nextId
  BY <1>3 DEF RowWrite
<1>6. Leases' = Leases \ {u} /\ (u \notin reclaimed => u \in Leases)
  BY <1>2, LeaseEnds
<1>7. CASE u \in reclaimed
  <2>1. PromisedJobs' = PromisedJobs
    BY <1>0, <1>2, <1>4, <1>7, JobsKept
  <2>2. Leases' = Leases
    BY <1>6, <1>7 DEF Leases
  <2> QED BY <1>5, <2>1, <2>2, Stutter
<1>8. CASE u \notin reclaimed /\ u \notin DOMAIN tasks
  <2>1. u \notin DOMAIN tasks'
    BY <1>3, <1>8 DEF RowWrite
  <2>2. DOMAIN tasks' = DOMAIN tasks /\ \A t \in DOMAIN tasks : tasks'[t] = tasks[t]
    BY <1>3, <1>8 DEF RowWrite
  <2>3. PromisedJobs' = PromisedJobs
    BY <1>2, <2>2 DEF PromisedJobs
  <2>4. u \notin DOMAIN PromisedJobs
    BY <1>8 DEF PromisedJobs
  <2>5. Queue!GiveBack(u)
    BY <1>5, <1>6, <1>8, <2>3, <2>4 DEF Queue!GiveBack
  <2> QED BY <2>5 DEF QStep, Queue!QueueNext
<1>9. CASE u \notin reclaimed /\ u \in DOMAIN tasks
  <2>1. Holding(i, s)
    BY <1>2 DEF WorkerDone, Holding
  <2>2. s.retry_count = tasks[u].retry_count /\ s.max_retries = tasks[u].max_retries
    BY <1>9, <2>1 DEF ClaimInv, HeldRowsAreCurrent, CopiesAreInBudget
  <2>3. u \in DOMAIN PromisedJobs
    BY <1>9 DEF PromisedJobs
  <2>4. /\ PromisedJobs[u].attempts = s.retry_count
        /\ PromisedJobs[u].limit = s.max_retries
    BY <1>9, <2>2 DEF PromisedJobs
  <2>5. CASE /\ s.retry_count < s.max_retries
             /\ tasks'[u].status = "pending"
             /\ tasks'[u].retry_count = s.retry_count + 1
    <3>1. /\ DOMAIN PromisedJobs' = DOMAIN PromisedJobs
          /\ \A t \in DOMAIN PromisedJobs : t # u => PromisedJobs'[t] = PromisedJobs[t]
      BY <1>2, <1>3 DEF PromisedJobs, RowWrite
    <3>2. PromisedJobs'[u] = [state |-> "pending", attempts |-> tasks[u].retry_count + 1,
                              limit |-> tasks[u].max_retries]
      BY <1>2, <1>3, <1>9, <2>2, <2>5 DEF PromisedJobs, RowWrite, SameTask
    <3>3. PromisedJobs'[u] = [state |-> "pending", attempts |-> PromisedJobs[u].attempts + 1,
                              limit |-> PromisedJobs[u].limit]
      BY <2>2, <2>4, <3>2
    <3>4. /\ PromisedJobs = [t \in DOMAIN PromisedJobs |-> PromisedJobs[t]]
          /\ PromisedJobs' = [t \in DOMAIN PromisedJobs' |-> PromisedJobs'[t]]
      BY DEF PromisedJobs
    <3>5. PromisedJobs' = [PromisedJobs EXCEPT
                             ![u] = [state |-> "pending", attempts |-> @.attempts + 1,
                                     limit |-> @.limit]]
      BY <2>3, <3>1, <3>3, <3>4
    <3>6. Queue!GiveBack(u)
      BY <1>5, <1>6, <1>9, <2>3, <2>4, <2>5, <3>5 DEF Queue!GiveBack
    <3> QED BY <3>6 DEF QStep, Queue!QueueNext
  <2>6. CASE /\ s.retry_count >= s.max_retries
             /\ tasks'[u].status = "failed"
             /\ tasks'[u].retry_count = tasks[u].retry_count
    <3>1. RowWritten(u, "failed", tasks[u].retry_count)
      BY <1>3, <1>9, <2>6 DEF RowWritten, RowWrite, SameTask
    <3>2. Queue!Becomes({u}, "failed")
      BY <1>0, <1>2, <1>4, <3>1, JobsBecome
    <3>3. ~(s.retry_count < s.max_retries)
      BY <2>6, LimitsAreNat DEF Snapshot
    <3>4. Queue!GiveBack(u)
      BY <1>5, <1>6, <1>9, <2>3, <2>4, <3>2, <3>3 DEF Queue!GiveBack
    <3> QED BY <3>4 DEF QStep, Queue!QueueNext
  <2> QED BY <1>0, <1>2, <1>9, <2>5, <2>6, FailTaskFacts
<1> QED BY <1>7, <1>8, <1>9

(* A kill, or a report that cannot be written, loses leases. *)
LEMMA LoseStep ==
  ASSUME ClaimInv, [Next]_vars,
         \/ \E i \in Instances : Crash(i)
         \/ \E i \in Instances, w \in Workers : RecordFails(i, w)
  PROVE  QStep
<1>0. TypeOK /\ TypeOK'
  BY TypeStep DEF ClaimInv
<1>1. UNCHANGED <<dbVars, reclaimed>>
  BY DEF Crash, RecordFails
<1>2. PromisedJobs' = PromisedJobs /\ nextId' = nextId
  BY <1>1 DEF PromisedJobs, dbVars
<1>3. ASSUME NEW j \in Instances, DequeueCommit(j) PROVE FALSE
  <2>1. pass[j] \in PassState /\ pass[j].pc = "claiming"
    BY <1>0, <1>3 DEF DequeueCommit, TypeOK
  <2>2. pass'[j].pc = "submitting"
    BY <1>0, <1>3, <2>1 DEF DequeueCommit, TypeOK, PassState, IdlePass
  <2>3. pass'[j] = pass[j] \/ pass'[j] = IdlePass
    BY <1>0 DEF Crash, RecordFails, TypeOK
  <2> QED BY <2>1, <2>2, <2>3 DEF IdlePass
<1>4. Leases' \subseteq Leases
  BY <1>0, <1>1, <1>3, HoldsStep DEF Leases
<1> QED BY <1>2, <1>4 DEF QStep, Queue!QueueNext, Queue!LoseLeases

(* A watchdog that fails a task gives the job up, whoever holds it. *)
LEMMA GiveUpStep ==
  ASSUME ClaimInv, [Next]_vars, NEW i \in Instances, SweepFail(i)
  PROVE  QStep
<1>0. TypeOK /\ DBTypeOK
  BY DEF ClaimInv, TypeOK
<1>1. PICK s \in sweep[i] : FailTask(s) /\ reclaimed' = reclaimed \cup {s.id}
  BY DEF SweepFail
<1>2. s \in Snapshot /\ s.id \in TaskId
  BY <1>0, HeldTypes
<1> PICK u \in TaskId : u = s.id
  BY <1>2
<1>3. UNCHANGED <<pass, queue, worker>>
  BY DEF SweepFail
<1>4. RowWrite(u)
  BY <1>0, <1>1, <1>2, FailTaskFacts
<1>5. Leases' = Leases \ {u}
  BY <1>1, <1>3, MemoryFrame DEF Leases
<1>6. PromisedJobs' = [t \in DOMAIN PromisedJobs \ {u} |-> PromisedJobs[t]]
  <2>1. DOMAIN tasks' \ reclaimed' = (DOMAIN tasks \ reclaimed) \ {u}
    BY <1>1, <1>4 DEF RowWrite
  <2>2. \A t \in DOMAIN tasks : t # u => tasks'[t] = tasks[t]
    BY <1>4 DEF RowWrite
  <2> QED BY <2>1, <2>2 DEF PromisedJobs
<1>7. Queue!GiveUp(u)
  BY <1>4, <1>5, <1>6 DEF Queue!GiveUp, RowWrite
<1> QED BY <1>7 DEF QStep, Queue!QueueNext

(* Startup recovery recovers jobs that nobody holds: the instance itself,  *)
(* which was down, holds nothing, and nobody else holds its rows.          *)
LEMMA RecoverStep ==
  ASSUME ClaimInv, [Next]_vars, NEW i \in Instances, Boot(i)
  PROVE  QStep
<1>0. TypeOK /\ TypeOK' /\ DBTypeOK
  BY TypeStep DEF ClaimInv, TypeOK
<1>1. /\ inst[i] \in {"stopped", "crashed"} /\ RequeueOrphanedTasks(i)
      /\ UNCHANGED <<pass, queue, worker, reclaimed>>
  BY DEF Boot, procVars
<1> DEFINE ts == OrphansOf(i) \ reclaimed
<1>2. /\ DOMAIN tasks' = DOMAIN tasks
      /\ dlq' = dlq /\ nextId' = nextId
      /\ \A t \in DOMAIN tasks :
           /\ SameTask(t)
           /\ tasks'[t].retry_count = tasks[t].retry_count
           /\ t \notin OrphansOf(i) => tasks'[t] = tasks[t]
           /\ t \in OrphansOf(i) => tasks'[t].status = "pending"
  BY <1>0, <1>1, RequeueFacts
<1>3. \A t \in ts : t \in DOMAIN tasks \ reclaimed /\ t \in TaskId
                    /\ tasks[t].status = "running" /\ tasks[t].processed_by = i
  BY <1>0 DEF OrphansOf, DBTypeOK
<1>4. ASSUME NEW t \in ts, NEW j \in Instances PROVE ~Holds(j, t)
  <2>1. ASSUME NEW s \in Snapshot, s.id = t, Holding(j, s) PROVE FALSE
    <3>1. j = i
      BY <1>3, <2>1 DEF ClaimInv, HeldRowsAreCurrent
    <3>2. ~Holding(i, s)
      BY <1>1 DEF ClaimInv, DownHoldsNothing, Holding
    <3> QED BY <2>1, <3>1, <3>2
  <2> QED BY <1>0, <1>3, <2>1, HoldsIsHolding
<1>5. Leases' = Leases
  BY <1>0, <1>1, LeasesKept
<1>6. Queue!Becomes(ts, "pending")
  <2>1. ASSUME NEW t \in TaskId \ reclaimed
        PROVE  /\ t \notin ts => RowKept(t)
               /\ t \in ts => RowWritten(t, "pending", tasks[t].retry_count)
    BY <1>2, <1>3 DEF RowKept, RowWritten, SameTask
  <2> HIDE DEF ts
  <2> QED BY <1>0, <1>1, <2>1, JobsBecome
<1>7. ts \in SUBSET {t \in DOMAIN PromisedJobs \ Leases : PromisedJobs[t].state = "running"}
  BY <1>3, <1>4 DEF PromisedJobs, Leases
<1>8. Queue!Recover
  BY <1>2, <1>5, <1>6, <1>7 DEF Queue!Recover
<1> QED BY <1>8 DEF QStep, Queue!QueueNext

(* Initial states map to initial states ... *)
LEMMA RefinementInit == Init => Queue!QueueInit
<1> SUFFICES ASSUME Init PROVE Queue!QueueInit
  OBVIOUS
<1>1. PromisedJobs = [t \in {} |-> "none"] /\ nextId = 1
  <2>1. tasks = EmptyTable /\ nextId = 1
    BY DEF Init, InitDB
  <2>2. DOMAIN tasks = {}
    BY <2>1 DEF EmptyTable
  <2> QED BY <2>1, <2>2 DEF PromisedJobs
<1>2. Leases = {}
  <2>1. \A i \in Instances : /\ pass[i].pc = "idle"
                             /\ queue[i] = << >>
                             /\ \A w \in Workers : worker[i][w].pc = "idle"
    BY DEF Init, IdlePass, IdleWorker
  <2> QED BY <2>1 DEF Leases, Holds, Waits, InPass, InQueue, AtWorker
<1> QED BY <1>1, <1>2 DEF Queue!QueueInit

(* ... and every step to a step of the queue or to a stutter. *)
LEMMA RefinementStep == ClaimInv /\ [Next]_vars => [Queue!QueueNext]_(Queue!queueVars)
<1> SUFFICES ASSUME ClaimInv, [Next]_vars PROVE QStep
  BY DEF QStep
<1>1. ASSUME Api PROVE QStep
  BY <1>1, EnqueueStep, DeleteAllStep, WithdrawStep DEF Api
<1>2. ASSUME NEW i \in Instances, SchedulerStep(i) PROVE QStep
  BY <1>2, SilentStep, LeaseStep DEF SchedulerStep
<1>3. ASSUME NEW i \in Instances, NEW w \in Workers, WorkerStep(i, w) PROVE QStep
  BY <1>3, SilentStep, SucceedStep, GiveBackStep DEF WorkerStep
<1>4. ASSUME NEW i \in Instances, WatchdogStep(i) PROVE QStep
  BY <1>4, SilentStep, GiveUpStep DEF WatchdogStep
<1>5. ASSUME NEW i \in Instances, Boot(i) \/ Shutdown(i) \/ Stopping(i) PROVE QStep
  BY <1>5, SilentStep, RecoverStep
<1>6. ASSUME NEW t \in TaskId, TimeoutElapses(t) PROVE QStep
  BY <1>6, SilentStep
<1>7. ASSUME Faults PROVE QStep
  BY <1>7, SilentStep, LeaseStep, LoseStep DEF Faults
<1>8. CASE UNCHANGED vars
  BY <1>8, SilentStep
<1> QED
  BY <1>1, <1>2, <1>3, <1>4, <1>5, <1>6, <1>7, <1>8 DEF Next

(* The engine implements the abstract queue: "no two workers (or backend   *)
(* instances) ever grab the same task" (DequeueTaskForClient), and what    *)
(* claims, channels, workers, stale copies, unconditional UPDATEs, kills,  *)
(* restarts and database faults together do to a task is one of the few    *)
(* things JobQueue allows, for any number of each.                         *)
THEOREM EngineImplementsQueue == Spec => ImplementsJobQueue
BY RefinementInit, RefinementStep, ClaimInvariant, PTL
   DEF Spec, ImplementsJobQueue, Queue!QueueSpec

-----------------------------------------------------------------------------
(* What the engine has from the abstract queue. *)

QueuePromise == INSTANCE JobQueueProofs WITH
                   JobId  <- TaskId,
                   Limits <- RowLimits,
                   jobs   <- PromisedJobs,
                   leased <- Leases,
                   next   <- nextId

LEMMA EngineIsQueue == Spec => QueuePromise!QueueSpec
<1>1. Queue!QueueInit <=> QueuePromise!QueueInit
  BY DEF Queue!QueueInit, QueuePromise!QueueInit
<1>2. Queue!QueueNext <=> QueuePromise!QueueNext
  BY DEF Queue!QueueNext, QueuePromise!QueueNext, Queue!Enqueue, QueuePromise!Enqueue,
         Queue!LoseLeases, QueuePromise!LoseLeases, Queue!Recover, QueuePromise!Recover,
         Queue!DeleteAll, QueuePromise!DeleteAll, Queue!Lease, QueuePromise!Lease,
         Queue!LeaseUnseen, QueuePromise!LeaseUnseen, Queue!Succeed, QueuePromise!Succeed,
         Queue!GiveBack, QueuePromise!GiveBack, Queue!Withdraw, QueuePromise!Withdraw,
         Queue!GiveUp, QueuePromise!GiveUp, Queue!Becomes, QueuePromise!Becomes,
         Queue!Ended, QueuePromise!Ended
<1>3. (UNCHANGED Queue!queueVars) <=> (UNCHANGED QueuePromise!queueVars)
  BY DEF Queue!queueVars, QueuePromise!queueVars
<1> QED
  BY <1>1, <1>2, <1>3, EngineImplementsQueue, PTL
     DEF ImplementsJobQueue, Queue!QueueSpec, QueuePromise!QueueSpec

(* deadLetter is the last resort: unless a watchdog has failed it, a task  *)
(* is failed only after all its retries were used, however often it was    *)
(* requeued by startup recovery in between.                                *)
FailedIsExhausted ==
    \A t \in DOMAIN tasks \ reclaimed :
      tasks[t].status = "failed" => tasks[t].retry_count = tasks[t].max_retries

(* FailTask on such a task, from FailedIsSpent of the abstract queue. *)
THEOREM FailuresAreExhausted == Spec => []FailedIsExhausted
<1>1. QueuePromise!QueueSpec => [](QueuePromise!LeasedIsTaken /\ QueuePromise!FailedIsSpent)
  BY LimitsAreNat, QueuePromise!QueueIsSafe
<1>2. QueuePromise!FailedIsSpent => FailedIsExhausted
  BY DEF QueuePromise!FailedIsSpent, FailedIsExhausted, PromisedJobs
<1> QED BY <1>1, <1>2, EngineIsQueue, PTL

(* Only the report of the instance that holds a task counts an attempt:    *)
(* neither a lost claim, a restart nor a cancel uses up a retry.           *)
OnlyReportsCount ==
    [][\A t \in (DOMAIN tasks \cap DOMAIN tasks') \ reclaimed' :
         tasks'[t].retry_count # tasks[t].retry_count =>
           /\ tasks'[t].status = "pending"
           /\ \E i \in Instances : Holds(i, t)
           /\ \A i \in Instances : ~Holds(i, t)']_vars

(* RetryCountMonotone says that no failure is forgotten, this that nothing *)
(* else is taken for one.  From JobsGoOn of the abstract queue.            *)
THEOREM AttemptsAreReported == Spec => OnlyReportsCount
<1> DEFINE Step == \A t \in (DOMAIN tasks \cap DOMAIN tasks') \ reclaimed' :
                     tasks'[t].retry_count # tasks[t].retry_count =>
                       /\ tasks'[t].status = "pending"
                       /\ \E i \in Instances : Holds(i, t)
                       /\ \A i \in Instances : ~Holds(i, t)'
<1>1. QueuePromise!QueueSpec => [][QueuePromise!JobsGoOn]_(QueuePromise!queueVars)
  BY LimitsAreNat, QueuePromise!QueueGoesOn
<1>2. ASSUME TypeOK, TypeOK', [Next]_vars, [QueuePromise!JobsGoOn]_(QueuePromise!queueVars)
      PROVE  Step
  <2>1. SUFFICES ASSUME NEW t \in (DOMAIN tasks \cap DOMAIN tasks') \ reclaimed',
                        tasks'[t].retry_count # tasks[t].retry_count
                 PROVE  /\ tasks'[t].status = "pending"
                        /\ \E i \in Instances : Holds(i, t)
                        /\ \A i \in Instances : ~Holds(i, t)'
    OBVIOUS
  <2>2. t \in TaskId /\ t \notin reclaimed /\ t \notin reclaimed'
    BY <1>2, <2>1, ReclaimedGrows DEF TypeOK, DBTypeOK
  <2>3. /\ t \in DOMAIN PromisedJobs /\ t \in DOMAIN PromisedJobs'
        /\ PromisedJobs[t].attempts = tasks[t].retry_count
        /\ PromisedJobs'[t].attempts = tasks'[t].retry_count
        /\ PromisedJobs'[t].state = tasks'[t].status
    BY <2>1, <2>2 DEF PromisedJobs
  <2>4. QueuePromise!JobsGoOn
    BY <1>2, <2>1, <2>3 DEF QueuePromise!queueVars
  <2>5. t \in Leases /\ t \notin Leases' /\ tasks'[t].status = "pending"
    BY <2>1, <2>3, <2>4 DEF QueuePromise!JobsGoOn, QueuePromise!JobMoves
  <2> QED BY <2>2, <2>5 DEF Leases
<1> QED BY <1>1, <1>2, EngineIsQueue, TypeCorrect, PTL DEF Spec, OnlyReportsCount

-----------------------------------------------------------------------------
(* The deployment the code asks for: no handler outlasts the watchdog's    *)
(* timeout (config.go), nobody is killed and every outcome is recorded.    *)
(* Then the watchdog never fails a task, and what the theorems above say   *)
(* of the tasks it has not failed they say of all.                         *)

(* Nothing has happened that only a watchdog can repair. *)
Unhurt == (\A i \in Instances : inst[i] # "crashed") /\ "record" \notin faulted

(* started_at is set on a running row only while its handler runs. *)
RowRests(t) ==
    /\ tasks[t].status = "pending" => tasks[t].started_at = Null
    /\ tasks[t].status = "running" =>
         \/ tasks[t].started_at = Null
         \/ tasks[t].started_at = "fresh" /\ RunsLive(t)

WatchdogRests ==
    /\ reclaimed = {}
    /\ \A i \in Instances : sweep[i] = {}
    /\ \A t \in DOMAIN tasks : RowRests(t)

(* What the statements that make a row pending do to started_at. *)
LEMMA RequeueStamps ==
  ASSUME DBTypeOK, NEW i \in Instances, RequeueOrphanedTasks(i), NEW t \in OrphansOf(i)
  PROVE  tasks'[t].started_at = Null
BY DEF DBTypeOK, RequeueOrphanedTasks, Updates, Row, OrphansOf

LEMMA FailTaskStamps ==
  ASSUME DBTypeOK, NEW s \in Snapshot, FailTask(s), s.id \in DOMAIN tasks
  PROVE  \/ tasks'[s.id].status = "failed"
         \/ tasks'[s.id].status = "pending" /\ tasks'[s.id].started_at = Null
<1>1. CASE retry(s)
  BY <1>1 DEF DBTypeOK, retry, Updates, Row
<1>2. CASE deadLetter(s)
  BY <1>2 DEF DBTypeOK, deadLetter, Updates, Row
<1> QED BY <1>1, <1>2 DEF FailTask

(* A row that a step leaves alone rests on, as its handler does. *)
LEMMA RowRestsOn ==
  ASSUME NEW t \in DOMAIN tasks, tasks'[t] = tasks[t], RowRests(t), RunsLive(t) => RunsLive(t)'
  PROVE  RowRests(t)'
BY DEF RowRests

(* The handlers that run on when worker v of instance j moves.             *)
LEMMA RunsOn ==
  ASSUME TypeOK, NEW j \in Instances, NEW v \in Workers, NEW new,
         worker' = [worker EXCEPT ![j][v] = new], NEW t, RunsLive(t),
         ~(worker[j][v].pc = "running" /\ worker[j][v].task.id = t)
  PROVE  RunsLive(t)'
<1>1. PICK i \in Instances, w \in Workers :
         worker[i][w].pc = "running" /\ worker[i][w].task.id = t
  BY DEF RunsLive
<1>2. worker'[i][w] = worker[i][w]
  BY <1>1 DEF TypeOK
<1> QED BY <1>1, <1>2 DEF RunsLive

(* A held task is running, or was cancelled under its holder. *)
LEMMA HeldIsLive ==
  ASSUME ClaimInv, reclaimed = {}, NEW i \in Instances, NEW t \in TaskId, Holds(i, t),
         t \in DOMAIN tasks
  PROVE  tasks[t].status \in {"running", "cancelled"}
<1>1. PICK s \in Snapshot : s.id = t /\ Holding(i, s)
  BY HoldsIsHolding DEF ClaimInv
<1> QED BY <1>1 DEF ClaimInv, HeldRowsAreCurrent

LEMMA WatchdogRestsStep ==
  ASSUME ~SlowHandlers, ClaimInv, WatchdogRests, [Next]_vars, Unhurt'
  PROVE  WatchdogRests'
<1> USE DEF procVars
<1>0. /\ TypeOK /\ DBTypeOK /\ reclaimed = {}
      /\ \A i \in Instances : sweep[i] = {}
      /\ \A t \in DOMAIN tasks : RowRests(t)
      /\ DOMAIN tasks \subseteq TaskId
  BY DEF ClaimInv, TypeOK, DBTypeOK, WatchdogRests
<1>a. ASSUME reclaimed' = reclaimed, \A i \in Instances : sweep'[i] = {},
             \A t \in DOMAIN tasks' : RowRests(t)'
      PROVE  WatchdogRests'
  BY <1>0, <1>a DEF WatchdogRests
<1>b. ASSUME tasks' = tasks, \A t \in DOMAIN tasks : RunsLive(t) => RunsLive(t)',
             reclaimed' = reclaimed, \A i \in Instances : sweep'[i] = {}
      PROVE  WatchdogRests'
  BY <1>0, <1>a, <1>b, RowRestsOn
<1>c. ASSUME worker' = worker, NEW t PROVE RunsLive(t) => RunsLive(t)'
  BY <1>c DEF RunsLive
<1>1. ASSUME Create \/ CreateBatch \/ SeedDemo PROVE WatchdogRests'
  <2>1. PICK ins \in Seq(Input) : Insert(ins)
    BY <1>0, <1>1, SubmissionFacts
  <2>2. UNCHANGED <<inst, procVars, stops, faulted, reclaimed>>
    BY <1>0, <1>1, SubmissionFacts
  <2>3. \A t \in DOMAIN tasks' : RowRests(t)'
    <3>1. ASSUME NEW t \in DOMAIN tasks PROVE RowRests(t)'
      BY <1>0, <1>c, <2>1, <2>2, InsertFacts, RowRestsOn
    <3>2. ASSUME NEW t \in DOMAIN tasks' \ DOMAIN tasks PROVE RowRests(t)'
      BY <1>0, <2>1, InsertFacts DEF RowRests
    <3> QED BY <3>1, <3>2
  <2> QED BY <1>0, <1>a, <2>2, <2>3
<1>2. ASSUME ClearDemo PROVE WatchdogRests'
  BY <1>0, <1>2, <1>a, ClearAllDataFacts DEF ClearDemo
<1>3. ASSUME NEW c \in Clients, NEW u \in TaskId, Cancel(c, u) PROVE WatchdogRests'
  <2>1. RowWrite(u) /\ tasks'[u].status = "cancelled"
    BY <1>0, <1>3, CancelTaskFacts DEF Cancel
  <2>2. ASSUME NEW t \in DOMAIN tasks' PROVE RowRests(t)'
    <3>1. CASE t = u
      BY <2>1, <3>1 DEF RowRests
    <3>2. CASE t # u
      BY <1>0, <1>3, <1>c, <2>1, <3>2, RowRestsOn DEF Cancel, RowWrite
    <3> QED BY <3>1, <3>2
  <2> QED BY <1>0, <1>3, <1>a, <2>2 DEF Cancel
<1>4. ASSUME NEW i \in Instances, Dequeue(i) \/ DequeueRollsBack(i) \/ Submit(i)
      PROVE  WatchdogRests'
  BY <1>0, <1>4, <1>b, <1>c DEF Dequeue, DequeueRollsBack, Submit, dbVars
<1>5. ASSUME NEW i \in Instances, DequeueCommit(i) \/ DequeueCommitUnacknowledged(i)
      PROVE  WatchdogRests'
  <2> DEFINE u == pass[i].task.id
  <2>1. /\ Claim(u, i) /\ u \in TaskId /\ pass[i].pc = "claiming" /\ pass[i].task \in Snapshot
        /\ UNCHANGED <<worker, sweep, reclaimed>>
    BY <1>0, <1>5, HeldTypes DEF DequeueCommit, DequeueCommitUnacknowledged
  <2>2. u \in DOMAIN tasks /\ tasks[u].status = "pending"
    BY <2>1 DEF ClaimInv, ClaimsAreLocked, Claims
  <2>3. RowWrite(u) /\ tasks'[u].status = "running" /\ tasks'[u].started_at = tasks[u].started_at
    BY <1>0, <2>1, <2>2, ClaimFacts
  <2>4. ASSUME NEW t \in DOMAIN tasks' PROVE RowRests(t)'
    <3>1. CASE t = u
      BY <1>0, <2>2, <2>3, <3>1 DEF RowRests
    <3>2. CASE t # u
      BY <1>0, <1>c, <2>1, <2>3, <3>2, RowRestsOn DEF RowWrite
    <3> QED BY <3>1, <3>2
  <2> QED BY <1>0, <1>a, <2>1, <2>4
<1>6. ASSUME NEW i \in Instances, NEW w \in Workers, Receive(i, w) PROVE WatchdogRests'
  <2>1. \A t \in DOMAIN tasks : RunsLive(t) => RunsLive(t)'
    BY <1>0, <1>6, RunsOn DEF Receive
  <2> QED BY <1>0, <1>6, <1>b, <2>1 DEF Receive, dbVars
<1>7. ASSUME NEW i \in Instances, NEW w \in Workers, StartUnmarked(i, w) PROVE WatchdogRests'
  <2>1. PICK new : worker' = [worker EXCEPT ![i][w] = new]
    BY <1>7 DEF StartUnmarked
  <2>2. \A t \in DOMAIN tasks : RunsLive(t) => RunsLive(t)'
    BY <1>0, <1>7, <2>1, RunsOn DEF StartUnmarked
  <2> QED BY <1>0, <1>7, <1>b, <2>2 DEF StartUnmarked, dbVars
<1>8. ASSUME NEW i \in Instances, NEW w \in Workers, Start(i, w) PROVE WatchdogRests'
  <2>0. PICK u : u = worker[i][w].task.id
    OBVIOUS
  <2>1. /\ worker[i][w].pc = "picked" /\ MarkStarted(u)
        /\ worker' = [worker EXCEPT ![i][w].pc = "running"]
        /\ UNCHANGED <<sweep, reclaimed>>
    BY <1>8, <2>0 DEF Start
  <2>2. u \in TaskId /\ Holds(i, u)
    BY <1>0, <2>0, <2>1, HeldTypes DEF Holds, AtWorker
  <2>3. /\ RowWrite(u)
        /\ u \in DOMAIN tasks => /\ tasks'[u].status = tasks[u].status
                                 /\ tasks'[u].started_at = "fresh"
    BY <1>0, <2>1, <2>2, MarkStartedFacts
  <2>4. PICK new : worker' = [worker EXCEPT ![i][w] = new]
    BY <2>1
  <2>5. RunsLive(u)'
    <3>1. worker'[i][w].pc = "running" /\ worker'[i][w].task.id = u
      BY <1>0, <2>0, <2>1 DEF TypeOK, WorkerState, IdleWorker
    <3> QED BY <3>1 DEF RunsLive
  <2>6. ASSUME NEW t \in DOMAIN tasks' PROVE RowRests(t)'
    <3>1. CASE t = u
      <4>1. tasks[u].status \in {"running", "cancelled"}
        BY <1>0, <2>2, <2>3, <3>1, HeldIsLive DEF RowWrite
      <4> QED BY <2>3, <2>5, <3>1, <4>1 DEF RowRests, RowWrite
    <3>2. CASE t # u
      <4>1. t \in DOMAIN tasks /\ tasks'[t] = tasks[t]
        BY <2>3, <3>2 DEF RowWrite
      <4>2. RunsLive(t) => RunsLive(t)'
        <5>1. TypeOK /\ worker[i][w].pc # "running"
          BY <1>0, <2>1
        <5> QED BY <2>4, <5>1, RunsOn
      <4> QED BY <1>0, <4>1, <4>2, RowRestsOn
    <3> QED BY <3>1, <3>2
  <2> QED BY <1>0, <1>a, <2>1, <2>6
<1>9. ASSUME NEW i \in Instances, NEW w \in Workers, Complete(i, w) \/ Fail(i, w)
      PROVE  WatchdogRests'
  <2>0. PICK u : u = worker[i][w].task.id
    OBVIOUS
  <2>1. /\ worker[i][w].pc = "running" /\ (CompleteTask(u) \/ FailTask(worker[i][w].task))
        /\ worker' = [worker EXCEPT ![i][w] = IdleWorker]
        /\ UNCHANGED <<sweep, reclaimed>>
    BY <1>9, <2>0 DEF Complete, Fail
  <2>2. u \in TaskId /\ worker[i][w].task \in Snapshot
    BY <1>0, <2>0, <2>1, HeldTypes
  <2>3. RowWrite(u)
    BY <1>0, <2>0, <2>1, <2>2, CompleteTaskFacts, FailTaskFacts
  <2>4. u \in DOMAIN tasks => RowRests(u)'
    <3>1. CASE CompleteTask(u)
      BY <1>0, <2>2, <3>1, CompleteTaskFacts DEF RowRests
    <3>2. CASE FailTask(worker[i][w].task)
      BY <1>0, <2>0, <2>2, <3>2, FailTaskStamps DEF RowRests
    <3> QED BY <2>1, <3>1, <3>2
  <2>5. ASSUME NEW t \in DOMAIN tasks', t # u PROVE RowRests(t)'
    <3>1. t \in DOMAIN tasks /\ tasks'[t] = tasks[t]
      BY <2>3, <2>5 DEF RowWrite
    <3>2. RunsLive(t) => RunsLive(t)'
      BY <1>0, <2>0, <2>1, <2>5, RunsOn
    <3> QED BY <1>0, <3>1, <3>2, RowRestsOn
  <2> QED BY <1>0, <1>a, <2>1, <2>3, <2>4, <2>5 DEF RowWrite
<1>10. ASSUME NEW i \in Instances, NEW w \in Workers PROVE ~RecordFails(i, w)
  BY DEF RecordFails, Unhurt
<1>11. ASSUME NEW u \in TaskId PROVE ~TimeoutElapses(u)
  BY <1>0 DEF TimeoutElapses, RowRests, Null
<1>12. ASSUME NEW i \in Instances PROVE ~(SweepFind(i) \/ SweepFail(i) \/ RecoverFails(i))
  <2>1. \A t \in DOMAIN tasks : ~(tasks[t].status = "running" /\ tasks[t].started_at = "stale")
    BY <1>0 DEF RowRests, Null
  <2>2. FindStaleRunningTasks = {}
    BY <2>1 DEF FindStaleRunningTasks
  <2> QED BY <1>0, <2>2 DEF SweepFind, SweepFail, RecoverFails
<1>13. ASSUME NEW i \in Instances PROVE ~Crash(i)
  BY <1>0 DEF Crash, Unhurt, TypeOK
<1>14. ASSUME NEW i \in Instances, Boot(i) PROVE WatchdogRests'
  <2>1. RequeueOrphanedTasks(i) /\ UNCHANGED <<worker, sweep, reclaimed>>
    BY <1>14 DEF Boot
  <2>2. ASSUME NEW t \in DOMAIN tasks' PROVE RowRests(t)'
    <3>1. CASE t \in OrphansOf(i)
      BY <1>0, <2>1, <3>1, RequeueFacts, RequeueStamps DEF RowRests
    <3>2. CASE t \notin OrphansOf(i)
      BY <1>0, <1>c, <2>1, <3>2, RequeueFacts, RowRestsOn
    <3> QED BY <3>1, <3>2
  <2> QED BY <1>0, <1>a, <2>1, <2>2
<1>15. ASSUME NEW i \in Instances,
              BootUnrecovered(i) \/ Shutdown(i) \/ ClosePool(i) \/ Exit(i)
       PROVE  WatchdogRests'
  <2>1. UNCHANGED <<tasks, worker, reclaimed>>
    BY <1>15 DEF BootUnrecovered, Shutdown, ClosePool, Exit, dbVars
  <2>2. \A j \in Instances : sweep'[j] = {}
    BY <1>0, <1>15 DEF BootUnrecovered, Shutdown, ClosePool, Exit, TypeOK
  <2> QED BY <1>b, <1>c, <2>1, <2>2
<1>16. CASE UNCHANGED vars
  BY <1>0, <1>16, <1>b, <1>c DEF vars, dbVars
<1> QED
  BY <1>1, <1>2, <1>3, <1>4, <1>5, <1>6, <1>7, <1>8, <1>9, <1>10, <1>11, <1>12, <1>13,
     <1>14, <1>15, <1>16
     DEF Next, Api, SchedulerStep, WorkerStep, WatchdogStep, Stopping, Faults

(* Only a kill leaves a crashed instance. *)
LEMMA UnhurtStep ==
  ASSUME TypeOK, Unhurt, [Next]_vars, \A j \in Instances : ~Crash(j), "record" \notin faulted'
  PROVE  Unhurt'
<1> USE DEF procVars
<1>1. ASSUME NEW i \in Instances PROVE inst'[i] # "crashed"
  <2>1. inst' = inst => inst'[i] # "crashed"
    BY DEF Unhurt
  <2>2. ASSUME NEW j \in Instances, NEW s \in {"up", "stopping", "draining", "stopped"},
               inst' = [inst EXCEPT ![j] = s]
        PROVE  inst'[i] # "crashed"
    BY <2>2 DEF Unhurt, TypeOK
  <2>3. CASE Api
    BY <2>1, <2>3, SubmissionFacts DEF Api, ClearDemo, Cancel
  <2>4. ASSUME NEW j \in Instances, Boot(j) \/ BootUnrecovered(j) \/ Shutdown(j) \/ Stopping(j)
        PROVE  inst'[i] # "crashed"
    BY <2>2, <2>4 DEF Boot, BootUnrecovered, Shutdown, Stopping, ClosePool, Exit
  <2>5. ASSUME NEW j \in Instances,
               \/ SchedulerStep(j) \/ WatchdogStep(j) \/ RecoverFails(j)
               \/ DequeueRollsBack(j) \/ DequeueCommitUnacknowledged(j)
        PROVE  inst' = inst
    BY <2>5 DEF SchedulerStep, Dequeue, DequeueCommit, Submit, WatchdogStep, SweepFind,
                SweepFail, RecoverFails, DequeueRollsBack, DequeueCommitUnacknowledged
  <2>6. ASSUME NEW j \in Instances, NEW w \in Workers,
               WorkerStep(j, w) \/ StartUnmarked(j, w) \/ RecordFails(j, w)
        PROVE  inst' = inst
    BY <2>6 DEF WorkerStep, Receive, Start, Complete, Fail, StartUnmarked, RecordFails
  <2>7. ASSUME NEW t \in TaskId, TimeoutElapses(t) PROVE inst' = inst
    BY <2>7 DEF TimeoutElapses
  <2>8. UNCHANGED vars => inst' = inst
    BY DEF vars
  <2> QED
    BY <2>1, <2>3, <2>4, <2>5, <2>6, <2>7, <2>8 DEF Next, Faults
<1> QED BY <1>1 DEF Unhurt

(* Nobody kills an instance, handlers end in time, outcomes are recorded. *)
LEMMA UnhurtInvariant ==
  ASSUME ~SlowHandlers, Crashable = {}, "record" \notin FaultPoints
  PROVE  Spec => [](ClaimInv /\ WatchdogRests)
<1>1. Init => Unhurt /\ WatchdogRests
  BY DEF Init, InitDB, EmptyTable, Unhurt, WatchdogRests
<1>2. ASSUME ClaimInv, Unhurt, [Next]_vars PROVE Unhurt'
  <2>1. "record" \notin faulted'
    BY <1>2, TypeStep DEF ClaimInv, TypeOK
  <2>2. \A j \in Instances : ~Crash(j)
    BY DEF Crash
  <2> QED BY <1>2, <2>1, <2>2, UnhurtStep DEF ClaimInv
<1>3. ClaimInv /\ WatchdogRests /\ [Next]_vars /\ Unhurt' => WatchdogRests'
  BY WatchdogRestsStep
<1> QED BY <1>1, <1>2, <1>3, ClaimInvariant, PTL DEF Spec

(* "if the timeout is comfortably larger than the longest real task"       *)
(* (config.go) the watchdog never takes a task away from a live worker: it *)
(* finds nothing, through graceful restarts, cancels, clears, lost COMMITs *)
(* and other failed statements.                                            *)
THEOREM WatchdogStaysAtRest ==
  ASSUME ~SlowHandlers, Crashable = {}, "record" \notin FaultPoints
  PROVE  Spec => []WatchdogRests
BY UnhurtInvariant, PTL

(* docs/BENCHMARKS.md: "no task is ever processed by two workers".  As the *)
(* run double_run shows this is not so when an instance is killed; without *)
(* kills, late handlers and unrecorded outcomes it is.                     *)
THEOREM NoTaskRunsTwice ==
  ASSUME ~SlowHandlers, Crashable = {}, "record" \notin FaultPoints
  PROVE  Spec => []NoTaskRunsTwiceAtOnce
<1>1. ClaimInv /\ WatchdogRests => NoTaskRunsTwiceAtOnce
  <2> SUFFICES ASSUME ClaimInv, WatchdogRests, NEW t \in TaskId,
                      NEW i \in Instances, NEW j \in Instances,
                      NEW w \in Workers, NEW v \in Workers,
                      worker[i][w].pc = "running", worker[i][w].task.id = t,
                      worker[j][v].pc = "running", worker[j][v].task.id = t
               PROVE  i = j /\ w = v
    BY DEF NoTaskRunsTwiceAtOnce
  <2>1. t \in TaskId \ reclaimed
    BY DEF WatchdogRests
  <2>2. AtWorker(i, w, t) /\ AtWorker(j, v, t)
    BY DEF AtWorker
  <2> QED BY <2>1, <2>2 DEF ClaimInv, ExclusiveClaim
<1> QED BY <1>1, UnhurtInvariant, PTL

(* Rows only go when everything is cleared. *)
LEMMA RowsStay ==
  ASSUME TypeOK, [Next]_vars, ~Clears
  PROVE  DOMAIN tasks' = DOMAIN tasks \cup (nextId .. nextId' - 1)
<1> USE DEF procVars
<1>0. DBTypeOK /\ nextId \in Nat
  BY TaskServiceAssumption DEF TypeOK, DBTypeOK
<1>1. CASE DOMAIN tasks' = DOMAIN tasks /\ nextId' = nextId
  BY <1>0, <1>1
<1>2. ASSUME Create \/ CreateBatch \/ SeedDemo
      PROVE  DOMAIN tasks' = DOMAIN tasks \cup (nextId .. nextId' - 1)
  BY <1>0, <1>2, SubmissionFacts, InsertFacts
<1> DEFINE Same == DOMAIN tasks' = DOMAIN tasks /\ nextId' = nextId
<1>3. ~ClearDemo
  BY DEF ClearDemo
<1>4. ASSUME NEW ids, NEW cols, Updates(ids, cols) PROVE DOMAIN tasks' = DOMAIN tasks
  BY <1>4 DEF Updates
<1>5. ASSUME NEW c \in Clients, NEW t \in TaskId, Cancel(c, t) PROVE Same
  BY <1>4, <1>5 DEF Cancel, CancelTask
<1>6. ASSUME NEW i \in Instances,
             \/ SchedulerStep(i) \/ Boot(i) \/ Stopping(i) \/ Shutdown(i)
             \/ DequeueRollsBack(i) \/ DequeueCommitUnacknowledged(i) \/ BootUnrecovered(i)
             \/ RecoverFails(i) \/ Crash(i)
      PROVE  Same
  BY <1>4, <1>6
     DEF SchedulerStep, Dequeue, DequeueCommit, Submit, Boot, Stopping, ClosePool, Exit,
         Shutdown, DequeueRollsBack, DequeueCommitUnacknowledged,
         BootUnrecovered, RecoverFails, Crash, Claim, RequeueOrphanedTasks, dbVars
<1>7. ASSUME NEW i \in Instances, WatchdogStep(i) PROVE Same
  BY <1>4, <1>7 DEF WatchdogStep, SweepFind, SweepFail, FailTask, retry, deadLetter, dbVars
<1>8. ASSUME NEW i \in Instances, NEW w \in Workers,
             WorkerStep(i, w) \/ StartUnmarked(i, w) \/ RecordFails(i, w)
      PROVE  Same
  BY <1>4, <1>8 DEF WorkerStep, Receive, Start, Complete, Fail, StartUnmarked, RecordFails,
              MarkStarted, CompleteTask, FailTask, retry, deadLetter, dbVars
<1>9. ASSUME NEW t \in TaskId, TimeoutElapses(t) PROVE Same
  BY <1>4, <1>9 DEF TimeoutElapses
<1>10. UNCHANGED vars => Same
  BY DEF vars, dbVars
<1> QED
  BY <1>1, <1>2, <1>3, <1>5, <1>6, <1>7, <1>8, <1>9, <1>10 DEF Next, Api, Faults

(* Every id that was given out has its row. *)
AllRowsThere == DOMAIN tasks = 1..(nextId - 1)

LEMMA AllRowsThereInvariant ==
  ASSUME ~Clears
  PROVE  Spec => []AllRowsThere
<1>1. Init => AllRowsThere
  BY DEF Init, InitDB, EmptyTable, AllRowsThere
<1>2. ASSUME TypeOK, AllRowsThere, [Next]_vars PROVE AllRowsThere'
  <2>1. nextId \in Nat /\ nextId >= 1 /\ nextId' \in Nat /\ nextId <= nextId'
    BY <1>2, NextIdGrows DEF TypeOK, DBTypeOK
  <2>2. \A m, n \in Nat : 1 <= m /\ m <= n => (1..(m - 1)) \cup (m..(n - 1)) = 1..(n - 1)
    OBVIOUS
  <2>3. DOMAIN tasks' = (1..(nextId - 1)) \cup (nextId..(nextId' - 1))
    BY <1>2, RowsStay DEF AllRowsThere
  <2>4. DOMAIN tasks' = 1..(nextId' - 1)
    BY <2>1, <2>2, <2>3
  <2> QED BY <2>4 DEF AllRowsThere
<1> QED BY <1>1, <1>2, TypeCorrect, PTL DEF Spec

(* deadLetter: "we never end up with one without the other".  Under the    *)
(* same conditions, and if nothing is cleared (a task that is deleted      *)
(* under its holder can still be dead-lettered), that is so.               *)
THEOREM BothOrNeither ==
  ASSUME ~SlowHandlers, Crashable = {}, "record" \notin FaultPoints, ~Clears
  PROVE  Spec => []NeverOneWithoutTheOther
<1>1. ClaimInv /\ WatchdogRests /\ AllRowsThere => NeverOneWithoutTheOther
  <2> SUFFICES ASSUME ClaimInv, WatchdogRests, AllRowsThere, NEW t \in TaskId
               PROVE  dlq[t] > 0 <=> t \in DOMAIN tasks /\ tasks[t].status = "failed"
    BY DEF NeverOneWithoutTheOther
  <2>1. /\ dlq[t] \in Nat /\ dlq[t] <= 1
        /\ t \in DOMAIN tasks => (dlq[t] = 1 <=> tasks[t].status = "failed")
        /\ nextId <= t => dlq[t] = 0
    BY DEF ClaimInv, WatchdogRests, DeadLetterOnce, FreshIdsAreClean, TypeOK, DBTypeOK
  <2>2. t \notin DOMAIN tasks => nextId <= t
    BY TaskServiceAssumption DEF AllRowsThere, TaskId, ClaimInv, TypeOK, DBTypeOK
  <2> QED BY <2>1, <2>2
<1> QED BY <1>1, UnhurtInvariant, AllRowsThereInvariant, PTL
=============================================================================
