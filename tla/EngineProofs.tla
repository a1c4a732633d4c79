---------------------------- MODULE EngineProofs ----------------------------
(***************************************************************************)
(* Safety of the engine for any number of instances, workers, clients,     *)
(* tasks, kills, shutdowns and faults.                                     *)
(***************************************************************************)
EXTENDS Engine, TLAPS

-----------------------------------------------------------------------------
(* What the statements of module TaskService do to the tables, for every   *)
(* table.  The proofs below reason about the processes with these lemmas   *)
(* and never expand a statement.                                           *)

(* The columns that no UPDATE ever sets. *)
SameTask(t) ==
    /\ tasks'[t].client_id = tasks[t].client_id
    /\ tasks'[t].priority = tasks[t].priority
    /\ tasks'[t].created_at = tasks[t].created_at
    /\ tasks'[t].max_retries = tasks[t].max_retries

(* A statement that rewrites columns of row t at most. *)
RowWrite(t) ==
    /\ DOMAIN tasks' = DOMAIN tasks
    /\ \A u \in DOMAIN tasks : u # t => tasks'[u] = tasks[u]
    /\ \A u \in DOMAIN tasks : SameTask(u)
    /\ nextId' = nextId

(* Claim (DequeueTaskForClient): the row runs on behalf of the instance.   *)
LEMMA ClaimFacts ==
  ASSUME DBTypeOK, NEW t \in TaskId, NEW i \in Instances, Claim(t, i)
  PROVE  /\ DBTypeOK'
         /\ RowWrite(t)
         /\ dlq' = dlq
         /\ t \in DOMAIN tasks =>
              /\ tasks'[t].status = "running"
              /\ tasks'[t].processed_by = i
              /\ tasks'[t].retry_count = tasks[t].retry_count
              /\ tasks'[t].started_at = tasks[t].started_at
              /\ tasks'[t].completed_at = tasks[t].completed_at
<1>1. DBTypeOK'
  BY DEF DBTypeOK, Claim, Updates, Row, Status
<1>2. RowWrite(t)
  BY DEF DBTypeOK, Claim, Updates, Row, RowWrite, SameTask
<1>3. t \in DOMAIN tasks =>
              /\ tasks'[t].status = "running"
              /\ tasks'[t].processed_by = i
              /\ tasks'[t].retry_count = tasks[t].retry_count
              /\ tasks'[t].started_at = tasks[t].started_at
              /\ tasks'[t].completed_at = tasks[t].completed_at
  BY DEF DBTypeOK, Claim, Updates, Row
<1> QED BY <1>1, <1>2, <1>3 DEF Claim

(* RequeueOrphanedTasks: the instance's running rows become pending, with  *)
(* their retry_count; every other row is left alone.                       *)
LEMMA RequeueFacts ==
  ASSUME DBTypeOK, NEW i \in Instances, RequeueOrphanedTasks(i)
  PROVE  /\ DBTypeOK'
         /\ DOMAIN tasks' = DOMAIN tasks
         /\ dlq' = dlq /\ nextId' = nextId
         /\ \A u \in DOMAIN tasks :
              /\ SameTask(u)
              /\ tasks'[u].retry_count = tasks[u].retry_count
              /\ tasks'[u].completed_at = tasks[u].completed_at
              /\ u \notin OrphansOf(i) => tasks'[u] = tasks[u]
              /\ u \in OrphansOf(i) => tasks'[u].status = "pending"
<1>1. DBTypeOK'
  BY DEF DBTypeOK, RequeueOrphanedTasks, Updates, Row, Status
<1>2. DOMAIN tasks' = DOMAIN tasks
  BY DEF DBTypeOK, RequeueOrphanedTasks, Updates
<1>3. ASSUME NEW u \in DOMAIN tasks
      PROVE  /\ SameTask(u)
             /\ tasks'[u].retry_count = tasks[u].retry_count
             /\ tasks'[u].completed_at = tasks[u].completed_at
             /\ u \notin OrphansOf(i) => tasks'[u] = tasks[u]
             /\ u \in OrphansOf(i) => tasks'[u].status = "pending"
  BY DEF DBTypeOK, RequeueOrphanedTasks, Updates, Row, SameTask
<1> QED BY <1>1, <1>2, <1>3 DEF RequeueOrphanedTasks

(* MarkStarted: only started_at changes, whatever the row's status is.     *)
LEMMA MarkStartedFacts ==
  ASSUME DBTypeOK, NEW t \in TaskId, MarkStarted(t)
  PROVE  /\ DBTypeOK'
         /\ RowWrite(t)
         /\ dlq' = dlq
         /\ t \in DOMAIN tasks =>
              /\ tasks'[t].status = tasks[t].status
              /\ tasks'[t].processed_by = tasks[t].processed_by
              /\ tasks'[t].retry_count = tasks[t].retry_count
              /\ tasks'[t].started_at = "fresh"
              /\ tasks'[t].completed_at = tasks[t].completed_at
<1>1. DBTypeOK'
  BY DEF DBTypeOK, MarkStarted, Updates, Row
<1>2. RowWrite(t)
  BY DEF DBTypeOK, MarkStarted, Updates, Row, RowWrite, SameTask
<1>3. t \in DOMAIN tasks =>
              /\ tasks'[t].status = tasks[t].status
              /\ tasks'[t].processed_by = tasks[t].processed_by
              /\ tasks'[t].retry_count = tasks[t].retry_count
              /\ tasks'[t].started_at = "fresh"
              /\ tasks'[t].completed_at = tasks[t].completed_at
  BY DEF DBTypeOK, MarkStarted, Updates, Row
<1> QED BY <1>1, <1>2, <1>3 DEF MarkStarted

(* CompleteTask: the row is completed, whatever its status was.            *)
LEMMA CompleteTaskFacts ==
  ASSUME DBTypeOK, NEW t \in TaskId, CompleteTask(t)
  PROVE  /\ DBTypeOK'
         /\ RowWrite(t)
         /\ dlq' = dlq
         /\ t \in DOMAIN tasks =>
              /\ tasks'[t].status = "completed"
              /\ tasks'[t].retry_count = tasks[t].retry_count
              /\ tasks'[t].completed_at = "set"
<1>1. DBTypeOK'
  BY DEF DBTypeOK, CompleteTask, Updates, Row, Status, Terminal
<1>2. RowWrite(t)
  BY DEF DBTypeOK, CompleteTask, Updates, Row, RowWrite, SameTask
<1>3. t \in DOMAIN tasks =>
              /\ tasks'[t].status = "completed"
              /\ tasks'[t].retry_count = tasks[t].retry_count
              /\ tasks'[t].completed_at = "set"
  BY DEF DBTypeOK, CompleteTask, Updates, Row
<1> QED BY <1>1, <1>2, <1>3 DEF CompleteTask

(* FailTask: either the row is pending again with the copy's retry_count   *)
(* plus one, or it is failed and one more copy is in the dead letter queue. *)
LEMMA FailTaskFacts ==
  ASSUME DBTypeOK, NEW s \in Snapshot, FailTask(s)
  PROVE  /\ DBTypeOK'
         /\ RowWrite(s.id)
         /\ \/ /\ s.retry_count < s.max_retries
               /\ dlq' = dlq
               /\ s.id \in DOMAIN tasks =>
                    /\ tasks'[s.id].status = "pending"
                    /\ tasks'[s.id].retry_count = s.retry_count + 1
                    /\ tasks'[s.id].completed_at = Null
            \/ /\ s.retry_count >= s.max_retries
               /\ dlq' = [dlq EXCEPT ![s.id] = @ + 1]
               /\ s.id \in DOMAIN tasks =>
                    /\ tasks'[s.id].status = "failed"
                    /\ tasks'[s.id].retry_count = tasks[s.id].retry_count
                    /\ tasks'[s.id].completed_at = "set"
<1>1. CASE retry(s)
  <2>1. s.retry_count + 1 \in Nat
    BY DEF Snapshot
  <2>2. DBTypeOK'
    BY <1>1, <2>1 DEF DBTypeOK, retry, Updates, Row, Status
  <2>3. RowWrite(s.id)
    BY <1>1 DEF DBTypeOK, retry, Updates, Row, RowWrite, SameTask
  <2>4. s.id \in DOMAIN tasks =>
                    /\ tasks'[s.id].status = "pending"
                    /\ tasks'[s.id].retry_count = s.retry_count + 1
                    /\ tasks'[s.id].completed_at = Null
    BY <1>1 DEF DBTypeOK, retry, Updates, Row
  <2> QED BY <1>1, <2>2, <2>3, <2>4 DEF retry
<1>2. CASE s.retry_count >= s.max_retries /\ deadLetter(s)
  <2>1. DBTypeOK'
    <3>0. s.id \in TaskId /\ dlq[s.id] + 1 \in Nat
      BY DEF DBTypeOK, Snapshot
    <3>1. dlq' \in [TaskId -> Nat]
      BY <1>2, <3>0 DEF DBTypeOK, deadLetter
    <3> QED BY <1>2, <3>1 DEF DBTypeOK, deadLetter, Updates, Row, Status, Terminal
  <2>2. RowWrite(s.id)
    BY <1>2 DEF DBTypeOK, deadLetter, Updates, Row, RowWrite, SameTask
  <2>3. s.id \in DOMAIN tasks =>
                    /\ tasks'[s.id].status = "failed"
                    /\ tasks'[s.id].retry_count = tasks[s.id].retry_count
                    /\ tasks'[s.id].completed_at = "set"
    BY <1>2 DEF DBTypeOK, deadLetter, Updates, Row
  <2> QED BY <1>2, <2>1, <2>2, <2>3 DEF deadLetter
<1> QED BY <1>1, <1>2 DEF FailTask

(* CancelTask: the guard lets only a pending or running row through.       *)
LEMMA CancelTaskFacts ==
  ASSUME DBTypeOK, NEW t \in TaskId, NEW c \in Clients, CancelTask(c, t)
  PROVE  /\ DBTypeOK'
         /\ RowWrite(t)
         /\ dlq' = dlq
         /\ t \in DOMAIN tasks
         /\ tasks[t].status \in {"pending", "running"}
         /\ tasks'[t].status = "cancelled"
         /\ tasks'[t].retry_count = tasks[t].retry_count
         /\ tasks'[t].completed_at = "set"
<1>1. DBTypeOK'
  BY DEF DBTypeOK, CancelTask, Updates, Row, Status, Terminal
<1>2. RowWrite(t)
  BY DEF DBTypeOK, CancelTask, Updates, Row, RowWrite, SameTask
<1>3. /\ tasks'[t].status = "cancelled"
      /\ tasks'[t].retry_count = tasks[t].retry_count
      /\ tasks'[t].completed_at = "set"
  BY DEF DBTypeOK, CancelTask, Updates, Row
<1> QED BY <1>1, <1>2, <1>3 DEF CancelTask

(* ClearAllData: both tables are empty. *)
LEMMA ClearAllDataFacts ==
  ASSUME DBTypeOK, ClearAllData
  PROVE  /\ DBTypeOK'
         /\ DOMAIN tasks' = {}
         /\ dlq' = [t \in TaskId |-> 0]
BY DEF DBTypeOK, ClearAllData, EmptyTable

(* A budget of retries is a number, given or by default. *)
LEMMA LimitsAreNat == RowLimits \subseteq Nat
BY TaskServiceAssumption DEF RowLimits, Defaulted

(* Insert (CreateTask, BatchCreateTasks, AddDemoTasks): the old rows stay, *)
(* the new ones have ids that were never used, are pending and unowned.    *)
LEMMA InsertFacts ==
  ASSUME DBTypeOK, NEW ins \in Seq(Input), Insert(ins)
  PROVE  /\ DBTypeOK'
         /\ dlq' = dlq
         /\ nextId' = nextId + Len(ins)
         /\ DOMAIN tasks' = DOMAIN tasks \cup (nextId .. nextId' - 1)
         /\ \A u \in DOMAIN tasks : tasks'[u] = tasks[u]
         /\ \A u \in DOMAIN tasks' \ DOMAIN tasks :
              /\ nextId <= u
              /\ tasks'[u].status = "pending"
              /\ tasks'[u].retry_count = 0
              /\ tasks'[u].completed_at = Null
              /\ tasks'[u].started_at = Null
<1> DEFINE new == nextId .. nextId + Len(ins) - 1
<1>3. PICK now \in CreatedAt :
        tasks' = [t \in DOMAIN tasks \cup new |->
                    IF t \in DOMAIN tasks THEN tasks[t]
                    ELSE NewRow(ins[t - nextId + 1], now)]
  BY DEF Insert
<1>1. /\ DOMAIN tasks' = DOMAIN tasks \cup new
      /\ \A u \in DOMAIN tasks : tasks'[u] = tasks[u]
      /\ \A u \in new : u \notin DOMAIN tasks
      /\ \A u \in new : tasks'[u] = NewRow(ins[u - nextId + 1], now)
  BY <1>3 DEF DBTypeOK
<1>2. \A u \in new : ins[u - nextId + 1] \in Input
  BY TaskServiceAssumption DEF DBTypeOK
<1>4. \A u \in new : NewRow(ins[u - nextId + 1], now) \in Row
  <2>1. \A r \in Input : Defaulted(r.max_retries) \in RowLimits
    BY DEF Input, RowLimits
  <2> QED BY <1>2, <1>3, <2>1 DEF NewRow, Row, Input, Status
<1>5. DBTypeOK'
  <2>1. \A u \in DOMAIN tasks' : tasks'[u] \in Row
    BY <1>1, <1>4 DEF DBTypeOK
  <2>2. tasks' \in [DOMAIN tasks' -> Row]
    BY <2>1, <1>3
  <2>3. DOMAIN tasks' \subseteq TaskId
    BY <1>1, TaskServiceAssumption DEF DBTypeOK, Insert, TaskId
  <2>4. nextId' \in 1..(MaxTasks + 1)
    BY TaskServiceAssumption DEF DBTypeOK, Insert
  <2>5. \A u \in DOMAIN tasks' : u < nextId'
    BY <1>1, TaskServiceAssumption DEF DBTypeOK, Insert, TaskId
  <2> QED BY <2>2, <2>3, <2>4, <2>5 DEF DBTypeOK, Insert
<1>6. \A u \in DOMAIN tasks' \ DOMAIN tasks :
              /\ nextId <= u
              /\ tasks'[u].status = "pending"
              /\ tasks'[u].retry_count = 0
              /\ tasks'[u].completed_at = Null
              /\ tasks'[u].started_at = Null
  <2>1. \A u \in new : nextId <= u
    BY TaskServiceAssumption DEF DBTypeOK
  <2>2. \A r \in Input : /\ NewRow(r, now).status = "pending"
                          /\ NewRow(r, now).retry_count = 0
                          /\ NewRow(r, now).completed_at = Null
                          /\ NewRow(r, now).started_at = Null
    BY DEF NewRow
  <2> QED BY <1>1, <1>2, <2>1, <2>2
<1>7. nextId' - 1 = nextId + Len(ins) - 1
  BY DEF DBTypeOK, Insert
<1> QED BY <1>1, <1>5, <1>6, <1>7 DEF Insert

-----------------------------------------------------------------------------
(* Type correctness. *)

(* A bulk insert is a sequence of inputs. *)
LEMMA BatchIsSeq ==
  ASSUME NEW n \in Nat, NEW ins \in [1..n -> Input]
  PROVE  ins \in Seq(Input) /\ Len(ins) = n
OBVIOUS

(* Every submission of a client is an insert. *)
LEMMA SubmissionFacts ==
  ASSUME TypeOK, Create \/ CreateBatch \/ SeedDemo
  PROVE  /\ \E ins \in Seq(Input) : Len(ins) > 0 /\ Insert(ins)
         /\ UNCHANGED <<inst, procVars, stops, faulted, reclaimed>>
<1>1. CASE Create
  <2>1. PICK in \in Input : CreateTask(in)
    BY <1>1 DEF Create
  <2>2. <<in>> \in Seq(Input) /\ Len(<<in>>) > 0
    OBVIOUS
  <2> QED BY <1>1, <2>1, <2>2 DEF Create, CreateTask
<1>2. CASE CreateBatch
  <2>1. PICK n \in 2..MaxBatch : \E ins \in [1..n -> Input] : BatchCreateTasks(ins)
    BY <1>2 DEF CreateBatch
  <2>2. n \in Nat
    BY EngineAssumption
  <2> QED BY <1>2, <2>1, <2>2, BatchIsSeq DEF CreateBatch, BatchCreateTasks
<1>3. CASE SeedDemo
  <2>1. PICK n \in 2..MaxBatch : \E ins \in [1..n -> Input] : AddDemoTasks(ins)
    BY <1>3 DEF SeedDemo
  <2>2. n \in Nat
    BY EngineAssumption
  <2> QED BY <1>3, <2>1, <2>2, BatchIsSeq DEF SeedDemo, AddDemoTasks
<1> QED BY <1>1, <1>2, <1>3

(* A copy of a row is a snapshot. *)
LEMMA SnapshotType ==
  ASSUME DBTypeOK, NEW t \in DOMAIN tasks
  PROVE  SnapshotOf(t) \in Snapshot
BY DEF DBTypeOK, SnapshotOf, Snapshot, Row

(* The types of what a pass, a channel and a worker hold. *)
LEMMA HeldTypes ==
  ASSUME TypeOK, NEW i \in Instances
  PROVE  /\ pass[i].pc # "idle" => pass[i].task \in Snapshot /\ pass[i].task.id \in TaskId
         /\ queue[i] # << >> => Head(queue[i]) \in Snapshot
         /\ \A w \in Workers : worker[i][w].pc # "idle" =>
               worker[i][w].task \in Snapshot /\ worker[i][w].task.id \in TaskId
         /\ \A s \in sweep[i] : s \in Snapshot /\ s.id \in TaskId
<1>1. pass[i] \in PassState /\ \A w \in Workers : worker[i][w] \in WorkerState
  BY DEF TypeOK
<1>2. queue[i] \in Seq(Snapshot) /\ sweep[i] \subseteq Snapshot
  BY DEF TypeOK
<1>3. \A s \in Snapshot : s.id \in TaskId
  BY DEF Snapshot
<1> QED BY <1>1, <1>2, <1>3 DEF PassState, WorkerState, IdlePass, IdleWorker

(* TimeoutElapses ages the row and changes nothing else. *)
LEMMA TimeoutFacts ==
  ASSUME DBTypeOK, NEW t \in TaskId, TimeoutElapses(t)
  PROVE  /\ DBTypeOK'
         /\ RowWrite(t)
         /\ t \in DOMAIN tasks
         /\ tasks[t].status = "running"
         /\ tasks'[t].status = "running"
         /\ tasks'[t].processed_by = tasks[t].processed_by
         /\ tasks'[t].retry_count = tasks[t].retry_count
         /\ tasks'[t].started_at = "stale"
         /\ tasks'[t].completed_at = tasks[t].completed_at
<1>1. DBTypeOK'
  BY DEF DBTypeOK, TimeoutElapses, Updates, Row
<1>2. RowWrite(t)
  BY DEF DBTypeOK, TimeoutElapses, Updates, Row, RowWrite, SameTask
<1>3. /\ tasks'[t].status = "running"
      /\ tasks'[t].processed_by = tasks[t].processed_by
      /\ tasks'[t].retry_count = tasks[t].retry_count
      /\ tasks'[t].started_at = "stale"
      /\ tasks'[t].completed_at = tasks[t].completed_at
  BY DEF DBTypeOK, TimeoutElapses, Updates, Row
<1> QED BY <1>1, <1>2, <1>3 DEF TimeoutElapses

(* Every step keeps every variable in its type. *)
LEMMA TypeStep == TypeOK /\ [Next]_vars => TypeOK'
<1> SUFFICES ASSUME TypeOK, [Next]_vars PROVE TypeOK'
  OBVIOUS
<1> USE DEF procVars
<1>1. ASSUME Create \/ CreateBatch \/ SeedDemo PROVE TypeOK'
  BY <1>1, SubmissionFacts, InsertFacts DEF TypeOK
<1>2. ASSUME ClearDemo PROVE TypeOK'
  BY <1>2, ClearAllDataFacts DEF TypeOK, ClearDemo
<1>3. ASSUME NEW c \in Clients, NEW t \in TaskId, Cancel(c, t) PROVE TypeOK'
  BY <1>3, CancelTaskFacts DEF TypeOK, Cancel
<1>4. ASSUME NEW i \in Instances, Dequeue(i) PROVE TypeOK'
  <2>1. PICK c \in Clients : \E t \in NextPending(c, Locked) :
          pass' = [pass EXCEPT ![i] = [pc |-> "claiming", task |-> SnapshotOf(t)]]
    BY <1>4 DEF Dequeue
  <2>2. PICK t \in NextPending(c, Locked) :
          pass' = [pass EXCEPT ![i] = [pc |-> "claiming", task |-> SnapshotOf(t)]]
    BY <2>1
  <2>3. SnapshotOf(t) \in Snapshot
    BY SnapshotType DEF NextPending, Pending, TypeOK
  <2>4. pass' \in [Instances -> PassState]
    BY <2>2, <2>3 DEF TypeOK, PassState
  <2> QED BY <1>4, <2>4 DEF TypeOK, Dequeue, dbVars, DBTypeOK
<1>5. ASSUME NEW i \in Instances, DequeueCommit(i) PROVE TypeOK'
  <2>1. DBTypeOK'
    BY <1>5, HeldTypes, ClaimFacts DEF DequeueCommit, TypeOK
  <2>2. [pass[i] EXCEPT !.pc = "submitting"] \in PassState
    <3>1. pass[i] \in PassState /\ pass[i].pc = "claiming"
      BY <1>5 DEF TypeOK, DequeueCommit
    <3> QED BY <3>1 DEF PassState, IdlePass
  <2>3. pass' \in [Instances -> PassState]
    BY <1>5, <2>2 DEF DequeueCommit, TypeOK
  <2> QED BY <1>5, <2>1, <2>3 DEF TypeOK, DequeueCommit
<1>6. ASSUME NEW i \in Instances, DequeueRollsBack(i) PROVE TypeOK'
  BY <1>6 DEF TypeOK, DequeueRollsBack, PassState, dbVars, DBTypeOK
<1>7. ASSUME NEW i \in Instances, DequeueCommitUnacknowledged(i) PROVE TypeOK'
  <2>1. DBTypeOK'
    BY <1>7, HeldTypes, ClaimFacts DEF DequeueCommitUnacknowledged, TypeOK
  <2> QED BY <1>7, <2>1 DEF TypeOK, DequeueCommitUnacknowledged, PassState
<1>8. ASSUME NEW i \in Instances, Submit(i) PROVE TypeOK'
  <2>1. pass[i].task \in Snapshot
    BY <1>8, HeldTypes DEF Submit
  <2>2. Append(queue[i], pass[i].task) \in Seq(Snapshot)
    BY <2>1 DEF TypeOK
  <2>3. Len(Append(queue[i], pass[i].task)) <= NumWorkers
    BY <1>8, <2>1, EngineAssumption DEF TypeOK, Submit
  <2>4. queue' \in [Instances -> Seq(Snapshot)]
    BY <1>8, <2>2 DEF TypeOK, Submit
  <2>5. \A j \in Instances : Len(queue'[j]) <= NumWorkers
    BY <1>8, <2>3 DEF TypeOK, Submit
  <2>6. pass' \in [Instances -> PassState]
    BY <1>8 DEF TypeOK, Submit, PassState
  <2> QED BY <1>8, <2>4, <2>5, <2>6 DEF TypeOK, Submit, dbVars, DBTypeOK
<1>9. ASSUME NEW i \in Instances, NEW w \in Workers, Receive(i, w) PROVE TypeOK'
  <2>1. Head(queue[i]) \in Snapshot
    BY <1>9, HeldTypes DEF Receive
  <2>2. Tail(queue[i]) \in Seq(Snapshot) /\ Len(Tail(queue[i])) <= NumWorkers
    BY <1>9, EngineAssumption DEF TypeOK, Receive
  <2>3. queue' \in [Instances -> Seq(Snapshot)]
    BY <1>9, <2>2 DEF TypeOK, Receive
  <2>4. \A j \in Instances : Len(queue'[j]) <= NumWorkers
    BY <1>9, <2>2 DEF TypeOK, Receive
  <2>5. worker' \in [Instances -> [Workers -> WorkerState]]
    BY <1>9, <2>1 DEF TypeOK, Receive, WorkerState
  <2> QED BY <1>9, <2>3, <2>4, <2>5 DEF TypeOK, Receive, dbVars, DBTypeOK
<1>10. ASSUME NEW i \in Instances, NEW w \in Workers, Start(i, w) \/ StartUnmarked(i, w)
       PROVE  TypeOK'
  <2>1. [worker[i][w] EXCEPT !.pc = "running"] \in WorkerState
    <3>1. worker[i][w] \in WorkerState /\ worker[i][w].pc = "picked"
      BY <1>10 DEF TypeOK, Start, StartUnmarked
    <3> QED BY <3>1 DEF WorkerState, IdleWorker
  <2>2. worker' = [worker EXCEPT ![i][w].pc = "running"]
    BY <1>10 DEF Start, StartUnmarked
  <2>3. worker' \in [Instances -> [Workers -> WorkerState]]
    BY <2>1, <2>2 DEF TypeOK
  <2>4. DBTypeOK'
    <3>1. CASE Start(i, w)
      BY <3>1, HeldTypes, MarkStartedFacts DEF Start, TypeOK
    <3>2. CASE StartUnmarked(i, w)
      BY <3>2 DEF StartUnmarked, TypeOK, DBTypeOK, dbVars
    <3> QED BY <1>10, <3>1, <3>2
  <2> QED BY <1>10, <2>3, <2>4 DEF TypeOK, Start, StartUnmarked
<1>11. ASSUME NEW i \in Instances, NEW w \in Workers,
              Complete(i, w) \/ Fail(i, w) \/ RecordFails(i, w)
       PROVE  TypeOK'
  <2>1. worker' = [worker EXCEPT ![i][w] = IdleWorker]
    BY <1>11 DEF Complete, Fail, RecordFails
  <2>2. worker' \in [Instances -> [Workers -> WorkerState]]
    BY <2>1 DEF TypeOK, WorkerState
  <2>3. DBTypeOK'
    <3>1. CASE Complete(i, w)
      BY <3>1, HeldTypes, CompleteTaskFacts DEF Complete, TypeOK
    <3>2. CASE Fail(i, w)
      BY <3>2, HeldTypes, FailTaskFacts DEF Fail, TypeOK
    <3>3. CASE RecordFails(i, w)
      BY <3>3 DEF RecordFails, TypeOK, DBTypeOK, dbVars
    <3> QED BY <1>11, <3>1, <3>2, <3>3
  <2> QED BY <1>11, <2>2, <2>3 DEF TypeOK, Complete, Fail, RecordFails
<1>12. ASSUME NEW t \in TaskId, TimeoutElapses(t) PROVE TypeOK'
  BY <1>12, TimeoutFacts DEF TypeOK, TimeoutElapses
<1>13. ASSUME NEW i \in Instances, SweepFind(i) PROVE TypeOK'
  <2>1. FindStaleRunningTasks \subseteq Snapshot
    BY SnapshotType DEF FindStaleRunningTasks, TypeOK
  <2> QED BY <1>13, <2>1 DEF TypeOK, SweepFind, dbVars, DBTypeOK
<1>14. ASSUME NEW i \in Instances, SweepFail(i) \/ RecoverFails(i) PROVE TypeOK'
  <2>1. CASE SweepFail(i)
    <3>1. PICK s \in sweep[i] : /\ FailTask(s)
                                /\ sweep' = [sweep EXCEPT ![i] = @ \ {s}]
                                /\ reclaimed' = reclaimed \cup {s.id}
      BY <2>1 DEF SweepFail
    <3>2. s \in Snapshot /\ s.id \in TaskId
      BY HeldTypes
    <3>3. DBTypeOK'
      BY <3>1, <3>2, FailTaskFacts DEF TypeOK
    <3> QED BY <2>1, <3>1, <3>2, <3>3 DEF TypeOK, SweepFail
  <2>2. CASE RecoverFails(i)
    BY <2>2 DEF TypeOK, RecoverFails, dbVars, DBTypeOK
  <2> QED BY <1>14, <2>1, <2>2
<1>15. ASSUME NEW i \in Instances, Crash(i) PROVE TypeOK'
  <2>1. inst' \in [Instances -> InstState] /\ stops' \in 0..MaxStops
    BY <1>15, EngineAssumption DEF TypeOK, Crash, InstState
  <2>2. pass' \in [Instances -> PassState] /\ sweep' \in [Instances -> SUBSET Snapshot]
    BY <1>15 DEF TypeOK, Crash, PassState
  <2>3. /\ queue' \in [Instances -> Seq(Snapshot)]
        /\ \A j \in Instances : Len(queue'[j]) <= NumWorkers
    BY <1>15, EngineAssumption DEF TypeOK, Crash
  <2>4. worker' \in [Instances -> [Workers -> WorkerState]]
    BY <1>15 DEF TypeOK, Crash, WorkerState
  <2> QED BY <1>15, <2>1, <2>2, <2>3, <2>4 DEF TypeOK, Crash, dbVars, DBTypeOK
<1>16. ASSUME NEW i \in Instances, Boot(i) \/ BootUnrecovered(i) PROVE TypeOK'
  <2>1. DBTypeOK'
    <3>1. CASE Boot(i)
      BY <3>1, RequeueFacts DEF Boot, TypeOK
    <3>2. CASE BootUnrecovered(i)
      BY <3>2 DEF BootUnrecovered, TypeOK, DBTypeOK, dbVars
    <3> QED BY <1>16, <3>1, <3>2
  <2> QED BY <1>16, <2>1 DEF TypeOK, Boot, BootUnrecovered, InstState
<1>17. ASSUME NEW i \in Instances, Shutdown(i) \/ ClosePool(i) \/ Exit(i) PROVE TypeOK'
  <2>1. CASE Shutdown(i)
    <3>1. inst' \in [Instances -> InstState] /\ stops' \in 0..MaxStops
      BY <2>1, EngineAssumption DEF TypeOK, Shutdown, InstState
    <3>2. sweep' \in [Instances -> SUBSET Snapshot]
      BY <2>1 DEF TypeOK, Shutdown
    <3> QED BY <2>1, <3>1, <3>2 DEF TypeOK, Shutdown, dbVars, DBTypeOK
  <2>2. CASE ClosePool(i) \/ Exit(i)
    <3>1. inst' \in [Instances -> InstState]
      BY <2>2 DEF TypeOK, ClosePool, Exit, InstState
    <3> QED BY <2>2, <3>1 DEF TypeOK, ClosePool, Exit, dbVars, DBTypeOK
  <2> QED BY <1>17, <2>1, <2>2
<1>18. CASE UNCHANGED vars
  BY <1>18 DEF vars, dbVars, TypeOK, DBTypeOK
<1> QED
  BY <1>1, <1>2, <1>3, <1>4, <1>5, <1>6, <1>7, <1>8, <1>9, <1>10, <1>11, <1>12,
     <1>13, <1>14, <1>15, <1>16, <1>17, <1>18
     DEF Next, Api, SchedulerStep, WorkerStep, WatchdogStep, Stopping, Faults

(* Type correctness: in every reachable state of the engine every variable *)
(* has its type, and no channel holds more than NumWorkers tasks.          *)
THEOREM TypeCorrect == Spec => []TypeOK
<1>1. Init => TypeOK
  BY TaskServiceAssumption, EngineAssumption
     DEF Init, InitDB, TypeOK, DBTypeOK, EmptyTable, TaskId, InstState, PassState, WorkerState
<1> QED BY <1>1, TypeStep, PTL DEF Spec

-----------------------------------------------------------------------------
(* Where a claimed task is. *)

(* Submit moves a task from the pass to the channel. *)
LEMMA SubmitKeeps ==
  ASSUME TypeOK, NEW j \in Instances, Submit(j), NEW i \in Instances, NEW t \in TaskId,
         Waits(i, t)
  PROVE  Waits(i, t)'
<1>1. pass[j].task \in Snapshot
  BY HeldTypes DEF Submit
<1>2. queue[i] \in Seq(Snapshot) /\ queue[j] \in Seq(Snapshot)
  BY DEF TypeOK
<1>3. CASE i # j
  BY <1>3 DEF Submit, TypeOK, Waits, InPass, InQueue
<1>4. CASE i = j
  <2>1. queue'[i] = Append(queue[i], pass[i].task)
    BY <1>4 DEF Submit, TypeOK
  <2>2. CASE InPass(i, t)
    <3>1. /\ Len(queue'[i]) \in 1..Len(queue'[i])
          /\ queue'[i][Len(queue'[i])] = pass[i].task
      BY <1>1, <1>2, <1>4, <2>1
    <3> QED BY <2>2, <3>1 DEF InPass, InQueue, Waits
  <2>3. ASSUME NEW k \in 1..Len(queue[i]), InQueue(i, k, t) PROVE Waits(i, t)'
    <3>1. k \in 1..Len(queue'[i]) /\ queue'[i][k] = queue[i][k]
      BY <1>1, <1>2, <1>4, <2>1
    <3> QED BY <2>3, <3>1 DEF InQueue, Waits
  <2> QED BY <2>2, <2>3 DEF Waits
<1> QED BY <1>3, <1>4

(* Receive moves the head of the channel to the worker. *)
LEMMA ReceiveKeeps ==
  ASSUME TypeOK, NEW j \in Instances, NEW v \in Workers, Receive(j, v),
         NEW i \in Instances, NEW t \in TaskId, Waits(i, t)
  PROVE  Waits(i, t)' \/ \E w \in Workers : Picked(i, w, t)'
<1>1. queue[i] \in Seq(Snapshot) /\ queue[j] \in Seq(Snapshot)
  BY DEF TypeOK
<1>2. CASE InPass(i, t)
  BY <1>2 DEF Receive, InPass, Waits
<1>3. ASSUME NEW k \in 1..Len(queue[i]), InQueue(i, k, t), i = j
      PROVE  Waits(i, t)' \/ \E w \in Workers : Picked(i, w, t)'
  <2>1. queue'[i] = Tail(queue[i]) /\ queue[i] # << >>
    BY <1>3 DEF Receive, TypeOK
  <2>2. CASE k = 1
    <3>1. worker'[i][v] = [pc |-> "picked", task |-> Head(queue[i])]
      BY <1>3 DEF Receive, TypeOK
    <3>2. Head(queue[i]) = queue[i][1]
      BY <1>1, <2>1
    <3> QED BY <1>3, <2>2, <3>1, <3>2 DEF Picked, InQueue
  <2>3. CASE k # 1
    <3>1. k - 1 \in 1..Len(queue'[i]) /\ queue'[i][k - 1] = queue[i][k]
      BY <1>1, <2>1, <2>3
    <3> QED BY <1>3, <3>1 DEF InQueue, Waits
  <2> QED BY <2>2, <2>3
<1>4. CASE i # j
  BY <1>4 DEF Receive, TypeOK, Waits, InPass, InQueue
<1> QED BY <1>2, <1>3, <1>4 DEF Waits

(* Steps that leave the pass, the channel and the workers alone leave      *)
(* every task where it is.                                                 *)
LEMMA MemoryFrame ==
  ASSUME UNCHANGED <<pass, queue, worker>>, NEW i \in Instances, NEW t \in TaskId
  PROVE  /\ Waits(i, t)' = Waits(i, t)
         /\ \A w \in Workers : Picked(i, w, t)' = Picked(i, w, t)
         /\ \A w \in Workers : AtWorker(i, w, t)' = AtWorker(i, w, t)
         /\ Holds(i, t)' = Holds(i, t)
BY DEF Waits, InPass, InQueue, Picked, AtWorker, Holds

(* A row that runs after a FailTask is not the row that FailTask wrote.    *)
LEMMA NotRunningAfterFail ==
  ASSUME DBTypeOK, NEW s \in Snapshot, FailTask(s),
         NEW i \in Instances, NEW t \in TaskId, RunningBy(t, i)'
  PROVE  t \in DOMAIN tasks /\ t # s.id /\ tasks'[t] = tasks[t]
<1>1. RowWrite(s.id)
  BY FailTaskFacts
<1>2. s.id \in DOMAIN tasks => tasks'[s.id].status # "running"
  BY FailTaskFacts
<1> QED BY <1>1, <1>2 DEF RunningBy, RowWrite

Tracked(i, t) == \/ tasks[t].started_at # Null
                 \/ Waits(i, t)
                 \/ \E w \in Workers : Picked(i, w, t)

(* ClaimIsTracked is inductive relative to the types. *)
LEMMA ClaimIsTrackedStep ==
  TypeOK /\ ClaimIsTracked /\ [Next]_vars => ClaimIsTracked'
<1> DEFINE F == {"claim", "record", "recover"}
<1> SUFFICES ASSUME TypeOK, ClaimIsTracked, [Next]_vars, faulted' \subseteq F,
                    NEW i \in Instances, NEW t \in TaskId,
                    RunningBy(t, i)', inst'[i] # "crashed"
             PROVE  Tracked(i, t)'
  BY DEF ClaimIsTracked, Tracked
<1> USE DEF procVars
<1>a. ASSUME faulted \subseteq F, RunningBy(t, i), inst[i] # "crashed"
      PROVE  Tracked(i, t)
  BY <1>a DEF ClaimIsTracked, Tracked
<1>b. ASSUME faulted \subseteq F, inst[i] # "crashed", UNCHANGED <<pass, queue, worker>>,
             RunningBy(t, i), tasks'[t].started_at # Null \/ tasks'[t].started_at = tasks[t].started_at
      PROVE  Tracked(i, t)'
  BY <1>a, <1>b, MemoryFrame DEF Tracked
<1>1. ASSUME Create \/ CreateBatch \/ SeedDemo PROVE Tracked(i, t)'
  <2>1. PICK ins \in Seq(Input) : Insert(ins)
    BY <1>1, SubmissionFacts
  <2>2. t \in DOMAIN tasks /\ tasks'[t] = tasks[t]
    BY <2>1, InsertFacts DEF RunningBy, TypeOK
  <2> QED BY <1>1, <1>b, <2>2, SubmissionFacts DEF RunningBy
<1>2. ASSUME ClearDemo PROVE Tracked(i, t)'
  BY <1>2, ClearAllDataFacts DEF ClearDemo, RunningBy, TypeOK
<1>3. ASSUME NEW c \in Clients, NEW u \in TaskId, Cancel(c, u) PROVE Tracked(i, t)'
  <2>1. t # u /\ t \in DOMAIN tasks /\ tasks'[t] = tasks[t]
    BY <1>3, CancelTaskFacts DEF Cancel, RunningBy, TypeOK, RowWrite
  <2> QED BY <1>3, <1>b, <2>1 DEF RunningBy, Cancel
<1>4. ASSUME NEW j \in Instances, Dequeue(j) \/ DequeueRollsBack(j) PROVE Tracked(i, t)'
  <2>1. tasks' = tasks /\ faulted \subseteq F /\ inst' = inst /\ RunningBy(t, i)
    BY <1>4 DEF Dequeue, DequeueRollsBack, dbVars, RunningBy
  <2>2. Tracked(i, t)
    BY <1>a, <2>1
  <2>3. Waits(i, t) => Waits(i, t)'
    BY <1>4 DEF Dequeue, DequeueRollsBack, Waits, InPass, InQueue, TypeOK
  <2>4. worker' = worker
    BY <1>4 DEF Dequeue, DequeueRollsBack
  <2> QED BY <2>1, <2>2, <2>3, <2>4 DEF Tracked, Picked
<1>5. ASSUME NEW j \in Instances, DequeueCommit(j) PROVE Tracked(i, t)'
  <2>1. pass[j].task.id \in TaskId
    BY <1>5, HeldTypes DEF DequeueCommit
  <2>2. Claim(pass[j].task.id, j)
    BY <1>5 DEF DequeueCommit
  <2>3. CASE t = pass[j].task.id
    <3>1. tasks'[t].processed_by = j
      BY <2>1, <2>2, <2>3, ClaimFacts DEF RunningBy, TypeOK, RowWrite
    <3>2. i = j
      BY <3>1 DEF RunningBy
    <3>3. pass'[i].pc = "submitting" /\ pass'[i].task.id = t
      BY <1>5, <2>3, <3>2 DEF DequeueCommit, TypeOK, PassState, IdlePass
    <3> QED BY <3>3 DEF Tracked, Waits, InPass
  <2>4. CASE t # pass[j].task.id
    <3>1. t \in DOMAIN tasks /\ tasks'[t] = tasks[t]
      BY <2>1, <2>2, <2>4, ClaimFacts DEF RunningBy, TypeOK, RowWrite
    <3>2. Tracked(i, t)
      BY <1>5, <1>a, <3>1 DEF RunningBy, DequeueCommit
    <3>3. Waits(i, t) => Waits(i, t)'
      BY <1>5 DEF DequeueCommit, Waits, InPass, InQueue, TypeOK
    <3> QED BY <1>5, <3>1, <3>2, <3>3 DEF DequeueCommit, Tracked, Picked
  <2> QED BY <2>3, <2>4
<1>6. ASSUME NEW j \in Instances, DequeueCommitUnacknowledged(j) PROVE Tracked(i, t)'
  BY <1>6 DEF DequeueCommitUnacknowledged
<1>7. ASSUME NEW j \in Instances, Submit(j) PROVE Tracked(i, t)'
  <2>1. Tracked(i, t)
    BY <1>7, <1>a DEF Submit, dbVars, RunningBy
  <2> QED BY <1>7, <2>1, SubmitKeeps DEF Submit, dbVars, Tracked, Picked
<1>8. ASSUME NEW j \in Instances, NEW w \in Workers, Receive(j, w) PROVE Tracked(i, t)'
  <2>1. Tracked(i, t)
    BY <1>8, <1>a DEF Receive, dbVars, RunningBy
  <2>2. ASSUME NEW v \in Workers, Picked(i, v, t) PROVE Picked(i, v, t)'
    BY <1>8, <2>2 DEF Receive, Picked, TypeOK
  <2> QED BY <1>8, <2>1, <2>2, ReceiveKeeps DEF Receive, dbVars, Tracked
<1>9. ASSUME NEW j \in Instances, NEW w \in Workers, Start(j, w) PROVE Tracked(i, t)'
  <2> DEFINE u == worker[j][w].task.id
  <2>1. u \in TaskId
    BY <1>9, HeldTypes DEF Start
  <2>2. t = u => tasks'[t].started_at = "fresh"
    BY <1>9, <2>1, MarkStartedFacts DEF Start, RunningBy, TypeOK, RowWrite
  <2>3. t # u => t \in DOMAIN tasks /\ tasks'[t] = tasks[t]
    BY <1>9, <2>1, MarkStartedFacts DEF Start, RunningBy, TypeOK, RowWrite
  <2>4. t # u => Tracked(i, t)
    BY <1>9, <1>a, <2>3 DEF RunningBy, Start
  <2>5. ASSUME NEW v \in Workers, Picked(i, v, t), t # u PROVE Picked(i, v, t)'
    BY <1>9, <2>5 DEF Start, Picked, TypeOK
  <2>6. Waits(i, t) => Waits(i, t)'
    BY <1>9 DEF Start, Waits, InPass, InQueue
  <2> QED BY <2>2, <2>3, <2>4, <2>5, <2>6 DEF Tracked, Null
<1>10. ASSUME NEW j \in Instances, NEW w \in Workers, StartUnmarked(j, w) PROVE Tracked(i, t)'
  BY <1>10 DEF StartUnmarked
<1>11. ASSUME NEW j \in Instances, NEW w \in Workers,
              Complete(j, w) \/ Fail(j, w) \/ RecordFails(j, w)
       PROVE  Tracked(i, t)'
  <2> DEFINE s == worker[j][w].task
  <2>1. s \in Snapshot /\ s.id \in TaskId
    BY <1>11, HeldTypes DEF Complete, Fail, RecordFails
  <2>2. t \in DOMAIN tasks /\ tasks'[t] = tasks[t]
    <3>1. CASE Complete(j, w)
      BY <3>1, <2>1, CompleteTaskFacts DEF Complete, RunningBy, TypeOK, RowWrite
    <3>2. CASE Fail(j, w)
      <4>1. DBTypeOK /\ FailTask(s)
        BY <3>2 DEF Fail, TypeOK
      <4> QED BY <2>1, <4>1, NotRunningAfterFail
    <3>3. CASE RecordFails(j, w)
      BY <3>3 DEF RecordFails, RunningBy, dbVars
    <3> QED BY <1>11, <3>1, <3>2, <3>3
  <2>3. Tracked(i, t)
    BY <1>11, <1>a, <2>2 DEF RunningBy, Complete, Fail, RecordFails
  <2>4. ASSUME NEW v \in Workers, Picked(i, v, t) PROVE Picked(i, v, t)'
    <3>1. worker' = [worker EXCEPT ![j][w] = IdleWorker] /\ worker[j][w].pc = "running"
      BY <1>11 DEF Complete, Fail, RecordFails
    <3> QED BY <2>4, <3>1 DEF Picked, TypeOK
  <2>5. Waits(i, t) => Waits(i, t)'
    BY <1>11 DEF Complete, Fail, RecordFails, Waits, InPass, InQueue
  <2> QED BY <2>2, <2>3, <2>4, <2>5 DEF Tracked
<1>12. ASSUME NEW u \in TaskId, TimeoutElapses(u) PROVE Tracked(i, t)'
  <2>1. /\ t \in DOMAIN tasks
        /\ tasks'[t].status = tasks[t].status
        /\ tasks'[t].processed_by = tasks[t].processed_by
        /\ tasks'[t].started_at = tasks[t].started_at \/ tasks'[t].started_at = "stale"
    BY <1>12, TimeoutFacts DEF RunningBy, TypeOK, RowWrite
  <2> QED BY <1>12, <1>b, <2>1 DEF TimeoutElapses, RunningBy, Null
<1>13. ASSUME NEW j \in Instances, SweepFind(j) \/ RecoverFails(j) PROVE Tracked(i, t)'
  BY <1>13, <1>b DEF SweepFind, RecoverFails, dbVars, RunningBy
<1>14. ASSUME NEW j \in Instances, SweepFail(j) PROVE Tracked(i, t)'
  <2>1. PICK s \in sweep[j] : FailTask(s)
    BY <1>14 DEF SweepFail
  <2>2. s \in Snapshot /\ s.id \in TaskId
    BY HeldTypes
  <2>3. t \in DOMAIN tasks /\ tasks'[t] = tasks[t]
    BY <2>1, <2>2, NotRunningAfterFail DEF TypeOK
  <2> QED BY <1>14, <1>b, <2>3 DEF SweepFail, RunningBy
<1>15. ASSUME NEW j \in Instances, Crash(j) PROVE Tracked(i, t)'
  <2>1. i # j /\ inst[i] # "crashed" /\ tasks' = tasks
    BY <1>15 DEF Crash, TypeOK, dbVars
  <2>2. Tracked(i, t)
    BY <1>15, <1>a, <2>1 DEF Crash, RunningBy
  <2>3. pass'[i] = pass[i] /\ queue'[i] = queue[i] /\ worker'[i] = worker[i]
    BY <1>15, <2>1 DEF Crash, TypeOK
  <2> QED BY <2>1, <2>2, <2>3 DEF Tracked, Waits, InPass, InQueue, Picked
<1>16. ASSUME NEW j \in Instances, Boot(j) PROVE Tracked(i, t)'
  <2>1. t \in DOMAIN tasks /\ t \notin OrphansOf(j) /\ tasks'[t] = tasks[t]
    BY <1>16, RequeueFacts DEF Boot, RunningBy, TypeOK
  <2>2. i # j
    BY <2>1 DEF OrphansOf, RunningBy
  <2>3. inst[i] = inst'[i]
    BY <1>16, <2>2 DEF Boot, TypeOK
  <2> QED BY <1>16, <1>b, <2>1, <2>3 DEF Boot, RunningBy
<1>17. ASSUME NEW j \in Instances, BootUnrecovered(j) PROVE Tracked(i, t)'
  BY <1>17 DEF BootUnrecovered
<1>18. ASSUME NEW j \in Instances, Shutdown(j) \/ ClosePool(j) \/ Exit(j) PROVE Tracked(i, t)'
  <2>1. inst[i] # "crashed"
    BY <1>18 DEF Shutdown, ClosePool, Exit, TypeOK
  <2> QED BY <1>18, <1>b, <2>1 DEF Shutdown, ClosePool, Exit, dbVars, RunningBy
<1>19. CASE UNCHANGED vars
  BY <1>19, <1>b DEF vars, dbVars, RunningBy
<1> QED
  BY <1>1, <1>2, <1>3, <1>4, <1>5, <1>6, <1>7, <1>8, <1>9, <1>10, <1>11, <1>12, <1>13,
     <1>14, <1>15, <1>16, <1>17, <1>18, <1>19
     DEF Next, Api, SchedulerStep, WorkerStep, WatchdogStep, Stopping, Faults

(* Zero loss: as long as no COMMIT answer is lost and no MarkStarted or    *)
(* startup recovery fails, a row that runs on behalf of an instance that   *)
(* was not killed is on its way to a handler there, or is visible to every *)
(* watchdog.                                                               *)
THEOREM ZeroLoss == Spec => []ClaimIsTracked
<1>1. Init => ClaimIsTracked
  BY DEF Init, InitDB, EmptyTable, ClaimIsTracked, RunningBy
<1> QED BY <1>1, TypeCorrect, ClaimIsTrackedStep, PTL DEF Spec

(* StopLeavesNothingRunning is inductive relative to the types. *)
LEMMA StopLeavesNothingRunningStep ==
  TypeOK /\ StopLeavesNothingRunning /\ [Next]_vars => StopLeavesNothingRunning'
<1> DEFINE F == {"claim", "mark", "recover"}
<1> SUFFICES ASSUME TypeOK, StopLeavesNothingRunning, [Next]_vars, faulted' \subseteq F,
                    NEW i \in Instances, NEW t \in TaskId,
                    RunningBy(t, i)', inst'[i] # "crashed"
             PROVE  Holds(i, t)'
  BY DEF StopLeavesNothingRunning
<1> USE DEF procVars
<1>a. ASSUME faulted \subseteq F, RunningBy(t, i), inst[i] # "crashed"
      PROVE  Holds(i, t)
  BY <1>a DEF StopLeavesNothingRunning
<1>b. ASSUME faulted \subseteq F, inst[i] # "crashed", RunningBy(t, i),
             UNCHANGED <<pass, queue, worker>>
      PROVE  Holds(i, t)'
  BY <1>a, <1>b, MemoryFrame
<1>1. ASSUME Create \/ CreateBatch \/ SeedDemo PROVE Holds(i, t)'
  <2>1. PICK ins \in Seq(Input) : Insert(ins)
    BY <1>1, SubmissionFacts
  <2>2. t \in DOMAIN tasks /\ tasks'[t] = tasks[t]
    BY <2>1, InsertFacts DEF RunningBy, TypeOK
  <2> QED BY <1>1, <1>b, <2>2, SubmissionFacts DEF RunningBy
<1>2. ASSUME ClearDemo PROVE Holds(i, t)'
  BY <1>2, ClearAllDataFacts DEF ClearDemo, RunningBy, TypeOK
<1>3. ASSUME NEW c \in Clients, NEW u \in TaskId, Cancel(c, u) PROVE Holds(i, t)'
  <2>1. t # u /\ t \in DOMAIN tasks /\ tasks'[t] = tasks[t]
    BY <1>3, CancelTaskFacts DEF Cancel, RunningBy, TypeOK, RowWrite
  <2> QED BY <1>3, <1>b, <2>1 DEF RunningBy, Cancel
<1>4. ASSUME NEW j \in Instances, Dequeue(j) \/ DequeueRollsBack(j) PROVE Holds(i, t)'
  <2>1. Holds(i, t)
    BY <1>4, <1>a DEF Dequeue, DequeueRollsBack, dbVars, RunningBy
  <2>2. Waits(i, t) => Waits(i, t)'
    BY <1>4 DEF Dequeue, DequeueRollsBack, Waits, InPass, InQueue, TypeOK
  <2> QED BY <1>4, <2>1, <2>2 DEF Dequeue, DequeueRollsBack, Holds, AtWorker
<1>5. ASSUME NEW j \in Instances, DequeueCommit(j) PROVE Holds(i, t)'
  <2>1. pass[j].task.id \in TaskId
    BY <1>5, HeldTypes DEF DequeueCommit
  <2>2. Claim(pass[j].task.id, j)
    BY <1>5 DEF DequeueCommit
  <2>3. CASE t = pass[j].task.id
    <3>1. tasks'[t].processed_by = j
      BY <2>1, <2>2, <2>3, ClaimFacts DEF RunningBy, TypeOK, RowWrite
    <3>2. i = j
      BY <3>1 DEF RunningBy
    <3>3. pass'[i].pc = "submitting" /\ pass'[i].task.id = t
      BY <1>5, <2>3, <3>2 DEF DequeueCommit, TypeOK, PassState, IdlePass
    <3> QED BY <3>3 DEF Holds, Waits, InPass
  <2>4. CASE t # pass[j].task.id
    <3>1. t \in DOMAIN tasks /\ tasks'[t] = tasks[t]
      BY <2>1, <2>2, <2>4, ClaimFacts DEF RunningBy, TypeOK, RowWrite
    <3>2. Holds(i, t)
      BY <1>5, <1>a, <3>1 DEF RunningBy, DequeueCommit
    <3>3. Waits(i, t) => Waits(i, t)'
      BY <1>5 DEF DequeueCommit, Waits, InPass, InQueue, TypeOK
    <3> QED BY <1>5, <3>2, <3>3 DEF DequeueCommit, Holds, AtWorker
  <2> QED BY <2>3, <2>4
<1>6. ASSUME NEW j \in Instances, DequeueCommitUnacknowledged(j) PROVE Holds(i, t)'
  BY <1>6 DEF DequeueCommitUnacknowledged
<1>7. ASSUME NEW j \in Instances, Submit(j) PROVE Holds(i, t)'
  <2>1. Holds(i, t)
    BY <1>7, <1>a DEF Submit, dbVars, RunningBy
  <2> QED BY <1>7, <2>1, SubmitKeeps DEF Submit, Holds, AtWorker
<1>8. ASSUME NEW j \in Instances, NEW w \in Workers, Receive(j, w) PROVE Holds(i, t)'
  <2>1. Holds(i, t)
    BY <1>8, <1>a DEF Receive, dbVars, RunningBy
  <2>2. ASSUME NEW v \in Workers, AtWorker(i, v, t) PROVE AtWorker(i, v, t)'
    BY <1>8, <2>2 DEF Receive, AtWorker, TypeOK
  <2> QED BY <1>8, <2>1, <2>2, ReceiveKeeps DEF Holds, AtWorker, Picked
<1>9. ASSUME NEW j \in Instances, NEW w \in Workers, Start(j, w) \/ StartUnmarked(j, w)
      PROVE  Holds(i, t)'
  <2>1. RunningBy(t, i)
    <3>1. CASE Start(j, w)
      <4>1. DBTypeOK /\ worker[j][w].task.id \in TaskId /\ MarkStarted(worker[j][w].task.id)
        BY <3>1, HeldTypes DEF Start, TypeOK
      <4> QED BY <4>1, MarkStartedFacts DEF RunningBy, RowWrite
    <3>2. CASE StartUnmarked(j, w)
      BY <3>2 DEF StartUnmarked, dbVars, RunningBy
    <3> QED BY <1>9, <3>1, <3>2
  <2>2. Holds(i, t)
    BY <1>9, <1>a, <2>1 DEF Start, StartUnmarked
  <2>3. ASSUME NEW v \in Workers, AtWorker(i, v, t) PROVE AtWorker(i, v, t)'
    <3>1. worker' = [worker EXCEPT ![j][w].pc = "running"]
      BY <1>9 DEF Start, StartUnmarked
    <3>2. worker[j][w] \in WorkerState /\ worker[j][w].pc = "picked"
      BY <1>9 DEF Start, StartUnmarked, TypeOK
    <3> QED BY <2>3, <3>1, <3>2 DEF AtWorker, TypeOK, WorkerState, IdleWorker
  <2>4. Waits(i, t) => Waits(i, t)'
    BY <1>9 DEF Start, StartUnmarked, Waits, InPass, InQueue
  <2> QED BY <2>2, <2>3, <2>4 DEF Holds
<1>10. ASSUME NEW j \in Instances, NEW w \in Workers, Complete(j, w) \/ Fail(j, w)
       PROVE  Holds(i, t)'
  <2> DEFINE s == worker[j][w].task
  <2>1. s \in Snapshot /\ s.id \in TaskId
    BY <1>10, HeldTypes DEF Complete, Fail
  <2>2. t # s.id /\ t \in DOMAIN tasks /\ tasks'[t] = tasks[t]
    <3>1. CASE Complete(j, w)
      BY <3>1, <2>1, CompleteTaskFacts DEF Complete, RunningBy, TypeOK, RowWrite
    <3>2. CASE Fail(j, w)
      BY <3>2, <2>1, NotRunningAfterFail DEF Fail, TypeOK
    <3> QED BY <1>10, <3>1, <3>2
  <2>3. Holds(i, t)
    BY <1>10, <1>a, <2>2 DEF RunningBy, Complete, Fail
  <2>4. ASSUME NEW v \in Workers, AtWorker(i, v, t) PROVE AtWorker(i, v, t)'
    <3>1. worker' = [worker EXCEPT ![j][w] = IdleWorker]
      BY <1>10 DEF Complete, Fail
    <3> QED BY <2>2, <2>4, <3>1 DEF AtWorker, TypeOK
  <2>5. Waits(i, t) => Waits(i, t)'
    BY <1>10 DEF Complete, Fail, Waits, InPass, InQueue
  <2> QED BY <2>3, <2>4, <2>5 DEF Holds
<1>11. ASSUME NEW j \in Instances, NEW w \in Workers, RecordFails(j, w) PROVE Holds(i, t)'
  BY <1>11 DEF RecordFails
<1>12. ASSUME NEW u \in TaskId, TimeoutElapses(u) PROVE Holds(i, t)'
  <2>1. RunningBy(t, i)
    BY <1>12, TimeoutFacts DEF RunningBy, TypeOK, RowWrite
  <2> QED BY <1>12, <1>b, <2>1 DEF TimeoutElapses
<1>13. ASSUME NEW j \in Instances, SweepFind(j) \/ RecoverFails(j) PROVE Holds(i, t)'
  BY <1>13, <1>b DEF SweepFind, RecoverFails, dbVars, RunningBy
<1>14. ASSUME NEW j \in Instances, SweepFail(j) PROVE Holds(i, t)'
  <2>1. PICK s \in sweep[j] : FailTask(s)
    BY <1>14 DEF SweepFail
  <2>2. s \in Snapshot /\ s.id \in TaskId
    BY HeldTypes
  <2>3. t \in DOMAIN tasks /\ tasks'[t] = tasks[t]
    BY <2>1, <2>2, NotRunningAfterFail DEF TypeOK
  <2> QED BY <1>14, <1>b, <2>3 DEF SweepFail, RunningBy
<1>15. ASSUME NEW j \in Instances, Crash(j) PROVE Holds(i, t)'
  <2>1. i # j /\ inst[i] # "crashed" /\ tasks' = tasks
    BY <1>15 DEF Crash, TypeOK, dbVars
  <2>2. Holds(i, t)
    BY <1>15, <1>a, <2>1 DEF Crash, RunningBy
  <2>3. pass'[i] = pass[i] /\ queue'[i] = queue[i] /\ worker'[i] = worker[i]
    BY <1>15, <2>1 DEF Crash, TypeOK
  <2> QED BY <2>2, <2>3 DEF Holds, Waits, InPass, InQueue, AtWorker
<1>16. ASSUME NEW j \in Instances, Boot(j) PROVE Holds(i, t)'
  <2>1. t \in DOMAIN tasks /\ t \notin OrphansOf(j) /\ tasks'[t] = tasks[t]
    BY <1>16, RequeueFacts DEF Boot, RunningBy, TypeOK
  <2>2. i # j
    BY <2>1 DEF OrphansOf, RunningBy
  <2>3. inst[i] = inst'[i]
    BY <1>16, <2>2 DEF Boot, TypeOK
  <2> QED BY <1>16, <1>b, <2>1, <2>3 DEF Boot, RunningBy
<1>17. ASSUME NEW j \in Instances, BootUnrecovered(j) PROVE Holds(i, t)'
  BY <1>17 DEF BootUnrecovered
<1>18. ASSUME NEW j \in Instances, Shutdown(j) \/ ClosePool(j) \/ Exit(j) PROVE Holds(i, t)'
  <2>1. inst[i] # "crashed"
    BY <1>18 DEF Shutdown, ClosePool, Exit, TypeOK
  <2> QED BY <1>18, <1>b, <2>1 DEF Shutdown, ClosePool, Exit, dbVars, RunningBy
<1>19. CASE UNCHANGED vars
  BY <1>19, <1>b DEF vars, dbVars, RunningBy
<1> QED
  BY <1>1, <1>2, <1>3, <1>4, <1>5, <1>6, <1>7, <1>8, <1>9, <1>10, <1>11, <1>12, <1>13,
     <1>14, <1>15, <1>16, <1>17, <1>18, <1>19
     DEF Next, Api, SchedulerStep, WorkerStep, WatchdogStep, Stopping, Faults

(* Clean drain: unless a COMMIT answer is lost, or an outcome or a startup *)
(* recovery cannot be written, a row runs on behalf of an instance that    *)
(* was not killed only while that instance holds the task.                 *)
THEOREM CleanDrain == Spec => []StopLeavesNothingRunning
<1>1. Init => StopLeavesNothingRunning
  BY DEF Init, InitDB, EmptyTable, StopLeavesNothingRunning, RunningBy
<1> QED BY <1>1, TypeCorrect, StopLeavesNothingRunningStep, PTL DEF Spec
=============================================================================
