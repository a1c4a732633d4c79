----------------------------- MODULE TaskService -----------------------------
(***************************************************************************)
(* The database as a queue: the tables `tasks` and `dead_letter_queue` and *)
(* the statements that backend/services/task_service.go runs on them.      *)
(*                                                                         *)
(* A table is a function from the ids of its rows to rows, so an UPDATE    *)
(* whose WHERE matches no row changes nothing, as in the code, which never *)
(* looks at RowsAffected except in CancelTask.  Each operator below is one *)
(* SQL statement or one SQL transaction; module Engine says which process  *)
(* runs it and when.                                                       *)
(*                                                                         *)
(* Abstractions.  Columns that no statement reads back (type, payload,     *)
(* error_message) are left out.  completed_at is NULL or "set".            *)
(* started_at is NULL, "fresh", or "stale": older than now - timeout, the  *)
(* only comparison ever made with it.                                      *)
(*                                                                         *)
(* created_at is what the clock of some backend says, read once for a bulk *)
(* insert and not tied to the order of the ids or to created_at of earlier *)
(* rows.  A row gets its id and becomes visible in one step; in MySQL the  *)
(* id is drawn at the INSERT and the row is visible from the COMMIT on.    *)
(***************************************************************************)
EXTENDS Integers, Sequences

CONSTANTS
    MaxTasks,     \* bound: rows ever inserted (AUTO_INCREMENT never reuses an id)
    Instances,    \* the INSTANCE_IDs, one backend process each
    Clients,      \* the client_ids behind the API keys
    CreatedAt,    \* the readings of the backends' clocks, in milliseconds
    Priorities,   \* the priorities a submission may carry (1..5 in the code)
    RetryLimits   \* the max_retries a submission may carry (3 when it has none)

ASSUME TaskServiceAssumption ==
    /\ MaxTasks \in Nat
    /\ CreatedAt \subseteq Nat
    /\ Priorities \subseteq Nat
    /\ RetryLimits \subseteq Nat
    /\ "null" \notin Instances

VARIABLES
    tasks,    \* the table tasks: id -> row
    dlq,      \* id -> number of dead_letter_queue rows with that original_task_id
    nextId    \* the AUTO_INCREMENT counter of tasks

dbVars == <<tasks, dlq, nextId>>

TaskId == 1..MaxTasks
Null == "null"

Terminal == {"completed", "failed", "cancelled"}
Status == {"pending", "running"} \cup Terminal

(* `gorm:"default:3"` on max_retries: GORM takes a 0 for "not given" and   *)
(* leaves the column to its default.                                       *)
Defaulted(n) == IF n = 0 THEN 3 ELSE n

RowLimits == {Defaulted(n) : n \in RetryLimits}

(* models.Task, the row. *)
Row == [client_id    : Clients,
        priority     : Priorities,
        created_at   : CreatedAt,
        status       : Status,
        retry_count  : Nat,
        max_retries  : RowLimits,
        processed_by : Instances \cup {Null},
        started_at   : {Null, "fresh", "stale"},
        completed_at : {Null, "set"}]

(* models.Task, the struct a goroutine holds after a SELECT: a copy of the *)
(* row that nothing keeps up to date.                                      *)
Snapshot == [id : TaskId, retry_count : Nat, max_retries : RowLimits]

SnapshotOf(t) == [id          |-> t,
                  retry_count |-> tasks[t].retry_count,
                  max_retries |-> tasks[t].max_retries]

(* services.CreateTaskInput, with the client of the API key. *)
Input == [client_id : Clients, priority : Priorities, max_retries : RetryLimits]

EmptyTable == [t \in {} |-> Null]

InitDB ==
    /\ tasks = EmptyTable
    /\ dlq = [t \in TaskId |-> 0]
    /\ nextId = 1

-----------------------------------------------------------------------------
(* Updates(map[string]any{...}): UPDATE tasks SET cols WHERE id IN ids.    *)
(* cols is the map, from some of the column names to their new values.     *)
Updates(ids, cols) ==
    tasks' = [t \in DOMAIN tasks |->
                IF t \in ids
                  THEN [c \in DOMAIN tasks[t] |->
                          IF c \in DOMAIN cols THEN cols[c] ELSE tasks[t][c]]
                  ELSE tasks[t]]

NewRow(in, now) == [client_id    |-> in.client_id,
                    priority     |-> in.priority,
                    created_at   |-> now,
                    status       |-> "pending",
                    retry_count  |-> 0,
                    max_retries  |-> Defaulted(in.max_retries),
                    processed_by |-> Null,
                    started_at   |-> Null,
                    completed_at |-> Null]

(* db.Create(&tasks): one bulk insert of the rows described by ins, with   *)
(* one reading of the clock for all (autoCreateTime).                      *)
Insert(ins) ==
    /\ nextId + Len(ins) - 1 <= MaxTasks
    /\ \E now \in CreatedAt :
         tasks' = [t \in DOMAIN tasks \cup (nextId .. nextId + Len(ins) - 1) |->
                     IF t \in DOMAIN tasks THEN tasks[t]
                     ELSE NewRow(ins[t - nextId + 1], now)]
    /\ nextId' = nextId + Len(ins)
    /\ UNCHANGED dlq

CreateTask(in) == Insert(<<in>>)

(* The rows of a batch all belong to the caller. *)
BatchCreateTasks(ins) ==
    /\ \A k \in 1..Len(ins) : ins[k].client_id = ins[1].client_id
    /\ Insert(ins)

(* Random clients and priorities, one max_retries for all. *)
AddDemoTasks(ins) ==
    /\ \A k \in 1..Len(ins) : ins[k].max_retries = ins[1].max_retries
    /\ Insert(ins)

-----------------------------------------------------------------------------
(* SELECT ... WHERE status = 'pending' AND client_id = c                   *)
(* ORDER BY priority DESC, created_at ASC LIMIT 1 FOR UPDATE SKIP LOCKED:  *)
(* the rows MySQL may return, given the row ids that are locked.  Rows     *)
(* that tie on both columns come in any order.                             *)
Pending(c) ==
    {t \in DOMAIN tasks : tasks[t].status = "pending" /\ tasks[t].client_id = c}

NotAfter(a, b) ==
    \/ a.priority > b.priority
    \/ a.priority = b.priority /\ a.created_at <= b.created_at

\* mutant: a plain SELECT, without FOR UPDATE SKIP LOCKED
NextPendingIgnoringLocks(c, locked) ==
    {t \in Pending(c) : \A u \in Pending(c) : NotAfter(tasks[t], tasks[u])}

NextPending(c, locked) ==
    {t \in Pending(c) \ locked :
        \A u \in Pending(c) \ locked : NotAfter(tasks[t], tasks[u])}

(* The UPDATE and COMMIT of the same transaction. *)
Claim(id, instanceID) ==
    /\ Updates({id}, [status       |-> "running",
                      processed_by |-> instanceID])
    /\ UNCHANGED <<dlq, nextId>>

-----------------------------------------------------------------------------
OrphansOf(instanceID) ==
    {t \in DOMAIN tasks : /\ tasks[t].status = "running"
                          /\ tasks[t].processed_by = instanceID}

\* mutant: startup recovery that is not scoped to the instance's own rows
RequeueEveryRunningTask(instanceID) ==
    /\ Updates({t \in DOMAIN tasks : tasks[t].status = "running"},
               [status       |-> "pending",
                started_at   |-> Null,
                processed_by |-> Null])
    /\ UNCHANGED <<dlq, nextId>>

\* mutant: the WHERE of startup recovery forgets status = 'running'
RequeueEveryTaskOf(instanceID) ==
    /\ Updates({t \in DOMAIN tasks : tasks[t].processed_by = instanceID},
               [status       |-> "pending",
                started_at   |-> Null,
                processed_by |-> Null])
    /\ UNCHANGED <<dlq, nextId>>

\* mutant: startup recovery gives the orphans a fresh budget of retries
RequeueAsNew(instanceID) ==
    /\ Updates(OrphansOf(instanceID),
               [status       |-> "pending",
                retry_count  |-> 0,
                started_at   |-> Null,
                processed_by |-> Null])
    /\ UNCHANGED <<dlq, nextId>>

RequeueOrphanedTasks(instanceID) ==
    /\ Updates(OrphansOf(instanceID),
               [status       |-> "pending",
                started_at   |-> Null,
                processed_by |-> Null])
    /\ UNCHANGED <<dlq, nextId>>

(* WHERE status = 'running' AND started_at < cutoff.  A NULL started_at    *)
(* satisfies no comparison.                                                *)
FindStaleRunningTasks ==
    {SnapshotOf(t) : t \in {u \in DOMAIN tasks : /\ tasks[u].status = "running"
                                                 /\ tasks[u].started_at = "stale"}}

MarkStarted(id) ==
    /\ Updates({id}, [started_at |-> "fresh"])
    /\ UNCHANGED <<dlq, nextId>>

CompleteTask(id) ==
    /\ Updates({id}, [status       |-> "completed",
                      completed_at |-> "set"])
    /\ UNCHANGED <<dlq, nextId>>

\* mutant: the copy is made but the row is not retired
deadLetterCopyOnly(s) ==
    /\ dlq' = [dlq EXCEPT ![s.id] = @ + 1]
    /\ UNCHANGED <<tasks, nextId>>

(* One transaction: the row becomes "failed" and a copy goes to the DLQ.   *)
deadLetter(s) ==
    /\ Updates({s.id}, [status       |-> "failed",
                        completed_at |-> "set"])
    /\ dlq' = [dlq EXCEPT ![s.id] = @ + 1]
    /\ UNCHANGED nextId

retry(s) ==
    /\ s.retry_count < s.max_retries
    /\ Updates({s.id}, [status       |-> "pending",
                        retry_count  |-> s.retry_count + 1,
                        started_at   |-> Null,
                        completed_at |-> Null])
    /\ UNCHANGED <<dlq, nextId>>

\* mutant: off by one, the last retry is given out although the budget is spent
FailTaskOneRetryTooMany(s) ==
    \/ /\ s.retry_count <= s.max_retries
       /\ Updates({s.id}, [status       |-> "pending",
                           retry_count  |-> s.retry_count + 1,
                           started_at   |-> Null,
                           completed_at |-> Null])
       /\ UNCHANGED <<dlq, nextId>>
    \/ /\ s.retry_count > s.max_retries
       /\ deadLetter(s)

\* mutant: the retry does not clear started_at and completed_at
FailTaskKeepTimes(s) ==
    \/ /\ s.retry_count < s.max_retries
       /\ Updates({s.id}, [status      |-> "pending",
                           retry_count |-> s.retry_count + 1])
       /\ UNCHANGED <<dlq, nextId>>
    \/ /\ s.retry_count >= s.max_retries
       /\ deadLetter(s)

(* The fork is decided on the caller's snapshot, and the UPDATE has no     *)
(* condition but the id.                                                   *)
FailTask(s) ==
    \/ retry(s)
    \/ /\ s.retry_count >= s.max_retries
       /\ deadLetter(s)

(* The guarded UPDATE; a rejected cancel (404 or 409) changes nothing. *)
CancelTask(clientID, id) ==
    /\ id \in DOMAIN tasks
    /\ tasks[id].client_id = clientID
    /\ tasks[id].status \in {"pending", "running"}
    /\ Updates({id}, [status       |-> "cancelled",
                      completed_at |-> "set"])
    /\ UNCHANGED <<dlq, nextId>>

(* One transaction that deletes every row of both tables. *)
ClearAllData ==
    /\ tasks' = EmptyTable
    /\ dlq' = [t \in TaskId |-> 0]
    /\ UNCHANGED nextId

-----------------------------------------------------------------------------
(* The tables hold rows of the declared shape. *)
DBTypeOK ==
    /\ DOMAIN tasks \subseteq TaskId
    /\ tasks \in [DOMAIN tasks -> Row]
    /\ dlq \in [TaskId -> Nat]
    /\ nextId \in 1..(MaxTasks + 1)
    /\ \A t \in DOMAIN tasks : t < nextId
=============================================================================
