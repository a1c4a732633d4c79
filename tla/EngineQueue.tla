----------------------------- MODULE EngineQueue -----------------------------
(***************************************************************************)
(* The engine implements the abstract queue of module JobQueue.            *)
(***************************************************************************)
EXTENDS Engine

(* The jobs about which something is promised: no watchdog has failed them. *)
PromisedJobs ==
    [t \in DOMAIN tasks \ reclaimed |->
       [state    |-> tasks[t].status,
        attempts |-> tasks[t].retry_count,
        limit    |-> tasks[t].max_retries]]

(* A lease is a place in an instance's memory: a pass that has committed,  *)
(* a channel, a worker.                                                    *)
Leases == {t \in TaskId \ reclaimed : \E i \in Instances : Holds(i, t)}

Queue == INSTANCE JobQueue WITH
            JobId  <- TaskId,
            Limits <- RowLimits,
            jobs   <- PromisedJobs,
            leased <- Leases,
            next   <- nextId

(* "no two workers (or backend instances) ever grab the same task"         *)
(* (DequeueTaskForClient), made precise for the whole engine: claims,      *)
(* channels, workers, stale copies, unconditional UPDATEs, kills, restarts *)
(* and database faults together do to a task nothing but what JobQueue     *)
(* allows.  A task that somebody holds is never claimed again, requeued by *)
(* a startup or written back by another; a report counts one attempt of    *)
(* the row's own budget; an ended task stays as it is unless it was        *)
(* cancelled under its holder.                                             *)
ImplementsJobQueue == Queue!QueueSpec
=============================================================================
