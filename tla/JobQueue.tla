------------------------------ MODULE JobQueue ------------------------------
(***************************************************************************)
(* What the engine promises to somebody who submits tasks, with nothing    *)
(* said of instances, schedulers, channels, workers or SQL: a job waits,   *)
(* is leased to one executor at a time, and ends in what the executor      *)
(* reports, or goes back to wait while it has attempts left.  Module       *)
(* EngineQueue shows that module Engine implements this.                   *)
(*                                                                         *)
(* A lease is held in some process's memory, so it can be lost without a   *)
(* word and its job is then stranded in "running" until the owner recovers *)
(* it or the queue gives it up.  A job that has been given up (to a        *)
(* watchdog that fails it in its executor's place) is one about which      *)
(* nothing is promised any more: it is no longer part of this state.       *)
(***************************************************************************)
EXTENDS Naturals

CONSTANTS
    JobId,   \* 1..n for some n: the ids, given out in order
    Limits   \* the numbers of retries a job may have

VARIABLES
    jobs,     \* id -> job, for the jobs about which something is promised
    leased,   \* the ids some executor holds, of jobs or of deleted ones
    next      \* the next id

queueVars == <<jobs, leased, next>>

Ended == {"completed", "failed", "cancelled"}

Job == [state : {"pending", "running"} \cup Ended, attempts : Nat, limit : Limits]

QueueInit ==
    /\ jobs = [t \in {} |-> "none"]
    /\ leased = {}
    /\ next = 1

Becomes(ts, s) ==
    jobs' = [t \in DOMAIN jobs |-> IF t \in ts THEN [jobs[t] EXCEPT !.state = s] ELSE jobs[t]]

(* One or more new jobs. *)
Enqueue ==
    /\ next' \in Nat /\ next' > next
    /\ \E limit \in [next..(next' - 1) -> Limits] :
         jobs' = [t \in DOMAIN jobs \cup DOMAIN limit |->
                    IF t \in DOMAIN jobs THEN jobs[t]
                    ELSE [state |-> "pending", attempts |-> 0, limit |-> limit[t]]]
    /\ UNCHANGED leased

(* A waiting job that nobody holds is leased. *)
Lease(t) ==
    /\ t \in DOMAIN jobs /\ jobs[t].state = "pending"
    /\ t \notin leased
    /\ Becomes({t}, "running")
    /\ leased' = leased \cup {t}
    /\ UNCHANGED next

(* The same, but the executor never learns of it. *)
LeaseUnseen(t) ==
    /\ t \in DOMAIN jobs /\ jobs[t].state = "pending"
    /\ t \notin leased
    /\ Becomes({t}, "running")
    /\ UNCHANGED <<leased, next>>

(* The holder reports success.  Its report counts even if the job has been *)
(* cancelled under it; a deleted job stays deleted.                        *)
Succeed(t) ==
    /\ t \in leased
    /\ leased' = leased \ {t}
    /\ Becomes({t}, "completed")
    /\ UNCHANGED next

(* The holder reports a failure: another attempt, or the end.              *)
GiveBack(t) ==
    /\ t \in leased
    /\ leased' = leased \ {t}
    /\ IF t \in DOMAIN jobs
         THEN IF jobs[t].attempts < jobs[t].limit
                THEN jobs' = [jobs EXCEPT ![t] = [state    |-> "pending",
                                                  attempts |-> @.attempts + 1,
                                                  limit    |-> @.limit]]
                ELSE Becomes({t}, "failed")
         ELSE UNCHANGED jobs
    /\ UNCHANGED next

(* A client cancels a job that has not ended.  Its holder, if it has one,  *)
(* is not told.                                                            *)
Withdraw(t) ==
    /\ t \in DOMAIN jobs /\ jobs[t].state \notin Ended
    /\ Becomes({t}, "cancelled")
    /\ UNCHANGED <<leased, next>>

(* Executors die, or fail to report. *)
LoseLeases ==
    /\ leased' \subseteq leased
    /\ UNCHANGED <<jobs, next>>

(* Stranded jobs wait again; a failure that was never reported is none. *)
Recover ==
    /\ \E ts \in SUBSET {t \in DOMAIN jobs \ leased : jobs[t].state = "running"} :
         Becomes(ts, "pending")
    /\ UNCHANGED <<leased, next>>

(* A job is given up. *)
GiveUp(t) ==
    /\ jobs' = [u \in DOMAIN jobs \ {t} |-> jobs[u]]
    /\ leased' = leased \ {t}
    /\ UNCHANGED next

(* Everything is deleted; executors keep what they hold. *)
DeleteAll ==
    /\ jobs' = [t \in {} |-> "none"]
    /\ UNCHANGED <<leased, next>>

QueueNext ==
    \/ Enqueue
    \/ LoseLeases
    \/ Recover
    \/ DeleteAll
    \/ \E t \in JobId :
         \/ Lease(t) \/ LeaseUnseen(t)
         \/ Succeed(t) \/ GiveBack(t)
         \/ Withdraw(t) \/ GiveUp(t)

QueueSpec == QueueInit /\ [][QueueNext]_queueVars
=============================================================================
