--------------------------- MODULE JobQueueProofs ---------------------------
(***************************************************************************)
(* What the abstract queue promises to somebody who submits tasks, proved  *)
(* of JobQueue alone, and so of everything that implements it.  Module     *)
(* EngineQueueProofs carries it over to the engine.                        *)
(***************************************************************************)
EXTENDS JobQueue, TLAPS

(* Ids are given out once: whatever is there or held has one below next.   *)
QueueTypeOK ==
    /\ next \in Nat \ {0}
    /\ jobs \in [DOMAIN jobs -> Job]
    /\ DOMAIN jobs \cup leased \subseteq 1..(next - 1)

(* What an executor holds is not on offer and has not ended, unless it was *)
(* cancelled under its holder.                                             *)
LeasedIsTaken == \A t \in leased \cap DOMAIN jobs : jobs[t].state \in {"running", "cancelled"}

(* A job fails when its attempts are spent, not before and not after.      *)
FailedIsSpent ==
    \A t \in DOMAIN jobs :
      /\ jobs[t].attempts <= jobs[t].limit
      /\ jobs[t].state = "failed" => jobs[t].attempts = jobs[t].limit

QueueInv == QueueTypeOK /\ LeasedIsTaken /\ FailedIsSpent

(* What a step may do to a job that is there before and after it.          *)
JobMoves(t) ==
    LET old == jobs[t]
        new == jobs'[t]
    IN /\ new.limit = old.limit
       /\ old.state \in Ended /\ new.state # old.state => old.state = "cancelled" /\ t \in leased
       /\ \/ new.attempts = old.attempts
          \/ new.attempts = old.attempts + 1 /\ t \in leased \ leased' /\ new.state = "pending"

(* An id that is gone does not come back.                                  *)
JobsGoOn ==
    /\ \A t \in DOMAIN jobs \cap DOMAIN jobs' : JobMoves(t)
    /\ \A t \in DOMAIN jobs' \ DOMAIN jobs : next <= t

-----------------------------------------------------------------------------
(* UPDATE of a state. *)
LEMMA BecomesFacts ==
  ASSUME jobs \in [DOMAIN jobs -> Job], NEW ts, NEW s \in {"pending", "running"} \cup Ended,
         Becomes(ts, s)
  PROVE  /\ DOMAIN jobs' = DOMAIN jobs
         /\ jobs' \in [DOMAIN jobs -> Job]
         /\ \A t \in DOMAIN jobs : /\ jobs'[t].state = IF t \in ts THEN s ELSE jobs[t].state
                                   /\ jobs'[t].attempts = jobs[t].attempts
                                   /\ jobs'[t].limit = jobs[t].limit
<1>1. jobs' = [t \in DOMAIN jobs |-> IF t \in ts THEN [jobs[t] EXCEPT !.state = s] ELSE jobs[t]]
  BY DEF Becomes
<1>2. \A t \in DOMAIN jobs : /\ [jobs[t] EXCEPT !.state = s] \in Job
                             /\ [jobs[t] EXCEPT !.state = s].state = s
                             /\ [jobs[t] EXCEPT !.state = s].attempts = jobs[t].attempts
                             /\ [jobs[t] EXCEPT !.state = s].limit = jobs[t].limit
  BY DEF Job
<1> QED BY <1>1, <1>2

(* One report, cancel or lease: the job of id t moves to state s. *)
LEMMA StateStep ==
  ASSUME Limits \subseteq Nat, QueueInv, next' = next, NEW ts \in SUBSET DOMAIN jobs,
         NEW s \in {"pending", "running"} \cup Ended, Becomes(ts, s),
         s # "failed" \/ \A t \in ts : jobs[t].attempts = jobs[t].limit,
         leased' \subseteq 1..(next - 1),
         \A t \in leased' \cap DOMAIN jobs :
            IF t \in ts THEN s \in {"running", "cancelled"} ELSE t \in leased,
         \A t \in ts : jobs[t].state \in Ended => jobs[t].state = "cancelled" /\ t \in leased
  PROVE  QueueInv' /\ JobsGoOn
<1>1. /\ DOMAIN jobs' = DOMAIN jobs
      /\ jobs' \in [DOMAIN jobs -> Job]
      /\ \A t \in DOMAIN jobs : /\ jobs'[t].state = IF t \in ts THEN s ELSE jobs[t].state
                                /\ jobs'[t].attempts = jobs[t].attempts
                                /\ jobs'[t].limit = jobs[t].limit
  BY BecomesFacts DEF QueueInv, QueueTypeOK
<1>2. QueueTypeOK'
  BY <1>1 DEF QueueInv, QueueTypeOK
<1>3. LeasedIsTaken'
  BY <1>1 DEF QueueInv, LeasedIsTaken
<1>4. FailedIsSpent'
  BY <1>1 DEF QueueInv, FailedIsSpent
<1>5. JobsGoOn
  BY <1>1 DEF JobsGoOn, JobMoves
<1> QED BY <1>2, <1>3, <1>4, <1>5 DEF QueueInv

LEMMA EnqueueKeeps ==
  ASSUME Limits \subseteq Nat, QueueInv, Enqueue
  PROVE  QueueInv' /\ JobsGoOn
<1> USE DEF QueueInv, QueueTypeOK
<1>1. PICK limit \in [next..(next' - 1) -> Limits] :
         jobs' = [t \in DOMAIN jobs \cup DOMAIN limit |->
                    IF t \in DOMAIN jobs THEN jobs[t]
                    ELSE [state |-> "pending", attempts |-> 0, limit |-> limit[t]]]
  BY DEF Enqueue
<1>2. /\ DOMAIN jobs' = DOMAIN jobs \cup next..(next' - 1)
      /\ \A t \in DOMAIN jobs : jobs'[t] = jobs[t]
      /\ \A t \in DOMAIN jobs' \ DOMAIN jobs :
            /\ t \in next..(next' - 1)
            /\ jobs'[t] = [state |-> "pending", attempts |-> 0, limit |-> limit[t]]
            /\ limit[t] \in Limits
  BY <1>1
<1>3. next' \in Nat /\ next' > next /\ leased' = leased
  BY DEF Enqueue
<1>4. jobs' \in [DOMAIN jobs' -> Job]
  <2>1. \A t \in DOMAIN jobs : jobs'[t] \in Job
    BY <1>2
  <2>2. ASSUME NEW l \in Limits
        PROVE  [state |-> "pending", attempts |-> 0, limit |-> l] \in Job
    BY DEF Job
  <2>3. \A t \in DOMAIN jobs' \ DOMAIN jobs : jobs'[t] \in Job
    BY <1>2, <2>2
  <2> QED BY <1>1, <2>1, <2>3
<1>5. QueueTypeOK'
  BY <1>2, <1>3, <1>4
<1>6. LeasedIsTaken'
  BY <1>2, <1>3 DEF LeasedIsTaken
<1>7. FailedIsSpent'
  <2>1. \A t \in DOMAIN jobs' \ DOMAIN jobs :
          /\ jobs'[t].state = "pending"
          /\ jobs'[t].attempts = 0
          /\ jobs'[t].limit \in Nat
    <3> TAKE t \in DOMAIN jobs' \ DOMAIN jobs
    <3>1. /\ jobs'[t] = [state |-> "pending", attempts |-> 0, limit |-> limit[t]]
          /\ limit[t] \in Limits
      BY <1>2
    <3> QED BY <3>1
  <2>2. \A t \in DOMAIN jobs' \ DOMAIN jobs : jobs'[t].attempts <= jobs'[t].limit
    BY <2>1
  <2> QED BY <1>2, <2>1, <2>2 DEF FailedIsSpent
<1>8. JobsGoOn
  BY <1>2, <1>3 DEF JobsGoOn, JobMoves
<1> QED BY <1>5, <1>6, <1>7, <1>8

(* The holder gives its job back. *)
LEMMA GiveBackKeeps ==
  ASSUME Limits \subseteq Nat, QueueInv, NEW t, GiveBack(t)
  PROVE  QueueInv' /\ JobsGoOn
<1> USE DEF QueueInv, QueueTypeOK
<1>1. t \in leased /\ leased' = leased \ {t} /\ next' = next
  BY DEF GiveBack
<1>2. CASE t \in DOMAIN jobs /\ jobs[t].attempts < jobs[t].limit
  <2>1. jobs' = [jobs EXCEPT ![t] = [state |-> "pending", attempts |-> @.attempts + 1,
                                     limit |-> @.limit]]
    BY <1>2 DEF GiveBack
  <2>2. /\ DOMAIN jobs' = DOMAIN jobs
        /\ \A u \in DOMAIN jobs \ {t} : jobs'[u] = jobs[u]
        /\ jobs'[t] = [state |-> "pending", attempts |-> jobs[t].attempts + 1,
                       limit |-> jobs[t].limit]
    BY <1>2, <2>1
  <2>3. jobs[t].attempts \in Nat /\ jobs[t].limit \in Nat /\ jobs[t].limit \in Limits
    BY <1>2 DEF Job
  <2>4. jobs'[t] \in Job
    BY <2>2, <2>3 DEF Job
  <2>5. QueueTypeOK'
    BY <1>1, <2>1, <2>2, <2>4
  <2>6. LeasedIsTaken'
    BY <1>1, <2>2 DEF LeasedIsTaken
  <2>7. FailedIsSpent'
    BY <1>2, <2>2, <2>3 DEF FailedIsSpent
  <2>8. \A u \in DOMAIN jobs : JobMoves(u)
    <3>1. JobMoves(t)
      BY <1>1, <1>2, <2>2 DEF JobMoves, LeasedIsTaken, Ended
    <3>2. \A u \in DOMAIN jobs \ {t} : JobMoves(u)
      BY <2>2 DEF JobMoves
    <3> QED BY <3>1, <3>2
  <2> QED BY <2>2, <2>5, <2>6, <2>7, <2>8 DEF JobsGoOn
<1>3. CASE t \in DOMAIN jobs /\ ~(jobs[t].attempts < jobs[t].limit)
  <2>1. Becomes({t}, "failed")
    BY <1>3 DEF GiveBack
  <2>2. jobs[t].attempts = jobs[t].limit
    BY <1>3 DEF FailedIsSpent, Job
  <2>3. jobs[t].state \in Ended => jobs[t].state = "cancelled"
    BY <1>1, <1>3 DEF LeasedIsTaken, Ended
  <2> QED BY <1>1, <1>3, <2>1, <2>2, <2>3, StateStep DEF Ended
<1>4. CASE t \notin DOMAIN jobs
  <2>1. jobs' = jobs
    BY <1>4 DEF GiveBack
  <2> QED BY <1>1, <2>1 DEF LeasedIsTaken, FailedIsSpent, JobsGoOn, JobMoves
<1> QED BY <1>2, <1>3, <1>4

(* Every step of the queue. *)
LEMMA QueueInvStep ==
  ASSUME Limits \subseteq Nat, QueueInv, [QueueNext]_queueVars
  PROVE  QueueInv' /\ JobsGoOn
<1> USE DEF QueueInv, QueueTypeOK
<1>1. CASE Enqueue
  BY <1>1, EnqueueKeeps
<1>2. CASE LoseLeases
  BY <1>2 DEF LoseLeases, LeasedIsTaken, FailedIsSpent, JobsGoOn, JobMoves
<1>3. CASE Recover
  <2>1. PICK ts \in SUBSET {t \in DOMAIN jobs \ leased : jobs[t].state = "running"} :
           Becomes(ts, "pending")
    BY <1>3 DEF Recover
  <2>2. next' = next /\ leased' = leased
    BY <1>3 DEF Recover
  <2> QED BY <2>1, <2>2, StateStep DEF Ended
<1>4. CASE DeleteAll
  BY <1>4 DEF DeleteAll, LeasedIsTaken, FailedIsSpent, JobsGoOn
<1>5. ASSUME NEW t, Lease(t) \/ LeaseUnseen(t) PROVE QueueInv' /\ JobsGoOn
  <2>1. /\ t \in DOMAIN jobs /\ jobs[t].state = "pending" /\ t \notin leased
        /\ Becomes({t}, "running")
        /\ leased' \in {leased, leased \cup {t}} /\ next' = next
    BY <1>5 DEF Lease, LeaseUnseen
  <2> QED BY <2>1, StateStep DEF Ended
<1>6. ASSUME NEW t, Succeed(t) PROVE QueueInv' /\ JobsGoOn
  <2>1. /\ t \in leased /\ leased' = leased \ {t} /\ next' = next
        /\ Becomes({t}, "completed")
    BY <1>6 DEF Succeed
  <2>2. CASE t \in DOMAIN jobs
    BY <2>1, <2>2, StateStep DEF Ended, LeasedIsTaken
  <2>3. CASE t \notin DOMAIN jobs
    <3>1. Becomes({}, "completed")
      BY <2>1, <2>3 DEF Becomes
    <3> QED BY <2>1, <2>3, <3>1, StateStep DEF Ended
  <2> QED BY <2>2, <2>3
<1>7. ASSUME NEW t, GiveBack(t) PROVE QueueInv' /\ JobsGoOn
  BY <1>7, GiveBackKeeps
<1>8. ASSUME NEW t, Withdraw(t) PROVE QueueInv' /\ JobsGoOn
  <2>1. /\ t \in DOMAIN jobs /\ jobs[t].state \notin Ended
        /\ Becomes({t}, "cancelled") /\ leased' = leased /\ next' = next
    BY <1>8 DEF Withdraw
  <2> QED BY <2>1, StateStep DEF Ended
<1>9. ASSUME NEW t, GiveUp(t) PROVE QueueInv' /\ JobsGoOn
  <2>1. /\ jobs' = [u \in DOMAIN jobs \ {t} |-> jobs[u]]
        /\ leased' = leased \ {t} /\ next' = next
    BY <1>9 DEF GiveUp
  <2> QED BY <2>1 DEF LeasedIsTaken, FailedIsSpent, JobsGoOn, JobMoves
<1>10. CASE UNCHANGED queueVars
  BY <1>10 DEF queueVars, LeasedIsTaken, FailedIsSpent, JobsGoOn, JobMoves
<1> QED
  BY <1>1, <1>2, <1>3, <1>4, <1>5, <1>6, <1>7, <1>8, <1>9, <1>10 DEF QueueNext

LEMMA QueueInvInit == QueueInit => QueueInv
BY DEF QueueInit, QueueInv, QueueTypeOK, LeasedIsTaken, FailedIsSpent

(* A job is leased to one executor at a time: while somebody has it, it is *)
(* not on offer; and it fails exactly when its attempts are spent, however *)
(* many leases were lost on the way.                                       *)
THEOREM QueueIsSafe ==
  ASSUME Limits \subseteq Nat
  PROVE  QueueSpec => [](LeasedIsTaken /\ FailedIsSpent)
<1>1. QueueInv /\ [QueueNext]_queueVars => QueueInv'
  BY QueueInvStep
<1>2. QueueInv => LeasedIsTaken /\ FailedIsSpent
  BY DEF QueueInv
<1> QED BY <1>1, <1>2, QueueInvInit, PTL DEF QueueSpec

(* A job that has ended stays as it is unless it was cancelled under its   *)
(* holder, an attempt is only counted when a holder gives the job back,    *)
(* and a job that was deleted or given up never returns.                   *)
THEOREM QueueGoesOn ==
  ASSUME Limits \subseteq Nat
  PROVE  QueueSpec => [][JobsGoOn]_queueVars
<1>1. QueueInv /\ [QueueNext]_queueVars => QueueInv'
  BY QueueInvStep
<1>2. QueueInv /\ [QueueNext]_queueVars => [JobsGoOn]_queueVars
  BY QueueInvStep
<1> QED BY <1>1, <1>2, QueueInvInit, PTL DEF QueueSpec
=============================================================================
