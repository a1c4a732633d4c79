----------------------------- MODULE RateLimiter -----------------------------
(***************************************************************************)
(* The sliding window log of backend/ratelimit/ratelimit.go, with the      *)
(* decision that task_controller.go takes on its answer.  Keys of          *)
(* different clients never meet, so this is the key of one client.         *)
(*                                                                         *)
(* A request is decided in two steps: an instance reads its own clock and  *)
(* sends the script, and Redis runs it some time later.  The clocks of the *)
(* instances differ, the answer may be lost after the script has run, and  *)
(* go-redis may then send the same command again, more than once, or give  *)
(* up.                                                                     *)
(*                                                                         *)
(* Time is counted in ticks of Redis' clock.  The members of the sorted    *)
(* set are pairs <<request, k>>; the score of a member is the time its     *)
(* request read, so the log is a set of members.                           *)
(***************************************************************************)
EXTENDS Integers, FiniteSets

CONSTANTS
    RATE_LIMIT_MAX,  \* as configured
    Window,          \* RATE_LIMIT_WINDOW_SECONDS, in ticks
    Instances,       \* the backend instances
    Skew,            \* instance -> how far its clock is ahead of Redis'
    MaxSkew,         \* the largest of them
    MaxDelay,        \* bound: ticks between reading the clock and the answer
    Requests,        \* the submissions of the client
    MaxBatch,        \* bound: tasks in a submission (200 in the code)
    MaxTime          \* bound: ticks in a behaviour

ASSUME RateLimiterAssumption ==
    /\ RATE_LIMIT_MAX \in Int
    /\ Window \in Nat
    /\ MaxSkew \in Nat
    /\ Skew \in [Instances -> 0..MaxSkew]
    /\ MaxDelay \in Nat
    /\ IsFiniteSet(Requests)
    /\ MaxBatch \in Nat
    /\ MaxTime \in Nat

VARIABLES
    clock,    \* Redis' clock
    req,      \* request -> its progress
    log,      \* the sorted set ratelimit:<client_id>
    expires,  \* when PEXPIRE removes the key
    lost      \* history: the requests an answer to which was lost

vars == <<clock, req, log, expires, lost>>

(* NewLimiter clamps the limit. *)
max == IF RATE_LIMIT_MAX < 1 THEN 1 ELSE RATE_LIMIT_MAX

(* "sent": the clock is read; "lost": the script ran, its answer did not   *)
(* arrive; "open": admitted because of an error.                           *)
Phase == {"new", "sent", "lost", "allowed", "denied", "open"}

(* now: the time read; n: the tasks in the request; by: the instance; at:  *)
(* Redis' time of the decision.                                            *)
NewRequest == [pc |-> "new", now |-> 0, n |-> 0, by |-> "none", at |-> 0]

Members(r) == {r} \X (1..req[r].n)

Init ==
    /\ clock = 0
    /\ req = [r \in Requests |-> NewRequest]
    /\ log = {}
    /\ expires = 0
    /\ lost = {}

-----------------------------------------------------------------------------
(* AllowN: read the clock, send the script. *)
Send(r) ==
    /\ req[r].pc = "new"
    /\ \E i \in Instances, n \in 1..MaxBatch :
         req' = [req EXCEPT ![r] = [pc |-> "sent", now |-> clock + Skew[i], n |-> n,
                                    by |-> i, at |-> 0]]
    /\ UNCHANGED <<clock, log, expires, lost>>

(* An expired key is an empty set. *)
Stored == IF clock < expires THEN log ELSE {}

\* mutant: the window is a fixed bucket, reset at its boundaries
PrunedToBucket(now) == {m \in Stored : req[m[1]].now \div Window = now \div Window}

(* ZREMRANGEBYSCORE key 0 now-window, then ZCARD. *)
Pruned(now) == {m \in Stored : req[m[1]].now > now - Window}

\* mutant: the check of a single request used for a batch
FitsOne(r) == Cardinality(Pruned(req[r].now)) < max

Fits(r) == Cardinality(Pruned(req[r].now)) + req[r].n <= max

\* mutant: the request is recorded whether it fits or not
allowNScriptChargesAll(r) ==
    /\ log' = Pruned(req[r].now) \cup Members(r)
    /\ expires' = clock + Window

(* What a run of allowNScript for request r does to the key. *)
allowNScript(r) ==
    \/ /\ Fits(r)
       /\ log' = Pruned(req[r].now) \cup Members(r)
       /\ expires' = clock + Window
    \/ /\ ~Fits(r)
       /\ log' = Pruned(req[r].now)
       /\ UNCHANGED expires

(* The script runs and its answer arrives: the controller goes on with the *)
(* submission or answers 429.                                              *)
Run(r) ==
    /\ req[r].pc \in {"sent", "lost"}
    /\ allowNScript(r)
    /\ req' = [req EXCEPT ![r].pc = IF Fits(r) THEN "allowed" ELSE "denied",
                          ![r].at = clock]
    /\ UNCHANGED <<clock, lost>>

(* The script runs and its answer is lost; go-redis may send it again, and *)
(* any number of times while the request may wait.                         *)
RunUnanswered(r) ==
    /\ req[r].pc \in {"sent", "lost"}
    /\ allowNScript(r)
    /\ req' = [req EXCEPT ![r].pc = "lost"]
    /\ lost' = lost \cup {r}
    /\ UNCHANGED clock

(* AllowN returns an error: rateLimited fails open. *)
FailOpen(r) ==
    /\ req[r].pc \in {"sent", "lost"}
    /\ req' = [req EXCEPT ![r].pc = "open", ![r].at = clock]
    /\ UNCHANGED <<clock, log, expires, lost>>

(* Time passes, but no request waits longer than MaxDelay. *)
Tick ==
    /\ clock < MaxTime
    /\ \A r \in Requests : req[r].pc \in {"sent", "lost"} =>
          clock - (req[r].now - Skew[req[r].by]) < MaxDelay
    /\ clock' = clock + 1
    /\ UNCHANGED <<req, log, expires, lost>>

Next == Tick \/ \E r \in Requests : Send(r) \/ Run(r) \/ RunUnanswered(r) \/ FailOpen(r)

Spec == Init /\ [][Next]_vars

-----------------------------------------------------------------------------
(* Every variable has its type. *)
TypeOK ==
    /\ clock \in 0..MaxTime
    /\ req \in [Requests -> [pc : Phase, now : Nat, n : 0..MaxBatch,
                             by : Instances \cup {"none"}, at : 0..MaxTime]]
    /\ log \subseteq Requests \X (1..MaxBatch)
    /\ expires \in Nat
    /\ lost \subseteq Requests

(* How far two scores can be from the times their scripts ran, together. *)
Spread == MaxSkew + MaxDelay

AdmittedBetween(from, to, how) ==
    UNION {Members(r) : r \in {q \in Requests : /\ req[q].pc \in how
                                                /\ from < req[q].at
                                                /\ req[q].at <= to}}

(* The tasks of the requests that read a time after from and to which an   *)
(* answer was lost.                                                        *)
LostSince(from) == UNION {Members(r) : r \in {q \in lost : from < req[q].now}}

(* ratelimit.go: "Each client gets at most max requests per window", in    *)
(* tasks, whatever window of time one looks at and whichever instances     *)
(* were asked: the window that is really enforced is shorter by the        *)
(* difference of the clocks and by the time a request may be under way.    *)
(* Requests that met an error are not counted.                             *)
SlidingWindow ==
    \A t \in 0..clock :
      Cardinality(AdmittedBetween(t - (Window - Spread), t, {"allowed"})) <= max

(* A denial is deserved (-1 of allowNScript): with the tasks that were     *)
(* admitted in the last window, lengthened by the same difference, the     *)
(* request is over the limit.  A request of that window whose answer was   *)
(* lost may have been charged whatever the client was told, and may meet   *)
(* its own charge when it is sent again.  A batch that is larger than the  *)
(* limit is over it by itself.                                             *)
DenialIsDeserved ==
    \A r \in Requests \ lost :
      req[r].pc = "denied" =>
        Cardinality(AdmittedBetween(req[r].at - (Window + Spread), req[r].at, {"allowed"})
                    \cup LostSince(req[r].at - (Window + Spread))) + req[r].n > max

(* The sorted set never holds more than max members, also when a script    *)
(* that has already run is sent again.                                     *)
LogIsBounded == Cardinality(log) <= max

-----------------------------------------------------------------------------
(* docs/01-ARCHITECTURE.md: "if Redis dies, it degrades to per-instance    *)
(* limiting".                                                              *)
PerInstanceLimit ==
    \A i \in Instances : \A t \in 0..clock :
      Cardinality({m \in AdmittedBetween(t - (Window - Spread), t, {"allowed", "open"}) :
                     req[m[1]].by = i}) <= max
=============================================================================
