------------------------------ MODULE Scheduler ------------------------------
(***************************************************************************)
(* The fair scheduler of one instance (backend/scheduler/scheduler.go):    *)
(* the ticker loop, the passes it starts in goroutines of their own, the   *)
(* isScheduling guard, the deficits, and Stop with its WaitGroup.          *)
(*                                                                         *)
(* Module Engine has one pass per instance and leaves open which client it *)
(* serves; this module is about exactly these two points and counts the    *)
(* pending tasks of each client instead of keeping their rows.  A client   *)
(* is a number, its place in the order of sort.Strings.                    *)
(*                                                                         *)
(* Environment.  Clients submit and cancel; the watchdogs and the workers  *)
(* put tasks back; peers claim tasks, and while the transaction of a peer  *)
(* is open its row is still pending but skipped by SKIP LOCKED.  The pool  *)
(* is the number of tasks it can still take before Submit blocks.          *)
(***************************************************************************)
EXTENDS Integers, FiniteSets

CONSTANTS
    NumClients,   \* clients that have an API key
    QUANTUM,      \* SCHEDULER_QUANTUM as configured
    NumPeers,     \* other instances, each with at most one claim transaction open
    Passes,       \* bound: goroutines started by ticks that are alive together
    Capacity,     \* tasks the workers and their channel hold
    MaxPending,   \* bound: pending tasks of one client at a time
    MaxFaults     \* bound: statements that fail in a behaviour

ASSUME SchedulerAssumption ==
    /\ NumClients \in Nat
    /\ QUANTUM \in Int
    /\ NumPeers \in Nat
    /\ IsFiniteSet(Passes)
    /\ Capacity \in Nat \ {0}
    /\ MaxPending \in Nat
    /\ MaxFaults \in Nat

VARIABLES
    pending,       \* client -> rows with status = 'pending'
    locked,        \* client -> those under the open transaction of a peer
    room,          \* tasks the pool can take without blocking
    loop,          \* the goroutine of loop(): "ticking", "late" or "ended"
    pass,          \* goroutine -> where its scheduleOnce is
    isScheduling,  \* Scheduler.isScheduling
    deficits,      \* Scheduler.deficits; a client not in the map reads as 0
    wg,            \* Scheduler.wg
    stop,          \* Scheduler.Stop: "no", "waiting" (cancelled), "returned"
    faults,        \* statements that have failed so far
    overtaken      \* history: client -> client -> claims of the second since
                   \* the first was served or last had nothing to claim

queueVars == <<pending, locked>>
vars == <<queueVars, room, loop, pass, isScheduling, deficits, wg, stop, faults, overtaken>>

Clients == 1..NumClients

(* NewScheduler clamps the quantum. *)
quantum == IF QUANTUM < 1 THEN 1 ELSE QUANTUM

(* todo: the clients of this pass whose turn has not ended; the least of   *)
(* them has its turn.                                                      *)
NoPass == [pc |-> "none", todo |-> {}]
InRound == {"list", "serve", "submit"}

Current(todo) == CHOOSE c \in todo : \A d \in todo : c <= d

Free(c) == pending[c] - locked[c]

cancelled == stop # "no"

Init ==
    /\ pending = [c \in Clients |-> 0]
    /\ locked = [c \in Clients |-> 0]
    /\ room = Capacity
    /\ loop = "ticking"
    /\ pass = [g \in Passes |-> NoPass]
    /\ isScheduling = FALSE
    /\ deficits = [c \in Clients |-> 0]
    /\ wg = 1
    /\ stop = "no"
    /\ faults = 0
    /\ overtaken = [c \in Clients |-> [d \in Clients |-> 0]]

-----------------------------------------------------------------------------
(* The environment. *)

(* A client that has nothing to claim is not overtaken. *)
ForgetIdle == overtaken' = [c \in Clients |-> IF pending'[c] = locked'[c]
                                                THEN [d \in Clients |-> 0]
                                                ELSE overtaken[c]]

(* A submission, a retry or a requeue. *)
Arrive(c) ==
    /\ pending[c] < MaxPending
    /\ pending' = [pending EXCEPT ![c] = @ + 1]
    /\ UNCHANGED <<locked, room, loop, pass, isScheduling, deficits, wg, stop, faults, overtaken>>

(* A cancel. *)
Withdraw(c) ==
    /\ Free(c) > 0
    /\ pending' = [pending EXCEPT ![c] = @ - 1]
    /\ UNCHANGED locked
    /\ ForgetIdle
    /\ UNCHANGED <<room, loop, pass, isScheduling, deficits, wg, stop, faults>>

(* The claim transaction of a peer: SELECT ... *)
PeerSelects(c) ==
    /\ Free(c) > 0
    /\ locked[c] < NumPeers
    /\ locked' = [locked EXCEPT ![c] = @ + 1]
    /\ UNCHANGED pending
    /\ ForgetIdle
    /\ UNCHANGED <<room, loop, pass, isScheduling, deficits, wg, stop, faults>>

(* ... then COMMIT, or ROLLBACK. *)
PeerEnds(c) ==
    /\ locked[c] > 0
    /\ locked' = [locked EXCEPT ![c] = @ - 1]
    /\ pending' \in {pending, [pending EXCEPT ![c] = @ - 1]}
    /\ ForgetIdle
    /\ UNCHANGED <<room, loop, pass, isScheduling, deficits, wg, stop, faults>>

(* A worker ends a task and receives the next one. *)
Finish ==
    /\ room < Capacity
    /\ room' = room + 1
    /\ UNCHANGED <<queueVars, loop, pass, isScheduling, deficits, wg, stop, faults, overtaken>>

-----------------------------------------------------------------------------
(* loop(): a tick starts a pass.  A select that finds the context          *)
(* cancelled may still choose the one tick the ticker's channel buffers;   *)
(* the next one is 250 ms away.                                            *)

\* mutant: the goroutine of the pass is not counted in the WaitGroup
TickUncounted(g) ==
    /\ loop = "ticking"
    /\ loop' = IF cancelled THEN "late" ELSE "ticking"
    /\ pass[g].pc = "none"
    /\ pass' = [pass EXCEPT ![g].pc = "enter"]
    /\ UNCHANGED <<queueVars, room, isScheduling, deficits, wg, stop, faults, overtaken>>

Tick(g) ==
    /\ loop = "ticking"
    /\ loop' = IF cancelled THEN "late" ELSE "ticking"
    /\ pass[g].pc = "none"
    /\ pass' = [pass EXCEPT ![g].pc = "enter"]
    /\ wg' = wg + 1
    /\ UNCHANGED <<queueVars, room, isScheduling, deficits, stop, faults, overtaken>>

LoopEnds ==
    /\ loop # "ended"
    /\ cancelled
    /\ loop' = "ended"
    /\ wg' = wg - 1
    /\ UNCHANGED <<queueVars, room, pass, isScheduling, deficits, stop, faults, overtaken>>

Stop ==
    /\ stop = "no"
    /\ stop' = "waiting"
    /\ UNCHANGED <<queueVars, room, loop, pass, isScheduling, deficits, wg, faults, overtaken>>

StopReturns ==
    /\ stop = "waiting"
    /\ wg = 0
    /\ stop' = "returned"
    /\ UNCHANGED <<queueVars, room, loop, pass, isScheduling, deficits, wg, faults, overtaken>>

-----------------------------------------------------------------------------
(* scheduleOnce().                                                         *)

(* The deferred end of a pass that has the guard. *)
Leave(g) ==
    /\ pass' = [pass EXCEPT ![g] = NoPass]
    /\ isScheduling' = FALSE
    /\ wg' = wg - 1

(* The turn of the least client of todo begins, with credit as the map of  *)
(* the deficits, or the pass is over.                                      *)
BeginTurn(g, todo, credit) ==
    \/ /\ todo # {}
       /\ pass' = [pass EXCEPT ![g] = [pc |-> "serve", todo |-> todo]]
       /\ deficits' = [credit EXCEPT ![Current(todo)] = @ + quantum]
       /\ UNCHANGED <<isScheduling, wg>>
    \/ /\ todo = {}
       /\ deficits' = credit
       /\ Leave(g)

EndTurn(g, credit) ==
    BeginTurn(g, pass[g].todo \ {Current(pass[g].todo)}, credit)

\* mutant: the deferred reset comes before the check, so a skipped tick clears the flag
SkipClearsGuard(g) ==
    /\ pass[g].pc = "enter"
    /\ isScheduling
    /\ Leave(g)
    /\ UNCHANGED <<queueVars, room, loop, deficits, stop, faults, overtaken>>

Skip(g) ==
    /\ pass[g].pc = "enter"
    /\ isScheduling
    /\ pass' = [pass EXCEPT ![g] = NoPass]
    /\ wg' = wg - 1
    /\ UNCHANGED <<queueVars, room, loop, isScheduling, deficits, stop, faults, overtaken>>

\* mutant: no guard against overlapping passes
EnterAlways(g) ==
    /\ pass[g].pc = "enter"
    /\ isScheduling' = TRUE
    /\ pass' = [pass EXCEPT ![g].pc = "list"]
    /\ UNCHANGED <<queueVars, room, loop, deficits, wg, stop, faults, overtaken>>

Enter(g) ==
    /\ pass[g].pc = "enter"
    /\ ~isScheduling
    /\ isScheduling' = TRUE
    /\ pass' = [pass EXCEPT ![g].pc = "list"]
    /\ UNCHANGED <<queueVars, room, loop, deficits, wg, stop, faults, overtaken>>

(* SELECT DISTINCT client_id ... WHERE status = 'pending': a plain read    *)
(* that sees locked rows too.                                              *)
ClientsWithPendingTasks == {c \in Clients : pending[c] > 0}

(* Without clients all deficits are dropped and the pass ends; otherwise   *)
(* those of the clients without work are, and the first turn begins.       *)
List(g) ==
    /\ pass[g].pc = "list"
    /\ BeginTurn(g, ClientsWithPendingTasks,
                 [c \in Clients |-> IF pending[c] > 0 THEN deficits[c] ELSE 0])
    /\ UNCHANGED <<queueVars, room, loop, stop, faults, overtaken>>

\* mutant: a return path that does not clear isScheduling
ListFailsKeepsGuard(g) ==
    /\ pass[g].pc = "list"
    /\ faults < MaxFaults
    /\ faults' = faults + 1
    /\ pass' = [pass EXCEPT ![g] = NoPass]
    /\ wg' = wg - 1
    /\ UNCHANGED <<queueVars, room, loop, isScheduling, deficits, stop, overtaken>>

ListFails(g) ==
    /\ pass[g].pc = "list"
    /\ faults < MaxFaults
    /\ faults' = faults + 1
    /\ Leave(g)
    /\ UNCHANGED <<queueVars, room, loop, deficits, stop, overtaken>>

\* mutant: the pass that is told to stop ends without wg.Done
AbortUncounted(g) ==
    /\ pass[g].pc = "serve"
    /\ cancelled
    /\ pass' = [pass EXCEPT ![g] = NoPass]
    /\ isScheduling' = FALSE
    /\ UNCHANGED <<queueVars, room, loop, deficits, wg, stop, faults, overtaken>>

(* <-s.ctx.Done() before a dequeue. *)
Abort(g) ==
    /\ pass[g].pc = "serve"
    /\ cancelled
    /\ Leave(g)
    /\ UNCHANGED <<queueVars, room, loop, deficits, stop, faults, overtaken>>

(* DequeueTaskForClient claims a task. *)
Dequeue(g) ==
    LET c == Current(pass[g].todo) IN
    /\ pass[g].pc = "serve"
    /\ ~cancelled
    /\ Free(c) > 0
    /\ pending' = [pending EXCEPT ![c] = @ - 1]
    /\ pass' = [pass EXCEPT ![g].pc = "submit"]
    /\ overtaken' = [e \in Clients |->
                       IF e = c \/ Free(e) = 0 THEN [d \in Clients |-> 0]
                       ELSE [overtaken[e] EXCEPT ![c] = @ + 1]]
    /\ UNCHANGED <<locked, room, loop, isScheduling, deficits, wg, stop, faults>>

\* mutant: an empty queue ends the turn but the credit is kept
DequeueNoneKeepsCredit(g) ==
    /\ pass[g].pc = "serve"
    /\ ~cancelled
    /\ Free(Current(pass[g].todo)) = 0
    /\ EndTurn(g, deficits)
    /\ UNCHANGED <<queueVars, room, loop, stop, faults, overtaken>>

(* It returns ErrNoTask: the client has none left or peers hold them all.  *)
DequeueNone(g) ==
    /\ pass[g].pc = "serve"
    /\ ~cancelled
    /\ Free(Current(pass[g].todo)) = 0
    /\ EndTurn(g, [deficits EXCEPT ![Current(pass[g].todo)] = 0])
    /\ UNCHANGED <<queueVars, room, loop, stop, faults, overtaken>>

(* It returns another error: the turn ends and the credit stays. *)
DequeueFails(g) ==
    /\ pass[g].pc = "serve"
    /\ ~cancelled
    /\ faults < MaxFaults
    /\ faults' = faults + 1
    /\ EndTurn(g, deficits)
    /\ UNCHANGED <<queueVars, room, loop, stop, overtaken>>

\* mutant: the credit is not spent
SubmitFree(g) ==
    /\ pass[g].pc = "submit"
    /\ room > 0
    /\ room' = room - 1
    /\ pass' = [pass EXCEPT ![g].pc = "serve"]
    /\ UNCHANGED <<queueVars, loop, isScheduling, deficits, wg, stop, faults, overtaken>>

(* pool.Submit: blocks while the pool is full, then the credit is spent.   *)
(* It returns false only once the pool stops, which is after Stop has      *)
(* returned.                                                               *)
Submit(g) ==
    LET c == Current(pass[g].todo)
        credit == [deficits EXCEPT ![c] = @ - 1] IN
    /\ pass[g].pc = "submit"
    /\ room > 0
    /\ room' = room - 1
    /\ \/ /\ credit[c] > 0
          /\ deficits' = credit
          /\ pass' = [pass EXCEPT ![g].pc = "serve"]
          /\ UNCHANGED <<isScheduling, wg>>
       \/ /\ credit[c] <= 0
          /\ EndTurn(g, credit)
    /\ UNCHANGED <<queueVars, loop, stop, faults, overtaken>>

-----------------------------------------------------------------------------
Environment == \/ \E c \in Clients : Arrive(c) \/ Withdraw(c) \/ PeerSelects(c) \/ PeerEnds(c)
               \/ Finish

PassStep(g) == \/ Skip(g) \/ Enter(g) \/ List(g) \/ Abort(g)
               \/ Dequeue(g) \/ DequeueNone(g) \/ Submit(g)

Faults == \E g \in Passes : ListFails(g) \/ DequeueFails(g)

Next == \/ Environment
        \/ \E g \in Passes : Tick(g) \/ PassStep(g)
        \/ LoopEnds \/ Stop \/ StopReturns
        \/ Faults

Spec == Init /\ [][Next]_vars

(* The ticker fires, goroutines run, workers end their tasks, and a select *)
(* that finds the context cancelled at every turn takes that case in the   *)
(* end.  Clients, peers, errors and the call of Stop owe nothing.          *)
Fairness == /\ WF_vars(\E g \in Passes : Tick(g))
            /\ \A g \in Passes : WF_vars(PassStep(g))
            /\ WF_vars(Finish)
            /\ WF_vars(LoopEnds)
            /\ WF_vars(StopReturns)

FairSpec == Spec /\ Fairness

-----------------------------------------------------------------------------
(* Every variable has its type; no deficit is negative and no more tasks   *)
(* are locked than pending.                                                *)
TypeOK ==
    /\ pending \in [Clients -> 0..MaxPending]
    /\ locked \in [Clients -> 0..NumPeers]
    /\ \A c \in Clients : locked[c] <= pending[c]
    /\ room \in 0..Capacity
    /\ loop \in {"ticking", "late", "ended"}
    /\ pass \in [Passes -> [pc : {"none", "enter"} \cup InRound, todo : SUBSET Clients]]
    /\ \A g \in Passes : pass[g].pc \in {"serve", "submit"} <=> pass[g].todo # {}
    /\ isScheduling \in BOOLEAN
    /\ deficits \in [Clients -> Nat]
    /\ wg \in Nat
    /\ stop \in {"no", "waiting", "returned"}
    /\ faults \in 0..MaxFaults
    /\ overtaken \in [Clients -> [Clients -> Nat]]

(* scheduler.go: "Exactly one pass runs at a time", which is why deficits  *)
(* needs no lock: at most one goroutine is past the guard, and the flag is *)
(* up exactly while one is.                                                *)
OnePassAtATime ==
    /\ \A g, h \in Passes : pass[g].pc \in InRound /\ pass[h].pc \in InRound => g = h
    /\ isScheduling <=> \E g \in Passes : pass[g].pc \in InRound

(* Scheduler.Stop: once wg.Wait has let it return, the loop and every pass *)
(* it started have ended, so no Submit can meet the closed channel.        *)
StopIsQuiescent ==
    stop = "returned" => loop = "ended" /\ \A g \in Passes : pass[g].pc = "none"

(* "no hoarding": until the scheduler is stopped, the credit of a client   *)
(* never exceeds one quantum, plus one for each dequeue that failed; and   *)
(* outside a round, as tasks all cost one, there is no credit but that of  *)
(* failed dequeues.                                                        *)
NoHoarding ==
    ~cancelled => \A c \in Clients :
                    deficits[c] <= quantum * (faults + IF isScheduling THEN 1 ELSE 0)

(* Deficit round robin: while a client has a task to claim, each other     *)
(* client is served at most two quanta before it, the rest of a round in   *)
(* which it was not listed and a turn in the next one; a failed statement  *)
(* costs it one more quantum.                                              *)
BoundedOvertaking ==
    \A c, d \in Clients : overtaken[c][d] <= quantum * (2 + faults)

-----------------------------------------------------------------------------
Dispatching(c) == \E g \in Passes : pass[g].pc = "submit" /\ Current(pass[g].todo) = c

(* README.md: "no client starvation under skewed load": a client that has  *)
(* a task to claim is served, unless its tasks go elsewhere first or the   *)
(* scheduler is stopped.                                                   *)
NoStarvation ==
    \A c \in Clients : Free(c) > 0 ~> (Dispatching(c) \/ Free(c) = 0 \/ cancelled)

(* Scheduler.Stop returns, also when it is called while a pass is blocked  *)
(* in Submit and while ticks start new passes.                             *)
StopTerminates == stop = "waiting" ~> stop = "returned"
=============================================================================
