------------------------------ MODULE Registry ------------------------------
(***************************************************************************)
(* The worker registry (worker/registry.go): every instance keeps a key in *)
(* Redis alive by heartbeats, the worker panel of every dashboard shows    *)
(* the instances whose key is there (GET /api/workers), and main() stops   *)
(* the heartbeats before it drains the pool.                               *)
(*                                                                         *)
(* Time is counted in seconds.  A command to Redis may take any number of  *)
(* them: database/redis.go leaves go-redis its timeouts and its resends.   *)
(* Redis executes a command once, several times or not at all before it is *)
(* answered, an error does not tell which, and an attempt that was given   *)
(* up may still be executed later.  The loop's own work takes no time.     *)
(*                                                                         *)
(* Abstractions.  The snapshot of the workers' states is left out, a key   *)
(* is its remaining time to live.  Of the Sets that an instance gave up    *)
(* one at a time is outstanding, and so of its Dels.                       *)
(***************************************************************************)
EXTENDS Naturals

CONSTANTS
    Fleet,          \* the INSTANCE_IDs
    HeartbeatEvery, \* seconds (2 in the code)
    HeartbeatTTL,   \* seconds (6 in the code)
    MaxHalts        \* bound: kills and signals in a behaviour

ASSUME RegistryAssumption ==
    /\ HeartbeatEvery \in Nat \ {0}
    /\ HeartbeatTTL \in Nat \ {0}
    /\ MaxHalts \in Nat

VARIABLES
    main,     \* instance -> where main() is
    beat,     \* instance -> seconds since its ticker fired
    tick,     \* instance -> is there a tick in the ticker's channel?
    command,  \* instance -> the Set of publish(): none, sent, or also executed
    ttl,      \* instance -> seconds until its key expires, 0 when there is none
    lateSet,  \* the instances with a Set that was given up and may be executed
    lateDel,  \* the instances with a Del that was given up and may be executed
    waited,   \* history: seconds since the Set under way was sent or executed
    spent,    \* history: what the heartbeats since the last executed Set have cost
    heard,    \* history: the instances with a Set since their start and the last Del
    deleted,  \* history: the instances whose key registry.Stop has deleted
    revived,  \* history: those of them for which Redis executed a Set late
    halts     \* kills and signals so far

loopVars == <<beat, tick, command, waited, spent>>
lateVars == <<lateSet, lateDel>>
historyVars == <<heard, deleted, revived>>
registryVars == <<main, loopVars, ttl, lateVars, historyVars, halts>>

Down == {"down", "exited", "killed"}
Main == Down \cup {"up", "stopping", "cancelled", "deleting", "draining"}

(* registry.loop runs. *)
Beating(i) == main[i] \in {"up", "stopping"}

Sending(i) == command[i] # "none"

(* AllInstances: the keys workers:* that are there.  An instance whose key *)
(* is there from KEYS to the last GET is listed, and one that is listed    *)
(* had its key at the GET.                                                 *)
Listed == {i \in Fleet : ttl[i] > 0}

RegistryInit ==
    /\ main = [i \in Fleet |-> "down"]
    /\ beat = [i \in Fleet |-> 0]
    /\ tick = [i \in Fleet |-> FALSE]
    /\ command = [i \in Fleet |-> "none"]
    /\ ttl = [i \in Fleet |-> 0]
    /\ lateSet = {} /\ lateDel = {}
    /\ waited = [i \in Fleet |-> 0]
    /\ spent = [i \in Fleet |-> 0]
    /\ heard = {} /\ deleted = {} /\ revived = {}
    /\ halts = 0

MainGoes(i, from, to) ==
    /\ main[i] = from
    /\ main' = [main EXCEPT ![i] = to]

(* Times are counted up to HeartbeatTTL. *)
Capped(n) == IF n < HeartbeatTTL THEN n ELSE HeartbeatTTL

-----------------------------------------------------------------------------
(* main() has started the pool; registry.Start: the loop publishes at once. *)
StartLoop(i) ==
    /\ main[i] \in Down
    /\ main' = [main EXCEPT ![i] = "up"]
    /\ beat' = [beat EXCEPT ![i] = 0]
    /\ tick' = [tick EXCEPT ![i] = FALSE]
    /\ command' = [command EXCEPT ![i] = "sent"]
    /\ waited' = [waited EXCEPT ![i] = 0]
    /\ spent' = [spent EXCEPT ![i] = 0]
    /\ heard' = heard \ {i}
    /\ deleted' = deleted \ {i}
    /\ revived' = revived \ {i}
    /\ UNCHANGED <<ttl, lateVars, halts>>

\* mutant: two heartbeats' worth of TTL
SetShort(i) ==
    /\ Sending(i)
    /\ ttl' = [ttl EXCEPT ![i] = HeartbeatTTL - HeartbeatEvery]
    /\ command' = [command EXCEPT ![i] = "stored"]
    /\ waited' = [waited EXCEPT ![i] = 0]
    /\ spent' = [spent EXCEPT ![i] = 0]
    /\ heard' = heard \cup {i}
    /\ UNCHANGED <<main, beat, tick, lateVars, deleted, revived, halts>>

\* mutant: Set without an expiration
SetForever(i) ==
    /\ Sending(i)
    /\ ttl' = [ttl EXCEPT ![i] = HeartbeatTTL + 1]
    /\ command' = [command EXCEPT ![i] = "stored"]
    /\ waited' = [waited EXCEPT ![i] = 0]
    /\ spent' = [spent EXCEPT ![i] = 0]
    /\ heard' = heard \cup {i}
    /\ UNCHANGED <<main, beat, tick, lateVars, deleted, revived, halts>>

(* publish(): Redis executes Set(key, snapshot, heartbeatTTL), or a resend. *)
SetKey(i) ==
    /\ Sending(i)
    /\ ttl' = [ttl EXCEPT ![i] = HeartbeatTTL]
    /\ command' = [command EXCEPT ![i] = "stored"]
    /\ waited' = [waited EXCEPT ![i] = 0]
    /\ spent' = [spent EXCEPT ![i] = 0]
    /\ heard' = heard \cup {i}
    /\ UNCHANGED <<main, beat, tick, lateVars, deleted, revived, halts>>

(* publish() returns, and the loop looks at the ticker again.  A heartbeat *)
(* costs HeartbeatEvery, or as long as its command took if that is longer. *)
CommandEnds(i) ==
    /\ command' = [command EXCEPT ![i] = "none"]
    /\ waited' = [waited EXCEPT ![i] = 0]
    /\ spent' = [spent EXCEPT ![i] =
                   Capped(@ + IF waited[i] < HeartbeatEvery THEN HeartbeatEvery ELSE waited[i])]
    /\ lateSet' \in {lateSet, lateSet \cup {i}}
    /\ UNCHANGED <<main, beat, tick, ttl, lateDel, historyVars, halts>>

SetReturns(i) == command[i] = "stored" /\ CommandEnds(i)

(* An error is only logged. *)
SetFails(i) == Sending(i) /\ CommandEnds(i)

(* The tick that came during the last publish(). *)
NextBeat(i) ==
    /\ Beating(i)
    /\ tick[i] /\ ~Sending(i)
    /\ tick' = [tick EXCEPT ![i] = FALSE]
    /\ command' = [command EXCEPT ![i] = "sent"]
    /\ UNCHANGED <<main, beat, ttl, lateVars, waited, spent, historyVars, halts>>

(* Redis executes a Set whose sender has given it up, or is dead. *)
LateSet(i) ==
    /\ i \in lateSet
    /\ lateSet' = lateSet \ {i}
    /\ ttl' = [ttl EXCEPT ![i] = HeartbeatTTL]
    /\ revived' = revived \cup ({i} \cap deleted)
    /\ UNCHANGED <<main, loopVars, lateDel, heard, deleted, halts>>

(* The same of a Del: the instance may have been started again. *)
LateDel(i) ==
    /\ i \in lateDel
    /\ lateDel' = lateDel \ {i}
    /\ ttl' = [ttl EXCEPT ![i] = 0]
    /\ heard' = heard \ {i}
    /\ UNCHANGED <<main, loopVars, lateSet, deleted, revived, halts>>

(* Redis lets a key expire. *)
Decay(t) == IF t \in 1..HeartbeatTTL THEN t - 1 ELSE t

Fires(i) == Beating(i) /\ beat[i] + 1 = HeartbeatEvery

(* A second passes: keys age, tickers advance and may fire.  A loop that   *)
(* waits takes the tick at once; one that is in publish() finds it in the  *)
(* channel, which holds one.                                               *)
Second ==
    /\ \A i \in Fleet : ~(Beating(i) /\ tick[i] /\ ~Sending(i))
    /\ ttl' = [i \in Fleet |-> Decay(ttl[i])]
    /\ beat' = [i \in Fleet |-> IF ~Beating(i) \/ Fires(i) THEN 0 ELSE beat[i] + 1]
    /\ tick' = [i \in Fleet |-> tick[i] \/ (Fires(i) /\ Sending(i))]
    /\ command' = [i \in Fleet |-> IF Fires(i) /\ ~Sending(i) THEN "sent" ELSE command[i]]
    /\ waited' = [i \in Fleet |-> IF Sending(i) THEN Capped(waited[i] + 1) ELSE 0]
    /\ UNCHANGED <<main, lateVars, spent, historyVars, halts>>

-----------------------------------------------------------------------------
(* The end of main(). *)

(* SIGTERM: the HTTP server, the watchdog and the scheduler stop, while    *)
(* the heartbeats go on.                                                   *)
Signal(i) ==
    /\ MainGoes(i, "up", "stopping")
    /\ halts < MaxHalts
    /\ halts' = halts + 1
    /\ UNCHANGED <<loopVars, ttl, lateVars, historyVars>>

(* registry.Stop: cancel() ...  From here on no command leaves the loop: a *)
(* tick that the select prefers to the cancelled context makes a Set whose *)
(* context is cancelled, which the client does not send.                   *)
CancelLoop(i) ==
    /\ MainGoes(i, "stopping", "cancelled")
    /\ UNCHANGED <<loopVars, ttl, lateVars, historyVars, halts>>

\* mutant: Stop does not wait for a heartbeat that is under way
JoinNothing(i) ==
    /\ MainGoes(i, "cancelled", "deleting")
    /\ UNCHANGED <<loopVars, ttl, lateVars, historyVars, halts>>

(* ... wg.Wait(): the loop ends after the heartbeat it is in ... *)
JoinLoop(i) ==
    /\ MainGoes(i, "cancelled", "deleting")
    /\ ~Sending(i)
    /\ UNCHANGED <<loopVars, ttl, lateVars, historyVars, halts>>

(* ... and Del, whose error is ignored. *)
Delete(i) ==
    /\ MainGoes(i, "deleting", "draining")
    /\ \/ /\ ttl' = [ttl EXCEPT ![i] = 0]
          /\ deleted' = deleted \cup {i}
       \/ UNCHANGED <<ttl, deleted>>
    /\ lateDel' \in {lateDel, lateDel \cup {i}}
    /\ UNCHANGED <<loopVars, lateSet, heard, revived, halts>>

(* Pool.Stop has drained the workers; the connections close. *)
Drained(i) ==
    /\ MainGoes(i, "draining", "exited")
    /\ UNCHANGED <<loopVars, ttl, lateVars, historyVars, halts>>

(* kill -9; a command that is under way may still be executed. *)
KillLoop(i) ==
    /\ main[i] \notin Down
    /\ halts < MaxHalts
    /\ halts' = halts + 1
    /\ main' = [main EXCEPT ![i] = "killed"]
    /\ command' = [command EXCEPT ![i] = "none"]
    /\ lateSet' \in {lateSet, IF Sending(i) THEN lateSet \cup {i} ELSE lateSet}
    /\ lateDel' \in {lateDel, IF main[i] = "deleting" THEN lateDel \cup {i} ELSE lateDel}
    /\ UNCHANGED <<beat, tick, waited, spent, ttl, historyVars>>

-----------------------------------------------------------------------------
EndStep(i) == CancelLoop(i) \/ JoinLoop(i) \/ Delete(i) \/ Drained(i)

RegistryNext ==
    \/ Second
    \/ \E i \in Fleet :
         \/ StartLoop(i) \/ NextBeat(i)
         \/ SetKey(i) \/ SetReturns(i) \/ SetFails(i)
         \/ LateSet(i) \/ LateDel(i)
         \/ Signal(i) \/ EndStep(i) \/ KillLoop(i)

(* Time passes, a shutdown goes on, a command comes back some time (go-redis *)
(* has a timeout and a number of resends), a tick is taken.  Nobody owes a *)
(* start, a signal, a kill or a late execution.                            *)
RegistryFairness ==
    /\ WF_registryVars(Second)
    /\ \A i \in Fleet : /\ WF_registryVars(EndStep(i))
                        /\ WF_registryVars(NextBeat(i))
                        /\ WF_registryVars(SetReturns(i) \/ SetFails(i))

RegistrySpec == RegistryInit /\ [][RegistryNext]_registryVars /\ RegistryFairness

-----------------------------------------------------------------------------
(* Every variable has its type. *)
RegistryTypeOK ==
    /\ main \in [Fleet -> Main]
    /\ beat \in [Fleet -> 0..(HeartbeatEvery - 1)]
    /\ tick \in [Fleet -> BOOLEAN]
    /\ command \in [Fleet -> {"none", "sent", "stored"}]
    /\ ttl \in [Fleet -> 0..HeartbeatTTL]
    /\ lateSet \subseteq Fleet /\ lateDel \subseteq Fleet
    /\ waited \in [Fleet -> 0..HeartbeatTTL]
    /\ spent \in [Fleet -> 0..HeartbeatTTL]
    /\ heard \subseteq Fleet /\ deleted \subseteq Fleet /\ revived \subseteq Fleet
    /\ halts \in 0..MaxHalts

(* heartbeatTTL and heartbeatEvery: a live instance that has been heard of *)
(* stays on the panel as long as what its heartbeats have cost since Redis *)
(* last executed one is less than the time to live, with what the one      *)
(* under way has taken so far, also while the HTTP server is shutting      *)
(* down.  With 2 s and 6 s one heartbeat may fail at once and the next one *)
(* be executed within 2 s; one that is not executed within 4 s takes the   *)
(* instance off the panel, and go-redis does wait that long.               *)
LiveIsListed ==
    \A i \in Fleet :
      Beating(i) /\ i \in heard /\ spent[i] + waited[i] < HeartbeatTTL => i \in Listed

(* registry.Stop "removes this instance from the panel immediately": once  *)
(* the key is deleted no heartbeat of the loop brings it back.  Only a Set *)
(* that the loop had given up before and that Redis executes after the Del *)
(* does.                                                                   *)
StoppedIsUnlisted == \A i \in deleted : i \in Listed => i \in revived

(* "dead instances auto-expire" (docs/BENCHMARKS.md): an instance that was *)
(* killed, or whose Del failed, leaves the panel by itself unless it is    *)
(* started again, whatever Redis executes late.                            *)
GhostsFade == \A i \in Fleet : []<>(main[i] \in Down => i \notin Listed)
=============================================================================
