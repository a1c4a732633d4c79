------------------------------ MODULE MCConsole ------------------------------
(* Everything around the engine, for TLC: the parts do not interact, so    *)
(* each behaviour is of one of them, chosen at the beginning, while the    *)
(* others stay as they are.                                                *)
EXTENDS Feed, Startup, Registry, Requests, Throughput, TLC

CONSTANTS i1, w1, c1, p1, p2, s1, s2

VARIABLE part

consoleVars == <<feedVars, startVars, registryVars, vars, requestVars, chartVars, part>>

BothOfA == [s \in Streams |-> "a"]

TwoAndOne == p1 :> 2 @@ p2 :> 1

ByPage == [client |-> Unset, status |-> Unset, sort_by |-> Unset, order |-> "desc", page_size |-> 0]

(* By id, newest first, pages of the default size; by created_at, oldest   *)
(* first, page_size 1; one client's pending tasks, a page_size above the   *)
(* cap.                                                                    *)
Queries == {[ByPage EXCEPT !.sort_by = "id"],
            [ByPage EXCEPT !.order = "asc", !.page_size = 1],
            [ByPage EXCEPT !.client = c1, !.status = "pending", !.page_size = 3]}

Parts == {"feed", "startup", "registry", "cancel", "list", "bench", "chart"}

ConsoleInit ==
    /\ part \in Parts
    /\ FeedInit /\ StartupInit /\ RegistryInit /\ RequestsInit /\ ThroughputInit

(* Where the order of the rows is left open: they all tie. *)
AllTie == \A t \in DOMAIN tasks' : tasks'[t].created_at = 1

(* Bounds: the engine stops when the request has its answer.  A cancel     *)
(* meets at most two tasks; kills and faults happen around a cancel only;   *)
(* while a client goes through the pages no worker takes a task.           *)
Around ==
    \/ part = "cancel" /\ CancelRequest
    \/ /\ part = "cancel" /\ call.pc # "answered"
       /\ EngineRuns /\ nextId' <= 3 /\ AllTie
    \/ part = "list" /\ ListRequest
    \/ /\ part = "list" /\ walk.pc # "done"
       /\ EngineRuns /\ <<stops, faulted, worker>>' = <<stops, faulted, worker>>
    \/ part = "bench" /\ BenchStep /\ AllTie
    \/ /\ part = "bench" /\ bench.pc \in {"idle", "injecting"}
       /\ EngineRuns /\ <<stops, faulted>>' = <<stops, faulted>> /\ AllTie

engineVars == <<vars, requestVars>>

ConsoleNext ==
    /\ UNCHANGED part
    /\ \/ /\ part = "feed" /\ FeedNext
          /\ UNCHANGED <<startVars, registryVars, engineVars, chartVars>>
       \/ /\ part = "startup" /\ StartupNext
          /\ UNCHANGED <<feedVars, registryVars, engineVars, chartVars>>
       \/ /\ part = "registry" /\ RegistryNext
          /\ UNCHANGED <<feedVars, startVars, engineVars, chartVars>>
       \/ /\ Around
          /\ UNCHANGED <<feedVars, startVars, registryVars, chartVars>>
       \/ /\ part = "chart" /\ ThroughputNext
          /\ UNCHANGED <<feedVars, startVars, registryVars, engineVars>>

ConsoleSpec ==
    /\ ConsoleInit /\ [][ConsoleNext]_consoleVars
    /\ FeedFairness /\ RegistryFairness

(* Every variable of every part has its type. *)
ConsoleTypeOK ==
    /\ FeedTypeOK
    /\ StartupTypeOK
    /\ RegistryTypeOK
    /\ RequestsTypeOK
    /\ ThroughputTypeOK
=============================================================================
