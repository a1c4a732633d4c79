------------------------------- MODULE Startup -------------------------------
(***************************************************************************)
(* How the processes of the fleet come up (main.go up to the start of the  *)
(* HTTP server): the schema (database/migrate.go), the test clients and    *)
(* the sample tasks (database/seed.go) and startup recovery, each          *)
(* statement a step of its own, so that instances which start together     *)
(* interleave.  docker-compose.yml lets all but the first wait until the   *)
(* first one is healthy.                                                   *)
(*                                                                         *)
(* Abstractions.  The three tables are one; the 60 sample tasks are one    *)
(* batch, of which some rows say "running, processed_by backend-1".  A     *)
(* statement that a process has sent is executed before the process ends,  *)
(* or never.                                                               *)
(***************************************************************************)
EXTENDS Naturals

CONSTANTS
    Backends,   \* the INSTANCE_IDs of the fleet
    First,      \* "backend-1": it starts first, and owns the sample rows
    MaxKills    \* bound: kills in a behaviour

ASSUME StartupAssumption ==
    /\ First \in Backends
    /\ MaxKills \in Nat

VARIABLES
    schema,   \* do the tables exist?
    keys,     \* are the five API keys in api_keys?
    samples,  \* how often the sample tasks were inserted
    orphans,  \* are there sample rows that say "running" with nobody to run them?
    phase,    \* instance -> where main() is
    healthy,  \* has First passed a health check?
    kills,    \* kills so far
    cut,      \* history: has a start ended between the keys and the samples?
    unrecovered \* history: did startup recovery fail when First came up last?

dataVars == <<schema, keys, samples, orphans>>
startVars == <<dataVars, phase, healthy, kills, cut, unrecovered>>

Starting == {"migrating", "creating", "counting", "seeding", "sampling", "recovering"}
Halted   == {"down", "failed", "exited", "killed"}
Phase    == Starting \cup Halted \cup {"up"}

StartupInit ==
    /\ schema = FALSE
    /\ keys = FALSE
    /\ samples = 0
    /\ orphans = FALSE
    /\ phase = [i \in Backends |-> "down"]
    /\ healthy = FALSE
    /\ kills = 0
    /\ cut = FALSE
    /\ unrecovered = FALSE

Goto(i, p) == phase' = [phase EXCEPT ![i] = p]

-----------------------------------------------------------------------------
\* mutant: no depends_on: every instance starts at once
BeginAtOnce(i) ==
    /\ phase[i] \in Halted
    /\ Goto(i, "migrating")
    /\ UNCHANGED <<dataVars, healthy, kills, cut, unrecovered>>

(* compose, or the operator, starts the process. *)
Begin(i) ==
    /\ phase[i] \in Halted
    /\ i = First \/ healthy
    /\ Goto(i, "migrating")
    /\ UNCHANGED <<dataVars, healthy, kills, cut, unrecovered>>

(* AutoMigrate asks whether the table is there ... *)
MigrateLook(i) ==
    /\ phase[i] = "migrating"
    /\ Goto(i, IF schema THEN "counting" ELSE "creating")
    /\ UNCHANGED <<dataVars, healthy, kills, cut, unrecovered>>

(* ... and issues CREATE TABLE, which fails when it has come into being     *)
(* since: main() exits.                                                    *)
MigrateCreate(i) ==
    /\ phase[i] = "creating"
    /\ Goto(i, IF schema THEN "failed" ELSE "counting")
    /\ schema' = TRUE
    /\ UNCHANGED <<keys, samples, orphans, healthy, kills, cut, unrecovered>>

(* Seed: count the api_keys; none means an empty database.                 *)
SeedCount(i) ==
    /\ phase[i] = "counting"
    /\ Goto(i, IF keys THEN "recovering" ELSE "seeding")
    /\ UNCHANGED <<dataVars, healthy, kills, cut, unrecovered>>

(* Insert the keys; a duplicate on the unique index is an error and main()  *)
(* exits.                                                                  *)
SeedKeys(i) ==
    /\ phase[i] = "seeding"
    /\ Goto(i, IF keys THEN "failed" ELSE "sampling")
    /\ keys' = TRUE
    /\ UNCHANGED <<schema, samples, orphans, healthy, kills, cut, unrecovered>>

(* Insert the sample tasks. *)
SeedSamples(i) ==
    /\ phase[i] = "sampling"
    /\ Goto(i, "recovering")
    /\ samples' = samples + 1
    /\ orphans' = TRUE
    /\ UNCHANGED <<schema, keys, healthy, kills, cut, unrecovered>>

(* RequeueOrphanedTasks; then everything starts and /api/health answers.   *)
Serve(i) ==
    /\ phase[i] = "recovering"
    /\ Goto(i, "up")
    /\ orphans' = (orphans /\ i # First)
    /\ healthy' = (healthy \/ i = First)
    /\ unrecovered' = (unrecovered /\ i # First)
    /\ UNCHANGED <<schema, keys, samples, kills, cut>>

(* An error of RequeueOrphanedTasks is logged, and everything starts.      *)
ServeUnrecovered(i) ==
    /\ phase[i] = "recovering"
    /\ Goto(i, "up")
    /\ healthy' = (healthy \/ i = First)
    /\ unrecovered' = (unrecovered \/ i = First)
    /\ UNCHANGED <<dataVars, kills, cut>>

(* An error of any statement before it, or of ConnectMySQL or ConnectRedis: *)
(* main() exits.  If the statement was executed all the same, its own step *)
(* has come first.                                                         *)
StartFails(i) ==
    /\ phase[i] \in Starting
    /\ cut' = (cut \/ phase[i] = "sampling")
    /\ Goto(i, "exited")
    /\ UNCHANGED <<dataVars, healthy, kills, unrecovered>>

(* kill -9, at any point. *)
Kill(i) ==
    /\ phase[i] \notin Halted
    /\ kills < MaxKills
    /\ kills' = kills + 1
    /\ cut' = (cut \/ phase[i] = "sampling")
    /\ Goto(i, "killed")
    /\ UNCHANGED <<dataVars, healthy, unrecovered>>

(* A sweep of an instance that serves fails the orphans: they were started *)
(* hours ago.                                                              *)
SweepOrphans(i) ==
    /\ phase[i] = "up"
    /\ orphans
    /\ orphans' = FALSE
    /\ UNCHANGED <<schema, keys, samples, phase, healthy, kills, cut, unrecovered>>

-----------------------------------------------------------------------------
StartStep(i) == \/ MigrateLook(i) \/ MigrateCreate(i)
                \/ SeedCount(i) \/ SeedKeys(i) \/ SeedSamples(i)
                \/ Serve(i) \/ ServeUnrecovered(i)

StartupNext == \E i \in Backends :
                  Begin(i) \/ StartStep(i) \/ StartFails(i) \/ Kill(i) \/ SweepOrphans(i)

StartupSpec == StartupInit /\ [][StartupNext]_startVars

-----------------------------------------------------------------------------
(* Every variable has its type. *)
StartupTypeOK ==
    /\ schema \in BOOLEAN /\ keys \in BOOLEAN /\ orphans \in BOOLEAN
    /\ samples \in Nat
    /\ phase \in [Backends -> Phase]
    /\ healthy \in BOOLEAN /\ cut \in BOOLEAN /\ unrecovered \in BOOLEAN
    /\ kills \in 0..MaxKills

(* docker-compose.yml: "migrates + seeds first, so 2 and 3 don't race the  *)
(* seed".  Through kills, failing statements and restarts no start ever    *)
(* fails on a table or a key that another start has just made, and the     *)
(* samples are inserted at most once.  An instance serves only when schema *)
(* and keys are there; the samples are missing only if a start was killed  *)
(* or failed between the two inserts, in any start before; and the sample  *)
(* rows that name backend-1 as their worker have been given back unless    *)
(* backend-1's last startup recovery failed, which main() only logs.       *)
SeededBeforeServing ==
    /\ samples <= 1
    /\ \A i \in Backends :
         /\ phase[i] # "failed"
         /\ phase[i] = "up" =>
              /\ schema /\ keys
              /\ samples = 1 \/ cut
              /\ orphans => unrecovered
=============================================================================
