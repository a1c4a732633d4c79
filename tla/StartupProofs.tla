---------------------------- MODULE StartupProofs ----------------------------
(***************************************************************************)
(* The order of the starts, for any fleet, kills and failing statements.   *)
(***************************************************************************)
EXTENDS Startup, TLAPS

(* Until the first instance is healthy nobody else has ever run.           *)
FirstAlone == \A i \in Backends : ~healthy /\ i # First => phase[i] = "down"

(* What the database holds when a start has come this far; only the start  *)
(* that is alone gets to create or to seed.                                *)
Reached(p) ==
    /\ p = "creating" => ~healthy /\ ~schema
    /\ p = "counting" => schema
    /\ p = "seeding" => ~healthy /\ schema /\ ~keys
    /\ p = "sampling" => ~healthy /\ schema /\ keys /\ samples = 0
    /\ p = "recovering" => schema /\ keys /\ (cut \/ samples = 1)
    /\ p = "up" => healthy
    /\ p # "failed"

(* What the database holds in between: a key table without its samples is  *)
(* the trace of a start that ended there, or First is about to insert      *)
(* them; orphans outlive First's recovery only if that failed.             *)
SeedState ==
    /\ samples \in {0, 1}
    /\ ~keys => samples = 0
    /\ keys => schema
    /\ keys /\ samples = 0 => cut \/ phase[First] = "sampling"
    /\ healthy => schema /\ keys /\ (orphans => unrecovered) /\ (cut \/ samples = 1)

StartInv ==
    /\ StartupTypeOK
    /\ FirstAlone
    /\ \A i \in Backends : Reached(phase[i])
    /\ SeedState

LEMMA StartInit == StartupInit => StartInv
<1> SUFFICES ASSUME StartupInit PROVE StartInv
  OBVIOUS
<1>1. StartupTypeOK
  <2>1. phase \in [Backends -> Phase]
    BY DEF StartupInit, Phase, Halted
  <2>2. kills \in 0..MaxKills
    BY StartupAssumption DEF StartupInit
  <2> QED BY <2>1, <2>2 DEF StartupInit, StartupTypeOK
<1>2. \A i \in Backends : phase[i] = "down"
  BY DEF StartupInit
<1> QED BY <1>1, <1>2 DEF StartupInit, StartInv, FirstAlone, Reached, SeedState

(* A step of one start, or a kill, leaves the other instances where they are. *)
LEMMA Elsewhere ==
  ASSUME StartupTypeOK, NEW i \in Backends, NEW p \in Phase, Goto(i, p)
  PROVE  /\ phase' \in [Backends -> Phase]
         /\ phase'[i] = p
         /\ \A j \in Backends : j # i => phase'[j] = phase[j]
BY DEF StartupTypeOK, Goto

(* Before the first instance is healthy only First takes steps. *)
LEMMA OnlyFirst ==
  ASSUME StartInv, NEW i \in Backends, ~healthy, phase[i] # "down"
  PROVE  i = First
BY DEF StartInv, FirstAlone

LEMMA StartStepKeeps ==
  ASSUME StartInv, NEW i \in Backends, StartStep(i)
  PROVE  StartInv'
<1> USE StartupAssumption DEF StartInv
<1>1. CASE MigrateLook(i)
  <2>1. Goto(i, IF schema THEN "counting" ELSE "creating")
    BY <1>1 DEF MigrateLook
  <2>2. (IF schema THEN "counting" ELSE "creating") \in Phase
    BY DEF Phase, Starting
  <2>3. /\ phase' \in [Backends -> Phase]
        /\ phase'[i] = IF schema THEN "counting" ELSE "creating"
        /\ \A j \in Backends : j # i => phase'[j] = phase[j]
    BY <2>1, <2>2, Elsewhere
  <2>4. schema \/ ~healthy
    BY DEF SeedState
  <2> QED
    BY <1>1, <2>3, <2>4 DEF MigrateLook, dataVars, StartupTypeOK, FirstAlone, Reached, SeedState
<1>2. CASE MigrateCreate(i)
  <2>1. ~healthy /\ ~schema /\ phase[i] = "creating"
    BY <1>2 DEF MigrateCreate, Reached
  <2>2. i = First
    BY <2>1, OnlyFirst
  <2>3. /\ phase' \in [Backends -> Phase]
        /\ phase'[i] = "counting"
        /\ \A j \in Backends : j # i => phase'[j] = phase[j]
    BY <1>2, <2>1, Elsewhere DEF MigrateCreate, Phase, Starting
  <2> QED
    BY <1>2, <2>1, <2>2, <2>3
    DEF MigrateCreate, StartupTypeOK, FirstAlone, Reached, SeedState
<1>3. CASE SeedCount(i)
  <2>1. Goto(i, IF keys THEN "recovering" ELSE "seeding")
    BY <1>3 DEF SeedCount
  <2>2. (IF keys THEN "recovering" ELSE "seeding") \in Phase
    BY DEF Phase, Starting
  <2>3. /\ phase' \in [Backends -> Phase]
        /\ phase'[i] = IF keys THEN "recovering" ELSE "seeding"
        /\ \A j \in Backends : j # i => phase'[j] = phase[j]
    BY <2>1, <2>2, Elsewhere
  <2>4. schema /\ phase[i] = "counting" /\ (keys \/ ~healthy)
    BY <1>3 DEF SeedCount, Reached, SeedState
  <2>5. keys => cut \/ samples = 1
    BY <2>4, OnlyFirst DEF SeedState
  <2> QED
    BY <1>3, <2>3, <2>4, <2>5
    DEF SeedCount, dataVars, StartupTypeOK, FirstAlone, Reached, SeedState
<1>4. CASE SeedKeys(i)
  <2>1. ~healthy /\ schema /\ ~keys /\ samples = 0 /\ phase[i] = "seeding"
    BY <1>4 DEF SeedKeys, Reached, SeedState
  <2>2. i = First
    BY <2>1, OnlyFirst
  <2>3. /\ phase' \in [Backends -> Phase]
        /\ phase'[i] = "sampling"
        /\ \A j \in Backends : j # i => phase'[j] = phase[j]
    BY <1>4, <2>1, Elsewhere DEF SeedKeys, Phase, Starting
  <2> QED
    BY <1>4, <2>1, <2>2, <2>3
    DEF SeedKeys, StartupTypeOK, FirstAlone, Reached, SeedState
<1>5. CASE SeedSamples(i)
  <2>1. ~healthy /\ schema /\ keys /\ samples = 0 /\ phase[i] = "sampling"
    BY <1>5 DEF SeedSamples, Reached
  <2>2. i = First
    BY <2>1, OnlyFirst
  <2>3. /\ phase' \in [Backends -> Phase]
        /\ phase'[i] = "recovering"
        /\ \A j \in Backends : j # i => phase'[j] = phase[j]
    BY <1>5, Elsewhere DEF SeedSamples, Phase, Starting
  <2>4. samples' = 1
    BY <1>5, <2>1 DEF SeedSamples
  <2> QED
    BY <1>5, <2>1, <2>2, <2>3, <2>4
    DEF SeedSamples, StartupTypeOK, FirstAlone, Reached, SeedState
<1>6. CASE Serve(i) \/ ServeUnrecovered(i)
  <2>1. phase[i] = "recovering" /\ schema /\ keys /\ (cut \/ samples = 1)
    BY <1>6 DEF Serve, ServeUnrecovered, Reached
  <2>2. healthy \/ i = First
    BY <2>1, OnlyFirst
  <2>3. /\ phase' \in [Backends -> Phase]
        /\ phase'[i] = "up"
        /\ \A j \in Backends : j # i => phase'[j] = phase[j]
    BY <1>6, Elsewhere DEF Serve, ServeUnrecovered, Phase
  <2>4. healthy' /\ (orphans' => unrecovered')
    <3>1. healthy'
      BY <1>6, <2>2 DEF Serve, ServeUnrecovered
    <3>2. CASE Serve(i) /\ orphans'
      <4>1. orphans /\ i # First /\ (unrecovered => unrecovered')
        BY <3>2 DEF Serve
      <4> QED BY <2>2, <3>1, <4>1 DEF SeedState
    <3>3. CASE ServeUnrecovered(i) /\ orphans'
      <4>1. orphans /\ (unrecovered \/ i = First => unrecovered')
        BY <3>3 DEF ServeUnrecovered, dataVars
      <4> QED BY <2>2, <3>1, <4>1 DEF SeedState
    <3> QED BY <1>6, <3>1, <3>2, <3>3
  <2>5. \A j \in Backends : Reached(phase[j])'
    <3> SUFFICES ASSUME NEW j \in Backends PROVE Reached(phase[j])'
      OBVIOUS
    <3>1. CASE j = i
      BY <2>3, <2>4, <3>1 DEF Reached
    <3>2. CASE j # i /\ ~healthy
      <4>1. phase'[j] = "down"
        BY <2>2, <2>3, <3>2 DEF FirstAlone
      <4> QED BY <4>1 DEF Reached
    <3>3. CASE j # i /\ healthy
      <4>1. phase'[j] = phase[j] /\ healthy' /\ Reached(phase[j])
        BY <2>3, <2>4, <3>3
      <4>2. UNCHANGED <<schema, keys, samples, cut>>
        BY <1>6 DEF Serve, ServeUnrecovered, dataVars
      <4>3. phase[j] \notin {"creating", "seeding", "sampling"}
        BY <3>3, <4>1 DEF Reached
      <4> QED BY <4>1, <4>2, <4>3 DEF Reached
    <3> QED BY <3>1, <3>2, <3>3
  <2> QED
    BY <1>6, <2>1, <2>3, <2>4, <2>5
    DEF Serve, ServeUnrecovered, dataVars, StartupTypeOK, FirstAlone, SeedState
<1> QED BY <1>1, <1>2, <1>3, <1>4, <1>5, <1>6 DEF StartStep

LEMMA StartupStep == StartInv /\ [StartupNext]_startVars => StartInv'
<1> SUFFICES ASSUME StartInv, [StartupNext]_startVars PROVE StartInv'
  OBVIOUS
<1>1. CASE UNCHANGED startVars
  BY <1>1 DEF StartInv, startVars, dataVars, StartupTypeOK, FirstAlone, Reached, SeedState
<1>2. ASSUME NEW i \in Backends, Begin(i) PROVE StartInv'
  <2>1. /\ phase' \in [Backends -> Phase]
        /\ phase'[i] = "migrating"
        /\ \A j \in Backends : j # i => phase'[j] = phase[j]
    BY <1>2, Elsewhere DEF Begin, StartInv, Phase, Starting
  <2>2. phase[i] # "sampling"
    BY <1>2 DEF Begin, Halted
  <2> QED
    BY <1>2, <2>1, <2>2, StartupAssumption
    DEF Begin, dataVars, StartInv, StartupTypeOK, FirstAlone, Reached, SeedState
<1>3. ASSUME NEW i \in Backends, StartStep(i) PROVE StartInv'
  BY <1>3, StartStepKeeps
<1>4. ASSUME NEW i \in Backends, Kill(i) \/ StartFails(i) PROVE StartInv'
  <2>1. /\ phase' \in [Backends -> Phase]
        /\ phase'[i] \in {"killed", "exited"}
        /\ \A j \in Backends : j # i => phase'[j] = phase[j]
    BY <1>4, Elsewhere DEF Kill, StartFails, StartInv, Phase, Halted
  <2>2. healthy \/ i = First
    BY <1>4, OnlyFirst DEF Kill, StartFails, Halted, Starting
  <2>3. kills' \in 0..MaxKills
    BY <1>4, StartupAssumption DEF Kill, StartFails, StartInv, StartupTypeOK
  <2>4. cut' = (cut \/ phase[i] = "sampling") /\ cut' \in BOOLEAN
    BY <1>4 DEF Kill, StartFails, StartInv, StartupTypeOK
  <2>5. UNCHANGED <<dataVars, healthy, unrecovered>>
    BY <1>4 DEF Kill, StartFails
  <2> QED
    BY <2>1, <2>2, <2>3, <2>4, <2>5, StartupAssumption
    DEF dataVars, StartInv, StartupTypeOK, FirstAlone, Reached, SeedState
<1>5. ASSUME NEW i \in Backends, SweepOrphans(i) PROVE StartInv'
  BY <1>5 DEF SweepOrphans, StartInv, StartupTypeOK, FirstAlone, Reached, SeedState
<1> QED BY <1>1, <1>2, <1>3, <1>4, <1>5 DEF StartupNext

(* The starts never trip over each other, and an instance that serves      *)
(* finds the schema, the keys, the samples, unless a start ended between   *)
(* the two inserts, and no orphans, unless backend-1's last recovery       *)
(* failed (main.go, Seed): for every fleet, kills and failing statements.  *)
THEOREM OrderedStart == StartupSpec => []SeededBeforeServing
<1>1. StartInv => SeededBeforeServing
  <2> SUFFICES ASSUME StartInv PROVE SeededBeforeServing
    OBVIOUS
  <2>1. samples <= 1
    BY DEF StartInv, SeedState
  <2>2. ASSUME NEW i \in Backends
        PROVE  /\ phase[i] # "failed"
               /\ phase[i] = "up" => /\ schema /\ keys
                                     /\ samples = 1 \/ cut
                                     /\ orphans => unrecovered
    BY DEF StartInv, SeedState, Reached
  <2> QED BY <2>1, <2>2 DEF SeededBeforeServing
<1> QED BY <1>1, StartInit, StartupStep, PTL DEF StartupSpec
=============================================================================
