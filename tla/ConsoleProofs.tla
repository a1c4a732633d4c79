---------------------------- MODULE ConsoleProofs ----------------------------
(***************************************************************************)
(* What a client or a dashboard is told, proved for every value of the     *)
(* constants: the worker panel (module Registry), the throughput chart     *)
(* (Throughput), the answer to a cancel, the pages of a list and the       *)
(* verdict of a load test (Requests, over the engine).  In the end the     *)
(* parts are put together as the run over MCConsole explores them.         *)
(***************************************************************************)
EXTENDS MCConsole, FeedProofs, StartupProofs, EngineQueueProofs, FiniteSetTheorems

-----------------------------------------------------------------------------
(* The worker panel. *)

LEMMA RegistryTypeInit == RegistryInit => RegistryTypeOK
BY RegistryAssumption DEF RegistryInit, RegistryTypeOK, Main, Down

LEMMA CappedRange == \A n \in Nat : Capped(n) \in 0..HeartbeatTTL
BY RegistryAssumption DEF Capped

LEMMA CommandEndsType ==
  ASSUME RegistryTypeOK, NEW i \in Fleet, CommandEnds(i)
  PROVE  RegistryTypeOK'
<1> USE RegistryAssumption DEF RegistryTypeOK
<1>1. Capped(spent[i] + IF waited[i] < HeartbeatEvery THEN HeartbeatEvery ELSE waited[i])
        \in 0..HeartbeatTTL
  BY CappedRange
<1>2. spent' \in [Fleet -> 0..HeartbeatTTL]
  BY <1>1 DEF CommandEnds
<1>3. command' \in [Fleet -> {"none", "sent", "stored"}] /\ waited' \in [Fleet -> 0..HeartbeatTTL]
  BY DEF CommandEnds
<1>4. lateSet' \subseteq Fleet
  BY DEF CommandEnds
<1> QED BY <1>2, <1>3, <1>4 DEF CommandEnds, historyVars

LEMMA RegistryTypeStep == RegistryTypeOK /\ [RegistryNext]_registryVars => RegistryTypeOK'
<1> SUFFICES ASSUME RegistryTypeOK, [RegistryNext]_registryVars PROVE RegistryTypeOK'
  OBVIOUS
<1> USE RegistryAssumption
        DEF RegistryTypeOK, Main, Down, loopVars, lateVars, historyVars
<1>1. CASE UNCHANGED registryVars
  BY <1>1 DEF registryVars
<1>2. CASE Second
  <2>1. \A i \in Fleet : Decay(ttl[i]) \in 0..HeartbeatTTL
    BY DEF Decay
  <2>2. ttl' \in [Fleet -> 0..HeartbeatTTL]
    BY <1>2, <2>1 DEF Second
  <2>3. \A i \in Fleet : beat[i] + 1 # HeartbeatEvery => beat[i] + 1 \in 0..(HeartbeatEvery - 1)
    OBVIOUS
  <2>4. \A i \in Fleet : (IF ~Beating(i) \/ Fires(i) THEN 0 ELSE beat[i] + 1)
                            \in 0..(HeartbeatEvery - 1)
    BY <2>3 DEF Fires
  <2>5. beat' \in [Fleet -> 0..(HeartbeatEvery - 1)]
    BY <1>2, <2>4 DEF Second
  <2>6. tick' \in [Fleet -> BOOLEAN] /\ command' \in [Fleet -> {"none", "sent", "stored"}]
    BY <1>2 DEF Second, Fires, Beating, Sending
  <2>7. \A i \in Fleet : (IF Sending(i) THEN Capped(waited[i] + 1) ELSE 0) \in 0..HeartbeatTTL
    BY CappedRange
  <2>8. waited' \in [Fleet -> 0..HeartbeatTTL]
    BY <1>2, <2>7 DEF Second
  <2> QED BY <1>2, <2>2, <2>5, <2>6, <2>8 DEF Second
<1>3. ASSUME NEW i \in Fleet, StartLoop(i) PROVE RegistryTypeOK'
  BY <1>3 DEF StartLoop
<1>4. ASSUME NEW i \in Fleet, SetKey(i) PROVE RegistryTypeOK'
  BY <1>4 DEF SetKey
<1>5. ASSUME NEW i \in Fleet, SetReturns(i) \/ SetFails(i) PROVE RegistryTypeOK'
  BY <1>5, CommandEndsType DEF SetReturns, SetFails
<1>6. ASSUME NEW i \in Fleet, NextBeat(i) PROVE RegistryTypeOK'
  BY <1>6 DEF NextBeat
<1>7. ASSUME NEW i \in Fleet, LateSet(i) \/ LateDel(i) PROVE RegistryTypeOK'
  <2>1. LateSet(i) => RegistryTypeOK'
    BY DEF LateSet
  <2>2. LateDel(i) => RegistryTypeOK'
    BY DEF LateDel
  <2> QED BY <1>7, <2>1, <2>2
<1>8. ASSUME NEW i \in Fleet, Signal(i) PROVE RegistryTypeOK'
  BY <1>8 DEF Signal, MainGoes
<1>9. ASSUME NEW i \in Fleet, EndStep(i) PROVE RegistryTypeOK'
  BY <1>9 DEF EndStep, CancelLoop, JoinLoop, Delete, Drained, MainGoes
<1>10. ASSUME NEW i \in Fleet, KillLoop(i) PROVE RegistryTypeOK'
  BY <1>10 DEF KillLoop
<1> QED
  BY <1>1, <1>2, <1>3, <1>4, <1>5, <1>6, <1>7, <1>8, <1>9, <1>10 DEF RegistryNext

(* A command of the loop is under way only while main() has not joined it.  *)
(* Unless a tick is waiting it was sent at the last tick.                  *)
SendingIsRecent ==
    \A i \in Fleet :
      /\ Sending(i) => main[i] \in {"up", "stopping", "cancelled"}
      /\ Beating(i) /\ Sending(i) /\ ~tick[i] => waited[i] <= beat[i]
      /\ Beating(i) /\ ~Sending(i) => waited[i] = 0

(* What is left of a key's time to live and what the heartbeats since the   *)
(* last executed Set have cost make up the whole of it.  Between two       *)
(* heartbeats the last one has been charged for up to the next tick.       *)
KeyIsRecent ==
    \A i \in Fleet \cap heard : Beating(i) =>
      /\ Sending(i) => HeartbeatTTL <= ttl[i] + spent[i] + waited[i]
      /\ ~Sending(i) /\ tick[i] => HeartbeatTTL <= ttl[i] + spent[i]
      /\ ~Sending(i) /\ ~tick[i] =>
           \/ spent[i] = HeartbeatTTL
           \/ /\ HeartbeatEvery <= spent[i]
              /\ HeartbeatTTL + HeartbeatEvery <= ttl[i] + spent[i] + beat[i]

(* After its Del an instance sends nothing more. *)
DeletedIsSilent ==
    \A i \in deleted : /\ main[i] \in {"draining", "exited", "killed"}
                       /\ ttl[i] = 0 \/ i \in revived

RegistryInv == RegistryTypeOK /\ SendingIsRecent /\ KeyIsRecent /\ DeletedIsSilent

LEMMA SendingIsRecentStep ==
  ASSUME RegistryInv, [RegistryNext]_registryVars
  PROVE  SendingIsRecent'
<1> USE RegistryAssumption
    DEF RegistryInv, RegistryTypeOK, SendingIsRecent, Sending, Beating,
        loopVars, lateVars, historyVars
<1>1. CASE UNCHANGED registryVars
  BY <1>1 DEF registryVars
<1>2. CASE Second
  <2> SUFFICES ASSUME NEW i \in Fleet
               PROVE  /\ Sending(i)' => main'[i] \in {"up", "stopping", "cancelled"}
                      /\ Beating(i)' /\ Sending(i)' /\ ~tick'[i] => waited'[i] <= beat'[i]
                      /\ Beating(i)' /\ ~Sending(i)' => waited'[i] = 0
    OBVIOUS
  <2>1. /\ main' = main
        /\ beat'[i] = IF ~Beating(i) \/ Fires(i) THEN 0 ELSE beat[i] + 1
        /\ tick'[i] <=> tick[i] \/ (Fires(i) /\ Sending(i))
        /\ command'[i] = IF Fires(i) /\ ~Sending(i) THEN "sent" ELSE command[i]
        /\ waited'[i] = IF Sending(i) THEN Capped(waited[i] + 1) ELSE 0
    BY <1>2 DEF Second
  <2>2. Capped(waited[i] + 1) <= waited[i] + 1
    BY DEF Capped
  <2>3. beat[i] \in Nat /\ waited[i] \in Nat /\ Capped(waited[i] + 1) \in Nat
    BY CappedRange
  <2>4. CASE Sending(i)
    BY <2>1, <2>2, <2>3, <2>4 DEF Fires
  <2>5. CASE ~Sending(i)
    BY <2>1, <2>3, <2>5 DEF Fires
  <2> QED BY <2>4, <2>5
<1>3. ASSUME NEW i \in Fleet, StartLoop(i) PROVE SendingIsRecent'
  BY <1>3 DEF StartLoop
<1>4. ASSUME NEW i \in Fleet, SetKey(i) PROVE SendingIsRecent'
  BY <1>4 DEF SetKey
<1>5. ASSUME NEW i \in Fleet, SetReturns(i) \/ SetFails(i) PROVE SendingIsRecent'
  BY <1>5 DEF SetReturns, SetFails, CommandEnds
<1>6. ASSUME NEW i \in Fleet, NextBeat(i) PROVE SendingIsRecent'
  BY <1>6 DEF NextBeat
<1>7. ASSUME NEW i \in Fleet, LateSet(i) \/ LateDel(i) PROVE SendingIsRecent'
  BY <1>7 DEF LateSet, LateDel
<1>8. ASSUME NEW i \in Fleet, Signal(i) \/ EndStep(i) PROVE SendingIsRecent'
  BY <1>8 DEF Signal, EndStep, CancelLoop, JoinLoop, Delete, Drained, MainGoes
<1>9. ASSUME NEW i \in Fleet, KillLoop(i) PROVE SendingIsRecent'
  BY <1>9 DEF KillLoop
<1> QED BY <1>1, <1>2, <1>3, <1>4, <1>5, <1>6, <1>7, <1>8, <1>9 DEF RegistryNext

(* KeyIsRecent for one instance. *)
Charged(i) ==
    Beating(i) /\ i \in heard =>
      /\ Sending(i) => HeartbeatTTL <= ttl[i] + spent[i] + waited[i]
      /\ ~Sending(i) /\ tick[i] => HeartbeatTTL <= ttl[i] + spent[i]
      /\ ~Sending(i) /\ ~tick[i] =>
           \/ spent[i] = HeartbeatTTL
           \/ /\ HeartbeatEvery <= spent[i]
              /\ HeartbeatTTL + HeartbeatEvery <= ttl[i] + spent[i] + beat[i]

LEMMA ChargedSecond ==
  ASSUME RegistryInv, Second, NEW i \in Fleet
  PROVE  Charged(i)'
<1>1. /\ main' = main /\ spent' = spent /\ heard' = heard
      /\ ttl'[i] = Decay(ttl[i])
      /\ beat'[i] = IF ~Beating(i) \/ Fires(i) THEN 0 ELSE beat[i] + 1
      /\ tick'[i] <=> tick[i] \/ (Fires(i) /\ Sending(i))
      /\ command'[i] = IF Fires(i) /\ ~Sending(i) THEN "sent" ELSE command[i]
      /\ waited'[i] = IF Sending(i) THEN Capped(waited[i] + 1) ELSE 0
      /\ ~(Beating(i) /\ tick[i] /\ ~Sending(i))
  BY DEF Second, RegistryInv, RegistryTypeOK, historyVars
<1>2. /\ beat[i] \in Nat /\ ttl[i] \in 0..HeartbeatTTL /\ waited[i] \in Nat /\ spent[i] \in Nat
      /\ tick[i] \in BOOLEAN
      /\ HeartbeatTTL \in Nat /\ HeartbeatEvery \in Nat
  BY RegistryAssumption DEF RegistryInv, RegistryTypeOK
<1>3. ttl'[i] + 1 >= ttl[i] /\ ttl'[i] \in Nat
  BY <1>1, <1>2 DEF Decay
<1>4. Charged(i)
  BY DEF RegistryInv, KeyIsRecent, Charged
<1>5. CASE Sending(i)
  <2>1. Sending(i)' /\ (Beating(i)' <=> Beating(i))
    BY <1>1, <1>5 DEF Sending, Beating
  <2>2. waited'[i] = HeartbeatTTL \/ waited'[i] = waited[i] + 1
    BY <1>1, <1>5, <1>2 DEF Capped
  <2> QED BY <1>1, <1>2, <1>3, <1>4, <1>5, <2>1, <2>2 DEF Charged
<1>6. CASE ~Sending(i) /\ Fires(i)
  <2>1. Sending(i)' /\ Beating(i) /\ ~tick[i] /\ beat[i] + 1 = HeartbeatEvery /\ waited'[i] = 0
    BY <1>1, <1>6 DEF Sending, Fires
  <2> QED BY <1>1, <1>2, <1>3, <1>4, <1>6, <2>1 DEF Charged
<1>7. CASE ~Sending(i) /\ ~Fires(i)
  <2>1. ~Sending(i)' /\ (Beating(i)' <=> Beating(i)) /\ (tick'[i] <=> tick[i])
    BY <1>1, <1>7 DEF Sending, Beating
  <2>2. Beating(i) => ~tick[i] /\ beat'[i] = beat[i] + 1
    BY <1>1, <1>7
  <2> QED BY <1>1, <1>2, <1>3, <1>4, <1>7, <2>1, <2>2 DEF Charged
<1> QED BY <1>5, <1>6, <1>7

LEMMA ChargedCommandEnds ==
  ASSUME RegistryInv, NEW i \in Fleet, Sending(i), CommandEnds(i)
  PROVE  Charged(i)'
<1>1. /\ main' = main /\ heard' = heard /\ ttl' = ttl /\ beat' = beat /\ tick' = tick
      /\ spent'[i] = Capped(spent[i] + IF waited[i] < HeartbeatEvery
                                       THEN HeartbeatEvery ELSE waited[i])
      /\ command'[i] = "none"
  BY DEF CommandEnds, RegistryInv, RegistryTypeOK, historyVars
<1>2. /\ beat[i] \in 0..(HeartbeatEvery - 1) /\ ttl[i] \in Nat
      /\ waited[i] \in Nat /\ spent[i] \in Nat /\ tick[i] \in BOOLEAN
      /\ HeartbeatTTL \in Nat /\ HeartbeatEvery \in Nat
  BY RegistryAssumption DEF RegistryInv, RegistryTypeOK
<1>3. Beating(i) /\ ~tick[i] => waited[i] <= beat[i]
  BY DEF RegistryInv, SendingIsRecent
<1>4. Beating(i) /\ i \in heard => HeartbeatTTL <= ttl[i] + spent[i] + waited[i]
  BY DEF RegistryInv, KeyIsRecent
<1>5. ~Sending(i)' /\ (Beating(i)' <=> Beating(i))
  BY <1>1 DEF Sending, Beating
<1>6. \/ spent'[i] = HeartbeatTTL
      \/ spent'[i] = spent[i] + IF waited[i] < HeartbeatEvery
                                THEN HeartbeatEvery ELSE waited[i]
  BY <1>1, <1>2 DEF Capped
<1>7. CASE spent'[i] = HeartbeatTTL
  BY <1>1, <1>2, <1>5, <1>7 DEF Charged
<1>8. CASE waited[i] < HeartbeatEvery /\ spent'[i] = spent[i] + HeartbeatEvery
  BY <1>1, <1>2, <1>3, <1>4, <1>5, <1>8 DEF Charged
<1>9. CASE ~(waited[i] < HeartbeatEvery) /\ spent'[i] = spent[i] + waited[i]
  BY <1>1, <1>2, <1>3, <1>4, <1>5, <1>9 DEF Charged
<1> QED BY <1>6, <1>7, <1>8, <1>9

LEMMA ChargedLate ==
  ASSUME RegistryInv, NEW i \in Fleet, NEW j \in Fleet, LateSet(j) \/ LateDel(j)
  PROVE  Charged(i)'
<1>1. /\ main' = main /\ command' = command /\ beat' = beat /\ tick' = tick
      /\ spent' = spent /\ waited' = waited
  BY DEF LateSet, LateDel, loopVars
<1>2. (Beating(i)' <=> Beating(i)) /\ (Sending(i)' <=> Sending(i))
  BY <1>1 DEF Beating, Sending
<1>3. /\ beat[i] \in Nat /\ ttl[i] \in Nat /\ waited[i] \in Nat /\ spent[i] \in Nat
      /\ HeartbeatTTL \in Nat /\ HeartbeatEvery \in Nat
  BY RegistryAssumption DEF RegistryInv, RegistryTypeOK
<1>4. Charged(i)
  BY DEF RegistryInv, KeyIsRecent, Charged
<1>5. CASE LateSet(j)
  <2>1. heard' = heard /\ ttl'[i] \in {ttl[i], HeartbeatTTL} /\ (i = j => ttl'[i] = HeartbeatTTL)
    BY <1>5 DEF LateSet, RegistryInv, RegistryTypeOK
  <2>2. CASE ttl'[i] = ttl[i]
    BY <1>1, <1>2, <1>4, <2>1, <2>2 DEF Charged
  <2>3. CASE ttl'[i] = HeartbeatTTL
    BY <1>1, <1>2, <1>3, <1>4, <2>1, <2>3 DEF Charged
  <2> QED BY <2>1, <2>2, <2>3
<1>6. CASE LateDel(j)
  <2>1. heard' = heard \ {j} /\ (i # j => ttl'[i] = ttl[i])
    BY <1>6 DEF LateDel, RegistryInv, RegistryTypeOK
  <2> QED BY <1>1, <1>2, <1>4, <2>1 DEF Charged
<1> QED BY <1>5, <1>6

LEMMA KeyIsRecentStep ==
  ASSUME RegistryInv, [RegistryNext]_registryVars
  PROVE  KeyIsRecent'
<1> SUFFICES ASSUME NEW i \in Fleet PROVE Charged(i)'
  BY DEF KeyIsRecent, Charged
<1>0. Charged(i)
  BY DEF RegistryInv, KeyIsRecent, Charged
<1>1. CASE /\ main'[i] = main[i] /\ command'[i] = command[i] /\ ttl'[i] = ttl[i]
           /\ beat'[i] = beat[i] /\ tick'[i] = tick[i]
           /\ spent'[i] = spent[i] /\ waited'[i] = waited[i]
           /\ (i \in heard' <=> i \in heard)
  BY <1>0, <1>1 DEF Charged, Beating, Sending
<1>2. CASE UNCHANGED registryVars
  BY <1>1, <1>2 DEF registryVars, loopVars, historyVars
<1>3. ASSUME Second PROVE Charged(i)'
  BY <1>3, ChargedSecond
<1>4. ASSUME NEW j \in Fleet, i # j,
             \/ StartLoop(j) \/ NextBeat(j) \/ SetKey(j) \/ SetReturns(j) \/ SetFails(j)
             \/ Signal(j) \/ EndStep(j) \/ KillLoop(j)
      PROVE  Charged(i)'
  BY <1>1, <1>4
     DEF StartLoop, NextBeat, SetKey, SetReturns, SetFails, CommandEnds, Signal, EndStep,
         CancelLoop, JoinLoop, Delete, Drained, MainGoes, KillLoop, RegistryInv,
         RegistryTypeOK, loopVars, historyVars
<1>5. ASSUME StartLoop(i) PROVE Charged(i)'
  BY <1>5 DEF StartLoop, Charged
<1>6. ASSUME NextBeat(i) PROVE Charged(i)'
  <2>1. /\ Beating(i) /\ tick[i] /\ ~Sending(i) /\ Sending(i)'
        /\ main' = main /\ ttl' = ttl /\ spent' = spent /\ waited' = waited /\ heard' = heard
    BY <1>6 DEF NextBeat, RegistryInv, RegistryTypeOK, Sending, historyVars
  <2>2. waited[i] = 0 /\ ttl[i] \in Nat /\ spent[i] \in Nat
    BY <2>1 DEF RegistryInv, RegistryTypeOK, SendingIsRecent
  <2> QED BY <1>0, <2>1, <2>2 DEF Charged, Beating
<1>7. ASSUME SetKey(i) PROVE Charged(i)'
  <2>1. Sending(i)' /\ ttl'[i] = HeartbeatTTL /\ waited'[i] = 0 /\ spent'[i] = 0
    BY <1>7 DEF SetKey, RegistryInv, RegistryTypeOK, Sending
  <2> QED BY <2>1, RegistryAssumption DEF Charged
<1>8. ASSUME SetReturns(i) \/ SetFails(i) PROVE Charged(i)'
  BY <1>8, ChargedCommandEnds DEF SetReturns, SetFails, Sending
<1>9. ASSUME NEW j \in Fleet, LateSet(j) \/ LateDel(j) PROVE Charged(i)'
  BY <1>9, ChargedLate
<1>10. ASSUME Signal(i) PROVE Charged(i)'
  BY <1>0, <1>10 DEF Signal, MainGoes, Charged, Beating, Sending, loopVars, historyVars
<1>11. ASSUME EndStep(i) \/ KillLoop(i) PROVE Charged(i)'
  <2>1. main'[i] \notin {"up", "stopping"}
    BY <1>11 DEF EndStep, CancelLoop, JoinLoop, Delete, Drained, MainGoes, KillLoop,
                 RegistryInv, RegistryTypeOK
  <2> QED BY <2>1 DEF Charged, Beating
<1> QED
  BY <1>2, <1>3, <1>4, <1>5, <1>6, <1>7, <1>8, <1>9, <1>10, <1>11 DEF RegistryNext

LEMMA DeletedIsSilentStep ==
  ASSUME RegistryInv, [RegistryNext]_registryVars
  PROVE  DeletedIsSilent'
<1> USE RegistryAssumption
    DEF RegistryInv, RegistryTypeOK, SendingIsRecent, DeletedIsSilent, Sending,
        loopVars, lateVars, historyVars
<1>1. CASE UNCHANGED registryVars
  BY <1>1 DEF registryVars
<1>2. CASE Second
  BY <1>2 DEF Second, Decay
<1>3. ASSUME NEW i \in Fleet, StartLoop(i) PROVE DeletedIsSilent'
  BY <1>3 DEF StartLoop
<1>4. ASSUME NEW i \in Fleet, SetKey(i) PROVE DeletedIsSilent'
  BY <1>4 DEF SetKey
<1>5. ASSUME NEW i \in Fleet, SetReturns(i) \/ SetFails(i) PROVE DeletedIsSilent'
  BY <1>5 DEF SetReturns, SetFails, CommandEnds
<1>6. ASSUME NEW i \in Fleet, NextBeat(i) PROVE DeletedIsSilent'
  BY <1>6 DEF NextBeat
<1>7. ASSUME NEW i \in Fleet, LateSet(i) PROVE DeletedIsSilent'
  BY <1>7 DEF LateSet
<1>8. ASSUME NEW i \in Fleet, LateDel(i) PROVE DeletedIsSilent'
  BY <1>8 DEF LateDel
<1>9. ASSUME NEW i \in Fleet, Signal(i) \/ EndStep(i) PROVE DeletedIsSilent'
  BY <1>9 DEF Signal, EndStep, CancelLoop, JoinLoop, Delete, Drained, MainGoes
<1>10. ASSUME NEW i \in Fleet, KillLoop(i) PROVE DeletedIsSilent'
  BY <1>10 DEF KillLoop
<1> QED
  BY <1>1, <1>2, <1>3, <1>4, <1>5, <1>6, <1>7, <1>8, <1>9, <1>10 DEF RegistryNext

LEMMA RegistryInvariance == RegistrySpec => []RegistryInv
<1>1. RegistryInit => RegistryInv
  <2> SUFFICES ASSUME RegistryInit PROVE RegistryInv
    OBVIOUS
  <2>1. RegistryTypeOK
    BY RegistryTypeInit
  <2> QED
    BY <2>1 DEF RegistryInit, RegistryInv, SendingIsRecent, KeyIsRecent, DeletedIsSilent,
                Beating, Sending
<1>2. RegistryInv /\ [RegistryNext]_registryVars => RegistryInv'
  BY RegistryTypeStep, SendingIsRecentStep, KeyIsRecentStep, DeletedIsSilentStep
     DEF RegistryInv
<1> QED BY <1>1, <1>2, PTL DEF RegistrySpec

(* A live instance stays on the worker panel (heartbeatTTL, heartbeatEvery, *)
(* publish) for as long as its heartbeats since the last executed Set have *)
(* cost less than the time to live: a heartbeat costs heartbeatEvery, or   *)
(* the time its command took if that is longer, and the one under way what *)
(* it has taken so far.  That is for any period and time to live, however  *)
(* long a command takes, and whatever Redis executes late; after a late    *)
(* Del it holds again from the next executed Set on.                       *)
THEOREM LiveStaysListed == RegistrySpec => []LiveIsListed
<1>1. RegistryInv => LiveIsListed
  <2> SUFFICES ASSUME RegistryInv, NEW i \in Fleet, Beating(i), i \in heard,
                      spent[i] + waited[i] < HeartbeatTTL
               PROVE  ttl[i] > 0
    BY DEF LiveIsListed, Listed
  <2>1. /\ beat[i] \in 0..(HeartbeatEvery - 1) /\ ttl[i] \in Nat /\ tick[i] \in BOOLEAN
        /\ spent[i] \in Nat /\ waited[i] \in Nat
        /\ HeartbeatTTL \in Nat /\ HeartbeatEvery \in Nat
    BY RegistryAssumption DEF RegistryInv, RegistryTypeOK
  <2>2. Charged(i)
    BY DEF RegistryInv, KeyIsRecent, Charged
  <2> QED BY <2>1, <2>2 DEF Charged
<1> QED BY <1>1, RegistryInvariance, PTL

(* registry.Stop "removes this instance from the panel immediately": no     *)
(* heartbeat of the loop follows its Del, because wg.Wait() comes first.   *)
(* A deleted instance that is on the panel again is there because Redis    *)
(* executed, after the Del, a Set that the loop had given up before it.    *)
THEOREM StoppedLeavesPanel == RegistrySpec => []StoppedIsUnlisted
<1>1. RegistryInv => StoppedIsUnlisted
  BY DEF RegistryInv, DeletedIsSilent, StoppedIsUnlisted, Listed
<1> QED BY <1>1, RegistryInvariance, PTL

-----------------------------------------------------------------------------
(* The throughput chart. *)

LEMMA BucketFacts ==
  ASSUME NEW s \in Nat
  PROVE  /\ BucketOf(s) \in Int
         /\ BucketOf(s) <= s
         /\ s < BucketOf(s) + bucketSeconds
<1>1. \A n \in Nat, b \in Nat \ {0} : /\ (n \div b) * b \in Int
                                      /\ (n \div b) * b <= n
                                      /\ n < (n \div b) * b + b
  OBVIOUS
<1> QED BY <1>1, ThroughputAssumption DEF BucketOf

(* No bucket of the timeline begins more than Window - Skew seconds before *)
(* the timeline is laid out.                                               *)
LEMMA FirstBucket ==
  ASSUME NEW s \in Nat, NEW b \in LastBuckets(s)
  PROVE  b \in Int /\ s + Skew - Window <= b
<1>1. PICK i \in 0..(bucketCount - 1) : b = BucketOf(s) - i * bucketSeconds
  BY DEF LastBuckets
<1>2. /\ bucketSeconds \in Nat /\ bucketCount \in Nat /\ i \in Nat
      /\ i + 1 <= bucketCount
      /\ Window \in Nat /\ Skew \in Nat
      /\ bucketCount * bucketSeconds + Skew <= Window + 1
  BY <1>1, ThroughputAssumption
<1>3. \A m, n, k \in Nat : m <= n => m * k <= n * k
  OBVIOUS
<1>4. (i + 1) * bucketSeconds <= bucketCount * bucketSeconds
  BY <1>2, <1>3
<1>5. (i + 1) * bucketSeconds = i * bucketSeconds + bucketSeconds
  BY <1>2
<1>6. i * bucketSeconds \in Nat /\ bucketCount * bucketSeconds \in Nat
  BY <1>2
<1> QED BY <1>1, <1>2, <1>4, <1>5, <1>6, BucketFacts

(* The rows of ts that MySQL's WHERE lets through at its second now. *)
RecentOf(ts, now) == {t \in ts : stamp[t] >= now - Window}

(* The answer of the SELECT counts, by bucket, the rows that were           *)
(* committed then and were recent, by a clock at most Skew ahead.          *)
SelectedIsExact ==
    chart.pc = "selected" =>
      \E now \in Int :
        /\ now <= clock + Skew
        /\ chart.byBucket =
             [b \in {BucketOf(stamp[t]) : t \in RecentOf(chart.before, now)} |->
                CountIn(RecentOf(chart.before, now), b)]

ChartInv == ThroughputTypeOK /\ SelectedIsExact /\ ChartIsComplete

(* A completed_at that was taken stays, so the counts of its rows do.      *)
LEMMA CountsStay ==
  ASSUME ThroughputTypeOK, NEW t \in Finished, TakeTime(t), NEW ts \in SUBSET DOMAIN stamp
  PROVE  /\ \A b : CountIn(ts, b)' = CountIn(ts, b)
         /\ \A now : RecentOf(ts, now)' = RecentOf(ts, now)
         /\ \A now : {BucketOf(stamp[u]) : u \in RecentOf(ts, now)}'
                       = {BucketOf(stamp[u]) : u \in RecentOf(ts, now)}
<1>1. \A u \in ts : stamp'[u] = stamp[u]
  BY DEF TakeTime
<1>2. ASSUME NEW b PROVE CountIn(ts, b)' = CountIn(ts, b)
  <2>1. {u \in ts : BucketOf(stamp'[u]) = b} = {u \in ts : BucketOf(stamp[u]) = b}
    BY <1>1
  <2> QED BY <2>1 DEF CountIn, BucketOf
<1>3. ASSUME NEW now PROVE RecentOf(ts, now)' = RecentOf(ts, now)
  BY <1>1 DEF RecentOf
<1>4. ASSUME NEW now
      PROVE  {BucketOf(stamp[u]) : u \in RecentOf(ts, now)}'
               = {BucketOf(stamp[u]) : u \in RecentOf(ts, now)}
  BY <1>1, <1>3 DEF RecentOf, BucketOf
<1> QED BY <1>2, <1>3, <1>4

LEMMA ThroughputTypeStep == ThroughputTypeOK /\ [ThroughputNext]_chartVars => ThroughputTypeOK'
<1> SUFFICES ASSUME ThroughputTypeOK, [ThroughputNext]_chartVars PROVE ThroughputTypeOK'
  OBVIOUS
<1> USE ThroughputAssumption DEF ThroughputTypeOK
<1>1. CASE UNCHANGED chartVars
  BY <1>1 DEF chartVars
<1>2. CASE Clock
  BY <1>2 DEF Clock
<1>3. ASSUME NEW t \in Finished, TakeTime(t) \/ Write(t) PROVE ThroughputTypeOK'
  BY <1>3 DEF TakeTime, Write
<1>4. CASE SelectBuckets
  BY <1>4 DEF SelectBuckets
<1>5. CASE FillBuckets
  BY <1>5 DEF FillBuckets
<1> QED BY <1>1, <1>2, <1>3, <1>4, <1>5 DEF ThroughputNext

(* A bound on MySQL's clock by the program's survives that clock's ticks.    *)
LEMMA AddIsMonotone ==
  ASSUME NEW a \in Int, NEW b \in Int, NEW c \in Int, NEW d \in Int, a <= b + d, b <= c
  PROVE  a <= c + d
OBVIOUS

LEMMA SelectedIsExactStep ==
  ASSUME ChartInv, [ThroughputNext]_chartVars
  PROVE  SelectedIsExact'
<1>0. ThroughputTypeOK /\ clock \in Int /\ Skew \in Int
  BY ThroughputAssumption DEF ChartInv, ThroughputTypeOK
<1> PICK ts : ts = chart.before
  OBVIOUS
<1>1. CASE chart.pc = "selected" /\ chart' = chart /\ clock' \in Int /\ clock <= clock'
           /\ (stamp' = stamp \/ \E t \in Finished : TakeTime(t))
  <2>1. ts \in SUBSET DOMAIN stamp
    BY <1>0, <1>1 DEF ThroughputTypeOK
  <2>2. PICK now \in Int :
          /\ now <= clock + Skew
          /\ chart.byBucket = [b \in {BucketOf(stamp[t]) : t \in RecentOf(ts, now)} |->
                                 CountIn(RecentOf(ts, now), b)]
    BY <1>1 DEF ChartInv, SelectedIsExact
  <2>3. now <= clock' + Skew
    <3>1. clock' \in Int /\ clock <= clock'
      BY <1>1
    <3> QED BY <1>0, <2>2, <3>1, AddIsMonotone
  <2>4. PICK rs : rs = RecentOf(ts, now)
    OBVIOUS
  <2>5. rs \in SUBSET DOMAIN stamp
    BY <2>1, <2>4 DEF RecentOf
  <2>6. /\ RecentOf(ts, now)' = rs
        /\ {BucketOf(stamp[t]) : t \in rs}' = {BucketOf(stamp[t]) : t \in rs}
        /\ \A b : CountIn(rs, b)' = CountIn(rs, b)
    <3>1. CASE stamp' = stamp
      BY <2>4, <3>1 DEF RecentOf, BucketOf, CountIn
    <3>2. ASSUME NEW t \in Finished, TakeTime(t)
          PROVE  /\ RecentOf(ts, now)' = rs
                 /\ {BucketOf(stamp[u]) : u \in rs}' = {BucketOf(stamp[u]) : u \in rs}
                 /\ \A b : CountIn(rs, b)' = CountIn(rs, b)
      <4>1. RecentOf(ts, now)' = rs /\ \A b : CountIn(rs, b)' = CountIn(rs, b)
        BY <1>0, <2>1, <2>4, <2>5, <3>2, CountsStay
      <4>2. \A u \in rs : stamp'[u] = stamp[u]
        BY <2>5, <3>2 DEF TakeTime
      <4> QED BY <4>1, <4>2
    <3> QED BY <1>1, <3>1, <3>2
  <2>7. chart'.byBucket = [b \in {BucketOf(stamp'[t]) : t \in rs} |-> CountIn(rs, b)']
    BY <1>1, <2>2, <2>4, <2>6
  <2>8. ts = chart'.before
    BY <1>1
  <2> QED BY <2>3, <2>6, <2>7, <2>8 DEF SelectedIsExact
<1>2. CASE SelectBuckets
  <2>1. PICK now \in (clock - Skew)..(clock + Skew) :
          chart' = [pc       |-> "selected",
                    byBucket |-> [b \in {BucketOf(stamp[t]) : t \in Recent(now)} |->
                                    CountIn(Recent(now), b)],
                    before   |-> rows]
    BY <1>2 DEF SelectBuckets
  <2>2. now \in Int /\ now <= clock' + Skew
    BY <1>0, <1>2, <2>1 DEF SelectBuckets
  <2>3. stamp' = stamp /\ chart'.before = rows
    BY <1>2, <2>1 DEF SelectBuckets
  <2>4. PICK rs : rs = Recent(now)
    OBVIOUS
  <2>5. RecentOf(chart.before, now)' = rs
    BY <2>3, <2>4 DEF RecentOf, Recent
  <2>6. chart'.byBucket = [b \in {BucketOf(stamp'[t]) : t \in rs} |-> CountIn(rs, b)']
    BY <2>1, <2>3, <2>4 DEF CountIn, BucketOf
  <2> QED BY <2>2, <2>5, <2>6 DEF SelectedIsExact
<1>3. CASE chart'.pc # "selected"
  BY <1>3 DEF SelectedIsExact
<1>4. FillBuckets => chart'.pc # "selected"
  BY DEF FillBuckets
<1>5. CASE UNCHANGED <<clock, stamp, chart>>
  BY <1>0, <1>1, <1>3, <1>5
<1>6. CASE Clock
  BY <1>0, <1>1, <1>3, <1>6 DEF Clock
<1>7. ASSUME NEW t \in Finished, TakeTime(t) PROVE SelectedIsExact'
  BY <1>0, <1>1, <1>3, <1>7 DEF TakeTime
<1>8. ASSUME NEW t \in Finished, Write(t) PROVE UNCHANGED <<clock, stamp, chart>>
  BY <1>8 DEF Write
<1>9. UNCHANGED chartVars => UNCHANGED <<clock, stamp, chart>>
  BY DEF chartVars
<1> QED BY <1>2, <1>3, <1>4, <1>5, <1>6, <1>7, <1>8, <1>9 DEF ThroughputNext

(* FillBuckets lays out no bucket that the SELECT has cut.                 *)
LEMMA FillIsComplete ==
  ASSUME ChartInv, FillBuckets
  PROVE  ChartIsComplete'
<1> PICK ts : ts = chart.before
  OBVIOUS
<1>0. /\ ThroughputTypeOK /\ chart.pc = "selected" /\ clock \in Nat /\ Skew \in Nat
      /\ \A t \in ts : stamp[t] \in Nat
  BY ThroughputAssumption DEF ChartInv, ThroughputTypeOK, FillBuckets
<1>1. PICK now \in Int :
        /\ now <= clock + Skew
        /\ chart.byBucket = [b \in {BucketOf(stamp[t]) : t \in RecentOf(ts, now)} |->
                               CountIn(RecentOf(ts, now), b)]
  BY <1>0 DEF ChartInv, SelectedIsExact
<1>2. /\ DOMAIN chart'.points = LastBuckets(clock)
      /\ \A b \in LastBuckets(clock) :
           chart'.points[b] = IF b \in DOMAIN chart.byBucket THEN chart.byBucket[b] ELSE 0
      /\ chart'.before = ts /\ stamp' = stamp
  BY DEF FillBuckets
<1> SUFFICES ASSUME NEW b \in LastBuckets(clock)
             PROVE  chart'.points[b] = CountIn(ts, b)
  BY <1>2 DEF ChartIsComplete, CountIn, BucketOf
<1>3. ASSUME NEW t \in ts, BucketOf(stamp[t]) = b PROVE t \in RecentOf(ts, now)
  <2>1. b <= stamp[t]
    BY <1>0, <1>3, BucketFacts
  <2>2. b \in Int /\ clock + Skew - Window <= b
    BY <1>0, FirstBucket
  <2>3. stamp[t] >= now - Window
    BY <1>0, <1>1, <2>1, <2>2, ThroughputAssumption
  <2> QED BY <2>3 DEF RecentOf
<1>4. {t \in RecentOf(ts, now) : BucketOf(stamp[t]) = b} = {t \in ts : BucketOf(stamp[t]) = b}
  BY <1>3 DEF RecentOf
<1>5. CountIn(RecentOf(ts, now), b) = CountIn(ts, b)
  BY <1>4 DEF CountIn
<1>6. CASE b \in DOMAIN chart.byBucket
  BY <1>1, <1>2, <1>5, <1>6
<1>7. CASE b \notin DOMAIN chart.byBucket
  <2>1. {t \in RecentOf(ts, now) : BucketOf(stamp[t]) = b} = {}
    BY <1>1, <1>7
  <2>2. CountIn(ts, b) = 0
    BY <1>4, <2>1, FS_EmptySet DEF CountIn
  <2> QED BY <1>2, <1>7, <2>2
<1> QED BY <1>6, <1>7

LEMMA ChartIsCompleteStep ==
  ASSUME ChartInv, [ThroughputNext]_chartVars
  PROVE  ChartIsComplete'
<1>0. ThroughputTypeOK /\ ChartIsComplete
  BY DEF ChartInv
<1>1. CASE UNCHANGED <<stamp, chart>>
  BY <1>0, <1>1 DEF ChartIsComplete, CountIn, BucketOf
<1>2. ASSUME NEW t \in Finished, TakeTime(t) PROVE ChartIsComplete'
  <2> PICK ts : ts = chart.before
    OBVIOUS
  <2>1. chart' = chart
    BY <1>2 DEF TakeTime
  <2>2. chart.pc = "drawn" => ts \in SUBSET DOMAIN stamp
    BY <1>0 DEF ThroughputTypeOK
  <2>3. chart.pc = "drawn" => \A b : CountIn(ts, b)' = CountIn(ts, b)
    BY <1>0, <1>2, <2>2, CountsStay
  <2> QED BY <1>0, <2>1, <2>3 DEF ChartIsComplete
<1>3. CASE SelectBuckets
  BY <1>3 DEF SelectBuckets, ChartIsComplete
<1>4. CASE Clock \/ (\E t \in Finished : Write(t)) \/ UNCHANGED chartVars
  BY <1>1, <1>4 DEF Clock, Write, chartVars
<1> QED BY <1>2, <1>3, <1>4, FillIsComplete DEF ThroughputNext

(* "completions-over-time for the last 5 minutes" (GetThroughput): for any  *)
(* bucket length and count, any window that is long enough and any clock of *)
(* MySQL within Skew, no bucket of the chart is cut, whatever completes     *)
(* while the chart is drawn.                                               *)
THEOREM ChartIsWhole == ThroughputSpec => []ChartIsComplete
<1>1. ThroughputInit => ChartInv
  BY ThroughputAssumption
     DEF ThroughputInit, ChartInv, ThroughputTypeOK, SelectedIsExact, ChartIsComplete
<1>2. ChartInv /\ [ThroughputNext]_chartVars => ChartInv'
  BY ThroughputTypeStep, SelectedIsExactStep, ChartIsCompleteStep DEF ChartInv
<1>3. ChartInv => ChartIsComplete
  BY DEF ChartInv
<1> QED BY <1>1, <1>2, <1>3, PTL DEF ThroughputSpec

-----------------------------------------------------------------------------
(* Requests around the engine: their statements keep ClaimInv too. *)

(* A statement of a request that touches the tables only. *)
RequestWrite ==
    /\ UNCHANGED engineRest
    /\ TypeOK' /\ nextId <= nextId'
    /\ \A t \in TaskId : RowKept(t) \/ RowCreated(t) \/ RowDeleted(t) \/ RowCancelled(t)

(* The memory of the instances is as it was. *)
LEMMA RequestKeepsMemory ==
  ASSUME UNCHANGED engineRest
  PROVE  /\ UNCHANGED <<inst, pass, queue, worker, sweep, reclaimed>>
         /\ \A i \in Instances : \A s : /\ Claims(i, s)' <=> Claims(i, s)
                                        /\ Holding(i, s)' <=> Holding(i, s)
         /\ \A i \in Instances : \A t : Holds(i, t)' <=> Holds(i, t)
<1>1. UNCHANGED <<inst, pass, queue, worker, sweep, reclaimed>>
  BY DEF engineRest, procVars
<1> QED
  BY <1>1 DEF Claims, Holding, Holds, Waits, InPass, InQueue, AtWorker

(* What such a statement does to a row is something a step of the engine   *)
(* may do.                                                                 *)
LEMMA RequestMoves ==
  ASSUME RequestWrite, NEW t \in TaskId
  PROVE  RowMoves(t)
BY DEF RequestWrite, RowMoves

LEMMA ClaimsAreLockedRequest ==
  ASSUME ClaimInv, RequestWrite
  PROVE  ClaimsAreLocked'
<1> SUFFICES ASSUME NEW i \in Instances, NEW s \in Snapshot, Claims(i, s)'
             PROVE  /\ s.id \in DOMAIN tasks'
                    /\ tasks'[s.id].status = "pending"
                    /\ s.retry_count = tasks'[s.id].retry_count
                    /\ s.max_retries = tasks'[s.id].max_retries
                    /\ \A j \in Instances :
                         pass'[j].pc = "claiming" /\ pass'[j].task.id = s.id => j = i
  BY DEF ClaimsAreLocked, SnapshotOf, Snapshot
<1>1. s.id \in TaskId /\ pass' = pass /\ Claims(i, s)
  BY RequestKeepsMemory DEF Snapshot, RequestWrite
<1>2. RowKept(s.id)
  BY <1>1, RequestMoves, ClaimedRowKept
<1>3. /\ s.id \in DOMAIN tasks
      /\ tasks[s.id].status = "pending"
      /\ s.retry_count = tasks[s.id].retry_count
      /\ s.max_retries = tasks[s.id].max_retries
      /\ \A j \in Instances : pass[j].pc = "claiming" /\ pass[j].task.id = s.id => j = i
  BY <1>1 DEF ClaimInv, ClaimsAreLocked, SnapshotOf
<1> QED BY <1>1, <1>2, <1>3 DEF RowKept

LEMMA CopiesAreInBudgetRequest ==
  ASSUME ClaimInv, RequestWrite
  PROVE  CopiesAreInBudget'
<1> SUFFICES ASSUME NEW i \in Instances, NEW s \in Snapshot,
                    Claims(i, s)' \/ Holding(i, s)' \/ s \in sweep'[i]
             PROVE  /\ s.id < nextId'
                    /\ s.retry_count <= s.max_retries
                    /\ s.id \in DOMAIN tasks' => s.max_retries = tasks'[s.id].max_retries
  BY DEF CopiesAreInBudget
<1>0. TypeOK /\ TypeOK' /\ s.id \in TaskId /\ nextId <= nextId'
  BY DEF ClaimInv, Snapshot, RequestWrite
<1>1. Claims(i, s) \/ Holding(i, s) \/ s \in sweep[i]
  BY RequestKeepsMemory DEF RequestWrite
<1>2. /\ s.id < nextId
      /\ s.retry_count <= s.max_retries
      /\ s.id \in DOMAIN tasks => s.max_retries = tasks[s.id].max_retries
  BY <1>1 DEF ClaimInv, CopiesAreInBudget
<1>3. s.id < nextId'
  <2>1. nextId \in Nat /\ nextId' \in Nat /\ s.id \in Nat
    BY <1>0, TaskServiceAssumption DEF TypeOK, DBTypeOK, TaskId
  <2> QED BY <1>0, <1>2, <2>1
<1> QED BY <1>0, <1>2, <1>3, RequestMoves, BudgetKept

LEMMA RowsAreInBudgetRequest ==
  ASSUME ClaimInv, RequestWrite
  PROVE  RowsAreInBudget'
<1> SUFFICES ASSUME NEW t \in DOMAIN tasks'
             PROVE  tasks'[t].retry_count <= tasks'[t].max_retries
  BY DEF RowsAreInBudget
<1>0. TypeOK' /\ t \in TaskId
  BY DEF RequestWrite, TypeOK, DBTypeOK
<1>1. t \in DOMAIN tasks => tasks[t].retry_count <= tasks[t].max_retries
  BY DEF ClaimInv, RowsAreInBudget
<1>2. CASE RowCreated(t)
  <2>1. tasks'[t].max_retries \in Nat
    BY <1>0, LimitsAreNat DEF TypeOK, DBTypeOK, Row
  <2> QED BY <1>2, <2>1 DEF RowCreated
<1>3. CASE RowKept(t) \/ RowCancelled(t)
  BY <1>1, <1>3 DEF RowKept, RowCancelled, RowWritten
<1> QED BY <1>0, <1>2, <1>3 DEF RequestWrite, RowDeleted

LEMMA HeldRowsAreCurrentRequest ==
  ASSUME ClaimInv, RequestWrite
  PROVE  HeldRowsAreCurrent'
<1> SUFFICES ASSUME NEW i \in Instances, NEW s \in Snapshot, Holding(i, s)',
                    s.id \notin reclaimed'
             PROVE  /\ dlq'[s.id] = 0
                    /\ s.id \in DOMAIN tasks' =>
                         /\ s.retry_count = tasks'[s.id].retry_count
                         /\ \/ tasks'[s.id].status = "running" /\ tasks'[s.id].processed_by = i
                            \/ tasks'[s.id].status = "cancelled"
  BY DEF HeldRowsAreCurrent
<1>0. TypeOK /\ s.id \in TaskId /\ s.id \notin reclaimed /\ Holding(i, s)
  BY RequestKeepsMemory DEF ClaimInv, Snapshot, RequestWrite
<1>1. /\ dlq[s.id] = 0
      /\ s.id < nextId
      /\ s.id \in DOMAIN tasks =>
           /\ s.retry_count = tasks[s.id].retry_count
           /\ \/ tasks[s.id].status = "running" /\ tasks[s.id].processed_by = i
              \/ tasks[s.id].status = "cancelled"
  BY <1>0 DEF ClaimInv, HeldRowsAreCurrent, CopiesAreInBudget
<1>2. ~RowCreated(s.id)
  BY <1>0, <1>1, RowTypes DEF RowCreated
<1>3. RowKept(s.id) \/ RowDeleted(s.id) \/ RowCancelled(s.id)
  BY <1>0, <1>2 DEF RequestWrite
<1> QED
  BY <1>1, <1>3 DEF RowKept, RowDeleted, RowCancelled, RowWritten

LEMMA FreshIdsAreCleanRequest ==
  ASSUME ClaimInv, RequestWrite
  PROVE  FreshIdsAreClean'
<1> SUFFICES ASSUME NEW t \in TaskId, nextId' <= t
             PROVE  dlq'[t] = 0 /\ t \notin reclaimed'
  BY DEF FreshIdsAreClean
<1>1. nextId <= t
  <2>1. nextId \in Nat /\ nextId' \in Nat /\ t \in Nat /\ nextId <= nextId'
    BY TaskServiceAssumption DEF ClaimInv, RequestWrite, TypeOK, DBTypeOK, TaskId
  <2> QED BY <2>1
<1>2. dlq[t] = 0 /\ t \notin reclaimed
  BY <1>1 DEF ClaimInv, FreshIdsAreClean
<1> QED
  BY <1>2, RequestKeepsMemory DEF RequestWrite, RowKept, RowCreated, RowDeleted, RowCancelled

LEMMA DeadLetterOnceRequest ==
  ASSUME ClaimInv, RequestWrite
  PROVE  DeadLetterOnce'
<1> DEFINE Agree(t) ==
             /\ dlq[t] <= 1
             /\ t \in DOMAIN tasks => (dlq[t] = 1 <=> tasks[t].status = "failed")
<1> SUFFICES ASSUME NEW t \in TaskId \ reclaimed' PROVE Agree(t)'
  BY DEF DeadLetterOnce
<1>0. TypeOK /\ t \in TaskId \ reclaimed
  BY RequestKeepsMemory DEF ClaimInv, RequestWrite
<1>1. Agree(t)
  BY <1>0 DEF ClaimInv, DeadLetterOnce
<1>2. RowKept(t) => Agree(t)'
  BY <1>1 DEF RowKept
<1>3. RowCreated(t) => Agree(t)'
  <2>1. RowCreated(t) => dlq[t] = 0
    BY <1>0 DEF RowCreated, ClaimInv, FreshIdsAreClean
  <2> QED BY <2>1 DEF RowCreated
<1>4. RowDeleted(t) => Agree(t)'
  BY DEF RowDeleted
<1>5. RowCancelled(t) => Agree(t)'
  <2>1. RowCancelled(t) => dlq[t] = 0
    BY <1>0, LiveIsClean DEF RowCancelled, RowWritten
  <2> QED BY <2>1 DEF RowCancelled, RowWritten
<1> QED BY <1>0, <1>2, <1>3, <1>4, <1>5 DEF RequestWrite

LEMMA CompletedAtRequest ==
  ASSUME ClaimInv, RequestWrite
  PROVE  CompletedAtIffTerminal'
<1> DEFINE Ended(t) == tasks[t].completed_at = "set" <=> tasks[t].status \in Terminal
<1> SUFFICES ASSUME NEW t \in DOMAIN tasks' PROVE Ended(t)'
  BY DEF CompletedAtIffTerminal
<1>1. t \in TaskId
  BY DEF RequestWrite, TypeOK, DBTypeOK
<1>2. t \in DOMAIN tasks => Ended(t)
  BY DEF ClaimInv, CompletedAtIffTerminal
<1>3. RowKept(t) => Ended(t)'
  BY <1>2 DEF RowKept
<1>4. RowCreated(t) \/ RowDeleted(t) \/ RowCancelled(t) => Ended(t)'
  BY DEF RowCreated, RowDeleted, RowCancelled, RowWritten, Terminal, Null
<1> QED BY <1>1, <1>3, <1>4 DEF RequestWrite

LEMMA ClaimInvRequest ==
  ASSUME ClaimInv, RequestWrite
  PROVE  ClaimInv'
<1>1. DownHoldsNothing' /\ ExclusiveClaim'
  BY RequestKeepsMemory
     DEF ClaimInv, RequestWrite, DownHoldsNothing, ExclusiveClaim, InPass, InQueue, AtWorker
<1>2. TypeOK'
  BY DEF RequestWrite
<1> QED
  BY <1>1, <1>2, ClaimsAreLockedRequest, CopiesAreInBudgetRequest, RowsAreInBudgetRequest,
     HeldRowsAreCurrentRequest, FreshIdsAreCleanRequest, DeadLetterOnceRequest,
     CompletedAtRequest DEF ClaimInv

(* The statements of requests are such writes. *)
LEMMA CancelUpdateWrites ==
  ASSUME ClaimInv, NEW c \in Clients, NEW t \in TaskId, CancelUpdate(c, t), Guarded(c, t)
  PROVE  RequestWrite /\ RowCancelled(t) /\ t \in DOMAIN tasks
<1>1. CancelTask(c, t) /\ t \notin Locked /\ UNCHANGED engineRest
  BY DEF CancelUpdate
<1>2. DBTypeOK
  BY DEF ClaimInv, TypeOK
<1>3. RowCancelled(t) /\ t \in DOMAIN tasks
  BY <1>1, <1>2, CancelTaskFacts DEF RowCancelled, RowWritten, RowWrite, SameTask
<1>4. \A u \in TaskId : u # t => RowKept(u)
  BY <1>1, <1>2, CancelTaskFacts DEF RowKept, RowWrite
<1>5. TypeOK' /\ nextId <= nextId'
  <2>1. DBTypeOK' /\ nextId' = nextId /\ nextId \in Nat
    BY <1>1, <1>2, CancelTaskFacts, TaskServiceAssumption DEF RowWrite, DBTypeOK
  <2> QED BY <1>1, <2>1 DEF ClaimInv, TypeOK, engineRest, procVars
<1> QED BY <1>1, <1>3, <1>4, <1>5 DEF RequestWrite

LEMMA BenchClearWrites ==
  ASSUME ClaimInv, BenchClear
  PROVE  RequestWrite
<1>1. ClearAllData /\ Locked = {} /\ UNCHANGED engineRest
  BY DEF BenchClear
<1>2. DBTypeOK
  BY DEF ClaimInv, TypeOK
<1>3. \A u \in TaskId : RowDeleted(u)
  BY <1>1, <1>2, ClearAllDataFacts DEF RowDeleted
<1>4. TypeOK' /\ nextId <= nextId'
  <2>1. DBTypeOK' /\ nextId' = nextId /\ nextId \in Nat
    BY <1>1, <1>2, ClearAllDataFacts, TaskServiceAssumption DEF ClearAllData, DBTypeOK
  <2> QED BY <1>1, <2>1 DEF ClaimInv, TypeOK, engineRest, procVars
<1> QED BY <1>1, <1>3, <1>4 DEF RequestWrite

LEMMA BenchInjectWrites ==
  ASSUME ClaimInv, BenchInject
  PROVE  RequestWrite
<1>1. UNCHANGED engineRest
  BY DEF BenchInject
<1>2. DBTypeOK
  BY DEF ClaimInv, TypeOK
<1>3. PICK ins \in [1..BatchSize -> Input] : AddDemoTasks(ins)
  BY DEF BenchInject
<1>4. ins \in Seq(Input) /\ Len(ins) \in Nat
  BY RequestsAssumption, BatchIsSeq
<1>5. Insert(ins)
  BY <1>3 DEF AddDemoTasks
<1>6. /\ DBTypeOK' /\ dlq' = dlq
      /\ nextId' = nextId + Len(ins)
      /\ \A u \in DOMAIN tasks : u \in DOMAIN tasks' /\ tasks'[u] = tasks[u]
      /\ \A u \in DOMAIN tasks' \ DOMAIN tasks : RowCreated(u)
  BY <1>2, <1>4, <1>5, InsertFacts DEF RowCreated
<1>7. \A u \in TaskId : RowKept(u) \/ RowCreated(u)
  BY <1>6 DEF RowKept
<1>8. TypeOK' /\ nextId <= nextId'
  <2>1. nextId \in Nat
    BY <1>2, TaskServiceAssumption DEF DBTypeOK
  <2>2. nextId <= nextId'
    BY <1>4, <1>6, <2>1
  <2> QED BY <1>1, <1>6, <2>2 DEF ClaimInv, TypeOK, engineRest, procVars
<1> QED BY <1>1, <1>7, <1>8 DEF RequestWrite

(* Every step of a request leaves the engine alone, writes as above, or is *)
(* a step of the engine.                                                   *)
LEMMA RequestCases ==
  ASSUME ClaimInv, [RequestsNext]_<<vars, requestVars>>
  PROVE  [Next]_vars \/ RequestWrite
<1>1. EngineRuns => Next
  BY DEF EngineRuns
<1>2. ASSUME NEW c \in Clients, NEW t \in TaskId, CancelUpdate(c, t)
      PROVE  UNCHANGED vars \/ RequestWrite
  <2>1. CASE Guarded(c, t)
    BY <1>2, <2>1, CancelUpdateWrites
  <2>2. CASE ~Guarded(c, t)
    BY <1>2, <2>2 DEF CancelUpdate, vars, engineRest
  <2> QED BY <2>1, <2>2
<1>3. CancelRead \/ CancelReadFails \/ ListRequest => UNCHANGED vars
  BY DEF CancelRead, CancelReadFails, ListRequest, StartWalk, ListCount, ListFind,
         vars, engineRest
<1>4. BenchClear \/ BenchInject => RequestWrite
  BY BenchClearWrites, BenchInjectWrites
<1>5. BenchClearFails \/ BenchInjectFails \/ BenchPoll \/ BenchTimeout => UNCHANGED vars
  BY DEF BenchClearFails, BenchInjectFails, BenchRequest, BenchPoll, BenchTimeout,
         vars, engineRest
<1>6. UNCHANGED <<vars, requestVars>> => UNCHANGED vars
  OBVIOUS
<1> QED
  BY <1>1, <1>2, <1>3, <1>4, <1>5, <1>6 DEF RequestsNext, CancelRequest, BenchStep

-----------------------------------------------------------------------------
(* The answer to a cancel. *)

CallType ==
    call \in [pc : {"idle"}]
             \cup [pc : {"updated"}, client : Clients, id : TaskId,
                   copied : BOOLEAN, hit : BOOLEAN]
             \cup [pc : {"answered"}, id : TaskId, copied : BOOLEAN, answer : Answers]

(* Task t is past being run: nobody has a copy of it, and its row says     *)
(* "cancelled", or has been deleted for good.                              *)
OutOfReach(t) ==
    /\ t < nextId
    /\ ~Copied(t)
    /\ t \in DOMAIN tasks => tasks[t].status = "cancelled"

(* Between the UPDATE of a cancel and the SELECT of its answer, a task that *)
(* was cancelled while nobody had a copy of it stays out of reach.         *)
UpdatedIsOutOfReach ==
    call.pc = "updated" /\ call.hit /\ ~call.copied => OutOfReach(call.id)

CallInv == ClaimInv /\ CallType /\ UpdatedIsOutOfReach /\ UnheldCancelAnswer

(* No step of the engine brings such a task back ... *)
LEMMA OutOfReachStep ==
  ASSUME ClaimInv, [Next]_vars, NEW t \in TaskId, OutOfReach(t)
  PROVE  OutOfReach(t)'
<1>0. TypeOK /\ TypeOK' /\ ExclusiveClaim
  BY TypeStep DEF ClaimInv
<1>1. t < nextId'
  BY <1>0, NextIdGrows, RowTypes DEF OutOfReach
<1>2. ~Copied(t)'
  BY NoNewCopy DEF OutOfReach
<1>3. ASSUME t \in DOMAIN tasks' PROVE tasks'[t].status = "cancelled"
  <2>1. t \in DOMAIN tasks
    BY <1>0, <1>3, RowStep, BudgetKept DEF OutOfReach
  <2>2. StatusAfter(t) \in {"cancelled", "deleted"}
    BY <2>1, UnheldCancelStep DEF OutOfReach
  <2>3. tasks'[t].status \in Status
    BY <1>0, <1>3 DEF TypeOK, DBTypeOK, Row
  <2> QED BY <1>3, <2>2, <2>3 DEF StatusAfter, Status, Terminal
<1> QED BY <1>1, <1>2, <1>3 DEF OutOfReach

(* ... and no statement of a request. *)
LEMMA OutOfReachRequest ==
  ASSUME ClaimInv, RequestWrite, NEW t \in TaskId, OutOfReach(t)
  PROVE  OutOfReach(t)'
<1>1. t \in Nat /\ nextId \in Nat /\ nextId' \in Nat /\ nextId <= nextId'
  BY TaskServiceAssumption DEF ClaimInv, RequestWrite, TypeOK, DBTypeOK, TaskId
<1>2. t < nextId' /\ ~RowCreated(t)
  BY <1>1 DEF OutOfReach, RowCreated
<1>3. ~Copied(t)'
  BY RequestKeepsMemory DEF OutOfReach, RequestWrite, Copied
<1>4. t \in DOMAIN tasks' => tasks'[t].status = "cancelled"
  BY <1>2 DEF RequestWrite, OutOfReach, RowKept, RowDeleted, RowCancelled, RowWritten
<1> QED BY <1>2, <1>3, <1>4 DEF OutOfReach

LEMMA CallInvInit == RequestsInit => CallInv
BY ClaimInvInit
   DEF RequestsInit, CallInv, CallType, UpdatedIsOutOfReach, UnheldCancelAnswer

(* The steps that leave the request alone. *)
LEMMA CallInvRest ==
  ASSUME CallInv, ClaimInv', UNCHANGED call, [Next]_vars \/ RequestWrite
  PROVE  CallInv'
<1>2. CallType' /\ UnheldCancelAnswer'
  BY DEF CallInv, CallType, UnheldCancelAnswer
<1>3. ASSUME call.pc = "updated", call.hit, ~call.copied
      PROVE  OutOfReach(call.id)'
  <2>1. call.id \in TaskId
    BY <1>3 DEF CallInv, CallType
  <2>2. OutOfReach(call.id)
    BY <1>3 DEF CallInv, UpdatedIsOutOfReach
  <2>3. PICK t \in TaskId : t = call.id
    BY <2>1
  <2>4. OutOfReach(t)'
    BY <2>2, <2>3, OutOfReachStep, OutOfReachRequest DEF CallInv
  <2> QED BY <2>3, <2>4 DEF OutOfReach
<1>4. UpdatedIsOutOfReach'
  BY <1>3 DEF UpdatedIsOutOfReach
<1> QED BY <1>2, <1>4 DEF CallInv

LEMMA CallInvStep == CallInv /\ [RequestsNext]_<<vars, requestVars>> => CallInv'
<1> SUFFICES ASSUME CallInv, [RequestsNext]_<<vars, requestVars>> PROVE CallInv'
  OBVIOUS
<1>1. [Next]_vars \/ RequestWrite
  BY RequestCases DEF CallInv
<1>2. ClaimInv'
  BY <1>1, ClaimInvStep, ClaimInvRequest DEF CallInv
<1>3. CASE UNCHANGED call
  BY <1>1, <1>2, <1>3, CallInvRest
<1>4. ASSUME NEW c \in Clients, NEW t \in TaskId, CancelUpdate(c, t) PROVE CallInv'
  <2>1. /\ call' = [pc |-> "updated", client |-> c, id |-> t,
                    copied |-> Copied(t), hit |-> Guarded(c, t)]
        /\ Copied(t) \in BOOLEAN /\ Guarded(c, t) \in BOOLEAN
    BY <1>4 DEF CancelUpdate, Copied, Guarded
  <2>2. CallType' /\ UnheldCancelAnswer'
    BY <2>1 DEF CallType, UnheldCancelAnswer
  <2>3. ASSUME Guarded(c, t), ~Copied(t) PROVE OutOfReach(t)'
    <3>1. RequestWrite /\ RowCancelled(t) /\ t \in DOMAIN tasks
      BY <1>4, <2>3, CancelUpdateWrites DEF CallInv
    <3>2. t < nextId'
      <4>1. t < nextId /\ t \in Nat /\ nextId \in Nat /\ nextId' \in Nat /\ nextId <= nextId'
        BY <3>1, TaskServiceAssumption
           DEF CallInv, ClaimInv, RequestWrite, TypeOK, DBTypeOK, TaskId
      <4> QED BY <4>1
    <3>3. ~Copied(t)'
      BY <2>3, <3>1, RequestKeepsMemory DEF Copied, RequestWrite
    <3> QED BY <3>1, <3>2, <3>3 DEF OutOfReach, RowCancelled, RowWritten
  <2>4. UpdatedIsOutOfReach'
    BY <2>1, <2>3 DEF UpdatedIsOutOfReach, OutOfReach
  <2> QED BY <1>2, <2>2, <2>4 DEF CallInv
<1>5. CASE CancelRead \/ CancelReadFails
  <2>1. /\ call.pc = "updated" /\ call'.pc = "answered"
        /\ UNCHANGED <<tasks, reclaimed>>
        /\ call'.id = call.id /\ call'.copied = call.copied
        /\ \/ call'.answer = CancelAnswer(call.client, call.id, call.hit)
           \/ call'.answer = "500"
        /\ call' = [pc |-> "answered", id |-> call.id, copied |-> call.copied,
                    answer |-> call'.answer]
    BY <1>5 DEF CancelRead, CancelReadFails, dbVars, engineRest
  <2>2. call.id \in TaskId /\ call.copied \in BOOLEAN
    BY <2>1 DEF CallInv, CallType
  <2>3. CancelAnswer(call.client, call.id, call.hit) \in Answers
    BY DEF CancelAnswer, Answers, OwnRow, CallInv, ClaimInv, TypeOK, DBTypeOK, Row
  <2>4. CallType'
    BY <2>1, <2>2, <2>3 DEF CallType, Answers
  <2>5. UnheldCancelAnswer'
    <3>1. call.hit /\ ~call.copied =>
            CancelAnswer(call.client, call.id, call.hit) \in {"cancelled", "404"}
      BY <2>1 DEF CallInv, UpdatedIsOutOfReach, OutOfReach, CancelAnswer, OwnRow
    <3>2. ~call.hit => CancelAnswer(call.client, call.id, call.hit) \in {"409", "404"}
      BY DEF CancelAnswer
    <3> QED BY <2>1, <3>1, <3>2 DEF UnheldCancelAnswer
  <2>6. UpdatedIsOutOfReach'
    BY <2>1 DEF UpdatedIsOutOfReach
  <2> QED BY <1>2, <2>4, <2>5, <2>6 DEF CallInv
<1>6. EngineRuns \/ ListRequest \/ BenchStep => UNCHANGED call
  BY DEF EngineRuns, requestVars, ListRequest, StartWalk, ListCount, ListFind, BenchStep,
         BenchClear, BenchClearFails, BenchInject, BenchInjectFails, BenchPoll, BenchTimeout,
         BenchRequest
<1>7. UNCHANGED <<vars, requestVars>> => UNCHANGED call
  BY DEF requestVars
<1> QED
  BY <1>3, <1>4, <1>5, <1>6, <1>7 DEF RequestsNext, CancelRequest

(* A cancel of a task of which no instance and no sweep has a copy is      *)
(* answered with "cancelled" or an error, although CancelTask reads the    *)
(* row back in a second statement, for any number of instances, whatever   *)
(* else is requested, and also if watchdogs have failed the task before.   *)
THEOREM CancelsAreAnswered == RequestsSpec => []UnheldCancelAnswer
<1>1. RequestsSpec => []CallInv
  BY CallInvInit, CallInvStep, PTL DEF RequestsSpec
<1>2. CallInv => UnheldCancelAnswer
  BY DEF CallInv
<1> QED BY <1>1, <1>2, PTL

-----------------------------------------------------------------------------
(* The columns a row keeps. *)

(* The row is still there, with the columns no statement sets. *)
RowStays(t) == t \in DOMAIN tasks' /\ SameTask(t)

(* The table was emptied, or it has all its rows and some new ones. *)
TableGoesOn ==
    /\ nextId <= nextId'
    /\ \/ DOMAIN tasks' = {}
       \/ \A t \in DOMAIN tasks : RowStays(t)
    /\ \A u \in DOMAIN tasks' \ DOMAIN tasks : nextId <= u

LEMMA RowWriteGoesOn ==
  ASSUME DBTypeOK, NEW t, RowWrite(t)
  PROVE  TableGoesOn
<1>1. nextId \in Nat
  BY TaskServiceAssumption DEF DBTypeOK
<1> QED BY <1>1 DEF RowWrite, TableGoesOn, RowStays

LEMMA SameTablesGoOn ==
  ASSUME DBTypeOK, UNCHANGED dbVars
  PROVE  TableGoesOn
<1>1. nextId \in Nat
  BY TaskServiceAssumption DEF DBTypeOK
<1> QED BY <1>1 DEF dbVars, TableGoesOn, RowStays, SameTask

LEMMA InsertGoesOn ==
  ASSUME DBTypeOK, NEW ins \in Seq(Input), Insert(ins)
  PROVE  TableGoesOn
<1>1. nextId \in Nat /\ Len(ins) \in Nat
  BY TaskServiceAssumption DEF DBTypeOK
<1>2. /\ nextId' = nextId + Len(ins)
      /\ \A u \in DOMAIN tasks : u \in DOMAIN tasks' /\ tasks'[u] = tasks[u]
      /\ \A u \in DOMAIN tasks' \ DOMAIN tasks : nextId <= u
  BY InsertFacts
<1> QED BY <1>1, <1>2 DEF TableGoesOn, RowStays, SameTask

LEMMA ClearGoesOn ==
  ASSUME DBTypeOK, ClearAllData
  PROVE  TableGoesOn
<1>1. nextId \in Nat /\ nextId' = nextId
  BY TaskServiceAssumption DEF DBTypeOK, ClearAllData
<1> QED BY <1>1, ClearAllDataFacts DEF TableGoesOn

(* Every step of the engine ... *)
LEMMA EngineGoesOn ==
  ASSUME TypeOK, [Next]_vars
  PROVE  TableGoesOn
<1>0. DBTypeOK
  BY DEF TypeOK
<1>1. Create \/ CreateBatch \/ SeedDemo => TableGoesOn
  BY <1>0, SubmissionFacts, InsertGoesOn
<1>2. ClearDemo => TableGoesOn
  BY <1>0, ClearGoesOn DEF ClearDemo
<1>3. ASSUME NEW c \in Clients, NEW u \in TaskId, Cancel(c, u) PROVE TableGoesOn
  BY <1>0, <1>3, CancelTaskFacts, RowWriteGoesOn DEF Cancel
<1>4. ASSUME NEW i \in Instances, DequeueCommit(i) \/ DequeueCommitUnacknowledged(i)
      PROVE  TableGoesOn
  BY <1>0, <1>4, HeldTypes, ClaimFacts, RowWriteGoesOn
     DEF DequeueCommit, DequeueCommitUnacknowledged
<1>5. ASSUME NEW i \in Instances,
             \/ Dequeue(i) \/ DequeueRollsBack(i) \/ Submit(i) \/ SweepFind(i) \/ RecoverFails(i)
             \/ Crash(i) \/ BootUnrecovered(i) \/ Shutdown(i) \/ Stopping(i)
      PROVE  TableGoesOn
  <2>1. UNCHANGED dbVars
    BY <1>5 DEF Dequeue, DequeueRollsBack, Submit, SweepFind, RecoverFails, Crash,
                BootUnrecovered, Shutdown, Stopping, ClosePool, Exit
  <2> QED BY <1>0, <2>1, SameTablesGoOn
<1>6. ASSUME NEW i \in Instances, NEW w \in Workers,
             Receive(i, w) \/ StartUnmarked(i, w) \/ RecordFails(i, w)
      PROVE  TableGoesOn
  <2>1. UNCHANGED dbVars
    BY <1>6 DEF Receive, StartUnmarked, RecordFails
  <2> QED BY <1>0, <2>1, SameTablesGoOn
<1>7. ASSUME NEW i \in Instances, NEW w \in Workers,
             Start(i, w) \/ Complete(i, w) \/ Fail(i, w)
      PROVE  TableGoesOn
  <2>1. worker[i][w].task \in Snapshot /\ worker[i][w].task.id \in TaskId
    BY <1>7, HeldTypes DEF Start, Complete, Fail
  <2>2. Start(i, w) => TableGoesOn
    BY <1>0, <2>1, MarkStartedFacts, RowWriteGoesOn DEF Start
  <2>3. Complete(i, w) => TableGoesOn
    BY <1>0, <2>1, CompleteTaskFacts, RowWriteGoesOn DEF Complete
  <2>4. Fail(i, w) => TableGoesOn
    BY <1>0, <2>1, FailTaskFacts, RowWriteGoesOn DEF Fail
  <2> QED BY <1>7, <2>2, <2>3, <2>4
<1>8. ASSUME NEW u \in TaskId, TimeoutElapses(u) PROVE TableGoesOn
  BY <1>0, <1>8, TimeoutFacts, RowWriteGoesOn
<1>9. ASSUME NEW i \in Instances, SweepFail(i) PROVE TableGoesOn
  BY <1>0, <1>9, HeldTypes, FailTaskFacts, RowWriteGoesOn DEF SweepFail
<1>10. ASSUME NEW i \in Instances, Boot(i) PROVE TableGoesOn
  <2>1. nextId \in Nat
    BY <1>0, TaskServiceAssumption DEF DBTypeOK
  <2> QED BY <1>0, <1>10, <2>1, RequeueFacts DEF Boot, TableGoesOn, RowStays
<1>11. CASE UNCHANGED vars
  BY <1>0, <1>11, SameTablesGoOn DEF vars
<1> QED
  BY <1>1, <1>2, <1>3, <1>4, <1>5, <1>6, <1>7, <1>8, <1>9, <1>10, <1>11
     DEF Next, Api, SchedulerStep, WorkerStep, WatchdogStep, Faults

(* ... and every statement of a request leaves such a table. *)
LEMMA RequestsGoOn ==
  ASSUME TypeOK, [RequestsNext]_<<vars, requestVars>>
  PROVE  TableGoesOn
<1>0. DBTypeOK
  BY DEF TypeOK
<1>1. EngineRuns => TableGoesOn
  BY EngineGoesOn DEF EngineRuns
<1>2. ASSUME NEW c \in Clients, NEW t \in TaskId, CancelUpdate(c, t)
      PROVE  TableGoesOn
  BY <1>0, <1>2, CancelTaskFacts, RowWriteGoesOn, SameTablesGoOn DEF CancelUpdate
<1>3. CancelRead \/ CancelReadFails \/ ListRequest => TableGoesOn
  BY <1>0, SameTablesGoOn
     DEF CancelRead, CancelReadFails, ListRequest, StartWalk, ListCount, ListFind
<1>4. BenchClear => TableGoesOn
  BY <1>0, ClearGoesOn DEF BenchClear
<1>5. BenchInject => TableGoesOn
  <2>1. \A ins \in [1..BatchSize -> Input] : ins \in Seq(Input)
    BY RequestsAssumption, BatchIsSeq
  <2> QED BY <1>0, <2>1, InsertGoesOn DEF BenchInject, AddDemoTasks
<1>6. BenchClearFails \/ BenchInjectFails \/ BenchPoll \/ BenchTimeout => TableGoesOn
  BY <1>0, SameTablesGoOn
     DEF BenchClearFails, BenchInjectFails, BenchRequest, BenchPoll, BenchTimeout
<1>7. UNCHANGED <<vars, requestVars>> => TableGoesOn
  BY <1>0, SameTablesGoOn DEF vars
<1> QED
  BY <1>1, <1>2, <1>3, <1>4, <1>5, <1>6, <1>7 DEF RequestsNext, CancelRequest, BenchStep

-----------------------------------------------------------------------------
(* The order of a list. *)

(* A query whose pages do not depend on a column that changes. *)
Plain(f) == f.status = Unset /\ SortColumn(f) # "status"

StableColumns == {"id", "created_at", "priority"}

NoTies(f) == \A a, b \in DOMAIN tasks :
               a # b => Value(a, SortColumn(f)) # Value(b, SortColumn(f))

(* The rows that the list shows before row r. *)
Before(f, r) == {a \in Matching(f) : a # r /\ Sorted(f, a, r)}

LEMMA PlainColumn ==
  ASSUME NEW f \in Filters, Plain(f)
  PROVE  SortColumn(f) \in StableColumns
BY RequestsAssumption DEF Plain, SortColumn, StableColumns

LEMMA ValueType ==
  ASSUME DBTypeOK, NEW col \in StableColumns, NEW t \in DOMAIN tasks
  PROVE  Value(t, col) \in Nat
<1>1. t \in Nat /\ tasks[t] \in Row
  BY TaskServiceAssumption DEF DBTypeOK, TaskId
<1>2. tasks[t].priority \in Nat /\ tasks[t].created_at \in Nat
  <2>1. tasks[t].priority \in Priorities /\ tasks[t].created_at \in CreatedAt
    BY <1>1 DEF Row
  <2>2. Priorities \subseteq Nat /\ CreatedAt \subseteq Nat
    BY TaskServiceAssumption
  <2> QED BY <2>1, <2>2
<1>3. CASE col = "id"
  BY <1>1, <1>3 DEF Value
<1>4. CASE col = "created_at"
  BY <1>2, <1>4 DEF Value
<1>5. CASE col = "priority"
  BY <1>2, <1>5 DEF Value
<1> QED BY <1>3, <1>4, <1>5 DEF StableColumns

LEMMA ValueStays ==
  ASSUME NEW col \in StableColumns, NEW t \in DOMAIN tasks, RowStays(t)
  PROVE  Value(t, col)' = Value(t, col)
<1>1. CASE col = "id"
  BY <1>1 DEF Value
<1>2. CASE col = "created_at"
  BY <1>2 DEF Value, RowStays, SameTask
<1>3. CASE col = "priority"
  BY <1>3 DEF Value, RowStays, SameTask
<1> QED BY <1>1, <1>2, <1>3 DEF StableColumns

LEMMA MatchingStays ==
  ASSUME NEW f, Plain(f), NEW t \in DOMAIN tasks, RowStays(t)
  PROVE  t \in Matching(f)' <=> t \in Matching(f)
BY DEF Matching, Plain, RowStays, SameTask

LEMMA BeforeIsFinite ==
  ASSUME DBTypeOK, NEW f, NEW r
  PROVE  /\ IsFiniteSet(Matching(f)) /\ Cardinality(Matching(f)) \in Nat
         /\ IsFiniteSet(Before(f, r)) /\ Cardinality(Before(f, r)) \in Nat
         /\ r \in Matching(f) => Cardinality(Before(f, r)) < Cardinality(Matching(f))
<1>1. IsFiniteSet(TaskId)
  BY FS_Interval, TaskServiceAssumption DEF TaskId
<1>2. Matching(f) \in SUBSET TaskId
  BY DEF Matching, DBTypeOK
<1>3. IsFiniteSet(Matching(f)) /\ Cardinality(Matching(f)) \in Nat
  BY <1>1, <1>2, FS_Subset, FS_CardinalityType
<1>4. Before(f, r) \in SUBSET Matching(f) /\ r \notin Before(f, r)
  BY DEF Before
<1>5. /\ IsFiniteSet(Before(f, r)) /\ Cardinality(Before(f, r)) \in Nat
      /\ Cardinality(Before(f, r)) <= Cardinality(Matching(f))
      /\ Cardinality(Before(f, r)) = Cardinality(Matching(f)) => Before(f, r) = Matching(f)
  BY <1>3, <1>4, FS_Subset, FS_CardinalityType
<1>6. r \in Matching(f) => Cardinality(Before(f, r)) < Cardinality(Matching(f))
  BY <1>3, <1>4, <1>5
<1> QED BY <1>3, <1>5, <1>6

(* While a row is in the table, the rows before it stay before it, wherever *)
(* in the order the new rows come.                                         *)
LEMMA BeforeGrows ==
  ASSUME DBTypeOK, DBTypeOK', TableGoesOn,
         NEW f \in Filters, Plain(f), NEW r \in DOMAIN tasks, r \in DOMAIN tasks'
  PROVE  /\ r \in Matching(f)' <=> r \in Matching(f)
         /\ NoTies(f)' => NoTies(f)
         /\ Cardinality(Before(f, r)) <= Cardinality(Before(f, r)')
<1> PICK col \in StableColumns : col = SortColumn(f)
  BY PlainColumn
<1>1. \A t \in DOMAIN tasks : RowStays(t)
  BY DEF TableGoesOn
<1>2. \A t \in DOMAIN tasks : /\ t \in DOMAIN tasks'
                              /\ Value(t, col)' = Value(t, col)
                              /\ t \in Matching(f)' <=> t \in Matching(f)
  BY <1>1, ValueStays, MatchingStays DEF RowStays
<1>3. NoTies(f)' => NoTies(f)
  BY <1>2 DEF NoTies
<1>4. \A a \in DOMAIN tasks : a \in Before(f, r)' <=> a \in Before(f, r)
  BY <1>2 DEF Before, Sorted
<1>5. Before(f, r) \subseteq DOMAIN tasks /\ Before(f, r)' \subseteq DOMAIN tasks'
  BY DEF Before, Matching
<1>6. Cardinality(Before(f, r)) <= Cardinality(Before(f, r)')
  <2>1. IsFiniteSet(Before(f, r)')
    <3>1. Before(f, r)' \in SUBSET TaskId
      BY <1>5 DEF DBTypeOK
    <3>2. IsFiniteSet(TaskId)
      BY FS_Interval, TaskServiceAssumption DEF TaskId
    <3> QED BY <3>1, <3>2, FS_Subset
  <2>2. Before(f, r) \in SUBSET (Before(f, r)')
    BY <1>4, <1>5
  <2> QED BY <2>1, <2>2, FS_Subset
<1> QED BY <1>2, <1>3, <1>6

-----------------------------------------------------------------------------
(* The pages of a list. *)

LEMMA PageSizeType ==
  ASSUME NEW f \in Filters
  PROVE  PageSize(f) \in Nat \ {0}
<1>1. f.page_size \in Nat
  BY RequestsAssumption
<1> QED BY <1>1, RequestsAssumption DEF PageSize

LEMMA PageProduct ==
  ASSUME NEW n \in Nat \ {0}, NEW size \in Nat \ {0}
  PROVE  /\ (n - 1) * size \in Nat /\ n * size \in Nat
         /\ (n - 1) * size + size = n * size
         /\ (n + 1 - 1) * size = n * size
OBVIOUS

(* Behind the last page there is nothing that was counted. *)
LEMMA LastPage ==
  ASSUME NEW total \in Nat, NEW size \in Nat \ {0}, NEW n \in Nat \ {0},
         ~(n < TotalPages(total, size))
  PROVE  total <= n * size
<1> DEFINE q == (total + size - 1) \div size
<1>1. q \in Nat /\ total + size - 1 < q * size + size
  OBVIOUS
<1>2. q <= n
  BY <1>1 DEF TotalPages
<1>3. \A a, b, c \in Nat : a <= b => a * c <= b * c
  OBVIOUS
<1>4. q * size <= n * size /\ q * size \in Nat /\ n * size \in Nat
  BY <1>1, <1>2, <1>3
<1> HIDE DEF q
<1> QED BY <1>1, <1>4

(* The first n of some rows are the rows before any that is left out. *)
LEMMA FirstRowsFacts ==
  ASSUME DBTypeOK, NEW f \in Filters, Plain(f), NoTies(f),
         NEW ts \in SUBSET Matching(f), NEW n \in Nat, NEW p \in FirstRows(f, ts, n),
         NEW r \in ts
  PROVE  /\ p \subseteq ts /\ IsFiniteSet(p) /\ Cardinality(p) \in Nat
         /\ r \notin p => Cardinality(p) = n /\ p \subseteq Before(f, r)
         /\ r \in p => Cardinality(p) <= n /\ Before(f, r) \cap ts \subseteq p
<1> PICK col \in StableColumns : col = SortColumn(f)
  BY PlainColumn
<1>1. /\ p \subseteq ts
      /\ Cardinality(p) = IF n < Cardinality(ts) THEN n ELSE Cardinality(ts)
      /\ \A a \in p, b \in ts \ p : Sorted(f, a, b)
  BY DEF FirstRows
<1>2. IsFiniteSet(ts) /\ Cardinality(ts) \in Nat
  BY BeforeIsFinite, FS_Subset, FS_CardinalityType
<1>3. /\ IsFiniteSet(p) /\ Cardinality(p) \in Nat
      /\ Cardinality(ts) = Cardinality(p) => p = ts
  BY <1>1, <1>2, FS_Subset, FS_CardinalityType
<1>4. ASSUME r \notin p PROVE Cardinality(p) = n /\ p \subseteq Before(f, r)
  <2>1. Cardinality(p) # Cardinality(ts)
    BY <1>3, <1>4
  <2>2. Cardinality(p) = n
    BY <1>1, <2>1
  <2>3. p \subseteq Before(f, r)
    BY <1>1, <1>4 DEF Before
  <2> QED BY <2>2, <2>3
<1>5. ASSUME r \in p PROVE Cardinality(p) <= n /\ Before(f, r) \cap ts \subseteq p
  <2>1. Cardinality(p) <= n
    BY <1>1, <1>2
  <2>2. ASSUME NEW a \in ts \ p, a \in Before(f, r) PROVE FALSE
    <3>1. a # r /\ Sorted(f, a, r) /\ Sorted(f, r, a)
      BY <1>1, <1>5, <2>2 DEF Before
    <3>2. a \in DOMAIN tasks /\ r \in DOMAIN tasks
      BY DEF Matching
    <3>3. Value(a, col) \in Nat /\ Value(r, col) \in Nat
      BY <3>2, ValueType
    <3>4. Value(a, col) <= Value(r, col) /\ Value(r, col) <= Value(a, col)
      BY <3>1 DEF Sorted
    <3>5. Value(a, col) = Value(r, col)
      BY <3>3, <3>4
    <3> QED BY <3>1, <3>2, <3>5 DEF NoTies
  <2> QED BY <2>1, <2>2
<1> QED BY <1>1, <1>3, <1>4, <1>5

(* A row that has as many rows before it as the earlier pages have, and is *)
(* not on the page, has as many as the pages up to this one have.          *)
LEMMA PageFacts ==
  ASSUME DBTypeOK, NEW f \in Filters, Plain(f), NoTies(f), NEW r \in Matching(f),
         NEW n \in Nat, NEW size \in Nat,
         NEW skipped \in FirstRows(f, Matching(f), n),
         NEW page \in FirstRows(f, Matching(f) \ skipped, size),
         r \notin page, n <= Cardinality(Before(f, r))
  PROVE  n + size <= Cardinality(Before(f, r))
<1>0. IsFiniteSet(Before(f, r)) /\ Cardinality(Before(f, r)) \in Nat /\ r \notin Before(f, r)
  BY BeforeIsFinite DEF Before
<1>1. /\ skipped \subseteq Matching(f) /\ IsFiniteSet(skipped) /\ Cardinality(skipped) \in Nat
      /\ r \notin skipped => Cardinality(skipped) = n /\ skipped \subseteq Before(f, r)
      /\ r \in skipped => /\ Cardinality(skipped) <= n
                          /\ Before(f, r) \cap Matching(f) \subseteq skipped
  BY FirstRowsFacts
<1>2. r \notin skipped
  <2>1. SUFFICES ASSUME r \in skipped PROVE FALSE
    OBVIOUS
  <2>2. Before(f, r) \in SUBSET skipped
    BY <1>1, <2>1 DEF Before
  <2>3. /\ Cardinality(Before(f, r)) <= Cardinality(skipped)
        /\ Cardinality(skipped) = Cardinality(Before(f, r)) => skipped = Before(f, r)
    BY <1>1, <2>2, FS_Subset
  <2> QED BY <1>0, <1>1, <2>1, <2>3
<1>3. /\ page \subseteq Matching(f) \ skipped /\ IsFiniteSet(page)
      /\ Cardinality(page) = size /\ page \subseteq Before(f, r)
  <2>1. Matching(f) \ skipped \in SUBSET Matching(f) /\ r \in Matching(f) \ skipped
    BY <1>2
  <2> QED BY <2>1, FirstRowsFacts
<1>4. skipped \cap page = {}
  BY <1>3
<1>5. Cardinality(skipped \cup page) = n + size
  <2>1. Cardinality(skipped \cap page) = 0
    BY <1>4, FS_EmptySet
  <2>2. Cardinality(skipped \cup page) =
          Cardinality(skipped) + Cardinality(page) - Cardinality(skipped \cap page)
    BY <1>1, <1>3, FS_Union
  <2>3. Cardinality(skipped) = n
    BY <1>1, <1>2
  <2> QED BY <1>3, <2>1, <2>2, <2>3
<1>6. skipped \cup page \in SUBSET Before(f, r)
  BY <1>1, <1>2, <1>3
<1>7. Cardinality(skipped \cup page) <= Cardinality(Before(f, r))
  BY <1>0, <1>6, FS_Subset
<1> QED BY <1>5, <1>7

-----------------------------------------------------------------------------
(* The walk over the pages.  w is the walk, so that a fact about it can be  *)
(* carried over a step that changes the tables under it.                   *)

Walk == [pc : {"idle"}]
        \cup [pc : {"asking", "counted", "done"}, filter : Filters, page : Nat \ {0},
              total : Nat, seen : SUBSET TaskId, start : SUBSET TaskId, grown : BOOLEAN]

(* A row of the beginning was inserted before, and matches the query for   *)
(* as long as it is there.                                                 *)
StartMatches(w) ==
    w.pc # "idle" =>
      \A r \in w.start : /\ r < nextId
                         /\ Plain(w.filter) /\ r \in DOMAIN tasks => r \in Matching(w.filter)

(* A row of the beginning that is on no page yet has all earlier pages     *)
(* before it.                                                              *)
UnseenIsAhead(w) ==
    w.pc \in {"asking", "counted"} /\ Plain(w.filter) /\ NoTies(w.filter) =>
      \A r \in (w.start \cap DOMAIN tasks) \ w.seen :
        (w.page - 1) * PageSize(w.filter) <= Cardinality(Before(w.filter, r))

(* WalkMissesNothing, with its conditions named. *)
NothingMissed(w) ==
    w.pc = "done" /\ Plain(w.filter) /\ NoTies(w.filter) /\ ~w.grown =>
        w.start \cap DOMAIN tasks \subseteq w.seen

WalkFacts(w) == StartMatches(w) /\ UnseenIsAhead(w) /\ NothingMissed(w)

WalkInv == ClaimInv /\ walk \in Walk /\ WalkFacts(walk)

(* What is known of a walk survives whatever happens to the table between  *)
(* two of its statements.                                                  *)
LEMMA WalkFactsStay ==
  ASSUME DBTypeOK, DBTypeOK', TableGoesOn, NEW w \in Walk, WalkFacts(w)
  PROVE  WalkFacts(w)'
<1>1. CASE w.pc = "idle"
  BY <1>1 DEF WalkFacts, StartMatches, UnseenIsAhead, NothingMissed
<1>2. CASE w.pc # "idle"
  <2> PICK f \in Filters : f = w.filter
    BY <1>2 DEF Walk
  <2>1. /\ nextId \in Nat /\ nextId' \in Nat /\ nextId <= nextId'
        /\ w.start \subseteq Nat
    BY <1>2, TaskServiceAssumption DEF DBTypeOK, TableGoesOn, TaskId, Walk
  <2>2. \A r \in w.start : r < nextId /\ r < nextId'
    BY <1>2, <2>1 DEF WalkFacts, StartMatches
  <2>3. ASSUME NEW r \in w.start, r \in DOMAIN tasks' PROVE r \in DOMAIN tasks
    BY <2>1, <2>2, <2>3 DEF TableGoesOn
  <2>4. ASSUME Plain(f), NEW r \in w.start, r \in DOMAIN tasks'
        PROVE  /\ r \in DOMAIN tasks
               /\ r \in Matching(f)' <=> r \in Matching(f)
               /\ NoTies(f)' => NoTies(f)
               /\ Cardinality(Before(f, r)) <= Cardinality(Before(f, r)')
               /\ Cardinality(Before(f, r)) \in Nat
    BY <2>3, <2>4, BeforeGrows, BeforeIsFinite
  <2>5. StartMatches(w)'
    BY <2>2, <2>4 DEF WalkFacts, StartMatches
  <2>6. UnseenIsAhead(w)'
    <3> SUFFICES ASSUME w.pc \in {"asking", "counted"}, Plain(f), NoTies(f)',
                        NEW r \in (w.start \cap DOMAIN tasks') \ w.seen
                 PROVE  (w.page - 1) * PageSize(f) <= Cardinality(Before(f, r)')
      BY DEF UnseenIsAhead
    <3>1. (w.page - 1) * PageSize(f) <= Cardinality(Before(f, r))
      BY <2>4 DEF WalkFacts, UnseenIsAhead
    <3>2. (w.page - 1) * PageSize(f) \in Nat
      BY <1>2, PageSizeType, PageProduct DEF Walk
    <3>3. Cardinality(Before(f, r)) <= Cardinality(Before(f, r)')
          /\ Cardinality(Before(f, r)) \in Nat
      BY <2>4
    <3>4. Cardinality(Before(f, r)') \in Nat
      <4>1. Before(f, r)' \in SUBSET TaskId
        BY DEF Before, Matching, DBTypeOK
      <4>2. IsFiniteSet(TaskId)
        BY FS_Interval, TaskServiceAssumption DEF TaskId
      <4> QED BY <4>1, <4>2, FS_Subset, FS_CardinalityType
    <3> QED BY <3>1, <3>2, <3>3, <3>4
  <2>7. NothingMissed(w)'
    BY <2>4 DEF WalkFacts, NothingMissed
  <2> QED BY <2>5, <2>6, <2>7 DEF WalkFacts
<1> QED BY <1>1, <1>2

(* The statements of the walk itself. *)
LEMMA StartWalkStep ==
  ASSUME DBTypeOK, StartWalk
  PROVE  walk' \in Walk /\ UNCHANGED dbVars /\ WalkFacts(walk')
<1>1. PICK f \in Filters :
        walk' = [pc |-> "asking", filter |-> f, page |-> PageNumber(0), total |-> 0,
                 seen |-> {}, start |-> Matching(f), grown |-> FALSE]
  BY DEF StartWalk
<1>2. PageNumber(0) = 1 /\ Matching(f) \subseteq DOMAIN tasks
  BY DEF PageNumber, Matching
<1>3. walk' \in Walk
  BY <1>1, <1>2 DEF Walk, DBTypeOK
<1>4. StartMatches(walk')
  BY <1>1, <1>2 DEF StartMatches, DBTypeOK
<1>5. UnseenIsAhead(walk')
  <2>1. (1 - 1) * PageSize(f) = 0
    BY PageSizeType
  <2>2. \A r : 0 <= Cardinality(Before(f, r))
    BY BeforeIsFinite
  <2> QED BY <1>1, <1>2, <2>1, <2>2 DEF UnseenIsAhead
<1>6. NothingMissed(walk')
  BY <1>1 DEF NothingMissed
<1> QED BY <1>3, <1>4, <1>5, <1>6 DEF StartWalk, WalkFacts

LEMMA ListCountStep ==
  ASSUME DBTypeOK, NEW w \in Walk, w = walk, WalkFacts(w), ListCount
  PROVE  walk' \in Walk /\ UNCHANGED dbVars /\ WalkFacts(walk')
<1>1. w.pc = "asking"
  BY DEF ListCount
<1> PICK f \in Filters : f = w.filter
  BY <1>1 DEF Walk
<1>2. walk' = [w EXCEPT !.pc = "counted", !.total = Cardinality(Matching(f))]
  BY DEF ListCount
<1>3. Cardinality(Matching(f)) \in Nat
  BY BeforeIsFinite
<1>4. /\ walk' \in Walk
      /\ walk'.pc = "counted" /\ walk'.filter = f /\ walk'.page = w.page
      /\ walk'.total = Cardinality(Matching(f))
      /\ walk'.seen = w.seen /\ walk'.start = w.start
  BY <1>1, <1>2, <1>3 DEF Walk
<1>5. StartMatches(walk') /\ UnseenIsAhead(walk') /\ NothingMissed(walk')
  BY <1>1, <1>4 DEF WalkFacts, StartMatches, UnseenIsAhead, NothingMissed
<1> QED BY <1>4, <1>5 DEF ListCount, WalkFacts

LEMMA ListFindStep ==
  ASSUME DBTypeOK, NEW w \in Walk, w = walk, WalkFacts(w), ListFind
  PROVE  walk' \in Walk /\ UNCHANGED dbVars /\ WalkFacts(walk')
<1>1. w.pc = "counted"
  BY DEF ListFind
<1> PICK f \in Filters : f = w.filter
  BY <1>1 DEF Walk
<1> PICK n \in Nat \ {0} : n = w.page
  BY <1>1 DEF Walk
<1> PICK size \in Nat \ {0} : size = PageSize(f)
  BY PageSizeType
<1> DEFINE matches == Matching(f)
           more == n < TotalPages(w.total, size)
<1> DEFINE Turned(page) ==
             walk' = [walk EXCEPT
                        !.pc    = IF walk.page < TotalPages(walk.total, PageSize(walk.filter))
                                    THEN "asking" ELSE "done",
                        !.page  = IF walk.page < TotalPages(walk.total, PageSize(walk.filter))
                                    THEN @ + 1 ELSE @,
                        !.seen  = @ \cup page,
                        !.grown = Cardinality(Matching(walk.filter)) > walk.total]
<1>a. PICK skipped \in FirstRows(walk.filter, Matching(walk.filter),
                                 (walk.page - 1) * PageSize(walk.filter)) :
        \E page \in FirstRows(walk.filter, Matching(walk.filter) \ skipped,
                              PageSize(walk.filter)) : Turned(page)
  BY DEF ListFind
<1>b. PICK page \in FirstRows(walk.filter, Matching(walk.filter) \ skipped,
                              PageSize(walk.filter)) : Turned(page)
  BY <1>a
<1>2. /\ skipped \in FirstRows(f, matches, (n - 1) * size)
      /\ page \in FirstRows(f, matches \ skipped, size)
  BY <1>a, <1>b, Zenon
<1>c. /\ w \in [pc : {"asking", "counted", "done"}, filter : Filters, page : Nat \ {0},
                total : Nat, seen : SUBSET TaskId, start : SUBSET TaskId, grown : BOOLEAN]
      /\ w = walk
  BY <1>1 DEF Walk
<1>3. page \subseteq TaskId
  BY <1>2 DEF FirstRows, Matching, DBTypeOK
<1>4. /\ walk' \in Walk
      /\ walk'.pc = IF more THEN "asking" ELSE "done"
      /\ walk'.page = IF more THEN n + 1 ELSE n
      /\ walk'.filter = f /\ walk'.total = w.total /\ walk'.start = w.start
      /\ walk'.seen = w.seen \cup page
      /\ walk'.grown <=> Cardinality(matches) > w.total
  <2>1. /\ walk'.pc = IF more THEN "asking" ELSE "done"
        /\ walk'.page = IF more THEN n + 1 ELSE n
        /\ walk'.filter = f /\ walk'.total = w.total /\ walk'.start = w.start
        /\ walk'.seen = w.seen \cup page
        /\ walk'.grown <=> Cardinality(matches) > w.total
    BY <1>b, <1>c
  <2>2. walk' \in Walk
    <3>1. walk'.pc \in {"asking", "done"} /\ walk'.page \in Nat \ {0}
      BY <2>1
    <3>2. walk'.grown \in BOOLEAN
      BY <1>b, <1>c
    <3>3. walk'.seen \in SUBSET TaskId
      BY <1>c, <1>3, <2>1
    <3>4. \E p, m, s, g : walk' = [w EXCEPT !.pc = p, !.page = m, !.seen = s, !.grown = g]
      BY <1>b, <1>c, Zenon
    <3>5. PICK p, m, s, g : walk' = [w EXCEPT !.pc = p, !.page = m, !.seen = s, !.grown = g]
      BY <3>4
    <3>6. walk'.pc = p /\ walk'.page = m /\ walk'.seen = s /\ walk'.grown = g
      BY <1>c, <3>5
    <3> QED BY <1>c, <3>1, <3>2, <3>3, <3>5, <3>6 DEF Walk
  <2> QED BY <2>1, <2>2
<1>5. ASSUME Plain(f), NoTies(f), NEW r \in (w.start \cap DOMAIN tasks) \ (w.seen \cup page)
      PROVE  r \in matches /\ n * size <= Cardinality(Before(f, r))
  <2>1. r \in matches
    BY <1>1, <1>5 DEF WalkFacts, StartMatches
  <2>2. (n - 1) * size <= Cardinality(Before(f, r))
    BY <1>1, <1>5 DEF WalkFacts, UnseenIsAhead
  <2>3. (n - 1) * size \in Nat /\ (n - 1) * size + size = n * size
    BY PageProduct
  <2>4. (n - 1) * size + size <= Cardinality(Before(f, r))
    BY <1>2, <1>5, <2>1, <2>2, <2>3, PageFacts
  <2> QED BY <2>1, <2>3, <2>4
<1>6. StartMatches(walk')
  BY <1>1, <1>4 DEF WalkFacts, StartMatches
<1>7. UnseenIsAhead(walk')
  BY <1>4, <1>5, PageProduct DEF UnseenIsAhead
<1>8. NothingMissed(walk')
  <2> SUFFICES ASSUME ~more, Plain(f), NoTies(f), ~(Cardinality(matches) > w.total),
                      NEW r \in (w.start \cap DOMAIN tasks) \ (w.seen \cup page)
               PROVE  FALSE
    BY <1>4 DEF NothingMissed
  <2>1. r \in matches /\ n * size <= Cardinality(Before(f, r))
    BY <1>5
  <2>2. w.total \in Nat
    BY <1>1 DEF Walk
  <2>3. w.total <= n * size
    BY <2>2, LastPage
  <2>4. /\ Cardinality(Before(f, r)) \in Nat /\ Cardinality(matches) \in Nat
        /\ Cardinality(Before(f, r)) < Cardinality(matches)
    BY <2>1, BeforeIsFinite
  <2>5. n * size \in Nat
    BY PageProduct
  <2> QED BY <2>1, <2>2, <2>3, <2>4, <2>5
<1> QED BY <1>4, <1>6, <1>7, <1>8 DEF ListFind, WalkFacts

LEMMA WalkInvInit == RequestsInit => WalkInv
<1> SUFFICES ASSUME RequestsInit PROVE WalkInv
  OBVIOUS
<1>1. ClaimInv /\ walk \in Walk /\ walk.pc = "idle" /\ DOMAIN tasks = {}
  BY ClaimInvInit DEF RequestsInit, Init, InitDB, EmptyTable, Walk
<1> QED
  BY <1>1 DEF WalkInv, WalkFacts, StartMatches, UnseenIsAhead, NothingMissed

LEMMA WalkInvStep == WalkInv /\ [RequestsNext]_<<vars, requestVars>> => WalkInv'
<1> SUFFICES ASSUME WalkInv, [RequestsNext]_<<vars, requestVars>> PROVE WalkInv'
  OBVIOUS
<1> PICK w \in Walk : w = walk
  BY DEF WalkInv
<1>0. ClaimInv'
  BY RequestCases, ClaimInvStep, ClaimInvRequest DEF WalkInv
<1>1. DBTypeOK /\ DBTypeOK' /\ TableGoesOn
  BY <1>0, RequestsGoOn DEF WalkInv, ClaimInv, TypeOK
<1>3. CASE UNCHANGED walk
  <2>1. WalkFacts(w)'
    BY <1>1, WalkFactsStay DEF WalkInv
  <2>2. WalkFacts(walk)'
    BY <1>3, <2>1 DEF WalkFacts, StartMatches, UnseenIsAhead, NothingMissed
  <2> QED BY <1>0, <1>3, <2>2 DEF WalkInv
<1>4. CASE ListRequest
  <2>1. walk' \in Walk /\ UNCHANGED dbVars /\ WalkFacts(walk')
    BY <1>1, <1>4, StartWalkStep, ListCountStep, ListFindStep DEF WalkInv, ListRequest
  <2>2. WalkFacts(walk)'
    BY <2>1
       DEF WalkFacts, StartMatches, UnseenIsAhead, NothingMissed, dbVars,
           Plain, NoTies, Before, Matching, Sorted, Value
  <2> QED BY <1>0, <2>1, <2>2 DEF WalkInv
<1>5. EngineRuns \/ CancelRequest \/ BenchStep => UNCHANGED walk
  BY DEF EngineRuns, requestVars, CancelRequest, CancelUpdate, CancelRead, CancelReadFails,
         BenchStep, BenchClear, BenchClearFails, BenchInject, BenchInjectFails, BenchPoll,
         BenchTimeout, BenchRequest
<1>6. UNCHANGED <<vars, requestVars>> => UNCHANGED walk
  BY DEF requestVars
<1> QED BY <1>3, <1>4, <1>5, <1>6 DEF RequestsNext

(* Whoever goes through the pages of an unfiltered list whose order has no *)
(* ties is shown every row that is there from the first page to the last,  *)
(* for any page size, any number of rows and whatever is executed, cleared *)
(* and inserted meanwhile, wherever in the order the new rows come, unless *)
(* there were more rows at the last SELECT than at its COUNT (ListTasks:   *)
(* COUNT, then LIMIT and OFFSET).                                          *)
THEOREM WalksAreComplete == RequestsSpec => []WalkMissesNothing
<1>1. RequestsSpec => []WalkInv
  BY WalkInvInit, WalkInvStep, PTL DEF RequestsSpec
<1>2. WalkInv => WalkMissesNothing
  BY DEF WalkInv, WalkFacts, NothingMissed, WalkMissesNothing, Plain, NoTies
<1> QED BY <1>1, <1>2, PTL

-----------------------------------------------------------------------------
(* All the parts together, as the run over MCConsole explores them. *)

(* In every behaviour of the run each part goes on as its own specification *)
(* says, so the run is an instance of each of the theorems on the parts.   *)
LEMMA PartsOfTheRun ==
  ConsoleSpec => FeedSpec /\ StartupSpec /\ RegistrySpec /\ RequestsSpec /\ ThroughputSpec
<1>1. [ConsoleNext]_consoleVars => [FeedNext]_feedVars
  BY DEF ConsoleNext, consoleVars, feedVars
<1>2. [ConsoleNext]_consoleVars => [StartupNext]_startVars
  BY DEF ConsoleNext, consoleVars, startVars
<1>3. [ConsoleNext]_consoleVars => [RegistryNext]_registryVars
  BY DEF ConsoleNext, consoleVars, registryVars
<1>4. [ConsoleNext]_consoleVars => [ThroughputNext]_chartVars
  BY DEF ConsoleNext, consoleVars, chartVars
<1>5. [ConsoleNext]_consoleVars => [RequestsNext]_<<vars, requestVars>>
  <2>1. Around => RequestsNext
    BY DEF Around, RequestsNext
  <2> QED BY <2>1 DEF ConsoleNext, consoleVars, engineVars
<1> QED
  BY <1>1, <1>2, <1>3, <1>4, <1>5, PTL
     DEF ConsoleSpec, ConsoleInit, FeedSpec, StartupSpec, RegistrySpec, RequestsSpec,
         ThroughputSpec

(* The state of the load test. *)
BenchType ==
    bench \in [pc : {"idle", "injecting", "drained", "timeout"}, sent : 0..Batches,
               obeyed : BOOLEAN]

LEMMA BenchTypeStep == BenchType /\ [RequestsNext]_<<vars, requestVars>> => BenchType'
<1> SUFFICES ASSUME BenchType, [RequestsNext]_<<vars, requestVars>> PROVE BenchType'
  OBVIOUS
<1>1. CASE UNCHANGED bench
  BY <1>1 DEF BenchType
<1>2. ASSUME NEW from \in {"idle", "injecting"}, NEW done \in BOOLEAN,
             from = "injecting" => bench.sent < Batches,
             BenchGoes(from, "injecting", done)
      PROVE  BenchType'
  <2>1. Batches \in Nat /\ bench.sent \in 0..Batches /\ bench.obeyed \in BOOLEAN
    BY RequestsAssumption DEF BenchType
  <2>2. (IF from = "injecting" THEN bench.sent + 1 ELSE bench.sent) \in 0..Batches
    BY <1>2, <2>1
  <2>3. (bench.obeyed /\ done) \in BOOLEAN
    OBVIOUS
  <2> QED BY <1>2, <2>2, <2>3 DEF BenchGoes, BenchType
<1>3. BenchClear \/ BenchClearFails \/ BenchInject \/ BenchInjectFails => BenchType'
  BY <1>2 DEF BenchClear, BenchClearFails, BenchInject, BenchInjectFails, BenchRequest
<1>4. BenchPoll \/ BenchTimeout => BenchType'
  BY DEF BenchPoll, BenchTimeout, BenchType
<1>5. EngineRuns \/ CancelRequest \/ ListRequest => UNCHANGED bench
  BY DEF EngineRuns, requestVars, CancelRequest, CancelUpdate, CancelRead, CancelReadFails,
         ListRequest, StartWalk, ListCount, ListFind
<1> QED BY <1>1, <1>3, <1>4, <1>5 DEF RequestsNext, BenchStep, requestVars

(* Type correctness of the requests, from the invariants of their answers. *)
LEMMA RequestsTyped == RequestsSpec => []RequestsTypeOK
<1>1. RequestsInit => BenchType
  BY RequestsAssumption DEF RequestsInit, BenchType
<1>2. CallInv /\ WalkInv /\ BenchType => RequestsTypeOK
  BY DEF CallInv, CallType, WalkInv, Walk, BenchType, ClaimInv, RequestsTypeOK
<1> QED
  BY <1>1, <1>2, CallInvInit, CallInvStep, WalkInvInit, WalkInvStep, BenchTypeStep, PTL
     DEF RequestsSpec

(* Every variable of every part keeps its type, for every value of the     *)
(* constants of every part.                                                *)
THEOREM ConsoleTypes == ConsoleSpec => []ConsoleTypeOK
<1>1. StartupSpec => []StartupTypeOK
  <2>1. StartInv => StartupTypeOK
    BY DEF StartInv
  <2> QED BY <2>1, StartInit, StartupStep, PTL DEF StartupSpec
<1>2. RegistrySpec => []RegistryTypeOK
  BY RegistryTypeInit, RegistryTypeStep, PTL DEF RegistrySpec
<1>3. ThroughputSpec => []ThroughputTypeOK
  <2>1. ThroughputInit => ThroughputTypeOK
    BY ThroughputAssumption DEF ThroughputInit, ThroughputTypeOK
  <2> QED BY <2>1, ThroughputTypeStep, PTL DEF ThroughputSpec
<1>4. ConsoleTypeOK <=> /\ FeedTypeOK /\ StartupTypeOK /\ RegistryTypeOK
                        /\ RequestsTypeOK /\ ThroughputTypeOK
  BY DEF ConsoleTypeOK
<1> QED BY <1>1, <1>2, <1>3, <1>4, PartsOfTheRun, FeedTyped, RequestsTyped, PTL

-----------------------------------------------------------------------------
(* The load test.  While it runs nobody cancels, nobody is killed and      *)
(* every outcome is recorded.                                              *)

NoneCancelled == \A t \in DOMAIN tasks : tasks[t].status # "cancelled"

(* As long as every request was executed, the rows in the table are its    *)
(* own: what was there is cleared, and what finishes late makes no rows.   *)
OnlyItsRows ==
    /\ bench.pc = "idle" => bench.sent = 0
    /\ bench.pc = "injecting" /\ bench.obeyed =>
         Cardinality(DOMAIN tasks) <= bench.sent * BatchSize

DrainInv == ClaimInv /\ WatchdogRests /\ NoneCancelled /\ BenchType /\ OnlyItsRows

LEMMA NoneCancelledStep ==
  ASSUME ~Cancels, TypeOK, NoneCancelled, [Next]_vars
  PROVE  NoneCancelled'
<1>0. DBTypeOK
  BY DEF TypeOK
<1>a. ASSUME tasks' = tasks PROVE NoneCancelled'
  BY <1>a DEF NoneCancelled
<1>b. ASSUME NEW u, RowWrite(u),
             u \in DOMAIN tasks => tasks'[u].status \in {tasks[u].status, "pending",
                                                         "running", "completed", "failed"}
      PROVE  NoneCancelled'
  BY <1>b DEF RowWrite, NoneCancelled
<1>1. Create \/ CreateBatch \/ SeedDemo => NoneCancelled'
  BY <1>0, SubmissionFacts, InsertFacts DEF NoneCancelled
<1>2. ClearDemo => NoneCancelled'
  BY <1>0, ClearAllDataFacts DEF ClearDemo, NoneCancelled
<1>3. \A c \in Clients, u \in TaskId : ~Cancel(c, u)
  BY DEF Cancel
<1>4. ASSUME NEW i \in Instances, DequeueCommit(i) \/ DequeueCommitUnacknowledged(i)
      PROVE  NoneCancelled'
  BY <1>0, <1>4, <1>b, HeldTypes, ClaimFacts DEF DequeueCommit, DequeueCommitUnacknowledged
<1>5. ASSUME NEW i \in Instances,
             \/ Dequeue(i) \/ DequeueRollsBack(i) \/ Submit(i) \/ SweepFind(i) \/ RecoverFails(i)
             \/ Crash(i) \/ BootUnrecovered(i) \/ Shutdown(i) \/ Stopping(i)
      PROVE  NoneCancelled'
  BY <1>5, <1>a DEF Dequeue, DequeueRollsBack, Submit, SweepFind, RecoverFails, Crash,
                    BootUnrecovered, Shutdown, Stopping, ClosePool, Exit, dbVars
<1>6. ASSUME NEW i \in Instances, NEW w \in Workers,
             Receive(i, w) \/ StartUnmarked(i, w) \/ RecordFails(i, w)
      PROVE  NoneCancelled'
  BY <1>6, <1>a DEF Receive, StartUnmarked, RecordFails, dbVars
<1>7. ASSUME NEW i \in Instances, NEW w \in Workers,
             Start(i, w) \/ Complete(i, w) \/ Fail(i, w)
      PROVE  NoneCancelled'
  <2>1. worker[i][w].task \in Snapshot /\ worker[i][w].task.id \in TaskId
    BY <1>7, HeldTypes DEF Start, Complete, Fail
  <2>2. Start(i, w) => NoneCancelled'
    BY <1>0, <1>b, <2>1, MarkStartedFacts DEF Start
  <2>3. Complete(i, w) => NoneCancelled'
    BY <1>0, <1>b, <2>1, CompleteTaskFacts DEF Complete
  <2>4. Fail(i, w) => NoneCancelled'
    BY <1>0, <1>b, <2>1, FailTaskFacts DEF Fail
  <2> QED BY <1>7, <2>2, <2>3, <2>4
<1>8. ASSUME NEW u \in TaskId, TimeoutElapses(u) PROVE NoneCancelled'
  BY <1>0, <1>8, <1>b, TimeoutFacts
<1>9. ASSUME NEW i \in Instances, SweepFail(i) PROVE NoneCancelled'
  BY <1>0, <1>9, <1>b, HeldTypes, FailTaskFacts DEF SweepFail
<1>10. ASSUME NEW i \in Instances, Boot(i) PROVE NoneCancelled'
  BY <1>0, <1>10, RequeueFacts DEF Boot, NoneCancelled
<1>11. CASE UNCHANGED vars
  BY <1>11, <1>a DEF vars, dbVars
<1> QED
  BY <1>1, <1>2, <1>3, <1>4, <1>5, <1>6, <1>7, <1>8, <1>9, <1>10, <1>11
     DEF Next, Api, SchedulerStep, WorkerStep, WatchdogStep, Faults

(* The requests of the load test start no handler and take no task away.   *)
LEMMA BenchKeepsRest ==
  ASSUME ClaimInv, WatchdogRests, NoneCancelled, BenchClear \/ BenchInject
  PROVE  WatchdogRests' /\ NoneCancelled'
<1>0. DBTypeOK /\ UNCHANGED <<worker, sweep, reclaimed>>
  BY DEF ClaimInv, TypeOK, BenchClear, BenchInject, engineRest, procVars
<1>1. CASE BenchClear
  <2>1. DOMAIN tasks' = {}
    BY <1>0, <1>1, ClearAllDataFacts DEF BenchClear
  <2> QED BY <1>0, <2>1 DEF WatchdogRests, NoneCancelled
<1>2. CASE BenchInject
  <2>1. PICK ins \in Seq(Input) : Insert(ins)
    BY <1>2, RequestsAssumption, BatchIsSeq DEF BenchInject, AddDemoTasks
  <2>2. ASSUME NEW t \in DOMAIN tasks' PROVE RowRests(t)' /\ tasks'[t].status # "cancelled"
    <3>1. CASE t \in DOMAIN tasks
      <4>1. tasks'[t] = tasks[t]
        BY <1>0, <2>1, <3>1, InsertFacts
      <4>2. RunsLive(t) => RunsLive(t)'
        BY <1>0 DEF RunsLive
      <4> QED BY <3>1, <4>1, <4>2, RowRestsOn DEF WatchdogRests, NoneCancelled
    <3>2. CASE t \notin DOMAIN tasks
      BY <1>0, <2>1, <3>2, InsertFacts DEF RowRests
    <3> QED BY <3>1, <3>2
  <2> QED BY <1>0, <2>2 DEF WatchdogRests, NoneCancelled
<1> QED BY <1>1, <1>2

(* Its table is finite. *)
LEMMA TableIsFinite ==
  ASSUME DBTypeOK
  PROVE  IsFiniteSet(DOMAIN tasks)
<1>1. IsFiniteSet(TaskId)
  BY FS_Interval, TaskServiceAssumption DEF TaskId
<1> QED BY <1>1, FS_Subset DEF DBTypeOK

LEMMA OnlyItsRowsStep ==
  ASSUME TypeOK, TypeOK', BenchType, OnlyItsRows, [RequestsNext]_<<vars, requestVars>>
  PROVE  OnlyItsRows'
<1>0. /\ DBTypeOK /\ DBTypeOK' /\ BatchSize \in Nat \ {0}
      /\ bench.sent \in Nat /\ nextId \in Nat
  BY RequestsAssumption, TaskServiceAssumption DEF TypeOK, DBTypeOK, BenchType
<1>1. IsFiniteSet(DOMAIN tasks) /\ Cardinality(DOMAIN tasks) \in Nat
  BY <1>0, TableIsFinite, FS_CardinalityType
<1>2. ASSUME bench' = bench \/ (bench'.pc # "idle" /\ bench'.pc # "injecting"),
             bench.pc # "idle" => DOMAIN tasks' \subseteq DOMAIN tasks
      PROVE  OnlyItsRows'
  <2>1. CASE bench'.pc # "idle" /\ bench'.pc # "injecting"
    BY <2>1 DEF OnlyItsRows
  <2>2. CASE bench' = bench /\ bench.pc = "injecting" /\ bench.obeyed
    <3>1. Cardinality(DOMAIN tasks') <= Cardinality(DOMAIN tasks)
          /\ Cardinality(DOMAIN tasks') \in Nat
      BY <1>1, <1>2, <2>2, FS_Subset, FS_CardinalityType
    <3>2. Cardinality(DOMAIN tasks) <= bench.sent * BatchSize
          /\ bench.sent * BatchSize \in Nat
      BY <1>0, <2>2 DEF OnlyItsRows
    <3>3. Cardinality(DOMAIN tasks') <= bench.sent * BatchSize
      BY <1>1, <3>1, <3>2
    <3> QED BY <2>2, <3>3 DEF OnlyItsRows
  <2>3. CASE bench' = bench /\ ~(bench.pc = "injecting" /\ bench.obeyed)
    BY <2>3 DEF OnlyItsRows
  <2> QED BY <1>2, <2>1, <2>2, <2>3
<1>3. ASSUME NEW t, RowWrite(t) PROVE DOMAIN tasks' = DOMAIN tasks
  BY <1>3 DEF RowWrite
<1>4. ASSUME EngineRuns PROVE OnlyItsRows'
  <2>1. TableGoesOn
    BY <1>4, EngineGoesOn DEF EngineRuns
  <2>2. bench.pc # "idle" => DOMAIN tasks' \subseteq DOMAIN tasks
    <3> SUFFICES ASSUME bench.pc # "idle", NEW u \in DOMAIN tasks' \ DOMAIN tasks PROVE FALSE
      OBVIOUS
    <3>1. nextId' = nextId /\ u < nextId' /\ nextId <= u /\ u \in Nat
      BY <1>0, <1>4, <2>1, TaskServiceAssumption DEF EngineRuns, TableGoesOn, DBTypeOK, TaskId
    <3> QED BY <1>0, <3>1
  <2> QED BY <1>2, <1>4, <2>2 DEF EngineRuns, requestVars
<1>5. ASSUME CancelRequest PROVE OnlyItsRows'
  <2>1. DOMAIN tasks' = DOMAIN tasks
    BY <1>0, <1>3, <1>5, CancelTaskFacts
       DEF CancelRequest, CancelUpdate, CancelRead, CancelReadFails, dbVars
  <2> QED
    BY <1>2, <1>5, <2>1 DEF CancelRequest, CancelUpdate, CancelRead, CancelReadFails
<1>6. ASSUME ListRequest \/ BenchPoll \/ BenchTimeout PROVE OnlyItsRows'
  <2>1. DOMAIN tasks' = DOMAIN tasks
    BY <1>6 DEF ListRequest, StartWalk, ListCount, ListFind, BenchPoll, BenchTimeout, dbVars
  <2>2. ListRequest => bench' = bench
    BY DEF ListRequest, StartWalk, ListCount, ListFind
  <2>3. BenchPoll \/ BenchTimeout => bench'.pc # "idle" /\ bench'.pc # "injecting"
    BY DEF BenchPoll, BenchTimeout, BenchType
  <2> QED BY <1>2, <1>6, <2>1, <2>2, <2>3
<1>7. ASSUME BenchClear PROVE OnlyItsRows'
  <2>1. DOMAIN tasks' = {}
    BY <1>0, <1>7, ClearAllDataFacts DEF BenchClear
  <2>2. bench'.pc = "injecting" /\ bench'.sent = 0
    BY <1>7 DEF BenchClear, BenchGoes, OnlyItsRows
  <2>3. 0 * BatchSize = 0
    BY <1>0
  <2> QED BY <2>1, <2>2, <2>3, FS_EmptySet DEF OnlyItsRows
<1>8. ASSUME BenchClearFails \/ BenchInjectFails PROVE OnlyItsRows'
  <2>1. bench'.pc = "injecting"
    BY <1>8 DEF BenchClearFails, BenchInjectFails, BenchRequest, BenchGoes
  <2>2. bench'.obeyed = (bench.obeyed /\ FALSE)
    BY <1>8 DEF BenchClearFails, BenchInjectFails, BenchRequest, BenchGoes
  <2> QED BY <2>1, <2>2 DEF OnlyItsRows
<1>9. ASSUME BenchInject PROVE OnlyItsRows'
  <2>1. PICK ins \in Seq(Input) : Insert(ins) /\ Len(ins) = BatchSize
    BY <1>0, <1>9, BatchIsSeq DEF BenchInject, AddDemoTasks
  <2> DEFINE new == nextId .. (nextId + BatchSize - 1)
  <2>2. DOMAIN tasks' = DOMAIN tasks \cup new
    <3>1. nextId' = nextId + BatchSize /\ DOMAIN tasks' = DOMAIN tasks \cup (nextId..(nextId' - 1))
      BY <1>0, <2>1, InsertFacts
    <3>2. nextId' - 1 = nextId + BatchSize - 1
      BY <1>0, <3>1
    <3> QED BY <3>1, <3>2, Zenon
  <2>3. IsFiniteSet(new) /\ Cardinality(new) = BatchSize
    <3>1. PICK last \in Int : last = nextId + BatchSize - 1
      BY <1>0
    <3>2. IsFiniteSet(nextId..last)
          /\ Cardinality(nextId..last) = IF nextId > last THEN 0 ELSE last - nextId + 1
      <4>1. nextId \in Int
        BY <1>0
      <4> QED BY <4>1, FS_Interval
    <3>3. ~(nextId > last) /\ last - nextId + 1 = BatchSize
      BY <1>0, <3>1
    <3> QED BY <3>1, <3>2, <3>3
  <2>4. Cardinality(DOMAIN tasks \cap new) \in Nat
    BY <1>1, FS_Subset, FS_CardinalityType
  <2> HIDE DEF new
  <2>5. Cardinality(DOMAIN tasks') <= Cardinality(DOMAIN tasks) + BatchSize
        /\ Cardinality(DOMAIN tasks') \in Int
    <3>1. Cardinality(DOMAIN tasks') =
            Cardinality(DOMAIN tasks) + BatchSize - Cardinality(DOMAIN tasks \cap new)
      BY <1>1, <2>2, <2>3, FS_Union
    <3> QED BY <1>0, <1>1, <2>4, <3>1
  <2>6. bench.pc = "injecting" /\ bench'.pc = "injecting" /\ bench'.sent = bench.sent + 1
        /\ (bench'.obeyed => bench.obeyed)
    BY <1>9 DEF BenchInject, BenchGoes
  <2>7. (bench.sent + 1) * BatchSize = bench.sent * BatchSize + BatchSize
        /\ bench.sent * BatchSize \in Nat
    BY <1>0
  <2>8. bench.obeyed => Cardinality(DOMAIN tasks) <= bench.sent * BatchSize
    BY <2>6 DEF OnlyItsRows
  <2>9. bench.obeyed => Cardinality(DOMAIN tasks') <= (bench.sent + 1) * BatchSize
    BY <1>0, <1>1, <2>5, <2>7, <2>8
  <2> QED BY <2>6, <2>9 DEF OnlyItsRows
<1>10. UNCHANGED <<vars, requestVars>> => OnlyItsRows'
  BY <1>2 DEF vars, dbVars, requestVars
<1> QED
  BY <1>4, <1>5, <1>6, <1>7, <1>8, <1>9, <1>10 DEF RequestsNext, BenchStep

LEMMA DrainInvInit == RequestsInit => DrainInv /\ Unhurt
<1> SUFFICES ASSUME RequestsInit PROVE DrainInv /\ Unhurt
  OBVIOUS
<1>1. ClaimInv /\ DOMAIN tasks = {} /\ reclaimed = {} /\ \A i \in Instances : sweep[i] = {}
  BY ClaimInvInit DEF RequestsInit, Init, InitDB, EmptyTable
<1>2. Unhurt
  BY DEF RequestsInit, Init, Unhurt
<1>3. BenchType /\ OnlyItsRows
  BY RequestsAssumption DEF RequestsInit, BenchType, OnlyItsRows
<1> QED BY <1>1, <1>2, <1>3 DEF DrainInv, WatchdogRests, NoneCancelled

LEMMA DrainInvStep ==
  ASSUME ~SlowHandlers, ~Cancels, DrainInv, Unhurt', call'.pc = "idle",
         [RequestsNext]_<<vars, requestVars>>
  PROVE  DrainInv'
<1>1. ClaimInv'
  BY RequestCases, ClaimInvStep, ClaimInvRequest DEF DrainInv
<1>2. BenchType' /\ OnlyItsRows'
  BY <1>1, BenchTypeStep, OnlyItsRowsStep DEF DrainInv, ClaimInv
<1>3. ~CancelRequest
  BY DEF CancelRequest, CancelUpdate, CancelRead, CancelReadFails
<1>4. CASE [Next]_vars
  BY <1>1, <1>2, <1>4, WatchdogRestsStep, NoneCancelledStep DEF DrainInv, ClaimInv
<1>5. CASE BenchClear \/ BenchInject
  BY <1>1, <1>2, <1>5, BenchKeepsRest DEF DrainInv
<1>6. ListRequest \/ BenchClearFails \/ BenchInjectFails \/ BenchPoll \/ BenchTimeout
        => UNCHANGED vars
  BY DEF ListRequest, StartWalk, ListCount, ListFind, BenchClearFails, BenchInjectFails,
         BenchRequest, BenchPoll, BenchTimeout, vars, engineRest
<1> QED
  BY <1>3, <1>4, <1>5, <1>6 DEF RequestsNext, EngineRuns, BenchStep

(* What GetSummary counts when nothing is in flight: rows that have ended, *)
(* each once.                                                              *)
LEMMA CountsAreRows ==
  ASSUME DBTypeOK, StatusCount("pending") + StatusCount("running") = 0
  PROVE  /\ \A t \in DOMAIN tasks : tasks[t].status \in Terminal
         /\ TotalTasks <= Cardinality(DOMAIN tasks)
         /\ TotalTasks \in Nat /\ Cardinality(DOMAIN tasks) \in Nat
<1> DEFINE In(st) == {t \in DOMAIN tasks : tasks[t].status = st}
<1>1. ASSUME NEW st
      PROVE  /\ IsFiniteSet(In(st)) /\ Cardinality(In(st)) \in Nat
             /\ StatusCount(st) = Cardinality(In(st))
             /\ StatusCount(st) \in Nat
  BY TableIsFinite, FS_Subset, FS_CardinalityType DEF StatusCount
<1>2. StatusCount("pending") \in Nat /\ StatusCount("running") \in Nat
  BY <1>1
<1>3. StatusCount("pending") = 0 /\ StatusCount("running") = 0
  BY <1>2
<1>4. In("pending") = {} /\ In("running") = {}
  BY <1>1, <1>3, FS_EmptySet
<1>5. \A t \in DOMAIN tasks : tasks[t].status \in Terminal
  BY <1>4 DEF DBTypeOK, Row, Status, Terminal
<1>6. In("completed") \cap In("failed") = {}
      /\ (In("completed") \cup In("failed")) \cap In("cancelled") = {}
  OBVIOUS
<1> DEFINE some == In("completed") \cup In("failed")
           all  == some \cup In("cancelled")
<1>7. IsFiniteSet(some) /\ Cardinality(some) = StatusCount("completed") + StatusCount("failed")
  <2>1. Cardinality(some) = Cardinality(In("completed")) + Cardinality(In("failed"))
                            - Cardinality(In("completed") \cap In("failed"))
        /\ IsFiniteSet(some)
    BY <1>1, FS_Union
  <2>2. Cardinality(In("completed") \cap In("failed")) = 0
    BY <1>6, FS_EmptySet
  <2> HIDE DEF In, some
  <2> QED BY <1>1, <2>1, <2>2
<1>8. Cardinality(all) = Cardinality(some) + StatusCount("cancelled")
  <2> HIDE DEF In, some
  <2>1. Cardinality(all) = Cardinality(some) + Cardinality(In("cancelled"))
                           - Cardinality(some \cap In("cancelled"))
    BY <1>1, <1>7, FS_Union
  <2>2. Cardinality(some \cap In("cancelled")) = 0
    BY <1>6, FS_EmptySet DEF some
  <2>3. Cardinality(some) \in Nat
    BY <1>7, FS_CardinalityType
  <2> QED BY <1>1, <2>1, <2>2, <2>3
<1>9. Cardinality(all) <= Cardinality(DOMAIN tasks) /\ Cardinality(DOMAIN tasks) \in Nat
  BY TableIsFinite, FS_Subset, FS_CardinalityType
<1> HIDE DEF In, some, all
<1>10. TotalTasks = Cardinality(all) /\ TotalTasks \in Nat
  BY <1>1, <1>3, <1>7, <1>8 DEF TotalTasks
<1> QED BY <1>5, <1>9, <1>10

(* A poll that finds the queue drained. *)
DrainedIsDrained ==
    bench.pc # "drained" /\ bench'.pc = "drained" =>
      /\ \A t \in DOMAIN tasks : tasks[t].status \in Terminal /\ ~Held(t)
      /\ bench.obeyed => Cardinality(DOMAIN tasks) = Batches * BatchSize

LEMMA PollIsRight ==
  ASSUME DrainInv, BenchPoll
  PROVE  DrainedIsDrained
<1>0. /\ DBTypeOK /\ bench.pc = "injecting" /\ bench.sent = Batches
      /\ TotalTasks >= Batches * BatchSize
      /\ StatusCount("pending") + StatusCount("running") = 0
      /\ reclaimed = {}
  BY DEF BenchPoll, DrainInv, ClaimInv, TypeOK, WatchdogRests
<1>1. /\ \A t \in DOMAIN tasks : tasks[t].status \in Terminal
      /\ TotalTasks <= Cardinality(DOMAIN tasks)
      /\ TotalTasks \in Nat /\ Cardinality(DOMAIN tasks) \in Nat
  BY <1>0, CountsAreRows
<1>2. ASSUME NEW t \in DOMAIN tasks PROVE ~Held(t)
  <2>1. t \in TaskId /\ tasks[t].status \in Terminal /\ tasks[t].status # "cancelled"
    BY <1>0, <1>1 DEF DBTypeOK, DrainInv, NoneCancelled
  <2>2. ASSUME NEW i \in Instances, Holds(i, t) PROVE FALSE
    BY <1>0, <2>1, <2>2, HeldIsLive DEF DrainInv, Terminal
  <2> QED BY <2>2 DEF Held
<1>3. bench.obeyed => Cardinality(DOMAIN tasks) = Batches * BatchSize
  <2>1. Batches * BatchSize \in Nat
    BY RequestsAssumption
  <2>2. bench.obeyed => Cardinality(DOMAIN tasks) <= Batches * BatchSize
    BY <1>0 DEF DrainInv, OnlyItsRows
  <2> QED BY <1>0, <1>1, <2>1, <2>2
<1> QED BY <1>1, <1>2, <1>3 DEF DrainedIsDrained

LEMMA DrainStep ==
  ASSUME DrainInv, [RequestsNext]_<<vars, requestVars>>
  PROVE  DrainedIsDrained
<1>1. BenchPoll => DrainedIsDrained
  BY PollIsRight
<1>2. BenchClear \/ BenchClearFails \/ BenchInject \/ BenchInjectFails
        => bench'.pc = "injecting"
  BY DEF BenchClear, BenchClearFails, BenchInject, BenchInjectFails, BenchRequest, BenchGoes
<1>3. BenchTimeout => bench'.pc = "timeout"
  BY DEF BenchTimeout, DrainInv, BenchType
<1>4. EngineRuns \/ CancelRequest \/ ListRequest => UNCHANGED bench
  BY DEF EngineRuns, requestVars, CancelRequest, CancelUpdate, CancelRead, CancelReadFails,
         ListRequest, StartWalk, ListCount, ListFind
<1> QED
  BY <1>1, <1>2, <1>3, <1>4 DEF RequestsNext, BenchStep, requestVars, DrainedIsDrained

(* bench/main.go: the load test reports a drained queue only when it is,   *)
(* with any number of instances, workers and batches, although it ignores  *)
(* errors and tasks from before its clear are still being executed.  What  *)
(* it takes is that meanwhile nobody cancels a task (one that is cancelled *)
(* under its handler has ended for GetSummary), handlers end before the    *)
(* watchdog's timeout, no instance is killed and every outcome is recorded. *)
THEOREM DrainedWhenReported ==
  ASSUME ~SlowHandlers, ~Cancels
  PROVE  RequestsSpec /\ [](Unhurt /\ call.pc = "idle") => DrainVerdict
<1>1. DrainInv /\ (Unhurt /\ call.pc = "idle")' /\ [RequestsNext]_<<vars, requestVars>>
        => DrainInv'
  BY DrainInvStep
<1>2. DrainInv /\ [RequestsNext]_<<vars, requestVars>> => [DrainedIsDrained]_<<vars, requestVars>>
  BY DrainStep
<1> QED
  BY <1>1, <1>2, DrainInvInit, PTL DEF RequestsSpec, DrainVerdict, DrainedIsDrained

(* The run over MCConsole is such a deployment: around its load test there *)
(* are no cancels, stops and faults.                                       *)
BenchAlone ==
    /\ part # "bench" => bench.pc = "idle"
    /\ part = "bench" => DrainInv /\ Unhurt /\ call.pc = "idle"

LEMMA BenchAloneStep ==
  ASSUME ~SlowHandlers, ~Cancels, BenchAlone, [ConsoleNext]_consoleVars
  PROVE  BenchAlone' /\ [DrainedIsDrained]_<<vars, requestVars>>
<1>1. part' = part
  BY DEF ConsoleNext, consoleVars
<1>2. CASE part # "bench"
  <2>1. bench' = bench
    BY <1>2 DEF ConsoleNext, consoleVars, engineVars, requestVars, Around, EngineRuns,
                CancelRequest, CancelUpdate, CancelRead, CancelReadFails,
                ListRequest, StartWalk, ListCount, ListFind
  <2> QED BY <1>1, <1>2, <2>1 DEF BenchAlone, DrainedIsDrained
<1>3. CASE part = "bench"
  <2>0. DrainInv /\ ClaimInv /\ TypeOK /\ Unhurt /\ call.pc = "idle"
    BY <1>3 DEF BenchAlone, DrainInv, ClaimInv
  <2>1. \/ BenchStep
        \/ EngineRuns /\ <<stops, faulted>>' = <<stops, faulted>>
        \/ UNCHANGED <<vars, requestVars>>
    BY <1>3 DEF ConsoleNext, consoleVars, engineVars, Around
  <2>2. [RequestsNext]_<<vars, requestVars>>
    BY <2>1 DEF RequestsNext
  <2>3. call'.pc = "idle"
    BY <2>0, <2>1 DEF EngineRuns, requestVars, BenchStep, BenchClear, BenchClearFails,
                      BenchInject, BenchInjectFails, BenchRequest, BenchPoll, BenchTimeout
  <2>4. Unhurt'
    <3>1. CASE BenchStep
      <4>1. UNCHANGED <<inst, faulted>>
        BY <3>1 DEF BenchStep, BenchClear, BenchClearFails, BenchInject, BenchInjectFails,
                    BenchRequest, BenchPoll, BenchTimeout, engineRest
      <4> QED BY <2>0, <4>1 DEF Unhurt
    <3>2. CASE EngineRuns /\ <<stops, faulted>>' = <<stops, faulted>>
      <4>1. \A j \in Instances : ~Crash(j)
        BY <2>0, <3>2, EngineAssumption DEF Crash, TypeOK
      <4>2. "record" \notin faulted'
        BY <2>0, <3>2 DEF Unhurt
      <4> QED BY <2>0, <3>2, <4>1, <4>2, UnhurtStep DEF EngineRuns
    <3>3. CASE UNCHANGED <<vars, requestVars>>
      BY <2>0, <3>3 DEF vars, Unhurt
    <3> QED BY <2>1, <3>1, <3>2, <3>3
  <2>5. DrainInv'
    BY <2>0, <2>2, <2>3, <2>4, DrainInvStep
  <2> QED BY <1>1, <1>3, <2>0, <2>2, <2>3, <2>4, <2>5, DrainStep DEF BenchAlone
<1> QED BY <1>2, <1>3

(* DrainVerdict as the run checks it, for any fleet and load. *)
THEOREM DrainedInTheRun ==
  ASSUME ~SlowHandlers, ~Cancels
  PROVE  ConsoleSpec => DrainVerdict
<1>1. ConsoleInit => BenchAlone
  BY DrainInvInit DEF ConsoleInit, RequestsInit, BenchAlone
<1>2. BenchAlone /\ [ConsoleNext]_consoleVars
        => BenchAlone' /\ [DrainedIsDrained]_<<vars, requestVars>>
  BY BenchAloneStep
<1> QED BY <1>1, <1>2, PTL DEF ConsoleSpec, DrainVerdict, DrainedIsDrained
=============================================================================
