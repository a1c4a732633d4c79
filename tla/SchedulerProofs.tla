--------------------------- MODULE SchedulerProofs ---------------------------
(***************************************************************************)
(* Safety of the scheduler for any number of clients, passes and faults,   *)
(* any quantum and any pool.                                               *)
(***************************************************************************)
EXTENDS Scheduler, FiniteSetTheorems, WellFoundedInduction, TLAPS

Alive == {g \in Passes : pass[g].pc # "none"}

(* wg counts the loop and the passes it has started. *)
WaitGroupCounts ==
    wg = Cardinality(Alive) + IF loop = "ended" THEN 0 ELSE 1

InTurn == {"serve", "submit"}
HasTurn(c) == \E g \in Passes : pass[g].pc \in InTurn /\ c = Current(pass[g].todo)

(* The client whose turn it is has credit left, so spending one never      *)
(* makes a deficit negative.                                               *)
TurnHasCredit == \A c \in Clients : HasTurn(c) => deficits[c] > 0

(* NoHoarding, client by client. *)
CreditOfClients ==
    ~cancelled => \A c \in Clients :
                    deficits[c] <= quantum * faults + IF HasTurn(c) THEN quantum ELSE 0

Inv == TypeOK /\ OnePassAtATime /\ WaitGroupCounts /\ TurnHasCredit /\ CreditOfClients

-----------------------------------------------------------------------------
LEMMA QuantumType == quantum \in Nat \ {0}
BY SchedulerAssumption DEF quantum

(* A set of clients that is not empty has a least element. *)
LEMMA CurrentIsMember ==
  ASSUME NEW todo \in SUBSET Clients, todo # {}
  PROVE  Current(todo) \in todo /\ \A d \in todo : Current(todo) <= d
<1> DEFINE Less == OpToRel(<, Nat)
<1>1. todo \subseteq Nat
  BY SchedulerAssumption DEF Clients
<1>2. IsWellFoundedOn(Less, Nat)
  BY NatLessThanWellFounded
<1>3. \A x, y \in Nat : <<y, x>> \in Less <=> y < x
  BY DEF OpToRel
<1> HIDE DEF Less
<1>4. PICK x \in todo : \A y \in todo : ~(<<y, x>> \in Less)
  BY <1>1, <1>2, WFMin
<1>5. ASSUME NEW y \in todo PROVE x <= y
  <2>1. x \in Nat /\ y \in Nat
    BY <1>1
  <2>2. ~(y < x)
    BY <1>3, <1>4, <2>1
  <2> QED BY <2>1, <2>2
<1> QED BY <1>5 DEF Current

LEMMA AliveIsFinite == IsFiniteSet(Alive) /\ Cardinality(Alive) \in Nat
<1>1. Alive \in SUBSET Passes
  BY DEF Alive
<1>2. IsFiniteSet(Alive)
  BY <1>1, SchedulerAssumption, FS_Subset
<1> QED BY <1>2, FS_CardinalityType

(* The types of the passes and the WaitGroup. *)
PassOK ==
    /\ pass \in [Passes -> [pc : {"none", "enter"} \cup InRound, todo : SUBSET Clients]]
    /\ \A g \in Passes : pass[g].pc \in {"serve", "submit"} <=> pass[g].todo # {}
    /\ isScheduling \in BOOLEAN
    /\ wg \in Nat

(* A pass that changes its place without ending. *)
LEMMA MoveFacts ==
  ASSUME Inv, NEW g \in Passes, pass[g].pc # "none",
         NEW p \in [pc : {"enter"} \cup InRound, todo : SUBSET Clients],
         p.pc \in InTurn <=> p.todo # {},
         pass' = [pass EXCEPT ![g] = p],
         UNCHANGED <<wg, loop>>
  PROVE  /\ pass' \in [Passes -> [pc : {"none", "enter"} \cup InRound, todo : SUBSET Clients]]
         /\ \A h \in Passes : pass'[h].pc \in {"serve", "submit"} <=> pass'[h].todo # {}
         /\ WaitGroupCounts'
         /\ wg' \in Nat
<1>1. pass' \in [Passes -> [pc : {"none", "enter"} \cup InRound, todo : SUBSET Clients]]
  BY DEF Inv, TypeOK
<1>2. \A h \in Passes : pass'[h].pc \in {"serve", "submit"} <=> pass'[h].todo # {}
  BY DEF Inv, TypeOK, InTurn
<1>3. Alive' = Alive
  BY DEF Inv, TypeOK, Alive, InRound
<1> QED BY <1>1, <1>2, <1>3 DEF Inv, TypeOK, WaitGroupCounts

(* A pass that ends. *)
LEMMA EndFacts ==
  ASSUME Inv, NEW g \in Passes, pass[g].pc # "none",
         pass' = [pass EXCEPT ![g] = NoPass], wg' = wg - 1, UNCHANGED loop
  PROVE  /\ pass' \in [Passes -> [pc : {"none", "enter"} \cup InRound, todo : SUBSET Clients]]
         /\ \A h \in Passes : pass'[h].pc \in {"serve", "submit"} <=> pass'[h].todo # {}
         /\ WaitGroupCounts'
         /\ wg' \in Nat
<1>1. pass' \in [Passes -> [pc : {"none", "enter"} \cup InRound, todo : SUBSET Clients]]
  BY DEF Inv, TypeOK, NoPass
<1>2. \A h \in Passes : pass'[h].pc \in {"serve", "submit"} <=> pass'[h].todo # {}
  BY DEF Inv, TypeOK, NoPass
<1>3. Alive' = Alive \ {g} /\ g \in Alive
  BY DEF Inv, TypeOK, Alive, NoPass
<1>4. Cardinality(Alive') = Cardinality(Alive) - 1 /\ Cardinality(Alive') \in Nat
  <2>1. IsFiniteSet(Alive) /\ Cardinality(Alive) \in Nat
    BY AliveIsFinite
  <2>2. Cardinality(Alive \ {g}) = Cardinality(Alive) - 1
    BY <1>3, <2>1, FS_RemoveElement
  <2>3. IsFiniteSet(Alive \ {g})
    BY <2>1, FS_RemoveElement
  <2> QED BY <1>3, <2>2, <2>3, FS_CardinalityType
<1>5. WaitGroupCounts'
  BY <1>4, AliveIsFinite DEF Inv, WaitGroupCounts
<1>6. wg' \in Nat
  BY <1>4, <1>5 DEF WaitGroupCounts
<1> QED BY <1>1, <1>2, <1>5, <1>6

(* The end of the pass that has the guard: nobody has a turn. *)
LEMMA LeaveFacts ==
  ASSUME Inv, NEW g \in Passes, pass[g].pc \in InRound, Leave(g), UNCHANGED loop
  PROVE  PassOK' /\ OnePassAtATime' /\ WaitGroupCounts' /\ \A c \in Clients : ~HasTurn(c)'
<1>1. PassOK' /\ WaitGroupCounts'
  BY EndFacts DEF Leave, InRound, PassOK
<1>2. \A h \in Passes : pass'[h].pc \notin InRound
  BY DEF Inv, TypeOK, OnePassAtATime, Leave, NoPass, InRound
<1>3. OnePassAtATime'
  BY <1>2 DEF OnePassAtATime, Leave
<1> QED BY <1>1, <1>2, <1>3 DEF HasTurn, InTurn, InRound

(* The turn is that of the pass that has the guard. *)
LEMMA HolderHasTheTurn ==
  ASSUME Inv, NEW g \in Passes, pass[g].pc \in InRound
  PROVE  \A c \in Clients : HasTurn(c) <=> pass[g].pc \in InTurn /\ c = Current(pass[g].todo)
BY DEF Inv, OnePassAtATime, HasTurn, InTurn, InRound

LEMMA CreditType == Inv => quantum * faults \in Nat
BY QuantumType, SchedulerAssumption DEF Inv, TypeOK

LEMMA OneMore ==
  ASSUME NEW q \in Nat, NEW f \in Nat
  PROVE  q * (f + 1) = q * f + q /\ q * f \in Nat
OBVIOUS

(* A fault only raises the bound, by one quantum. *)
LEMMA CreditGrows ==
  ASSUME Inv, faults' \in {faults, faults + 1}
  PROVE  /\ quantum * faults \in Nat /\ quantum * faults' \in Nat
         /\ quantum * faults <= quantum * faults'
         /\ faults' = faults + 1 => quantum * faults' = quantum * faults + quantum
<1>1. quantum \in Nat /\ faults \in Nat
  BY QuantumType DEF Inv, TypeOK
<1>2. quantum * (faults + 1) = quantum * faults + quantum /\ quantum * faults \in Nat
  BY <1>1, OneMore
<1>3. CASE faults' = faults
  BY <1>1, <1>2, <1>3
<1>4. CASE faults' = faults + 1
  BY <1>1, <1>2, <1>4
<1> QED BY <1>3, <1>4

(* The next turn of a pass, or its end, from deficits within their bound.  *)
LEMMA BeginTurnFacts ==
  ASSUME Inv, NEW g \in Passes, pass[g].pc \in InRound,
         NEW todo \in SUBSET Clients, NEW credit \in [Clients -> Nat],
         BeginTurn(g, todo, credit), UNCHANGED <<loop, stop>>,
         quantum * faults' \in Nat,
         ~cancelled => \A c \in Clients : credit[c] <= quantum * faults'
  PROVE  /\ PassOK' /\ OnePassAtATime' /\ WaitGroupCounts'
         /\ deficits' \in [Clients -> Nat]
         /\ TurnHasCredit' /\ CreditOfClients'
<1>1. CASE todo = {}
  <2>1. Leave(g) /\ deficits' = credit
    BY <1>1 DEF BeginTurn
  <2>2. PassOK' /\ OnePassAtATime' /\ WaitGroupCounts' /\ \A c \in Clients : ~HasTurn(c)'
    BY <2>1, LeaveFacts
  <2>3. TurnHasCredit'
    BY <2>2 DEF TurnHasCredit
  <2>4. CreditOfClients'
    BY <2>1, <2>2 DEF CreditOfClients, cancelled
  <2> QED BY <2>1, <2>2, <2>3, <2>4
<1>2. CASE todo # {}
  <2> DEFINE p == [pc |-> "serve", todo |-> todo]
             k == Current(todo)
  <2>1. /\ pass' = [pass EXCEPT ![g] = p]
        /\ deficits' = [credit EXCEPT ![k] = @ + quantum]
        /\ UNCHANGED <<isScheduling, wg>>
    BY <1>2 DEF BeginTurn
  <2>2. k \in Clients
    BY <1>2, CurrentIsMember
  <2>3. /\ p \in [pc : {"enter"} \cup InRound, todo : SUBSET Clients]
        /\ p.pc \in InTurn <=> p.todo # {}
        /\ pass[g].pc # "none"
    BY <1>2 DEF InRound, InTurn
  <2>4. /\ pass' \in [Passes -> [pc : {"none", "enter"} \cup InRound, todo : SUBSET Clients]]
        /\ \A h \in Passes : pass'[h].pc \in {"serve", "submit"} <=> pass'[h].todo # {}
        /\ WaitGroupCounts'
        /\ wg' \in Nat
    <3> HIDE DEF p
    <3> QED BY <2>1, <2>3, MoveFacts
  <2>5. \A h \in Passes : pass'[h].pc \in InRound <=> h = g
    BY <2>1 DEF Inv, TypeOK, OnePassAtATime, InRound
  <2>6. PassOK' /\ OnePassAtATime'
    BY <2>1, <2>4, <2>5 DEF Inv, TypeOK, PassOK, OnePassAtATime
  <2>7. \A c \in Clients : HasTurn(c)' <=> c = k
    <3>1. pass'[g].pc = "serve" /\ pass'[g].todo = todo
      BY <2>1 DEF Inv, TypeOK
    <3>2. \A h \in Passes : pass'[h].pc \in InTurn <=> h = g
      BY <2>5, <3>1 DEF InTurn, InRound
    <3> QED BY <3>1, <3>2 DEF HasTurn
  <2>8. quantum \in Nat \ {0}
    BY QuantumType
  <2>9. deficits' \in [Clients -> Nat] /\ deficits'[k] = credit[k] + quantum
    BY <2>1, <2>2, <2>8
  <2>10. TurnHasCredit'
    BY <2>2, <2>7, <2>8, <2>9 DEF TurnHasCredit
  <2>11. ASSUME ~cancelled, NEW c \in Clients
         PROVE  deficits'[c] <= quantum * faults' + IF HasTurn(c)' THEN quantum ELSE 0
    <3>1. credit[c] <= quantum * faults'
      BY <2>11
    <3>2. CASE c = k
      BY <2>7, <2>8, <2>9, <3>1, <3>2
    <3>3. CASE c # k
      <4>1. deficits'[c] = credit[c]
        BY <2>1, <3>3
      <4> QED BY <2>7, <3>1, <3>3, <4>1
    <3> QED BY <3>2, <3>3
  <2>12. CreditOfClients'
    BY <2>11 DEF CreditOfClients, cancelled
  <2> QED BY <2>4, <2>6, <2>9, <2>10, <2>12
<1> QED BY <1>1, <1>2

-----------------------------------------------------------------------------
(* The variables that are not those of the passes. *)
RestOK ==
    /\ pending \in [Clients -> 0..MaxPending]
    /\ locked \in [Clients -> 0..NumPeers]
    /\ \A c \in Clients : locked[c] <= pending[c]
    /\ room \in 0..Capacity
    /\ loop \in {"ticking", "late", "ended"}
    /\ stop \in {"no", "waiting", "returned"}
    /\ faults \in 0..MaxFaults
    /\ overtaken \in [Clients -> [Clients -> Nat]]

LEMMA TypeParts == TypeOK <=> RestOK /\ PassOK /\ deficits \in [Clients -> Nat]
BY DEF TypeOK, RestOK, PassOK

(* What is left of the queue stays well formed. *)
LEMMA RestStep == Inv /\ Next => RestOK'
<1> SUFFICES ASSUME Inv, Next PROVE RestOK'
  OBVIOUS
<1>0. RestOK
  BY TypeParts DEF Inv
<1> USE SchedulerAssumption DEF queueVars
<1>1. ASSUME NEW c \in Clients, Arrive(c) PROVE RestOK'
  BY <1>0, <1>1 DEF Arrive, RestOK
<1>2. ASSUME NEW c \in Clients, Withdraw(c) PROVE RestOK'
  <2>1. overtaken' \in [Clients -> [Clients -> Nat]]
    BY <1>0, <1>2 DEF Withdraw, ForgetIdle, RestOK
  <2>2. /\ pending' = [pending EXCEPT ![c] = @ - 1]
        /\ pending[c] - locked[c] > 0
        /\ UNCHANGED <<locked, room, loop, stop, faults>>
    BY <1>2 DEF Withdraw, Free
  <2>3. pending' \in [Clients -> 0..MaxPending] /\ \A d \in Clients : locked[d] <= pending'[d]
    BY <1>0, <2>2 DEF RestOK
  <2> QED BY <1>0, <2>1, <2>2, <2>3 DEF RestOK
<1>3. ASSUME NEW c \in Clients, PeerSelects(c) PROVE RestOK'
  <2>1. overtaken' \in [Clients -> [Clients -> Nat]]
    BY <1>0, <1>3 DEF PeerSelects, ForgetIdle, RestOK
  <2>2. /\ locked' = [locked EXCEPT ![c] = @ + 1]
        /\ locked[c] < NumPeers /\ pending[c] - locked[c] > 0
        /\ UNCHANGED <<pending, room, loop, stop, faults>>
    BY <1>3 DEF PeerSelects, Free
  <2>3. locked' \in [Clients -> 0..NumPeers] /\ \A d \in Clients : locked'[d] <= pending[d]
    BY <1>0, <2>2 DEF RestOK
  <2> QED BY <1>0, <2>1, <2>2, <2>3 DEF RestOK
<1>4. ASSUME NEW c \in Clients, PeerEnds(c) PROVE RestOK'
  <2>1. overtaken' \in [Clients -> [Clients -> Nat]]
    BY <1>0, <1>4 DEF PeerEnds, ForgetIdle, RestOK
  <2>2. /\ locked[c] > 0
        /\ locked' = [locked EXCEPT ![c] = @ - 1]
        /\ pending' = pending \/ pending' = [pending EXCEPT ![c] = @ - 1]
        /\ UNCHANGED <<room, loop, stop, faults>>
    BY <1>4 DEF PeerEnds
  <2>3. locked' \in [Clients -> 0..NumPeers]
    BY <1>0, <2>2 DEF RestOK
  <2>4. pending' \in [Clients -> 0..MaxPending] /\ \A d \in Clients : locked'[d] <= pending'[d]
    <3>1. CASE pending' = pending
      BY <1>0, <2>2, <3>1 DEF RestOK
    <3>2. CASE pending' = [pending EXCEPT ![c] = @ - 1]
      BY <1>0, <2>2, <3>2 DEF RestOK
    <3> QED BY <2>2, <3>1, <3>2
  <2> QED BY <1>0, <2>1, <2>2, <2>3, <2>4 DEF RestOK
<1>5. CASE Finish
  BY <1>0, <1>5 DEF Finish, RestOK
<1>6. CASE LoopEnds \/ Stop \/ StopReturns
  BY <1>0, <1>6 DEF LoopEnds, Stop, StopReturns, RestOK
<1>7. ASSUME NEW g \in Passes, Tick(g) PROVE RestOK'
  BY <1>0, <1>7 DEF Tick, RestOK
<1>8. ASSUME NEW g \in Passes, Skip(g) \/ Enter(g) \/ List(g) \/ Abort(g) \/ DequeueNone(g)
      PROVE  RestOK'
  BY <1>0, <1>8 DEF Skip, Enter, List, Abort, DequeueNone, RestOK
<1>9. ASSUME NEW g \in Passes, ListFails(g) \/ DequeueFails(g) PROVE RestOK'
  BY <1>0, <1>9 DEF ListFails, DequeueFails, RestOK
<1>10. ASSUME NEW g \in Passes, Submit(g) PROVE RestOK'
  BY <1>0, <1>10 DEF Submit, RestOK
<1>11. ASSUME NEW g \in Passes, Dequeue(g) PROVE RestOK'
  <2> DEFINE c == Current(pass[g].todo)
  <2>1. pass[g].todo \in SUBSET Clients /\ pass[g].todo # {}
    BY <1>11 DEF Inv, TypeOK, Dequeue
  <2>2. c \in Clients
    BY <2>1, CurrentIsMember
  <2>3. overtaken' = [e \in Clients |-> IF e = c \/ Free(e) = 0
                                          THEN [d \in Clients |-> 0]
                                          ELSE [overtaken[e] EXCEPT ![c] = @ + 1]]
    BY <1>11 DEF Dequeue
  <2> HIDE DEF c
  <2>4. \A e \in Clients : [overtaken[e] EXCEPT ![c] = @ + 1] \in [Clients -> Nat]
    BY <1>0, <2>2 DEF RestOK
  <2>5. overtaken' \in [Clients -> [Clients -> Nat]]
    BY <2>3, <2>4
  <2>6. /\ pending' = [pending EXCEPT ![c] = @ - 1]
        /\ Free(c) > 0
        /\ UNCHANGED <<locked, room, loop, stop, faults>>
    BY <1>11 DEF Dequeue, c
  <2> QED BY <1>0, <2>2, <2>5, <2>6 DEF RestOK, Free
<1> QED BY <1>1, <1>2, <1>3, <1>4, <1>5, <1>6, <1>7, <1>8, <1>9, <1>10, <1>11
     DEF Next, Environment, PassStep, Faults

-----------------------------------------------------------------------------
(* What the steps of the passes, the loop and Stop keep. *)
Kept == /\ PassOK /\ OnePassAtATime /\ WaitGroupCounts
        /\ deficits \in [Clients -> Nat]
        /\ TurnHasCredit /\ CreditOfClients

(* A step that touches none of the variables of Kept. *)
LEMMA KeptFrame ==
  ASSUME Inv, UNCHANGED <<pass, isScheduling, deficits, wg, loop, stop, faults>>
  PROVE  Kept'
BY TypeParts DEF Inv, Kept, PassOK, OnePassAtATime, WaitGroupCounts, Alive, TurnHasCredit,
                 CreditOfClients, HasTurn, cancelled

(* A pass that ends while it has the guard, with the deficits as they are. *)
LEMMA LeaveKeeps ==
  ASSUME Inv, NEW g \in Passes, pass[g].pc \in InRound, Leave(g),
         UNCHANGED <<loop, stop, deficits>>,
         cancelled \/ pass[g].pc = "list",
         faults' \in {faults, faults + 1}
  PROVE  Kept'
<1>1. PassOK' /\ OnePassAtATime' /\ WaitGroupCounts' /\ \A c \in Clients : ~HasTurn(c)'
  BY LeaveFacts
<1>2. ASSUME ~cancelled, NEW c \in Clients PROVE deficits[c] <= quantum * faults'
  <2>1. deficits[c] <= quantum * faults
    <3>1. ~HasTurn(c)
      BY <1>2, HolderHasTheTurn DEF InTurn
    <3> QED BY <1>2, <3>1, CreditType DEF Inv, CreditOfClients
  <2>2. deficits[c] \in Nat
    BY DEF Inv, TypeOK
  <2> QED BY <2>1, <2>2, CreditGrows
<1>3. CreditOfClients'
  BY <1>1, <1>2, CreditGrows DEF CreditOfClients, cancelled
<1> QED BY <1>1, <1>3 DEF Kept, TurnHasCredit, Inv, TypeOK

(* The end of a turn, from deficits that only changed for its client.      *)
LEMMA EndTurnKeeps ==
  ASSUME Inv, NEW g \in Passes, pass[g].pc \in InTurn,
         NEW credit \in [Clients -> Nat], EndTurn(g, credit), UNCHANGED <<loop, stop>>,
         faults' \in {faults, faults + 1},
         \A c \in Clients : c # Current(pass[g].todo) => credit[c] = deficits[c],
         ~cancelled => credit[Current(pass[g].todo)] <= quantum * faults'
  PROVE  Kept'
<1> DEFINE k == Current(pass[g].todo)
<1>1. quantum * faults \in Nat /\ quantum * faults' \in Nat
  BY CreditGrows
<1>2. quantum * faults <= quantum * faults'
  BY CreditGrows
<1>3. ASSUME ~cancelled, NEW c \in Clients PROVE credit[c] <= quantum * faults'
  <2>1. CASE c = k
    BY <1>3, <2>1
  <2>2. CASE c # k
    <3>1. ~HasTurn(c)
      BY <2>2, HolderHasTheTurn DEF InTurn, InRound
    <3>2. deficits[c] <= quantum * faults /\ deficits[c] \in Nat
      BY <1>1, <1>3, <3>1 DEF Inv, TypeOK, CreditOfClients
    <3>3. credit[c] = deficits[c]
      BY <2>2
    <3> QED BY <1>1, <1>2, <3>2, <3>3
  <2> QED BY <2>1, <2>2
<1>4. pass[g].todo \ {k} \in SUBSET Clients /\ pass[g].pc \in InRound
  BY DEF Inv, TypeOK, InTurn, InRound
<1>5. BeginTurn(g, pass[g].todo \ {k}, credit)
  BY DEF EndTurn
<1> QED BY <1>1, <1>3, <1>4, <1>5, BeginTurnFacts DEF Kept

(* Every step of the specification. *)
LEMMA KeptStep == Inv /\ Next => Kept'
<1> SUFFICES ASSUME Inv, Next PROVE Kept'
  OBVIOUS
<1>0. RestOK /\ PassOK /\ deficits \in [Clients -> Nat]
  BY TypeParts DEF Inv
<1>1. CASE Environment
  BY <1>1, KeptFrame DEF Environment, Arrive, Withdraw, PeerSelects, PeerEnds, Finish
<1>2. CASE StopReturns
  BY <1>0, <1>2 DEF StopReturns, Inv, Kept, PassOK, OnePassAtATime, WaitGroupCounts, Alive,
                    TurnHasCredit, CreditOfClients, HasTurn, cancelled
<1>3. CASE Stop
  BY <1>0, <1>3 DEF Stop, Inv, Kept, PassOK, OnePassAtATime, WaitGroupCounts, Alive,
                    TurnHasCredit, CreditOfClients, HasTurn, cancelled
<1>4. CASE LoopEnds
  <2>1. WaitGroupCounts' /\ wg' \in Nat
    <3>1. Alive' = Alive
      BY <1>4 DEF LoopEnds, Alive
    <3> QED BY <1>4, <3>1, AliveIsFinite DEF LoopEnds, Inv, WaitGroupCounts
  <2> QED BY <1>0, <1>4, <2>1 DEF LoopEnds, Inv, Kept, PassOK, OnePassAtATime,
                    TurnHasCredit, CreditOfClients, HasTurn, cancelled
<1>5. ASSUME NEW g \in Passes, Tick(g) PROVE Kept'
  <2>1. pass' = [pass EXCEPT ![g] = [pc |-> "enter", todo |-> {}]]
    <3>1. pass[g] = [pc |-> "none", todo |-> {}]
      BY <1>0, <1>5 DEF Tick, PassOK
    <3>2. [pass[g] EXCEPT !.pc = "enter"] = [pc |-> "enter", todo |-> {}]
      BY <3>1
    <3>3. pass' = [pass EXCEPT ![g] = [pass[g] EXCEPT !.pc = "enter"]]
      BY <1>5 DEF Tick
    <3> QED BY <3>2, <3>3
  <2>2. Alive' = Alive \cup {g} /\ g \notin Alive
    BY <1>0, <1>5, <2>1 DEF Tick, PassOK, Alive
  <2>3. Cardinality(Alive') = Cardinality(Alive) + 1
    BY <2>2, AliveIsFinite, FS_AddElement
  <2>4. WaitGroupCounts' /\ wg' \in Nat
    BY <1>5, <2>3, AliveIsFinite DEF Tick, Inv, WaitGroupCounts
  <2>5. PassOK'
    BY <1>0, <1>5, <2>1, <2>4 DEF Tick, PassOK
  <2>6. \A h \in Passes : /\ pass'[h].pc \in InRound <=> pass[h].pc \in InRound
                          /\ pass[h].pc \in InRound => pass'[h] = pass[h]
    BY <1>0, <1>5, <2>1 DEF Tick, PassOK, InRound
  <2>7. OnePassAtATime'
    BY <1>5, <2>6 DEF Tick, Inv, OnePassAtATime
  <2>8. \A c \in Clients : HasTurn(c)' <=> HasTurn(c)
    BY <2>6 DEF HasTurn, InTurn, InRound
  <2>9. TurnHasCredit' /\ CreditOfClients'
    BY <1>5, <2>8 DEF Tick, Inv, TurnHasCredit, CreditOfClients, cancelled
  <2> QED BY <1>0, <1>5, <2>4, <2>5, <2>7, <2>9 DEF Tick, Kept
<1>6. ASSUME NEW g \in Passes, Skip(g) PROVE Kept'
  <2>1. PassOK' /\ WaitGroupCounts'
    BY <1>0, <1>6, EndFacts DEF Skip, PassOK
  <2>2. \A h \in Passes : /\ pass'[h].pc \in InRound <=> pass[h].pc \in InRound
                          /\ pass[h].pc \in InRound => pass'[h] = pass[h]
    BY <1>0, <1>6 DEF Skip, PassOK, InRound, NoPass
  <2>3. OnePassAtATime'
    BY <1>6, <2>2 DEF Skip, Inv, OnePassAtATime
  <2>4. \A c \in Clients : HasTurn(c)' <=> HasTurn(c)
    BY <2>2 DEF HasTurn, InTurn, InRound
  <2>5. TurnHasCredit' /\ CreditOfClients'
    BY <1>6, <2>4 DEF Skip, Inv, TurnHasCredit, CreditOfClients, cancelled
  <2> QED BY <1>0, <1>6, <2>1, <2>3, <2>5 DEF Skip, Kept
<1>7. ASSUME NEW g \in Passes, Enter(g) PROVE Kept'
  <2> DEFINE p == [pc |-> "list", todo |-> {}]
  <2>1. pass' = [pass EXCEPT ![g] = p]
    <3>1. pass[g] = [pc |-> "enter", todo |-> {}]
      BY <1>0, <1>7 DEF Enter, PassOK
    <3>2. [pass[g] EXCEPT !.pc = "list"] = [pc |-> "list", todo |-> {}]
      BY <3>1
    <3>3. pass' = [pass EXCEPT ![g] = [pass[g] EXCEPT !.pc = "list"]]
      BY <1>7 DEF Enter
    <3> QED BY <3>2, <3>3
  <2>2. /\ p \in [pc : {"enter"} \cup InRound, todo : SUBSET Clients]
        /\ p.pc \in InTurn <=> p.todo # {}
    BY DEF InRound, InTurn
  <2>3. PassOK' /\ WaitGroupCounts'
    <3> HIDE DEF p
    <3> QED BY <1>7, <2>1, <2>2, MoveFacts DEF Enter, PassOK
  <2>4. \A h \in Passes : pass'[h].pc \in InRound <=> h = g
    BY <1>0, <1>7, <2>1 DEF Enter, PassOK, Inv, OnePassAtATime, InRound
  <2>5. OnePassAtATime'
    BY <1>7, <2>4 DEF Enter, OnePassAtATime
  <2>6. \A c \in Clients : ~HasTurn(c) /\ ~HasTurn(c)'
    <3>1. \A h \in Passes : pass[h].pc \notin InTurn
      BY <1>7 DEF Enter, Inv, OnePassAtATime, InTurn, InRound
    <3>2. \A h \in Passes : pass'[h].pc \notin InTurn
      BY <1>0, <2>1, <2>4 DEF PassOK, InTurn, InRound
    <3> QED BY <3>1, <3>2 DEF HasTurn
  <2>7. TurnHasCredit' /\ CreditOfClients'
    BY <1>7, <2>6 DEF Enter, Inv, TurnHasCredit, CreditOfClients, cancelled
  <2> QED BY <1>0, <1>7, <2>3, <2>5, <2>7 DEF Enter, Kept
<1>8. ASSUME NEW g \in Passes, Abort(g) \/ ListFails(g) PROVE Kept'
  <2>1. /\ pass[g].pc \in InRound /\ (cancelled \/ pass[g].pc = "list")
        /\ Leave(g) /\ UNCHANGED <<loop, stop, deficits>>
        /\ faults' \in {faults, faults + 1}
    BY <1>8 DEF Abort, ListFails, InRound
  <2> QED BY <2>1, LeaveKeeps
<1>9. ASSUME NEW g \in Passes, List(g) PROVE Kept'
  <2> DEFINE credit == [c \in Clients |-> IF pending[c] > 0 THEN deficits[c] ELSE 0]
  <2>1. /\ pass[g].pc = "list" /\ BeginTurn(g, ClientsWithPendingTasks, credit)
        /\ UNCHANGED <<loop, stop, faults>>
    BY <1>9 DEF List
  <2>2. ClientsWithPendingTasks \in SUBSET Clients /\ credit \in [Clients -> Nat]
    BY <1>0 DEF ClientsWithPendingTasks
  <2>3. quantum * faults \in Nat
    BY CreditType
  <2>4. ASSUME ~cancelled, NEW c \in Clients PROVE credit[c] <= quantum * faults
    <3>1. ~HasTurn(c)
      BY <2>1, HolderHasTheTurn DEF InTurn, InRound
    <3> QED BY <1>0, <2>3, <2>4, <3>1 DEF Inv, CreditOfClients
  <2>5. quantum * faults' \in Nat /\ (~cancelled => \A c \in Clients : credit[c] <= quantum * faults')
    BY <2>1, <2>3, <2>4
  <2>6. pass[g].pc \in InRound
    BY <2>1 DEF InRound
  <2> HIDE DEF credit
  <2> QED BY <2>1, <2>2, <2>5, <2>6, BeginTurnFacts DEF Kept
<1>10. ASSUME NEW g \in Passes, Dequeue(g) PROVE Kept'
  <2> DEFINE p == [pc |-> "submit", todo |-> pass[g].todo]
  <2>1. /\ pass[g].pc = "serve" /\ pass' = [pass EXCEPT ![g].pc = "submit"]
        /\ UNCHANGED <<loop, isScheduling, deficits, wg, stop, faults>>
    BY <1>10 DEF Dequeue
  <2>2. pass' = [pass EXCEPT ![g] = p]
    <3>1. pass[g] = [pc |-> "serve", todo |-> pass[g].todo]
      BY <1>0, <2>1 DEF PassOK
    <3>2. [pass[g] EXCEPT !.pc = "submit"] = p
      BY <3>1
    <3>3. pass' = [pass EXCEPT ![g] = [pass[g] EXCEPT !.pc = "submit"]]
      BY <2>1
    <3> QED BY <3>2, <3>3
  <2>3. /\ p \in [pc : {"enter"} \cup InRound, todo : SUBSET Clients]
        /\ p.pc \in InTurn <=> p.todo # {}
    BY <1>0, <2>1 DEF PassOK, InRound, InTurn
  <2>4. PassOK' /\ WaitGroupCounts'
    <3> HIDE DEF p
    <3> QED BY <1>0, <2>1, <2>2, <2>3, MoveFacts DEF PassOK
  <2>5. \A h \in Passes : /\ pass'[h].pc \in InRound <=> pass[h].pc \in InRound
                          /\ pass'[h].pc \in InTurn <=> pass[h].pc \in InTurn
                          /\ pass'[h].todo = pass[h].todo
    BY <1>0, <2>1, <2>2 DEF PassOK, InRound, InTurn
  <2>6. OnePassAtATime'
    BY <2>1, <2>5 DEF Inv, OnePassAtATime
  <2>7. \A c \in Clients : HasTurn(c)' <=> HasTurn(c)
    BY <2>5 DEF HasTurn
  <2>8. TurnHasCredit' /\ CreditOfClients'
    BY <2>1, <2>7 DEF Inv, TurnHasCredit, CreditOfClients, cancelled
  <2> QED BY <1>0, <2>1, <2>4, <2>6, <2>8 DEF Kept
<1>11. ASSUME NEW g \in Passes, DequeueNone(g) PROVE Kept'
  <2> DEFINE k == Current(pass[g].todo)
             credit == [deficits EXCEPT ![k] = 0]
  <2>1. /\ pass[g].pc \in InTurn /\ EndTurn(g, credit) /\ UNCHANGED <<loop, stop, faults>>
    BY <1>11 DEF DequeueNone, InTurn
  <2>2. k \in Clients
    BY <1>0, <2>1, CurrentIsMember DEF PassOK, InTurn
  <2>3. /\ credit \in [Clients -> Nat] /\ credit[k] = 0
        /\ \A c \in Clients : c # k => credit[c] = deficits[c]
    BY <1>0, <2>2
  <2>4. credit[k] <= quantum * faults'
    BY <2>1, <2>3, CreditType
  <2> HIDE DEF credit
  <2> QED BY <2>1, <2>3, <2>4, EndTurnKeeps
<1>12. ASSUME NEW g \in Passes, DequeueFails(g) PROVE Kept'
  <2> DEFINE k == Current(pass[g].todo)
  <2>1. /\ pass[g].pc \in InTurn /\ EndTurn(g, deficits) /\ UNCHANGED <<loop, stop>>
        /\ faults' = faults + 1 /\ ~cancelled
    BY <1>12 DEF DequeueFails, InTurn
  <2>2. k \in Clients
    BY <1>0, <2>1, CurrentIsMember DEF PassOK, InTurn
  <2>3. deficits[k] <= quantum * faults + quantum
    <3>1. quantum * faults \in Nat /\ quantum \in Nat
      BY CreditType, QuantumType
    <3> QED BY <1>0, <2>1, <2>2, <3>1 DEF Inv, CreditOfClients
  <2>4. deficits[k] <= quantum * faults'
    BY <2>1, <2>3, CreditGrows
  <2> QED BY <1>0, <2>1, <2>4, EndTurnKeeps
<1>13. ASSUME NEW g \in Passes, Submit(g) PROVE Kept'
  <2> DEFINE k == Current(pass[g].todo)
             credit == [deficits EXCEPT ![k] = @ - 1]
  <2>1. pass[g].pc = "submit" /\ UNCHANGED <<loop, stop, faults>>
    BY <1>13 DEF Submit
  <2>2. k \in Clients
    BY <1>0, <2>1, CurrentIsMember DEF PassOK, InTurn
  <2>3. deficits[k] > 0 /\ deficits[k] \in Nat
    <3>1. HasTurn(k)
      BY <2>1 DEF HasTurn, InTurn
    <3> QED BY <1>0, <2>2, <3>1 DEF Inv, TurnHasCredit
  <2>4. /\ credit \in [Clients -> Nat] /\ credit[k] = deficits[k] - 1
        /\ \A c \in Clients : c # k => credit[c] = deficits[c]
    BY <1>0, <2>2, <2>3
  <2>5. CASE credit[k] <= 0
    <3>1. EndTurn(g, credit)
      BY <1>13, <2>4, <2>5 DEF Submit
    <3>2. pass[g].pc \in InTurn /\ credit[k] <= quantum * faults'
      BY <2>1, <2>4, <2>5, CreditType DEF InTurn
    <3> HIDE DEF credit
    <3> QED BY <2>1, <2>4, <3>1, <3>2, EndTurnKeeps
  <2>6. CASE credit[k] > 0
    <3> DEFINE p == [pc |-> "serve", todo |-> pass[g].todo]
    <3>1. /\ pass' = [pass EXCEPT ![g].pc = "serve"]
          /\ deficits' = credit /\ UNCHANGED <<isScheduling, wg>>
      BY <1>13, <2>4, <2>6 DEF Submit
    <3>2. pass' = [pass EXCEPT ![g] = p]
      <4>1. pass[g] = [pc |-> "submit", todo |-> pass[g].todo]
        BY <1>0, <2>1 DEF PassOK
      <4>2. [pass[g] EXCEPT !.pc = "serve"] = p
        BY <4>1
      <4>3. pass' = [pass EXCEPT ![g] = [pass[g] EXCEPT !.pc = "serve"]]
        BY <3>1
      <4> QED BY <4>2, <4>3
    <3>3. /\ p \in [pc : {"enter"} \cup InRound, todo : SUBSET Clients]
          /\ p.pc \in InTurn <=> p.todo # {}
      BY <1>0, <2>1 DEF PassOK, InRound, InTurn
    <3>4. PassOK' /\ WaitGroupCounts'
      <4> HIDE DEF p
      <4> QED BY <1>0, <2>1, <3>1, <3>2, <3>3, MoveFacts DEF PassOK
    <3>5. \A h \in Passes : /\ pass'[h].pc \in InRound <=> pass[h].pc \in InRound
                            /\ pass'[h].pc \in InTurn <=> pass[h].pc \in InTurn
                            /\ pass'[h].todo = pass[h].todo
      BY <1>0, <2>1, <3>2 DEF PassOK, InRound, InTurn
    <3>6. OnePassAtATime'
      BY <3>1, <3>5 DEF Inv, OnePassAtATime
    <3>7. \A c \in Clients : HasTurn(c)' <=> HasTurn(c)
      BY <3>5 DEF HasTurn
    <3>8. \A c \in Clients : HasTurn(c) => c = k
      BY <2>1, HolderHasTheTurn DEF InRound
    <3>9. TurnHasCredit'
      BY <2>6, <3>1, <3>7, <3>8 DEF TurnHasCredit
    <3>10. ASSUME ~cancelled, NEW c \in Clients
           PROVE  deficits'[c] <= quantum * faults' + IF HasTurn(c)' THEN quantum ELSE 0
      <4>1. deficits[c] <= quantum * faults + IF HasTurn(c) THEN quantum ELSE 0
        BY <3>10 DEF Inv, CreditOfClients
      <4>2. deficits'[c] <= deficits[c] /\ deficits'[c] \in Nat /\ deficits[c] \in Nat
        BY <1>0, <2>3, <2>4, <3>1
      <4>3. quantum * faults \in Nat /\ quantum \in Nat
        BY CreditType, QuantumType
      <4> QED BY <2>1, <3>7, <4>1, <4>2, <4>3
    <3>11. CreditOfClients'
      BY <2>1, <3>10 DEF CreditOfClients, cancelled
    <3> QED BY <2>4, <3>1, <3>4, <3>6, <3>9, <3>11 DEF Kept
  <2> QED BY <2>3, <2>4, <2>5, <2>6
<1> QED BY <1>1, <1>2, <1>3, <1>4, <1>5, <1>6, <1>7, <1>8, <1>9, <1>10, <1>11, <1>12, <1>13
     DEF Next, PassStep, Faults

-----------------------------------------------------------------------------
LEMMA InvInit == Init => Inv
<1> SUFFICES ASSUME Init PROVE Inv
  OBVIOUS
<1>1. TypeOK
  <2>1. PassOK
    BY DEF Init, PassOK, NoPass, InRound
  <2>2. overtaken \in [Clients -> [Clients -> Nat]]
    BY DEF Init
  <2>3. RestOK
    BY <2>2, SchedulerAssumption DEF Init, RestOK
  <2>4. deficits \in [Clients -> Nat]
    BY DEF Init
  <2> QED BY <2>1, <2>3, <2>4, TypeParts
<1>2. Alive = {}
  BY DEF Init, Alive, NoPass
<1>3. WaitGroupCounts
  BY <1>2, FS_EmptySet DEF Init, WaitGroupCounts
<1>4. \A c \in Clients : ~HasTurn(c)
  BY DEF Init, HasTurn, NoPass, InTurn
<1>5. OnePassAtATime
  BY DEF Init, OnePassAtATime, NoPass, InRound
<1>6. TurnHasCredit /\ CreditOfClients
  BY <1>1, <1>4, QuantumType DEF Init, TurnHasCredit, CreditOfClients
<1> QED BY <1>1, <1>3, <1>5, <1>6 DEF Inv

LEMMA InvStep == Inv /\ [Next]_vars => Inv'
<1>1. Inv /\ Next => Inv'
  <2> SUFFICES ASSUME Inv, Next PROVE Inv'
    OBVIOUS
  <2>1. RestOK' /\ Kept'
    BY RestStep, KeptStep
  <2>2. TypeOK'
    BY <2>1, TypeParts DEF Kept, TypeOK, RestOK, PassOK
  <2> QED BY <2>1, <2>2 DEF Inv, Kept
<1>2. Inv /\ UNCHANGED vars => Inv'
  <2> SUFFICES ASSUME Inv, UNCHANGED vars PROVE Inv'
    OBVIOUS
  <2>1. Kept'
    BY KeptFrame DEF vars
  <2>2. TypeOK'
    BY DEF vars, queueVars, Inv, TypeOK
  <2> QED BY <2>1, <2>2 DEF Inv, Kept
<1> QED BY <1>1, <1>2

(* The inductive invariant holds: no deficit is negative, and the          *)
(* WaitGroup counts exactly the loop and the passes.                       *)
THEOREM Invariance == Spec => []Inv
BY InvInit, InvStep, PTL DEF Spec

(* Every variable has its type; in particular no deficit goes below zero.  *)
THEOREM TypeCorrect == Spec => []TypeOK
<1>1. Inv => TypeOK
  BY DEF Inv
<1> QED BY Invariance, <1>1, PTL

(* scheduler.go: "Exactly one pass runs at a time". *)
THEOREM Exclusion == Spec => []OnePassAtATime
<1>1. Inv => OnePassAtATime
  BY DEF Inv
<1> QED BY Invariance, <1>1, PTL

(* When Scheduler.Stop returns, nothing it has started is left: the pool   *)
(* can be closed.                                                          *)
THEOREM QuiescentStop == Spec => []StopIsQuiescent
<1>1. Init => StopIsQuiescent
  BY DEF Init, StopIsQuiescent
<1>2. Inv /\ wg = 0 => loop = "ended" /\ \A g \in Passes : pass[g].pc = "none"
  <2> SUFFICES ASSUME Inv, wg = 0 PROVE loop = "ended" /\ \A g \in Passes : pass[g].pc = "none"
    OBVIOUS
  <2>1. loop = "ended" /\ Cardinality(Alive) = 0
    BY AliveIsFinite DEF Inv, WaitGroupCounts
  <2>2. Alive = {}
    BY <2>1, AliveIsFinite, FS_EmptySet
  <2> QED BY <2>1, <2>2 DEF Alive
<1>3. Inv /\ StopIsQuiescent /\ [Next]_vars => StopIsQuiescent'
  <2> SUFFICES ASSUME Inv, StopIsQuiescent, [Next]_vars, stop' = "returned"
               PROVE  loop' = "ended" /\ \A g \in Passes : pass'[g].pc = "none"
    BY DEF StopIsQuiescent
  <2>1. CASE stop = "returned"
    <3>1. loop = "ended" /\ \A g \in Passes : pass[g].pc = "none"
      BY <2>1 DEF StopIsQuiescent
    <3>2. UNCHANGED <<loop, pass>>
      BY <2>1, <3>1 DEF Next, vars, Environment, Arrive, Withdraw, PeerSelects, PeerEnds, Finish,
           PassStep, Skip, Enter, List, Abort, Dequeue, DequeueNone, Submit, Faults, ListFails,
           DequeueFails, Tick, LoopEnds, Stop, StopReturns
    <3> QED BY <3>1, <3>2
  <2>2. CASE stop # "returned"
    <3>1. StopReturns
      BY <2>2 DEF Next, vars, Environment, Arrive, Withdraw, PeerSelects, PeerEnds, Finish,
           PassStep, Skip, Enter, List, Abort, Dequeue, DequeueNone, Submit, Faults, ListFails,
           DequeueFails, Tick, LoopEnds, Stop
    <3> QED BY <1>2, <3>1 DEF StopReturns
  <2> QED BY <2>1, <2>2
<1> QED BY <1>1, <1>3, Invariance, PTL DEF Spec

(* "No hoarding": a client's credit is bounded by its turn and the failed  *)
(* statements.                                                             *)
THEOREM BoundedCredit == Spec => []NoHoarding
<1>1. Inv => NoHoarding
  <2> SUFFICES ASSUME Inv, ~cancelled, NEW c \in Clients
               PROVE  deficits[c] <= quantum * (faults + IF isScheduling THEN 1 ELSE 0)
    BY DEF NoHoarding
  <2>1. HasTurn(c) => isScheduling
    BY DEF Inv, OnePassAtATime, HasTurn, InTurn, InRound
  <2>2. quantum \in Nat /\ faults \in Nat /\ deficits[c] \in Nat /\ isScheduling \in BOOLEAN
    BY QuantumType DEF Inv, TypeOK
  <2>3. quantum * (faults + 1) = quantum * faults + quantum /\ quantum * faults \in Nat
    BY <2>2, OneMore
  <2>4. deficits[c] <= quantum * faults + IF HasTurn(c) THEN quantum ELSE 0
    BY DEF Inv, CreditOfClients
  <2>5. CASE isScheduling
    BY <2>2, <2>3, <2>4, <2>5
  <2>6. CASE ~isScheduling
    BY <2>1, <2>2, <2>3, <2>4, <2>6
  <2> QED BY <2>5, <2>6
<1> QED BY Invariance, <1>1, PTL

-----------------------------------------------------------------------------
(* How often a client is overtaken.  What another client d can still claim *)
(* before c is served is its credit, a quantum if its turn in this round   *)
(* is still to come before that of c, and one if c has no turn in this     *)
(* round and d has one before c in the next.                               *)

Todo == UNION {pass[g].todo : g \in Passes}

Later(todo, d) == d \in todo /\ d # Current(todo)

Ahead(todo, c, d) ==
    IF c \in todo
      THEN IF Later(todo, d) /\ d < c THEN quantum ELSE 0
      ELSE (IF Later(todo, d) THEN quantum ELSE 0) + (IF d < c THEN quantum ELSE 0)

(* The quantum that begins the turn of the first of todo. *)
Granted(todo, d) == IF todo # {} /\ d = Current(todo) THEN quantum ELSE 0

(* A task that was dequeued is paid for when it has been submitted. *)
Claimable(d) == deficits[d] - IF Dispatching(d) THEN 1 ELSE 0

Limit == quantum * (2 + faults)

(* A client that is overtaken has a task to claim, *)
WaitingHasTasks ==
    \A c, d \in Clients : overtaken[c][d] > 0 => locked[c] < pending[c]

(* never overtakes itself, *)
NoneOvertakesItself == \A c \in Clients : overtaken[c][c] = 0

(* and is no longer overtaken when a task of it is being dispatched. *)
ServedIsReset ==
    \A c \in Clients : Dispatching(c) => \A d \in Clients : overtaken[c][d] = 0

(* What d has claimed and what it still can is within the limit, *)
OvertakingIsBounded ==
    ~cancelled => \A c, d \in Clients : c # d =>
                    overtaken[c][d] + Claimable(d) + Ahead(Todo, c, d) <= Limit

(* also if it starts from nothing: that is NoHoarding. *)
FreshStartIsBounded ==
    ~cancelled => \A c, d \in Clients : Claimable(d) + Ahead(Todo, c, d) <= Limit

OvertakingInv == /\ WaitingHasTasks
                 /\ NoneOvertakesItself
                 /\ ServedIsReset
                 /\ OvertakingIsBounded
                 /\ BoundedOvertaking

LEMMA LimitFacts ==
  ASSUME TypeOK
  PROVE  /\ quantum \in Nat /\ quantum * faults \in Nat /\ Limit \in Nat
         /\ Limit = quantum * faults + quantum + quantum
<1>1. quantum \in Nat /\ faults \in Nat
  BY QuantumType DEF TypeOK
<1>2. \A q, f \in Nat : q * (2 + f) = q * f + q + q /\ q * f \in Nat
  OBVIOUS
<1> QED BY <1>1, <1>2 DEF Limit

LEMMA AheadType ==
  ASSUME NEW todo \in SUBSET Clients, NEW c \in Clients, NEW d \in Clients
  PROVE  /\ Ahead(todo, c, d) \in Nat /\ Granted(todo, d) \in Nat
         /\ Granted(todo, d) + Ahead(todo, c, d) <= quantum + quantum
BY QuantumType DEF Ahead, Granted, Later

(* A turn of somebody else ends: d gets at most the turn it was owed. *)
LEMMA NextTurn ==
  ASSUME NEW todo \in SUBSET Clients, todo # {},
         NEW c \in Clients, NEW d \in Clients, c # d, c # Current(todo)
  PROVE  Granted(todo \ {Current(todo)}, d) + Ahead(todo \ {Current(todo)}, c, d)
           <= Ahead(todo, c, d)
<1>1. PICK k : k = Current(todo) /\ k \in todo /\ \A e \in todo : k <= e
  BY CurrentIsMember
<1>2. PICK next : next = todo \ {k}
  OBVIOUS
<1>3. c \in next <=> c \in todo
  BY <1>1, <1>2
<1>4. ASSUME d \in next PROVE Later(todo, d)
  BY <1>1, <1>2, <1>4 DEF Later
<1>5. CASE next = {}
  BY <1>1, <1>2, <1>3, <1>5, QuantumType DEF Granted, Ahead, Later
<1>6. CASE next # {}
  <2>1. Current(next) \in next /\ \A e \in next : Current(next) <= e
    BY <1>2, <1>6, CurrentIsMember
  <2>2. CASE d = Current(next)
    <3>1. Granted(next, d) = quantum /\ ~Later(next, d) /\ Later(todo, d)
      BY <1>4, <1>6, <2>1, <2>2 DEF Granted, Later
    <3>2. c \in next => d < c
      BY <2>1, <2>2, SchedulerAssumption DEF Clients
    <3>3. Ahead(next, c, d) = IF c \in todo \/ ~(d < c) THEN 0 ELSE quantum
      BY <1>3, <3>1, QuantumType DEF Ahead
    <3>4. Ahead(todo, c, d) = IF c \in todo \/ ~(d < c) THEN quantum ELSE quantum + quantum
      BY <1>3, <3>1, <3>2, QuantumType DEF Ahead
    <3> QED BY <1>1, <1>2, <3>1, <3>3, <3>4, QuantumType
  <2>3. CASE d # Current(next)
    <3>1. Granted(next, d) = 0
      BY <2>3 DEF Granted
    <3>2. Later(next, d) => Later(todo, d)
      BY <1>4 DEF Later
    <3>3. Ahead(next, c, d) <= Ahead(todo, c, d) /\ Ahead(next, c, d) \in Nat
      BY <1>3, <3>2, QuantumType DEF Ahead
    <3> QED BY <1>1, <1>2, <3>1, <3>3
  <2> QED BY <2>2, <2>3
<1> QED BY <1>5, <1>6

(* The turn of c ends: only this happens at the price of a quantum. *)
LEMMA OwnTurnEnds ==
  ASSUME NEW todo \in SUBSET Clients, todo # {},
         NEW c \in Clients, NEW d \in Clients, c # d, c = Current(todo)
  PROVE  Granted(todo \ {c}, d) + Ahead(todo \ {c}, c, d) <= quantum
<1>1. c \in todo /\ \A e \in todo : c <= e
  BY CurrentIsMember
<1>2. PICK next : next = todo \ {c}
  OBVIOUS
<1>3. \A e \in next : ~(e < c)
  BY <1>1, <1>2, SchedulerAssumption DEF Clients
<1>4. c \notin next
  BY <1>2
<1>5. CASE next = {}
  BY <1>2, <1>4, <1>5, QuantumType DEF Granted, Ahead, Later
<1>6. CASE next # {}
  <2>1. Current(next) \in next
    BY <1>2, <1>6, CurrentIsMember
  <2>2. CASE d \in next
    <3>1. ~(d < c)
      BY <1>3, <2>2
    <3> QED BY <1>2, <1>4, <3>1, QuantumType DEF Granted, Ahead, Later
  <2>3. CASE d \notin next
    BY <1>2, <1>4, <2>1, <2>3, QuantumType DEF Granted, Ahead, Later
  <2> QED BY <2>2, <2>3
<1> QED BY <1>5, <1>6

(* A round begins in which c has a turn. *)
LEMMA RoundBegins ==
  ASSUME NEW todo \in SUBSET Clients,
         NEW c \in Clients, NEW d \in Clients, c # d, c \in todo
  PROVE  Granted(todo, d) + Ahead(todo, c, d) <= Ahead({}, c, d)
<1>1. Current(todo) \in todo /\ \A e \in todo : Current(todo) <= e
  BY CurrentIsMember
<1>2. Ahead({}, c, d) = IF d < c THEN quantum ELSE 0
  BY QuantumType DEF Ahead, Later
<1>3. CASE d = Current(todo)
  <2>1. d < c
    BY <1>1, <1>3, SchedulerAssumption DEF Clients
  <2> QED BY <1>2, <1>3, <2>1, QuantumType DEF Granted, Ahead, Later
<1>4. CASE d # Current(todo)
  BY <1>2, <1>4, QuantumType DEF Granted, Ahead
<1> QED BY <1>3, <1>4

-----------------------------------------------------------------------------
(* The clients that still have a turn are those of the pass that has the   *)
(* guard.                                                                  *)
LEMMA TodoOfRound ==
  ASSUME Inv
  PROVE  /\ Todo \in SUBSET Clients
         /\ \A g \in Passes : pass[g].pc \in InRound => Todo = pass[g].todo
         /\ (\A g \in Passes : pass[g].pc \notin InTurn) => Todo = {}
<1>1. \A g \in Passes : /\ pass[g].todo \in SUBSET Clients
                        /\ pass[g].todo # {} => pass[g].pc \in InTurn
  BY DEF Inv, TypeOK, InTurn
<1>2. ASSUME NEW g \in Passes, pass[g].pc \in InRound PROVE Todo = pass[g].todo
  <2>1. \A h \in Passes : h # g => pass[h].todo = {}
    BY <1>1, <1>2 DEF Inv, OnePassAtATime, InTurn, InRound
  <2> QED BY <2>1 DEF Todo
<1>3. Todo \in SUBSET Clients
  BY <1>1 DEF Todo
<1>4. (\A g \in Passes : pass[g].pc \notin InTurn) => Todo = {}
  BY <1>1 DEF Todo
<1> QED BY <1>2, <1>3, <1>4

LEMMA ClaimableType ==
  ASSUME Inv, NEW d \in Clients
  PROVE  Claimable(d) \in Nat
<1>1. deficits[d] \in Nat
  BY DEF Inv, TypeOK
<1>2. Dispatching(d) => deficits[d] > 0
  BY DEF Inv, TurnHasCredit, HasTurn, InTurn, Dispatching
<1> QED BY <1>1, <1>2 DEF Claimable

(* CreditOfClients says that whoever is not overtaken yet will not be too  *)
(* often.                                                                  *)
LEMMA FreshStart == Inv => FreshStartIsBounded
<1> SUFFICES ASSUME Inv, ~cancelled, NEW c \in Clients, NEW d \in Clients
             PROVE  Claimable(d) + Ahead(Todo, c, d) <= Limit
  BY DEF FreshStartIsBounded
<1>1. /\ quantum \in Nat /\ quantum * faults \in Nat /\ Limit \in Nat
      /\ Limit = quantum * faults + quantum + quantum
  BY LimitFacts DEF Inv
<1>2. /\ Todo \in SUBSET Clients
      /\ Ahead(Todo, c, d) \in Nat /\ Granted(Todo, d) \in Nat
      /\ Granted(Todo, d) + Ahead(Todo, c, d) <= quantum + quantum
  BY TodoOfRound, AheadType
<1>3. deficits[d] \in Nat
  BY DEF Inv, TypeOK
<1>4. Claimable(d) <= deficits[d] /\ Claimable(d) \in Nat
  BY <1>3, ClaimableType DEF Claimable
<1>5. deficits[d] <= quantum * faults + IF HasTurn(d) THEN quantum ELSE 0
  BY DEF Inv, CreditOfClients
<1>6. HasTurn(d) => Granted(Todo, d) = quantum
  <2>1. ASSUME NEW g \in Passes, pass[g].pc \in InTurn, d = Current(pass[g].todo)
        PROVE  Todo # {} /\ d = Current(Todo)
    <3>1. Todo = pass[g].todo /\ pass[g].todo # {}
      BY <2>1, TodoOfRound DEF Inv, TypeOK, InTurn, InRound
    <3> QED BY <2>1, <3>1
  <2> QED BY <2>1 DEF HasTurn, Granted
<1>7. CASE HasTurn(d)
  BY <1>1, <1>2, <1>3, <1>4, <1>5, <1>6, <1>7
<1>8. CASE ~HasTurn(d)
  BY <1>1, <1>2, <1>3, <1>4, <1>5, <1>8
<1> QED BY <1>7, <1>8

LEMMA FreshStartNext == Inv' => FreshStartIsBounded'
BY FreshStart, PTL

TodoIsClients == Todo \in SUBSET Clients
ClaimableIsNat == \A d \in Clients : Claimable(d) \in Nat

LEMMA TodoNext == Inv' => Todo' \in SUBSET Clients
<1>1. Inv => TodoIsClients
  BY TodoOfRound DEF TodoIsClients
<1>2. Inv' => TodoIsClients'
  BY <1>1, PTL
<1> QED BY <1>2 DEF TodoIsClients, Clients

LEMMA ClaimableNext == Inv' => \A d \in Clients : Claimable(d)' \in Nat
<1>1. Inv => ClaimableIsNat
  BY ClaimableType DEF ClaimableIsNat
<1>2. Inv' => ClaimableIsNat'
  BY <1>1, PTL
<1> QED BY <1>2 DEF ClaimableIsNat, Clients

(* After BeginTurn nothing is being dispatched, and who has the turn has   *)
(* the quantum.                                                            *)
LEMMA TurnBegins ==
  ASSUME Inv, NEW g \in Passes, pass[g].pc \in InRound,
         NEW todo \in SUBSET Clients, NEW credit \in [Clients -> Nat],
         BeginTurn(g, todo, credit)
  PROVE  /\ Todo' = todo
         /\ \A d \in Clients : ~Dispatching(d)'
         /\ \A d \in Clients : Claimable(d)' = credit[d] + Granted(todo, d)
<1>0. \A h \in Passes : h # g => pass[h].todo = {} /\ pass[h].pc \notin InRound
  BY DEF Inv, TypeOK, OnePassAtATime, InRound
<1> PICK p : p = IF todo = {} THEN NoPass ELSE [pc |-> "serve", todo |-> todo]
  OBVIOUS
<1>1. /\ pass' = [pass EXCEPT ![g] = p] /\ p.todo = todo /\ p.pc # "submit"
      /\ \A d \in Clients : deficits'[d] = credit[d] + Granted(todo, d)
  <2>1. CASE todo = {}
    <3>1. pass' = [pass EXCEPT ![g] = NoPass] /\ deficits' = credit /\ p = NoPass
      BY <2>1 DEF BeginTurn, Leave
    <3>2. NoPass.todo = todo /\ NoPass.pc # "submit"
      BY <2>1 DEF NoPass
    <3>3. \A d \in Clients : credit[d] \in Int /\ Granted(todo, d) = 0
      BY <2>1 DEF Granted
    <3>4. \A d \in Clients : credit[d] = credit[d] + Granted(todo, d)
      BY <3>3
    <3> QED BY <3>1, <3>2, <3>4
  <2>2. CASE todo # {}
    <3>1. /\ pass' = [pass EXCEPT ![g] = [pc |-> "serve", todo |-> todo]]
          /\ deficits' = [credit EXCEPT ![Current(todo)] = @ + quantum]
          /\ p = [pc |-> "serve", todo |-> todo]
      BY <2>2 DEF BeginTurn
    <3>2. Current(todo) \in Clients
      BY <2>2, CurrentIsMember
    <3>3. \A d \in Clients : deficits'[d] = credit[d] + Granted(todo, d)
      BY <2>2, <3>1, <3>2, QuantumType DEF Granted
    <3>4. p.todo = todo /\ p.pc # "submit"
      BY <3>1
    <3> HIDE <2>2
    <3> QED BY <3>1, <3>3, <3>4
  <2> QED BY <2>1, <2>2
<1>2. pass'[g] = p /\ \A h \in Passes : h # g => pass'[h] = pass[h]
  BY <1>1 DEF Inv, TypeOK
<1>3. Todo' = todo
  BY <1>0, <1>1, <1>2 DEF Todo
<1>4. \A d \in Clients : ~Dispatching(d)'
  BY <1>0, <1>1, <1>2 DEF Dispatching, InRound
<1>5. \A d \in Clients : credit[d] \in Nat /\ Granted(todo, d) \in Nat
  BY QuantumType DEF Granted
<1> QED BY <1>1, <1>3, <1>4, <1>5 DEF Claimable

(* Of the steps that end the turn of k with a new credit for it, none lets *)
(* a client be overtaken more but the end of its own turn.                 *)
LEMMA TurnEnds ==
  ASSUME Inv, NEW g \in Passes, pass[g].pc \in InTurn,
         NEW credit \in [Clients -> Nat], EndTurn(g, credit),
         \A d \in Clients : credit[d] <= Claimable(d)
  PROVE  /\ \A d \in Clients : ~Dispatching(d)'
         /\ \A c, d \in Clients : c # d =>
              Claimable(d)' + Ahead(Todo', c, d)
                <= Claimable(d) + Ahead(Todo, c, d)
                     + IF c = Current(pass[g].todo) THEN quantum ELSE 0
<1>1. PICK todo : todo = pass[g].todo
  OBVIOUS
<1>2. todo \in SUBSET Clients /\ todo # {} /\ pass[g].pc \in InRound /\ Todo = todo
  BY <1>1, TodoOfRound DEF Inv, TypeOK, InTurn, InRound
<1>3. PICK k : k = Current(todo)
  OBVIOUS
<1>4. PICK next : next = todo \ {k}
  OBVIOUS
<1>5. BeginTurn(g, next, credit) /\ next \in SUBSET Clients
  BY <1>1, <1>2, <1>3, <1>4 DEF EndTurn
<1>6. /\ Todo' = next
      /\ \A d \in Clients : ~Dispatching(d)'
      /\ \A d \in Clients : Claimable(d)' = credit[d] + Granted(next, d)
  BY <1>2, <1>5, TurnBegins
<1>7. ASSUME NEW c \in Clients, NEW d \in Clients, c # d
      PROVE  Claimable(d)' + Ahead(next, c, d)
               <= Claimable(d) + Ahead(todo, c, d) + IF c = k THEN quantum ELSE 0
  <2>1. Granted(next, d) + Ahead(next, c, d) <= Ahead(todo, c, d) + IF c = k THEN quantum ELSE 0
    <3>1. CASE c = k
      <4>1. Granted(next, d) + Ahead(next, c, d) <= quantum
        BY <1>2, <1>3, <1>4, <1>7, <3>1, OwnTurnEnds
      <4> QED BY <1>2, <1>5, <3>1, <4>1, AheadType, QuantumType
    <3>2. CASE c # k
      <4>1. Granted(next, d) + Ahead(next, c, d) <= Ahead(todo, c, d)
        BY <1>2, <1>3, <1>4, <1>7, <3>2, NextTurn
      <4> QED BY <1>2, <3>2, <4>1, AheadType
    <3> QED BY <3>1, <3>2
  <2>2. /\ Granted(next, d) \in Nat /\ Ahead(next, c, d) \in Nat /\ Ahead(todo, c, d) \in Nat
        /\ quantum \in Nat /\ credit[d] \in Nat /\ Claimable(d) \in Nat
    BY <1>2, <1>5, AheadType, ClaimableType, QuantumType
  <2>3. Claimable(d)' = credit[d] + Granted(next, d) /\ credit[d] <= Claimable(d)
    BY <1>6
  <2> QED BY <2>1, <2>2, <2>3
<1>8. \A c, d \in Clients : Ahead(Todo', c, d) = Ahead(next, c, d)
  BY <1>6
<1> QED BY <1>1, <1>2, <1>3, <1>6, <1>7, <1>8

-----------------------------------------------------------------------------
(* A step is harmless if it lets nobody who is waiting be overtaken more,  *)
(* but by the quantum that a failed statement costs.                       *)
Harmless ==
    /\ ~cancelled' => \A c, d \in Clients : c # d /\ overtaken'[c][d] > 0 =>
         overtaken'[c][d] + Claimable(d)' + Ahead(Todo', c, d)
           <= overtaken[c][d] + Claimable(d) + Ahead(Todo, c, d)
                + IF faults' = faults THEN 0 ELSE quantum
    /\ cancelled' => \A c, d \in Clients : overtaken'[c][d] <= overtaken[c][d]

LEMMA HarmlessKeepsBound ==
  ASSUME Inv, Inv', OvertakingInv, Harmless, NoneOvertakesItself',
         faults' \in {faults, faults + 1}, cancelled => cancelled'
  PROVE  OvertakingIsBounded' /\ BoundedOvertaking'
<1>1. /\ quantum \in Nat /\ quantum * faults \in Nat /\ Limit \in Nat
      /\ Limit = quantum * faults + quantum + quantum
  BY LimitFacts DEF Inv
<1>2. PICK later : later = Limit'
  OBVIOUS
<1>3. later \in Nat /\ later = Limit + IF faults' = faults THEN 0 ELSE quantum
  <2>1. faults \in Nat
    BY SchedulerAssumption DEF Inv, TypeOK
  <2>2. \A q, f \in Nat : q * (2 + (f + 1)) = q * (2 + f) + q
    OBVIOUS
  <2> PICK f \in Nat : f = faults'
    BY <2>1
  <2>3. later = quantum * (2 + f)
    BY <1>2 DEF Limit, quantum
  <2>4. CASE f = faults
    BY <1>1, <2>3, <2>4 DEF Limit
  <2>5. CASE f = faults + 1
    <3>1. later = Limit + quantum
      BY <1>1, <2>1, <2>2, <2>3, <2>5 DEF Limit
    <3>2. f # faults
      BY <2>1, <2>5
    <3> QED BY <1>1, <3>1, <3>2
  <2> QED BY <2>4, <2>5
<1>4. \A c, d \in Clients : overtaken'[c][d] \in Nat /\ overtaken[c][d] \in Nat
  BY DEF Inv, TypeOK
<1>5. ASSUME ~cancelled', NEW c \in Clients, NEW d \in Clients, c # d
      PROVE  overtaken'[c][d] + Claimable(d)' + Ahead(Todo', c, d) <= later
  <2>1. CASE overtaken'[c][d] = 0
    <3>1. Claimable(d)' + Ahead(Todo', c, d) <= later
      BY <1>2, <1>5, FreshStartNext DEF FreshStartIsBounded, Ahead, Later, quantum
    <3>2. Claimable(d)' \in Nat
      BY ClaimableNext
    <3>3. Ahead(Todo', c, d) \in Nat
      BY TodoNext, AheadType
    <3> QED BY <2>1, <3>1, <3>2, <3>3
  <2>2. CASE overtaken'[c][d] # 0
    <3>1. overtaken'[c][d] > 0
      BY <1>4, <2>2
    <3>2. overtaken'[c][d] + Claimable(d)' + Ahead(Todo', c, d)
           <= overtaken[c][d] + Claimable(d) + Ahead(Todo, c, d)
                + IF faults' = faults THEN 0 ELSE quantum
      BY <1>5, <3>1 DEF Harmless
    <3>3. overtaken[c][d] + Claimable(d) + Ahead(Todo, c, d) <= Limit
      BY <1>5 DEF OvertakingInv, OvertakingIsBounded
    <3>4. /\ Claimable(d)' \in Nat /\ Claimable(d) \in Nat
          /\ Ahead(Todo', c, d) \in Nat /\ Ahead(Todo, c, d) \in Nat
      BY ClaimableNext, ClaimableType, TodoNext, TodoOfRound, AheadType
    <3> PICK a, b : a = overtaken'[c][d] + Claimable(d)' + Ahead(Todo', c, d)
                    /\ b = overtaken[c][d] + Claimable(d) + Ahead(Todo, c, d)
      OBVIOUS
    <3>5. a \in Nat /\ b \in Nat
      BY <1>4, <3>4
    <3>6. a <= b + IF faults' = faults THEN 0 ELSE quantum
      BY <3>2
    <3>7. b <= Limit
      BY <3>3
    <3>8. a <= later
      BY <1>1, <1>3, <3>5, <3>6, <3>7
    <3> QED BY <3>8
  <2> QED BY <2>1, <2>2
<1>6. OvertakingIsBounded'
  BY <1>2, <1>5 DEF OvertakingIsBounded, Ahead, Later, quantum
<1>7. ASSUME NEW c \in Clients, NEW d \in Clients
      PROVE  overtaken'[c][d] <= later
  <2>1. CASE c = d
    BY <1>3, <2>1 DEF NoneOvertakesItself
  <2>2. CASE c # d /\ ~cancelled'
    <3>1. overtaken'[c][d] + Claimable(d)' + Ahead(Todo', c, d) <= later
      BY <1>5, <2>2
    <3>2. Claimable(d)' \in Nat /\ Ahead(Todo', c, d) \in Nat
      BY ClaimableNext, TodoNext, AheadType
    <3> QED BY <1>3, <1>4, <3>1, <3>2
  <2>3. CASE cancelled'
    <3>1. overtaken'[c][d] <= overtaken[c][d]
      BY <2>3 DEF Harmless
    <3>2. overtaken[c][d] <= Limit
      BY DEF OvertakingInv, BoundedOvertaking, Limit
    <3> QED BY <1>1, <1>3, <1>4, <3>1, <3>2
  <2> QED BY <2>1, <2>2, <2>3
<1>8. BoundedOvertaking'
  BY <1>2, <1>7 DEF BoundedOvertaking, Limit, quantum
<1> QED BY <1>6, <1>8

(* What the environment, the loop, Stop and the guard do to the passes. *)
LEMMA QuietPasses ==
  ASSUME Inv, deficits' = deficits,
         \A h \in Passes : /\ pass'[h].todo = pass[h].todo
                           /\ pass'[h].pc = "submit" <=> pass[h].pc = "submit"
  PROVE  /\ Todo' = Todo
         /\ \A d \in Clients : Dispatching(d)' <=> Dispatching(d)
         /\ \A d \in Clients : Claimable(d)' = Claimable(d)
<1>1. Todo' = Todo
  BY DEF Todo
<1>2. \A d \in Clients : Dispatching(d)' <=> Dispatching(d)
  BY DEF Dispatching
<1> QED BY <1>1, <1>2 DEF Claimable

(* The simple parts of the invariant, and that the step is harmless. *)
StepKeeps ==
    WaitingHasTasks' /\ NoneOvertakesItself' /\ ServedIsReset' /\ Harmless

LEMMA QuietStep ==
  ASSUME Inv, OvertakingInv,
         deficits' = deficits, faults' = faults,
         \A h \in Passes : /\ pass'[h].todo = pass[h].todo
                           /\ pass'[h].pc = "submit" <=> pass[h].pc = "submit",
         overtaken' = overtaken \/ ForgetIdle, WaitingHasTasks'
  PROVE  StepKeeps
<1>1. /\ Todo' = Todo
      /\ \A d \in Clients : Dispatching(d)' <=> Dispatching(d)
      /\ \A d \in Clients : Claimable(d)' = Claimable(d)
  BY QuietPasses
<1>2. \A c, d \in Clients : overtaken'[c][d] \in {0, overtaken[c][d]}
  BY DEF ForgetIdle
<1>3. \A c, d \in Clients : overtaken[c][d] \in Nat /\ Claimable(d) \in Nat
                            /\ Ahead(Todo, c, d) \in Nat
  BY TodoOfRound, AheadType, ClaimableType DEF Inv, TypeOK
<1>4. NoneOvertakesItself'
  BY <1>2 DEF OvertakingInv, NoneOvertakesItself
<1>5. ServedIsReset'
  BY <1>1, <1>2 DEF OvertakingInv, ServedIsReset
<1>6. ASSUME NEW c \in Clients, NEW d \in Clients
      PROVE  overtaken'[c][d] <= overtaken[c][d]
  BY <1>2, <1>3
<1>7. ASSUME NEW c \in Clients, NEW d \in Clients, overtaken'[c][d] > 0
      PROVE  overtaken'[c][d] + Claimable(d)' + Ahead(Todo', c, d)
               <= overtaken[c][d] + Claimable(d) + Ahead(Todo, c, d) + 0
  <2>1. overtaken'[c][d] = overtaken[c][d]
    BY <1>2, <1>7
  <2> QED BY <1>1, <1>3, <2>1
<1>8. Harmless
  BY <1>6, <1>7 DEF Harmless
<1> QED BY <1>4, <1>5, <1>8 DEF StepKeeps

(* A client is not overtaken while peers hold all its tasks. *)
LEMMA ForgottenHasTasks ==
  ASSUME RestOK', ForgetIdle, OvertakingInv
  PROVE  WaitingHasTasks'
<1> SUFFICES ASSUME NEW c \in Clients, NEW d \in Clients, overtaken'[c][d] > 0
             PROVE  locked'[c] < pending'[c]
  BY DEF WaitingHasTasks
<1>1. pending'[c] # locked'[c]
  BY DEF ForgetIdle
<1>2. pending'[c] \in Nat /\ locked'[c] \in Nat /\ locked'[c] <= pending'[c]
  BY SchedulerAssumption DEF RestOK
<1> PICK l \in Nat, p \in Nat : l = locked'[c] /\ p = pending'[c] /\ l <= p
  BY <1>2
<1>3. l < p
  BY <1>1
<1> QED BY <1>3

LEMMA EnvironmentIsHarmless ==
  ASSUME Inv, OvertakingInv, RestOK', Environment \/ LoopEnds \/ Stop \/ StopReturns
  PROVE  StepKeeps
<1>1. deficits' = deficits /\ faults' = faults /\ pass' = pass
      /\ (overtaken' = overtaken \/ ForgetIdle)
  BY DEF Environment, Arrive, Withdraw, PeerSelects, PeerEnds, Finish, LoopEnds, Stop, StopReturns
<1>2. WaitingHasTasks'
  <2>1. CASE ForgetIdle
    BY <2>1, ForgottenHasTasks
  <2>2. CASE UNCHANGED <<queueVars, overtaken>>
    BY <2>2 DEF OvertakingInv, WaitingHasTasks, queueVars
  <2>3. ASSUME NEW e \in Clients, Arrive(e) PROVE WaitingHasTasks'
    <3>1. /\ pending' = [pending EXCEPT ![e] = @ + 1] /\ locked' = locked /\ overtaken' = overtaken
      BY <2>3 DEF Arrive
    <3>2. \A c \in Clients : pending[c] \in Nat /\ locked[c] \in Nat
      BY SchedulerAssumption DEF Inv, TypeOK
    <3>3. \A c \in Clients : locked[c] < pending[c] => locked[c] < pending'[c]
      BY <3>1, <3>2 DEF Inv, TypeOK
    <3> QED BY <3>1, <3>3 DEF OvertakingInv, WaitingHasTasks
  <2> QED BY <2>1, <2>2, <2>3
       DEF Environment, Arrive, Withdraw, PeerSelects, PeerEnds, Finish, LoopEnds, Stop, StopReturns
<1> QED BY <1>1, <1>2, QuietStep

LEMMA GuardIsHarmless ==
  ASSUME Inv, OvertakingInv, NEW g \in Passes, Tick(g) \/ Skip(g) \/ Enter(g)
  PROVE  StepKeeps
<1>1. deficits' = deficits /\ faults' = faults /\ UNCHANGED <<queueVars, overtaken>>
  BY DEF Tick, Skip, Enter
<1>2. WaitingHasTasks'
  BY <1>1 DEF OvertakingInv, WaitingHasTasks, queueVars
<1>3. \A h \in Passes : pass[h].pc \in {"none", "enter"} => pass[h].todo = {}
  BY DEF Inv, TypeOK
<1>4. \A h \in Passes : /\ pass'[h].todo = pass[h].todo
                        /\ pass'[h].pc = "submit" <=> pass[h].pc = "submit"
  <2>1. CASE Tick(g)
    BY <1>3, <2>1 DEF Tick, Inv, TypeOK
  <2>2. CASE Skip(g)
    BY <1>3, <2>2 DEF Skip, NoPass, Inv, TypeOK
  <2>3. CASE Enter(g)
    BY <1>3, <2>3 DEF Enter, Inv, TypeOK
  <2> QED BY <2>1, <2>2, <2>3
<1> QED BY <1>1, <1>2, <1>4, QuietStep

(* A round that begins, a turn or a pass that ends. *)
LEMMA SteadyParts ==
  ASSUME Inv, OvertakingInv, UNCHANGED <<pending, locked, overtaken>>,
         \A d \in Clients : ~Dispatching(d)'
  PROVE  /\ WaitingHasTasks' /\ NoneOvertakesItself' /\ ServedIsReset'
         /\ \A c, d \in Clients : overtaken'[c][d] = overtaken[c][d] /\ overtaken[c][d] \in Nat
BY DEF OvertakingInv, WaitingHasTasks, NoneOvertakesItself, ServedIsReset, Inv, TypeOK

LEMMA ListIsHarmless ==
  ASSUME Inv, OvertakingInv, NEW g \in Passes, List(g)
  PROVE  StepKeeps
<1> PICK credit : credit = [c \in Clients |-> IF pending[c] > 0 THEN deficits[c] ELSE 0]
  OBVIOUS
<1> PICK todo : todo = ClientsWithPendingTasks
  OBVIOUS
<1>1. /\ pass[g].pc \in InRound /\ pass[g].todo = {} /\ BeginTurn(g, todo, credit)
      /\ UNCHANGED <<pending, locked, stop, faults, overtaken>>
  BY DEF List, InRound, queueVars, Inv, TypeOK
<1>2. todo \in SUBSET Clients /\ credit \in [Clients -> Nat]
      /\ \A d \in Clients : credit[d] <= deficits[d] /\ deficits[d] \in Nat
  BY DEF ClientsWithPendingTasks, Inv, TypeOK
<1>3. /\ Todo' = todo
      /\ \A d \in Clients : ~Dispatching(d)'
      /\ \A d \in Clients : Claimable(d)' = credit[d] + Granted(todo, d)
  BY <1>1, <1>2, TurnBegins
<1>4. Todo = {} /\ \A d \in Clients : Claimable(d) = deficits[d]
  <2>1. \A h \in Passes : pass[h].pc \notin InTurn
    BY <1>1 DEF Inv, TypeOK, OnePassAtATime, InTurn, InRound
  <2>2. \A d \in Clients : ~Dispatching(d)
    BY <2>1 DEF Dispatching, InTurn
  <2> QED BY <1>2, <2>1, <2>2, TodoOfRound DEF Claimable
<1>5. ASSUME NEW c \in Clients, NEW d \in Clients, c # d, overtaken'[c][d] > 0
      PROVE  overtaken'[c][d] + Claimable(d)' + Ahead(Todo', c, d)
               <= overtaken[c][d] + Claimable(d) + Ahead(Todo, c, d) + 0
  <2>1. overtaken'[c][d] = overtaken[c][d] /\ overtaken[c][d] \in Nat
    BY <1>1 DEF Inv, TypeOK
  <2>2. c \in todo
    <3>1. locked[c] < pending[c] /\ locked[c] \in Nat /\ pending[c] \in Nat
      BY <1>5, <2>1, SchedulerAssumption DEF OvertakingInv, WaitingHasTasks, Inv, TypeOK
    <3> QED BY <3>1 DEF ClientsWithPendingTasks
  <2>3. Granted(todo, d) + Ahead(todo, c, d) <= Ahead({}, c, d)
    BY <1>2, <1>5, <2>2, RoundBegins
  <2>4. /\ Granted(todo, d) \in Nat /\ Ahead(todo, c, d) \in Nat /\ Ahead({}, c, d) \in Nat
        /\ credit[d] \in Nat /\ deficits[d] \in Nat /\ credit[d] <= deficits[d]
    BY <1>2, AheadType
  <2>5. credit[d] + Granted(todo, d) + Ahead(todo, c, d) <= deficits[d] + Ahead({}, c, d)
    BY <2>3, <2>4
  <2>6. /\ Claimable(d)' = credit[d] + Granted(todo, d) /\ Claimable(d) = deficits[d]
        /\ Ahead(Todo', c, d) = Ahead(todo, c, d) /\ Ahead(Todo, c, d) = Ahead({}, c, d)
    BY <1>3, <1>4
  <2> QED BY <2>1, <2>4, <2>5, <2>6
<1>6. Harmless
  BY <1>1, <1>5 DEF Harmless, Inv, TypeOK
<1> QED BY <1>1, <1>3, <1>6, SteadyParts DEF StepKeeps

LEMMA LeaveIsHarmless ==
  ASSUME Inv, OvertakingInv, NEW g \in Passes, Abort(g) \/ ListFails(g)
  PROVE  StepKeeps
<1>1. /\ pass[g].pc \in InRound /\ Leave(g) /\ UNCHANGED <<pending, locked, deficits, overtaken>>
  BY DEF Abort, ListFails, InRound, queueVars
<1>2. \A h \in Passes : pass'[h] = NoPass \/ (pass'[h] = pass[h] /\ pass[h].pc \notin InRound)
  BY <1>1 DEF Leave, Inv, TypeOK, OnePassAtATime
<1>3. \A d \in Clients : ~Dispatching(d)'
  BY <1>2 DEF Dispatching, NoPass, InRound
<1>4. /\ WaitingHasTasks' /\ NoneOvertakesItself' /\ ServedIsReset'
      /\ \A c, d \in Clients : overtaken'[c][d] = overtaken[c][d] /\ overtaken[c][d] \in Nat
  BY <1>1, <1>3, SteadyParts
<1>5. CASE Abort(g)
  <2>1. cancelled'
    BY <1>5 DEF Abort, cancelled
  <2> QED BY <1>4, <2>1 DEF StepKeeps, Harmless
<1>6. CASE ListFails(g)
  <2>1. \A h \in Passes : pass[h].pc \notin InTurn /\ pass[h].todo = {}
    BY <1>6 DEF ListFails, Inv, TypeOK, OnePassAtATime, InTurn, InRound
  <2>2. Todo = {} /\ Todo' = {}
    <3>1. \A h \in Passes : pass'[h].todo = {}
      BY <1>2, <2>1 DEF NoPass
    <3> QED BY <2>1, <3>1 DEF Todo
  <2>3. \A d \in Clients : Claimable(d)' = Claimable(d)
    <3>1. \A d \in Clients : ~Dispatching(d)
      BY <2>1 DEF Dispatching, InTurn
    <3> QED BY <1>1, <1>3, <3>1 DEF Claimable
  <2>4. ASSUME NEW c \in Clients, NEW d \in Clients
        PROVE  overtaken'[c][d] + Claimable(d)' + Ahead(Todo', c, d)
                 <= overtaken[c][d] + Claimable(d) + Ahead(Todo, c, d) + quantum
    <3>1. Claimable(d) \in Nat /\ Ahead({}, c, d) \in Nat /\ quantum \in Nat
      BY ClaimableType, AheadType, QuantumType
    <3>2. Ahead(Todo', c, d) = Ahead({}, c, d) /\ Ahead(Todo, c, d) = Ahead({}, c, d)
      BY <2>2
    <3> QED BY <1>4, <2>3, <3>1, <3>2
  <2>5. faults' # faults
    BY <1>6 DEF ListFails, Inv, TypeOK
  <2>6. Harmless
    BY <1>4, <2>4, <2>5 DEF Harmless
  <2> QED BY <1>4, <2>6 DEF StepKeeps
<1> QED BY <1>5, <1>6

(* The end of a turn, which is that of nobody who is waiting or costs a    *)
(* failed statement.                                                       *)
LEMMA EndIsHarmless ==
  ASSUME Inv, Inv', OvertakingInv, NEW g \in Passes, pass[g].pc \in InTurn,
         NEW credit \in [Clients -> Nat], EndTurn(g, credit),
         \A d \in Clients : credit[d] <= Claimable(d),
         UNCHANGED <<pending, locked, overtaken>>,
         faults' # faults \/ \A d \in Clients : overtaken[Current(pass[g].todo)][d] = 0
  PROVE  StepKeeps
<1>1. /\ \A d \in Clients : ~Dispatching(d)'
      /\ \A c, d \in Clients : c # d =>
           Claimable(d)' + Ahead(Todo', c, d)
             <= Claimable(d) + Ahead(Todo, c, d)
                  + IF c = Current(pass[g].todo) THEN quantum ELSE 0
  BY TurnEnds
<1>2. /\ WaitingHasTasks' /\ NoneOvertakesItself' /\ ServedIsReset'
      /\ \A c, d \in Clients : overtaken'[c][d] = overtaken[c][d] /\ overtaken[c][d] \in Nat
  BY <1>1, SteadyParts
<1>3. Todo' \in SUBSET Clients
  BY TodoNext
<1>4. ASSUME NEW c \in Clients, NEW d \in Clients, c # d, overtaken'[c][d] > 0
      PROVE  overtaken'[c][d] + Claimable(d)' + Ahead(Todo', c, d)
               <= overtaken[c][d] + Claimable(d) + Ahead(Todo, c, d)
                    + IF faults' = faults THEN 0 ELSE quantum
  <2>1. c = Current(pass[g].todo) => faults' # faults
    <3>1. overtaken[c][d] # 0
      BY <1>2, <1>4
    <3> QED BY <3>1
  <2> PICK a, b : a = Claimable(d)' + Ahead(Todo', c, d) /\ b = Claimable(d) + Ahead(Todo, c, d)
    OBVIOUS
  <2>2. a <= b + IF c = Current(pass[g].todo) THEN quantum ELSE 0
    BY <1>1, <1>4
  <2>3. quantum \in Nat /\ b \in Nat /\ Claimable(d) \in Nat /\ Ahead(Todo, c, d) \in Nat
    BY ClaimableType, TodoOfRound, AheadType, QuantumType
  <2>4. a \in Int /\ Claimable(d)' \in Int /\ Ahead(Todo', c, d) \in Int
    <3>1. Ahead(Todo', c, d) \in Nat
      BY <1>3, AheadType
    <3>2. Claimable(d)' \in Nat
      BY ClaimableNext
    <3> QED BY <3>1, <3>2
  <2>5. a <= b + IF faults' = faults THEN 0 ELSE quantum
    <3>1. CASE c = Current(pass[g].todo)
      BY <2>1, <2>2, <3>1
    <3>2. CASE c # Current(pass[g].todo)
      BY <2>2, <2>3, <2>4, <3>2
    <3> QED BY <3>1, <3>2
  <2>6. overtaken'[c][d] = overtaken[c][d] /\ overtaken[c][d] \in Nat
    BY <1>2
  <2>7. /\ overtaken'[c][d] + Claimable(d)' + Ahead(Todo', c, d) = overtaken[c][d] + a
        /\ overtaken[c][d] + Claimable(d) + Ahead(Todo, c, d) = overtaken[c][d] + b
    BY <2>3, <2>4, <2>6
  <2>8. overtaken[c][d] + a <= overtaken[c][d] + b + IF faults' = faults THEN 0 ELSE quantum
    BY <2>3, <2>4, <2>5, <2>6
  <2> QED BY <2>7, <2>8
<1>5. Harmless
  BY <1>2, <1>4 DEF Harmless
<1> QED BY <1>2, <1>5 DEF StepKeeps

(* During a turn the client whose turn it is is the only one that may be   *)
(* being dispatched.                                                       *)
LEMMA CreditInTurn ==
  ASSUME Inv, NEW g \in Passes, pass[g].pc \in InTurn
  PROVE  /\ pass[g].todo \in SUBSET Clients /\ Current(pass[g].todo) \in Clients
         /\ Todo = pass[g].todo
         /\ \A d \in Clients : deficits[d] \in Nat
         /\ \A d \in Clients : Dispatching(d) <=> pass[g].pc = "submit" /\ d = Current(pass[g].todo)
         /\ \A d \in Clients :
              Claimable(d) = IF pass[g].pc = "submit" /\ d = Current(pass[g].todo)
                               THEN deficits[d] - 1 ELSE deficits[d]
<1>1. pass[g].todo \in SUBSET Clients /\ pass[g].todo # {} /\ pass[g].pc \in InRound
  BY DEF Inv, TypeOK, InTurn, InRound
<1>2. Current(pass[g].todo) \in Clients
  BY <1>1, CurrentIsMember
<1>3. \A d \in Clients : deficits[d] \in Nat
  BY DEF Inv, TypeOK
<1>4. \A d \in Clients : Dispatching(d) <=> pass[g].pc = "submit" /\ d = Current(pass[g].todo)
  BY <1>1 DEF Dispatching, Inv, OnePassAtATime, InRound
<1> QED BY <1>1, <1>2, <1>3, <1>4, TodoOfRound DEF Claimable

LEMMA DequeueNoneIsHarmless ==
  ASSUME Inv, Inv', OvertakingInv, NEW g \in Passes, DequeueNone(g)
  PROVE  StepKeeps
<1> PICK k : k = Current(pass[g].todo)
  OBVIOUS
<1> PICK credit : credit = [deficits EXCEPT ![k] = 0]
  OBVIOUS
<1>1. /\ pass[g].pc = "serve" /\ pass[g].pc \in InTurn /\ EndTurn(g, credit) /\ Free(k) = 0
      /\ UNCHANGED <<pending, locked, overtaken>>
  BY DEF DequeueNone, queueVars, InTurn
<1>2. /\ k \in Clients
      /\ \A d \in Clients : Claimable(d) = deficits[d] /\ deficits[d] \in Nat
  BY <1>1, CreditInTurn
<1>3. credit \in [Clients -> Nat] /\ \A d \in Clients : credit[d] <= Claimable(d)
  BY <1>2 DEF Inv, TypeOK
<1>4. \A d \in Clients : overtaken[k][d] = 0
  <2>1. ~(locked[k] < pending[k])
    BY <1>1, <1>2, SchedulerAssumption DEF Free, Inv, TypeOK
  <2>2. \A d \in Clients : overtaken[k][d] \in Nat
    BY <1>2 DEF Inv, TypeOK
  <2> QED BY <1>2, <2>1, <2>2 DEF OvertakingInv, WaitingHasTasks
<1> QED BY <1>1, <1>3, <1>4, EndIsHarmless

LEMMA DequeueFailsIsHarmless ==
  ASSUME Inv, Inv', OvertakingInv, NEW g \in Passes, DequeueFails(g)
  PROVE  StepKeeps
<1>1. /\ pass[g].pc = "serve" /\ pass[g].pc \in InTurn /\ EndTurn(g, deficits)
      /\ UNCHANGED <<pending, locked, overtaken>>
  BY DEF DequeueFails, queueVars, InTurn
<1>2. faults' # faults
  BY DEF DequeueFails, Inv, TypeOK
<1>3. \A d \in Clients : deficits[d] <= Claimable(d)
  BY <1>1, CreditInTurn
<1>4. deficits \in [Clients -> Nat]
  BY DEF Inv, TypeOK
<1> QED BY <1>1, <1>2, <1>3, <1>4, EndIsHarmless

LEMMA SubmitIsHarmless ==
  ASSUME Inv, Inv', OvertakingInv, NEW g \in Passes, Submit(g)
  PROVE  StepKeeps
<1> PICK k : k = Current(pass[g].todo)
  OBVIOUS
<1> PICK credit : credit = [deficits EXCEPT ![k] = @ - 1]
  OBVIOUS
<1>1. /\ pass[g].pc = "submit" /\ pass[g].pc \in InTurn
      /\ UNCHANGED <<pending, locked, overtaken, faults>>
  BY DEF Submit, queueVars, InTurn
<1>2. /\ k \in Clients /\ Todo = pass[g].todo
      /\ \A d \in Clients : Dispatching(d) <=> d = k
      /\ \A d \in Clients : Claimable(d) = IF d = k THEN deficits[d] - 1 ELSE deficits[d]
      /\ \A d \in Clients : deficits[d] \in Nat
  BY <1>1, CreditInTurn
<1>3. deficits[k] > 0
  BY <1>1, <1>2 DEF Inv, TurnHasCredit, HasTurn
<1>4. /\ credit \in [Clients -> Nat] /\ \A d \in Clients : credit[d] = Claimable(d)
  BY <1>2, <1>3 DEF Inv, TypeOK
<1>5. \A d \in Clients : overtaken[k][d] = 0
  BY <1>2 DEF OvertakingInv, ServedIsReset
<1>6. \A d \in Clients : Claimable(d) \in Nat
  BY ClaimableType
<1>7. CASE EndTurn(g, credit)
  <2>1. \A d \in Clients : credit[d] <= Claimable(d)
    BY <1>4, <1>6
  <2> QED BY <1>1, <1>4, <1>5, <1>7, <2>1, EndIsHarmless
<1>8. CASE deficits' = credit /\ pass' = [pass EXCEPT ![g].pc = "serve"]
  <2>1. /\ pass'[g].pc = "serve"
        /\ \A h \in Passes : pass'[h].todo = pass[h].todo /\ (h # g => pass'[h] = pass[h])
    BY <1>8 DEF Inv, TypeOK
  <2>2. Todo' = Todo
    BY <2>1 DEF Todo
  <2>3. \A d \in Clients : ~Dispatching(d)'
    BY <1>1, <2>1 DEF Dispatching, Inv, OnePassAtATime, InTurn, InRound
  <2>4. \A d \in Clients : Claimable(d)' = Claimable(d)
    BY <1>4, <1>6, <1>8, <2>3 DEF Claimable
  <2>5. /\ WaitingHasTasks' /\ NoneOvertakesItself' /\ ServedIsReset'
        /\ \A c, d \in Clients : overtaken'[c][d] = overtaken[c][d] /\ overtaken[c][d] \in Nat
    BY <1>1, <2>3, SteadyParts
  <2>6. ASSUME NEW c \in Clients, NEW d \in Clients
        PROVE  overtaken'[c][d] + Claimable(d)' + Ahead(Todo', c, d)
                 <= overtaken[c][d] + Claimable(d) + Ahead(Todo, c, d) + 0
    <3>1. Ahead(Todo, c, d) \in Nat
      BY TodoOfRound, AheadType
    <3> QED BY <1>6, <2>2, <2>4, <2>5, <3>1
  <2>7. Harmless
    BY <1>1, <2>5, <2>6 DEF Harmless
  <2> QED BY <2>5, <2>7 DEF StepKeeps
<1> QED BY <1>7, <1>8 DEF Submit

(* A claim: who is waiting is overtaken once more by k, whose credit will  *)
(* be spent on it.                                                         *)
LEMMA DequeueIsHarmless ==
  ASSUME Inv, Inv', OvertakingInv, NEW g \in Passes, Dequeue(g)
  PROVE  StepKeeps
<1> PICK k : k = Current(pass[g].todo)
  OBVIOUS
<1>1. /\ pass[g].pc = "serve" /\ pass[g].pc \in InTurn /\ ~cancelled /\ ~cancelled'
      /\ pass' = [pass EXCEPT ![g].pc = "submit"]
      /\ pending' = [pending EXCEPT ![k] = @ - 1]
      /\ overtaken' = [e \in Clients |-> IF e = k \/ Free(e) = 0 THEN [d \in Clients |-> 0]
                                         ELSE [overtaken[e] EXCEPT ![k] = @ + 1]]
      /\ UNCHANGED <<locked, deficits, faults>>
  BY DEF Dequeue, InTurn, cancelled
<1>2. /\ k \in Clients /\ Todo = pass[g].todo
      /\ \A d \in Clients : ~Dispatching(d) /\ Claimable(d) = deficits[d] /\ deficits[d] \in Nat
  BY <1>1, CreditInTurn
<1>3. /\ pass'[g].pc = "submit"
      /\ \A h \in Passes : pass'[h].todo = pass[h].todo /\ (h # g => pass'[h] = pass[h])
  BY <1>1 DEF Inv, TypeOK
<1>4. Todo' = Todo
  BY <1>3 DEF Todo
<1>5. \A d \in Clients : Dispatching(d)' <=> d = k
  <2>1. \A h \in Passes : pass'[h].pc = "submit" <=> h = g
    BY <1>1, <1>3 DEF Inv, OnePassAtATime, InTurn, InRound
  <2> QED BY <1>3, <2>1 DEF Dispatching
<1>6. \A d \in Clients : Claimable(d)' = IF d = k THEN Claimable(d) - 1 ELSE Claimable(d)
  BY <1>1, <1>2, <1>5 DEF Claimable
<1>7. \A c, d \in Clients :
        /\ overtaken[c][d] \in Nat
        /\ c = k \/ Free(c) = 0 => overtaken'[c][d] = 0
        /\ c # k /\ Free(c) # 0 =>
             overtaken'[c][d] = IF d = k THEN overtaken[c][d] + 1 ELSE overtaken[c][d]
  BY <1>1, <1>2 DEF Inv, TypeOK
<1>8. WaitingHasTasks'
  <2>1. ASSUME NEW c \in Clients, NEW d \in Clients, overtaken'[c][d] > 0
        PROVE  locked'[c] < pending'[c]
    <3>1. c # k /\ Free(c) # 0
      BY <1>7, <2>1
    <3>2. locked[c] <= pending[c] /\ locked[c] \in Nat /\ pending[c] \in Nat
      BY SchedulerAssumption DEF Inv, TypeOK
    <3>3. locked[c] < pending[c]
      BY <3>1, <3>2 DEF Free
    <3>4. pending'[c] = pending[c] /\ locked'[c] = locked[c]
      BY <1>1, <3>1 DEF Inv, TypeOK
    <3> QED BY <3>3, <3>4
  <2> QED BY <2>1 DEF WaitingHasTasks
<1>9. NoneOvertakesItself'
  BY <1>7 DEF OvertakingInv, NoneOvertakesItself
<1>10. ServedIsReset'
  BY <1>5, <1>7 DEF ServedIsReset
<1>11. ASSUME NEW c \in Clients, NEW d \in Clients, c # d, overtaken'[c][d] > 0
       PROVE  overtaken'[c][d] + Claimable(d)' + Ahead(Todo', c, d)
                <= overtaken[c][d] + Claimable(d) + Ahead(Todo, c, d) + 0
  <2>1. Ahead(Todo, c, d) \in Nat /\ Claimable(d) \in Nat
    BY TodoOfRound, AheadType, ClaimableType
  <2>2. overtaken'[c][d] = IF d = k THEN overtaken[c][d] + 1 ELSE overtaken[c][d]
    BY <1>7, <1>11
  <2>3. CASE d = k
    BY <1>4, <1>6, <1>7, <2>1, <2>2, <2>3
  <2>4. CASE d # k
    BY <1>4, <1>6, <1>7, <2>1, <2>2, <2>4
  <2> QED BY <2>3, <2>4
<1>12. Harmless
  BY <1>1, <1>11 DEF Harmless
<1> QED BY <1>8, <1>9, <1>10, <1>12 DEF StepKeeps

LEMMA OvertakingStep == Inv /\ Inv' /\ OvertakingInv /\ [Next]_vars => OvertakingInv'
<1> SUFFICES ASSUME Inv, Inv', OvertakingInv, [Next]_vars PROVE OvertakingInv'
  OBVIOUS
<1>1. StepKeeps
  <2>1. CASE UNCHANGED vars
    <3>1. deficits' = deficits /\ faults' = faults /\ UNCHANGED <<pending, locked, overtaken, pass>>
      BY <2>1 DEF vars, queueVars
    <3>2. WaitingHasTasks'
      BY <3>1 DEF OvertakingInv, WaitingHasTasks
    <3> QED BY <3>1, <3>2, QuietStep
  <2>2. CASE Next
    <3>1. RestOK'
      BY <2>2, RestStep
    <3> QED BY <2>2, <3>1, EnvironmentIsHarmless, GuardIsHarmless, ListIsHarmless,
          LeaveIsHarmless, DequeueIsHarmless, DequeueNoneIsHarmless, DequeueFailsIsHarmless,
          SubmitIsHarmless DEF Next, PassStep, Faults
  <2> QED BY <2>1, <2>2
<1>2. faults' \in {faults, faults + 1} /\ (cancelled => cancelled')
  BY DEF Next, vars, Environment, Arrive, Withdraw, PeerSelects, PeerEnds, Finish, PassStep, Skip,
     Enter, List, Abort, Dequeue, DequeueNone, Submit, Faults, ListFails, DequeueFails, Tick,
     LoopEnds, Stop, StopReturns, cancelled
<1>3. OvertakingIsBounded' /\ BoundedOvertaking'
  BY <1>1, <1>2, HarmlessKeepsBound DEF StepKeeps
<1> QED BY <1>1, <1>3 DEF StepKeeps, OvertakingInv

LEMMA OvertakingInit == Init => OvertakingInv
<1> SUFFICES ASSUME Init PROVE OvertakingInv
  OBVIOUS
<1>1. \A c, d \in Clients : overtaken[c][d] = 0
  BY DEF Init
<1>2. WaitingHasTasks /\ NoneOvertakesItself /\ ServedIsReset
  BY <1>1 DEF WaitingHasTasks, NoneOvertakesItself, ServedIsReset
<1>3. Inv /\ FreshStartIsBounded
  BY InvInit, FreshStart
<1>4. \A c, d \in Clients : Claimable(d) \in Nat /\ Ahead(Todo, c, d) \in Nat
  BY <1>3, ClaimableType, TodoOfRound, AheadType
<1>5. OvertakingIsBounded
  BY <1>1, <1>3, <1>4 DEF FreshStartIsBounded, OvertakingIsBounded
<1>6. BoundedOvertaking
  BY <1>1, <1>3, LimitFacts DEF Inv, BoundedOvertaking, Limit
<1> QED BY <1>2, <1>5, <1>6 DEF OvertakingInv

(* "No client starvation under skewed load", as a bound: between two       *)
(* services of a client that always has a task to claim, each other client *)
(* is served at most two quanta, and one more for each failed statement,   *)
(* for any number of clients, any quantum, any pool and whatever peers,    *)
(* cancels and retries do to the queue.                                    *)
THEOREM OvertakingIsLimited == Spec => []BoundedOvertaking
<1>1. OvertakingInv => BoundedOvertaking
  BY DEF OvertakingInv
<1> QED BY <1>1, OvertakingInit, OvertakingStep, Invariance, PTL DEF Spec
=============================================================================
