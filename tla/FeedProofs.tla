----------------------------- MODULE FeedProofs -----------------------------
(***************************************************************************)
(* The live feed for any number of workers, connections and events, any    *)
(* assignment of clients and any buffer.                                   *)
(***************************************************************************)
EXTENDS Feed, TLAPS

FeedTypes ==
    /\ published \in [Publishers -> Nat]
    /\ pub \in [Publishers -> PubState]
    /\ stream \in [Streams -> StreamState]
    /\ subs \subseteq Streams
    /\ ch \in [Streams -> Seq(Event)]
    /\ closed \subseteq Streams
    /\ owed \in [Streams -> Nat]

(* The life of a subscription: a subscriber is open or about to leave, a   *)
(* closed channel belongs to a connection that is done.                    *)
Subscribed ==
    /\ \A s \in subs : stream[s] \in {"open", "writing", "leaving"}
    /\ \A s \in closed : stream[s] = "done"

(* What the lock is for: whoever is about to send holds the read lock, and *)
(* the subscriber it holds is still in the map, and one of the task's owner. *)
HeldSubscriber ==
    \A p \in Publishers :
      /\ pub[p].at \subseteq subs
      /\ pub[p].at # {} => pub[p].pc = "fanning"
      /\ \A s \in pub[p].at : pub[p].client = StreamClient[s]

FeedInv == FeedTypes /\ Subscribed /\ HeldSubscriber /\ ~panicked

-----------------------------------------------------------------------------
LEMMA FeedInitInv == FeedInit => FeedInv
BY FeedAssumption
   DEF FeedInit, FeedInv, FeedTypes, Subscribed, HeldSubscriber, PubState, Quiet, StreamState

(* Unlock lets readers in and moves nobody inside the loop. *)
LEMMA UnlockKeeps ==
  ASSUME FeedTypes, Unlock
  PROVE  /\ pub' \in [Publishers -> PubState]
         /\ \A p \in Publishers : /\ pub'[p].at = pub[p].at
                                  /\ pub'[p].client = pub[p].client
                                  /\ pub[p].pc = "fanning" => pub'[p].pc = "fanning"
BY DEF FeedTypes, Unlock, PubState

(* A step that moves one connection on, and touches neither the map nor    *)
(* the channels nor the publishers.                                        *)
LEMMA MoveKeeps ==
  ASSUME FeedInv, NEW s \in Streams, NEW t \in StreamState,
         stream' = [stream EXCEPT ![s] = t],
         s \in subs => t \in {"open", "writing", "leaving"},
         s \notin closed,
         UNCHANGED <<published, pub, subs, ch, closed, panicked, owed>>
  PROVE  FeedInv'
BY DEF FeedInv, FeedTypes, Subscribed, HeldSubscriber

LEMMA StreamKeeps ==
  ASSUME FeedInv, NEW s \in Streams,
         StreamStep(s) \/ Connect(s) \/ Written(s) \/ Heartbeat(s) \/ Disconnect(s) \/ Leave(s)
  PROVE  FeedInv'
<1>1. CASE Announce(s)
  BY <1>1 DEF Announce, FeedInv, FeedTypes, Subscribed, HeldSubscriber
<1>2. CASE Subscribe(s)
  <2>1. FeedTypes' /\ Subscribed'
    BY <1>2, UnlockKeeps
    DEF Subscribe, FeedInv, FeedTypes, Subscribed, StreamState
  <2>2. HeldSubscriber'
    BY <1>2, UnlockKeeps DEF Subscribe, FeedInv, HeldSubscriber
  <2> QED BY <1>2, <2>1, <2>2 DEF Subscribe, FeedInv
<1>3. CASE Unsubscribe(s)
  <2>1. FeedTypes' /\ Subscribed'
    BY <1>3, UnlockKeeps
    DEF Unsubscribe, FeedInv, FeedTypes, Subscribed, StreamState
  <2>2. \A p \in Publishers : pub[p].at = {}
    BY <1>3 DEF Unsubscribe, HasLock, FeedInv, HeldSubscriber
  <2>3. HeldSubscriber'
    BY <1>3, <2>2, UnlockKeeps DEF Unsubscribe, FeedInv, HeldSubscriber
  <2> QED BY <1>3, <2>1, <2>3 DEF Unsubscribe, FeedInv
<1>4. CASE CloseChannel(s)
  <2>1. s \notin subs
    BY <1>4 DEF CloseChannel, FeedInv, Subscribed
  <2> QED
    BY <1>4, <2>1
    DEF CloseChannel, FeedInv, FeedTypes, Subscribed, HeldSubscriber, StreamState
<1>5. CASE Connect(s) \/ Written(s) \/ Heartbeat(s) \/ Leave(s)
  <2>1. s \notin closed /\ (stream[s] = "none" => s \notin subs)
    BY <1>5 DEF Connect, Written, Heartbeat, Leave, FeedInv, Subscribed
  <2> QED
    BY <1>5, <2>1, MoveKeeps DEF Connect, Written, Heartbeat, Leave, StreamState
<1>6. CASE Disconnect(s)
  BY <1>6 DEF Disconnect, FeedInv, FeedTypes, Subscribed, HeldSubscriber
<1> QED BY <1>1, <1>2, <1>3, <1>4, <1>5, <1>6 DEF StreamStep

LEMMA ReadKeeps ==
  ASSUME FeedInv, NEW s \in Streams, Read(s)
  PROVE  FeedInv'
<1>1. Tail(ch[s]) \in Seq(Event)
  BY DEF Read, FeedInv, FeedTypes
<1>2. (IF owed[s] = 0 THEN 0 ELSE owed[s] - 1) \in Nat
  BY DEF FeedInv, FeedTypes
<1>3. FeedTypes'
  BY <1>1, <1>2 DEF Read, FeedInv, FeedTypes, StreamState
<1> QED BY <1>3 DEF Read, FeedInv, FeedTypes, Subscribed, HeldSubscriber

(* The event that p is fanning out. *)
EventOf(p) == [by |-> p, n |-> published[p], client |-> pub[p].client]

LEMMA PublisherKeeps ==
  ASSUME FeedInv, NEW p \in Publishers,
         RLock(p) \/ RUnlock(p) \/ \E s \in Streams : Pick(p, s)
  PROVE  FeedInv'
<1> USE DEF FeedInv, FeedTypes, Subscribed, HeldSubscriber
<1>1. CASE RLock(p)
  <2>1. PICK c \in FeedClients :
          pub' = [pub EXCEPT ![p] = [pc |-> IF writer = {} THEN "fanning" ELSE "blocked",
                                     client |-> c, at |-> {}, sent |-> {}]]
    BY <1>1 DEF RLock
  <2>2. pub' \in [Publishers -> PubState]
    BY <2>1 DEF PubState
  <2>3. published' \in [Publishers -> Nat]
    BY <1>1 DEF RLock
  <2> QED BY <1>1, <2>1, <2>2, <2>3 DEF RLock
<1>2. CASE RUnlock(p)
  <2>1. pub' \in [Publishers -> PubState]
    <3>1. Quiet \in PubState
      BY DEF Quiet, PubState
    <3> QED BY <1>2, <3>1 DEF RUnlock
  <2> QED BY <1>2, <2>1 DEF RUnlock, Quiet
<1>3. ASSUME NEW s \in Streams, Pick(p, s) PROVE FeedInv'
  <2>1. pub' \in [Publishers -> PubState]
    <3>1. [pub[p] EXCEPT !.at = {s}] \in PubState
      <4>1. pub[p] \in PubState
        OBVIOUS
      <4> QED BY <4>1 DEF PubState
    <3>2. pub' = [pub EXCEPT ![p] = [pub[p] EXCEPT !.at = {s}]]
      BY <1>3 DEF Pick
    <3> QED BY <3>1, <3>2
  <2>2. {s} \subseteq subs
    BY <1>3 DEF Pick, Unsent
  <2>3. pub[p].client = StreamClient[s]
    BY <1>3 DEF Pick, Unsent
  <2>4. \A q \in Publishers : /\ pub'[q].at = IF q = p THEN {s} ELSE pub[q].at
                              /\ pub'[q].pc = pub[q].pc
                              /\ pub'[q].client = pub[q].client
    BY <1>3 DEF Pick, PubState
  <2>5. HeldSubscriber'
    BY <1>3, <2>2, <2>3, <2>4 DEF Pick
  <2> QED BY <1>3, <2>1, <2>5 DEF Pick
<1> QED BY <1>1, <1>2, <1>3

(* Being through with some subscribers changes the record of p only.        *)
LEMMA VisitedType ==
  ASSUME FeedTypes, NEW p \in Publishers, NEW ss \in SUBSET Streams, Visited(p, ss)
  PROVE  /\ pub' \in [Publishers -> PubState]
         /\ \A q \in Publishers :
              /\ pub'[q].at = IF q = p THEN {} ELSE pub[q].at
              /\ pub'[q].sent = IF q = p THEN pub[q].sent \cup ss ELSE pub[q].sent
              /\ pub'[q].pc = pub[q].pc
              /\ pub'[q].client = pub[q].client
<1>1. pub[p] \in PubState /\ pub \in [Publishers -> PubState]
  BY DEF FeedTypes
<1>2. [pub[p] EXCEPT !.sent = @ \cup ss, !.at = {}] \in PubState
  BY <1>1 DEF PubState
<1>3. pub' = [pub EXCEPT ![p] = [pub[p] EXCEPT !.sent = @ \cup ss, !.at = {}]]
  BY <1>1 DEF Visited
<1> QED BY <1>1, <1>2, <1>3 DEF PubState

LEMMA SendKeeps ==
  ASSUME FeedInv, NEW p \in Publishers, NEW s \in Streams, Send(p, s)
  PROVE  FeedInv'
<1>1. pub[p].at = {s} /\ s \in subs /\ s \notin closed
  <2>1. pub[p].at = {s}
    BY DEF Send
  <2> QED BY <2>1 DEF FeedInv, Subscribed, HeldSubscriber
<1>2. ~panicked'
  BY <1>1 DEF Send, FeedInv
<1>3. /\ pub' \in [Publishers -> PubState]
      /\ \A q \in Publishers : /\ pub'[q].at \subseteq pub[q].at
                               /\ pub'[q].pc = pub[q].pc
                               /\ pub'[q].client = pub[q].client
  <2>1. FeedTypes /\ Visited(p, {s})
    BY DEF Send, FeedInv
  <2> QED BY <2>1, VisitedType
<1>4. ch' \in [Streams -> Seq(Event)]
  <2>1. ch \in [Streams -> Seq(Event)] /\ published[p] \in Nat
    BY DEF FeedInv, FeedTypes
  <2>2. pub[p].client \in FeedClients
    BY <1>1, FeedAssumption DEF FeedInv, HeldSubscriber
  <2>3. EventOf(p) \in Event
    BY <2>1, <2>2 DEF EventOf, Event
  <2>4. \/ ch' = ch
        \/ ch' = [ch EXCEPT ![s] = Append(@, EventOf(p))]
    BY DEF Send, EventOf
  <2>5. Append(ch[s], EventOf(p)) \in Seq(Event)
    BY <2>1, <2>3
  <2> QED BY <2>1, <2>4, <2>5
<1>5. owed' \in [Streams -> Nat]
  <2>1. Buffer \in Nat /\ owed \in [Streams -> Nat]
    BY FeedAssumption DEF FeedInv, FeedTypes
  <2>2. owed' = owed \/ owed' = [owed EXCEPT ![s] = Buffer]
    BY DEF Send
  <2> QED BY <2>1, <2>2
<1>6. UNCHANGED <<published, stream, subs, closed>>
  BY DEF Send
<1>7. FeedTypes' /\ Subscribed'
  BY <1>3, <1>4, <1>5, <1>6 DEF FeedInv, FeedTypes, Subscribed
<1>8. HeldSubscriber'
  BY <1>3, <1>6 DEF FeedInv, HeldSubscriber
<1> QED BY <1>2, <1>7, <1>8 DEF FeedInv

LEMMA FeedStepInv == FeedInv /\ [FeedNext]_feedVars => FeedInv'
<1> SUFFICES ASSUME FeedInv, [FeedNext]_feedVars PROVE FeedInv'
  OBVIOUS
<1>1. CASE UNCHANGED feedVars
  BY <1>1 DEF feedVars, FeedInv, FeedTypes, Subscribed, HeldSubscriber
<1>2. ASSUME NEW s \in Streams,
             StreamStep(s) \/ Connect(s) \/ Written(s) \/ Heartbeat(s) \/ Disconnect(s) \/ Leave(s)
      PROVE  FeedInv'
  BY <1>2, StreamKeeps
<1>3. ASSUME NEW s \in Streams, Read(s) PROVE FeedInv'
  BY <1>3, ReadKeeps
<1>4. ASSUME NEW p \in Publishers, RLock(p) \/ Publish(p) PROVE FeedInv'
  BY <1>4, PublisherKeeps, SendKeeps DEF Publish
<1> QED BY <1>1, <1>2, <1>3, <1>4 DEF FeedNext

(* Unsubscribe closes the channel outside the lock, PublishTaskEvent sends *)
(* under the read lock: no send meets a closed channel.                    *)
THEOREM SafeClose == FeedSpec => []NoSendOnClosed
<1>1. FeedInv => NoSendOnClosed
  BY DEF FeedInv, NoSendOnClosed
<1> QED BY <1>1, FeedInitInv, FeedStepInv, PTL DEF FeedSpec

-----------------------------------------------------------------------------
(* The order of the events in a channel. *)

(* p is publishing and not yet through with s. *)
Unvisited(p, s) == pub[p].pc # "idle" /\ s \notin pub[p].sent

(* An event in the channel of s is of the past: if its worker still has to *)
(* send to s, that will be a later one.                                    *)
Fresh(e, s) ==
    /\ e.client = StreamClient[s]
    /\ e.n <= published[e.by]
    /\ Unvisited(e.by, s) => e.n < published[e.by]

InOrderAt(s) ==
    \A k \in 1..Len(ch[s]) :
      /\ Fresh(ch[s][k], s)
      /\ \A l \in 1..(k - 1) : ch[s][l].by = ch[s][k].by => ch[s][l].n < ch[s][k].n

OrderInv ==
    /\ FeedInv
    /\ \A p \in Publishers : pub[p].at \cap pub[p].sent = {}
    /\ \A s \in Streams : InOrderAt(s) /\ owed[s] <= Len(ch[s])

(* A step after which a worker has not become busy with an old event.       *)
NoOldEvent ==
    \A p \in Publishers :
      \/ published'[p] = published[p] + 1
      \/ /\ published'[p] = published[p]
         /\ \A s \in Streams : Unvisited(p, s)' => Unvisited(p, s)

LEMMA FreshKeeps ==
  ASSUME FeedTypes, NoOldEvent, NEW s \in Streams, NEW e \in Event, Fresh(e, s)
  PROVE  Fresh(e, s)'
<1>1. e.by \in Publishers /\ e.n \in Nat
  BY DEF Event
<1>2. published[e.by] \in Nat
  BY <1>1 DEF FeedTypes
<1> QED BY <1>1, <1>2 DEF Fresh, NoOldEvent

(* Channels that stay as they are, or lose their first event, stay in order. *)
LEMMA OrderKeeps ==
  ASSUME FeedTypes, NoOldEvent, NEW s \in Streams, InOrderAt(s),
         ch'[s] = ch[s] \/ (ch[s] # << >> /\ ch'[s] = Tail(ch[s]))
  PROVE  InOrderAt(s)'
<1>1. ch[s] \in Seq(Event)
  BY DEF FeedTypes
<1>2. ASSUME NEW k \in 1..Len(ch[s]), NEW e, e = ch[s][k] PROVE Fresh(e, s)'
  <2>1. e \in Event /\ Fresh(e, s)
    BY <1>1, <1>2 DEF InOrderAt
  <2> QED BY <2>1, FreshKeeps
<1>3. CASE ch'[s] = ch[s]
  BY <1>2, <1>3 DEF InOrderAt, Fresh, Unvisited
<1>4. CASE ch[s] # << >> /\ ch'[s] = Tail(ch[s])
  <2>1. /\ Len(ch'[s]) = Len(ch[s]) - 1
        /\ \A k \in 1..Len(ch'[s]) : ch'[s][k] = ch[s][k + 1] /\ k + 1 \in 1..Len(ch[s])
    BY <1>1, <1>4
  <2>2. ASSUME NEW k \in 1..Len(ch'[s]), NEW e, e = ch'[s][k]
        PROVE  /\ Fresh(e, s)'
               /\ \A l \in 1..(k - 1) : ch'[s][l].by = e.by => ch'[s][l].n < e.n
    <3>1. k + 1 \in 1..Len(ch[s]) /\ e = ch[s][k + 1]
      BY <2>1, <2>2
    <3>2. Fresh(e, s)'
      BY <1>2, <3>1
    <3>3. ASSUME NEW l \in 1..(k - 1)
          PROVE  l \in 1..Len(ch'[s]) /\ l + 1 \in 1..((k + 1) - 1)
      BY <1>1, <2>1
    <3> QED BY <2>1, <3>1, <3>2, <3>3 DEF InOrderAt
  <2> QED BY <2>2 DEF InOrderAt, Fresh, Unvisited
<1> QED BY <1>3, <1>4

(* A step that leaves the channels alone. *)
LEMMA ChannelsAlone ==
  ASSUME OrderInv, FeedInv', NoOldEvent, ch' = ch, owed' = owed,
         \A p \in Publishers : pub'[p].at \cap pub'[p].sent = {}
  PROVE  OrderInv'
<1>1. \A s \in Streams : InOrderAt(s)'
  BY OrderKeeps DEF OrderInv, FeedInv
<1> QED BY <1>1 DEF OrderInv

LEMMA ReadOrder ==
  ASSUME OrderInv, FeedInv', NEW s \in Streams, Read(s)
  PROVE  OrderInv'
<1>1. FeedTypes /\ NoOldEvent
  BY DEF OrderInv, FeedInv, Read, NoOldEvent, Unvisited
<1>2. \A r \in Streams : ch'[r] = ch[r] \/ (ch[r] # << >> /\ ch'[r] = Tail(ch[r]))
  BY <1>1 DEF Read, FeedTypes
<1>3. \A r \in Streams : InOrderAt(r)'
  BY <1>1, <1>2, OrderKeeps DEF OrderInv
<1>4. ASSUME NEW r \in Streams PROVE (owed[r] <= Len(ch[r]))'
  <2>1. /\ owed[r] \in Nat /\ ch[r] \in Seq(Event) /\ owed[r] <= Len(ch[r])
        /\ ch \in [Streams -> Seq(Event)] /\ owed \in [Streams -> Nat]
    BY <1>1 DEF OrderInv, FeedTypes
  <2>2. CASE r = s
    <3>1. ch'[s] = Tail(ch[s]) /\ ch[s] # << >>
      BY <2>1 DEF Read
    <3>2. owed'[s] = IF owed[s] = 0 THEN 0 ELSE owed[s] - 1
      BY <2>1 DEF Read
    <3>3. Len(ch'[s]) = Len(ch[s]) - 1 /\ Len(ch[s]) \in Nat \ {0}
      BY <2>1, <2>2, <3>1
    <3> QED BY <2>1, <2>2, <3>2, <3>3
  <2>3. CASE r # s
    BY <2>1, <2>3 DEF Read
  <2> QED BY <2>2, <2>3
<1> QED BY <1>3, <1>4 DEF OrderInv, Read

(* The event p appends is newer than what the channel holds, because p was *)
(* not yet through with s.                                                 *)
LEMMA SendOrder ==
  ASSUME OrderInv, FeedInv', NEW p \in Publishers, NEW s \in Streams, Send(p, s)
  PROVE  OrderInv'
<1>1. /\ FeedTypes
      /\ pub[p].at = {s} /\ pub[p].pc = "fanning" /\ pub[p].client = StreamClient[s]
      /\ published' = published
  <2>1. pub[p].at = {s} /\ published' = published
    BY DEF Send
  <2> QED BY <2>1 DEF OrderInv, FeedInv, HeldSubscriber
<1>2. Unvisited(p, s)
  BY <1>1 DEF OrderInv, Unvisited
<1>3. \A q \in Publishers :
        /\ pub'[q].at = IF q = p THEN {} ELSE pub[q].at
        /\ pub'[q].sent = IF q = p THEN pub[q].sent \cup {s} ELSE pub[q].sent
        /\ pub'[q].pc = pub[q].pc
        /\ pub'[q].client = pub[q].client
  <2> DEFINE ss == {s}
  <2>1. Visited(p, ss) /\ ss \in SUBSET Streams
    BY DEF Send
  <2> HIDE DEF ss
  <2>2. \A q \in Publishers :
          /\ pub'[q].at = IF q = p THEN {} ELSE pub[q].at
          /\ pub'[q].sent = IF q = p THEN pub[q].sent \cup ss ELSE pub[q].sent
          /\ pub'[q].pc = pub[q].pc
          /\ pub'[q].client = pub[q].client
    BY <1>1, <2>1, VisitedType
  <2> QED BY <2>2 DEF ss
<1>4. NoOldEvent /\ ~Unvisited(p, s)'
  BY <1>1, <1>3 DEF NoOldEvent, Unvisited
<1>5. \A q \in Publishers : pub'[q].at \cap pub'[q].sent = {}
  BY <1>3 DEF OrderInv
<1>6. ch \in [Streams -> Seq(Event)] /\ owed \in [Streams -> Nat] /\ Buffer \in Nat
  BY <1>1, FeedAssumption DEF FeedTypes
<1>7. CASE Len(ch[s]) >= Buffer /\ owed' = [owed EXCEPT ![s] = Buffer] /\ UNCHANGED ch
  <2>1. \A r \in Streams : InOrderAt(r)'
    BY <1>1, <1>4, <1>7, OrderKeeps DEF OrderInv
  <2>2. \A r \in Streams : (owed[r] <= Len(ch[r]))'
    BY <1>6, <1>7 DEF OrderInv
  <2> QED BY <1>5, <2>1, <2>2 DEF OrderInv
<1>8. CASE ch' = [ch EXCEPT ![s] = Append(@, EventOf(p))] /\ UNCHANGED owed
  <2>1. published[p] \in Nat /\ EventOf(p) \in Event
    <3>1. published[p] \in Nat
      BY <1>1 DEF FeedTypes
    <3> QED BY <1>1, <3>1, FeedAssumption DEF EventOf, Event
  <2>2. /\ Len(ch'[s]) = Len(ch[s]) + 1 /\ ch'[s][Len(ch[s]) + 1] = EventOf(p)
        /\ \A k \in 1..Len(ch[s]) : ch'[s][k] = ch[s][k]
        /\ ch[s] \in Seq(Event) /\ Len(ch[s]) \in Nat
    BY <1>6, <1>8, <2>1
  <2>3. ASSUME NEW k \in 1..Len(ch[s]), NEW e, e = ch[s][k]
        PROVE  /\ Fresh(e, s)'
               /\ \A l \in 1..(k - 1) : ch'[s][l].by = e.by => ch'[s][l].n < e.n
               /\ e.by = p => e.n < published[p]
    <3>1. e \in Event /\ Fresh(e, s)
      BY <2>2, <2>3 DEF OrderInv, InOrderAt
    <3>2. Fresh(e, s)'
      BY <1>1, <1>4, <3>1, FreshKeeps
    <3>3. e.by = p => e.n < published[p]
      BY <1>2, <3>1 DEF Fresh
    <3>4. ASSUME NEW l \in 1..(k - 1), ch'[s][l].by = e.by PROVE ch'[s][l].n < e.n
      <4>1. l \in 1..Len(ch[s]) /\ ch'[s][l] = ch[s][l]
        BY <2>2
      <4> QED BY <2>3, <3>4, <4>1 DEF OrderInv, InOrderAt
    <3> QED BY <3>2, <3>3, <3>4
  <2>4. ASSUME NEW e, e = EventOf(p)
        PROVE  /\ Fresh(e, s)'
               /\ \A l \in 1..Len(ch[s]) : ch'[s][l].by = e.by => ch'[s][l].n < e.n
    <3>1. e.by = p /\ e.n = published[p] /\ e.client = StreamClient[s]
      BY <1>1, <2>4 DEF EventOf
    <3>2. Fresh(e, s)'
      BY <1>1, <1>4, <2>1, <3>1 DEF Fresh, Unvisited
    <3> QED BY <2>2, <2>3, <3>1, <3>2
  <2>5. InOrderAt(s)'
    <3>1. ASSUME NEW k \in 1..Len(ch'[s]), NEW e, e = ch'[s][k]
          PROVE  /\ Fresh(e, s)'
                 /\ \A l \in 1..(k - 1) : ch'[s][l].by = e.by => ch'[s][l].n < e.n
      <4>1. CASE k = Len(ch[s]) + 1
        BY <2>2, <2>4, <3>1, <4>1
      <4>2. CASE k \in 1..Len(ch[s])
        BY <2>2, <2>3, <3>1, <4>2
      <4> QED BY <2>2, <4>1, <4>2
    <3> QED BY <3>1 DEF InOrderAt, Fresh, Unvisited
  <2>6. ASSUME NEW r \in Streams, r # s PROVE InOrderAt(r)'
    <3>1. ch'[r] = ch[r]
      BY <1>6, <1>8, <2>6
    <3> QED BY <1>1, <1>4, <3>1, OrderKeeps DEF OrderInv
  <2>7. \A r \in Streams : (owed[r] <= Len(ch[r]))'
    BY <1>6, <1>8, <2>2 DEF OrderInv
  <2> QED BY <1>5, <2>5, <2>6, <2>7 DEF OrderInv
<1> QED BY <1>7, <1>8 DEF Send, EventOf

LEMMA OrderStep == OrderInv /\ [FeedNext]_feedVars => OrderInv'
<1> SUFFICES ASSUME OrderInv, [FeedNext]_feedVars PROVE OrderInv'
  OBVIOUS
<1>1. FeedInv' /\ FeedTypes
  BY FeedStepInv DEF OrderInv, FeedInv
<1>2. CASE UNCHANGED <<published, pub, ch, owed>>
  BY <1>1, <1>2, ChannelsAlone DEF OrderInv, NoOldEvent, Unvisited
<1>3. CASE UNCHANGED <<published, ch, owed>> /\ Unlock
  <2>1. \A p \in Publishers : /\ pub'[p].at = pub[p].at /\ pub'[p].sent = pub[p].sent
                              /\ pub'[p].pc # "idle" => pub[p].pc # "idle"
    BY <1>1, <1>3 DEF Unlock, FeedTypes, PubState
  <2> QED BY <1>1, <1>3, <2>1, ChannelsAlone DEF OrderInv, NoOldEvent, Unvisited
<1>4. ASSUME NEW s \in Streams, Read(s) PROVE OrderInv'
  BY <1>1, <1>4, ReadOrder
<1>5. ASSUME NEW p \in Publishers, RLock(p) PROVE OrderInv'
  <2>1. PICK c \in FeedClients :
          pub' = [pub EXCEPT ![p] = [pc |-> IF writer = {} THEN "fanning" ELSE "blocked",
                                     client |-> c, at |-> {}, sent |-> {}]]
    BY <1>5 DEF RLock
  <2>2. \A q \in Publishers : q # p => pub'[q] = pub[q] /\ published'[q] = published[q]
    BY <1>1, <1>5, <2>1 DEF RLock, FeedTypes
  <2>3. pub'[p].at = {} /\ published'[p] = published[p] + 1
    BY <1>1, <1>5, <2>1 DEF RLock, FeedTypes
  <2>4. NoOldEvent
    BY <2>2, <2>3 DEF NoOldEvent, Unvisited
  <2>5. \A q \in Publishers : pub'[q].at \cap pub'[q].sent = {}
    BY <2>2, <2>3 DEF OrderInv
  <2> QED BY <1>1, <1>5, <2>4, <2>5, ChannelsAlone DEF RLock
<1>6. ASSUME NEW p \in Publishers, RUnlock(p) PROVE OrderInv'
  <2>1. \A q \in Publishers : pub'[q] = IF q = p THEN Quiet ELSE pub[q]
    BY <1>1, <1>6 DEF RUnlock, FeedTypes
  <2>2. NoOldEvent
    BY <1>6, <2>1 DEF RUnlock, NoOldEvent, Unvisited, Quiet
  <2>3. \A q \in Publishers : pub'[q].at \cap pub'[q].sent = {}
    BY <2>1 DEF OrderInv, Quiet
  <2> QED BY <1>1, <1>6, <2>2, <2>3, ChannelsAlone DEF RUnlock
<1>7. ASSUME NEW p \in Publishers, NEW s \in Streams, Pick(p, s) PROVE OrderInv'
  <2>1. \A q \in Publishers : /\ pub'[q].at = IF q = p THEN {s} ELSE pub[q].at
                              /\ pub'[q].sent = pub[q].sent /\ pub'[q].pc = pub[q].pc
    BY <1>1, <1>7 DEF Pick, FeedTypes, PubState
  <2>2. s \notin pub[p].sent
    BY <1>7 DEF Pick, Unsent
  <2>3. \A q \in Publishers : pub'[q].at \cap pub'[q].sent = {}
    BY <2>1, <2>2 DEF OrderInv
  <2>4. NoOldEvent
    BY <1>7, <2>1 DEF Pick, NoOldEvent, Unvisited
  <2> QED BY <1>1, <1>7, <2>3, <2>4, ChannelsAlone DEF Pick
<1>8. ASSUME NEW p \in Publishers, NEW s \in Streams, Send(p, s) PROVE OrderInv'
  BY <1>1, <1>8, SendOrder
<1>9. ASSUME NEW s \in Streams,
             Announce(s) \/ CloseChannel(s) \/ Connect(s) \/ Heartbeat(s) \/ Written(s)
               \/ Disconnect(s) \/ Leave(s)
      PROVE  OrderInv'
  BY <1>2, <1>9 DEF Announce, CloseChannel, Connect, Heartbeat, Written, Disconnect, Leave
<1>10. ASSUME NEW s \in Streams, Subscribe(s) \/ Unsubscribe(s) PROVE OrderInv'
  BY <1>3, <1>10 DEF Subscribe, Unsubscribe
<1>11. CASE UNCHANGED feedVars
  BY <1>2, <1>11 DEF feedVars
<1> QED BY <1>4, <1>5, <1>6, <1>7, <1>8, <1>9, <1>10, <1>11 DEF FeedNext, StreamStep, Publish

LEMMA OrderInit == FeedInit => OrderInv
<1> SUFFICES ASSUME FeedInit PROVE OrderInv
  OBVIOUS
<1>1. \A s \in Streams : ch[s] = << >> /\ owed[s] = 0
  BY DEF FeedInit
<1>2. \A s \in Streams : InOrderAt(s) /\ owed[s] <= Len(ch[s])
  BY <1>1 DEF InOrderAt
<1>3. \A p \in Publishers : pub[p].at \cap pub[p].sent = {}
  BY DEF FeedInit, Quiet
<1> QED BY <1>2, <1>3, FeedInitInv DEF OrderInv

(* PublishTaskEvent's tenant filter and its loop: a dashboard is sent only *)
(* its own client's events, those of one worker in order and none twice.   *)
THEOREM OwnFeed == FeedSpec => []OwnEventsInOrder
<1>1. OrderInv => OwnEventsInOrder
  BY DEF OrderInv, InOrderAt, Fresh, OwnEventsInOrder
<1> QED BY <1>1, OrderInit, OrderStep, PTL DEF FeedSpec

(* Its empty default: only a stream with a full buffer of earlier events   *)
(* to read loses one.                                                      *)
THEOREM DropsOnlyBehind == FeedSpec => []LostOnlyWhenBehind
<1>1. OrderInv => LostOnlyWhenBehind
  BY DEF OrderInv, LostOnlyWhenBehind
<1> QED BY <1>1, OrderInit, OrderStep, PTL DEF FeedSpec

-----------------------------------------------------------------------------
(* Type correctness, with the bounds. *)
FeedBounds ==
    /\ \A p \in Publishers : published[p] <= MaxEvents[p]
    /\ writer \in SUBSET Streams
    /\ gone \subseteq Streams
    /\ \A s \in Streams : Len(ch[s]) <= Buffer
    /\ panicked \in BOOLEAN

LEMMA FeedBoundsStep ==
  ASSUME FeedInv, FeedBounds, [FeedNext]_feedVars
  PROVE  FeedBounds'
<1>0. /\ published \in [Publishers -> Nat] /\ MaxEvents \in [Publishers -> Nat]
      /\ ch \in [Streams -> Seq(Event)] /\ Buffer \in Nat
  BY FeedAssumption DEF FeedInv, FeedTypes
<1>1. writer' \in SUBSET Streams /\ gone' \subseteq Streams
  BY DEF FeedBounds, FeedNext, feedVars, StreamStep, Announce, Subscribe, Unsubscribe, Unlock,
         CloseChannel, Connect, Read, Heartbeat, Written, Disconnect, Leave, RLock, Publish,
         RUnlock, Pick, Send
<1>2. ASSUME NEW p \in Publishers PROVE published'[p] <= MaxEvents[p]
  <2>1. CASE published' = published
    BY <2>1 DEF FeedBounds
  <2>2. ASSUME NEW q \in Publishers, RLock(q) PROVE published'[p] <= MaxEvents[p]
    <3>1. published[q] < MaxEvents[q] /\ published' = [published EXCEPT ![q] = @ + 1]
      BY <2>2 DEF RLock
    <3> QED BY <1>0, <3>1 DEF FeedBounds
  <2> QED
    BY <2>1, <2>2
       DEF FeedNext, feedVars, StreamStep, Announce, Subscribe, Unsubscribe, CloseChannel,
           Connect, Read, Heartbeat, Written, Disconnect, Leave, Publish, RUnlock, Pick, Send
<1>3. ASSUME NEW s \in Streams PROVE Len(ch'[s]) <= Buffer
  <2>1. CASE ch' = ch
    BY <2>1 DEF FeedBounds
  <2>2. ASSUME NEW r \in Streams, Read(r) PROVE Len(ch'[s]) <= Buffer
    <3>1. ch[r] # << >> /\ ch' = [ch EXCEPT ![r] = Tail(@)]
      BY <2>2 DEF Read
    <3>2. ch[r] \in Seq(Event) /\ Len(ch[r]) \in Nat /\ Len(Tail(ch[r])) = Len(ch[r]) - 1
      BY <1>0, <3>1
    <3> QED BY <1>0, <3>1, <3>2 DEF FeedBounds
  <2>3. ASSUME NEW p \in Publishers, NEW r \in Streams, Send(p, r) PROVE Len(ch'[s]) <= Buffer
    <3>1. CASE Len(ch[r]) < Buffer /\ ch' = [ch EXCEPT ![r] = Append(@, EventOf(p))]
      <4>1. Len(Append(ch[r], EventOf(p))) = Len(ch[r]) + 1 /\ Len(ch[r]) \in Nat
        <5>1. ch[r] \in Seq(Event)
          BY <1>0
        <5> QED BY <5>1
      <4> QED BY <1>0, <3>1, <4>1 DEF FeedBounds
    <3> QED BY <2>1, <2>3, <3>1 DEF Send, EventOf
  <2> QED
    BY <2>1, <2>2, <2>3
       DEF FeedNext, feedVars, StreamStep, Announce, Subscribe, Unsubscribe, CloseChannel,
           Connect, Heartbeat, Written, Disconnect, Leave, Publish, RLock, RUnlock, Pick
<1>4. panicked' \in BOOLEAN
  <2>1. ASSUME NEW p \in Publishers, NEW s \in Streams, Send(p, s) PROVE panicked' \in BOOLEAN
    BY <2>1 DEF Send
  <2>2. panicked' = panicked => panicked' \in BOOLEAN
    BY DEF FeedBounds
  <2> QED
    BY <2>1, <2>2
       DEF FeedNext, feedVars, StreamStep, Announce, Subscribe, Unsubscribe, CloseChannel,
           Connect, Read, Heartbeat, Written, Disconnect, Leave, Publish, RLock, RUnlock, Pick
<1> QED BY <1>1, <1>2, <1>3, <1>4 DEF FeedBounds

LEMMA FeedTypeCorrect ==
  ASSUME OrderInv, FeedBounds
  PROVE  FeedTypeOK
<1>1. FeedInv /\ \A s \in Streams : owed[s] <= Len(ch[s])
  BY DEF OrderInv
<1>2. owed \in [Streams -> 0..Buffer]
  BY <1>1, FeedAssumption DEF FeedInv, FeedTypes, FeedBounds
<1> QED BY <1>1, <1>2 DEF FeedInv, FeedTypes, FeedBounds, FeedTypeOK

(* Type correctness: no channel ever holds more than its capacity.         *)
LEMMA FeedTyped == FeedSpec => []FeedTypeOK
<1>1. ASSUME FeedInit PROVE FeedBounds
  <2>1. ASSUME NEW p \in Publishers PROVE published[p] <= MaxEvents[p]
    <3>1. published = [q \in Publishers |-> 0]
      BY <1>1 DEF FeedInit
    <3>2. published[p] = 0 /\ MaxEvents[p] \in Nat
      BY <3>1, FeedAssumption
    <3> QED BY <3>2
  <2>2. \A s \in Streams : Len(ch[s]) = 0 /\ 0 <= Buffer
    BY <1>1, FeedAssumption DEF FeedInit
  <2>3. writer = {} /\ gone = {} /\ panicked = FALSE
    BY <1>1 DEF FeedInit
  <2> QED BY <2>1, <2>2, <2>3 DEF FeedBounds
<1>2. OrderInv => FeedInv
  BY DEF OrderInv
<1> QED
  BY <1>1, <1>2, OrderInit, OrderStep, FeedBoundsStep, FeedTypeCorrect, PTL DEF FeedSpec
=============================================================================
