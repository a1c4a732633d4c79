-------------------------------- MODULE Feed --------------------------------
(***************************************************************************)
(* The live feed of one backend instance: the SSE hub (sse/hub.go), the    *)
(* handler that streams it to a dashboard (controllers/sse_controller.go)  *)
(* and the worker goroutines that publish to it (worker/pool.go).          *)
(*                                                                         *)
(* Subscribers come and go under the write lock of an RWMutex, publishers  *)
(* fan out under its read lock, and a channel is closed outside any lock.  *)
(* A send on a closed channel panics, and PublishTaskEvent is called       *)
(* outside the recover() of runHandler: it would take the process down.    *)
(*                                                                         *)
(* Abstractions.  An event is a number and a client; its type, task and    *)
(* status are left out.  A critical section of the write lock is one step, *)
(* since nobody else runs in it.  A stream is one connection: a dashboard  *)
(* that reconnects is another stream.                                      *)
(***************************************************************************)
EXTENDS Naturals, Sequences

CONSTANTS
    Publishers,   \* the worker goroutines
    Streams,      \* the connections ever made to /api/sse/events
    FeedClients,  \* the client_ids
    StreamClient, \* stream -> the client_id of its API key
    Buffer,       \* the capacity of a subscriber's channel (16 in the code)
    MaxEvents     \* bound: publisher -> events it publishes

ASSUME FeedAssumption ==
    /\ StreamClient \in [Streams -> FeedClients]
    /\ "none" \notin FeedClients
    /\ Buffer \in Nat \ {0}
    /\ MaxEvents \in [Publishers -> Nat]

VARIABLES
    published, \* publisher -> the number of its events so far
    writer,   \* the streams that hold the writers' mutex of the RWMutex: at most one
    pub,      \* publisher -> where PublishTaskEvent is
    stream,   \* stream -> where Stream and Unsubscribe are
    gone,     \* the streams whose client has disconnected
    subs,     \* Hub.subs
    ch,       \* stream -> the content of its channel
    closed,   \* the streams whose channel is closed
    panicked, \* has a send hit a closed channel?
    owed      \* history: stream -> what it still had to read when it last lost an event

feedVars == <<published, writer, pub, stream, gone, subs, ch, closed, panicked, owed>>

Event == [by : Publishers, n : Nat, client : FeedClients]

NoClient == "none"

(* A publisher that waits for the read lock is "blocked", one that holds it *)
(* is "fanning"; "at" is the subscriber whose channel it is about to send   *)
(* to, if any, and "sent" those the range loop is through with.             *)
PubState == [pc : {"idle", "blocked", "fanning"}, client : FeedClients \cup {NoClient},
             at : SUBSET Streams, sent : SUBSET Streams]

Quiet == [pc |-> "idle", client |-> NoClient, at |-> {}, sent |-> {}]

StreamState == {"none", "joining", "open", "writing", "leaving", "left", "done"}

FeedInit ==
    /\ published = [p \in Publishers |-> 0]
    /\ writer = {}
    /\ pub = [p \in Publishers |-> Quiet]
    /\ stream = [s \in Streams |-> "none"]
    /\ gone = {}
    /\ subs = {}
    /\ ch = [s \in Streams |-> << >>]
    /\ closed = {}
    /\ panicked = FALSE
    /\ owed = [s \in Streams |-> 0]

-----------------------------------------------------------------------------
(* RWMutex.Lock: one writer at a time; from here on RLock blocks.          *)
Announce(s) ==
    /\ stream[s] \in {"joining", "leaving"}
    /\ writer = {}
    /\ writer' = {s}
    /\ UNCHANGED <<published, pub, stream, gone, subs, ch, closed, panicked, owed>>

(* The readers that were in have left. *)
HasLock(s) == writer = {s} /\ \A p \in Publishers : pub[p].pc # "fanning"

(* RWMutex.Unlock: every reader that waited is let in. *)
Unlock ==
    /\ writer' = {}
    /\ pub' = [p \in Publishers |->
                 IF pub[p].pc = "blocked" THEN [pub[p] EXCEPT !.pc = "fanning"] ELSE pub[p]]

-----------------------------------------------------------------------------
(* SSEController.Stream. *)

Connect(s) ==
    /\ stream[s] = "none"
    /\ stream' = [stream EXCEPT ![s] = "joining"]
    /\ UNCHANGED <<published, writer, pub, gone, subs, ch, closed, panicked, owed>>

Subscribe(s) ==
    /\ stream[s] = "joining"
    /\ HasLock(s)
    /\ subs' = subs \cup {s}
    /\ Unlock
    /\ stream' = [stream EXCEPT ![s] = "open"]
    /\ UNCHANGED <<published, gone, ch, closed, panicked, owed>>

(* The select takes an event from the channel and starts to write it.      *)
Read(s) ==
    /\ stream[s] = "open"
    /\ ch[s] # << >>
    /\ ch' = [ch EXCEPT ![s] = Tail(@)]
    /\ owed' = [owed EXCEPT ![s] = IF @ = 0 THEN 0 ELSE @ - 1]
    /\ stream' = [stream EXCEPT ![s] = "writing"]
    /\ UNCHANGED <<published, writer, pub, gone, subs, closed, panicked>>

(* ... or the ticker's heartbeat. *)
Heartbeat(s) ==
    /\ stream[s] = "open"
    /\ stream' = [stream EXCEPT ![s] = "writing"]
    /\ UNCHANGED <<published, writer, pub, gone, subs, ch, closed, panicked, owed>>

(* The write blocks for as long as a connected client does not read.       *)
Written(s) ==
    /\ stream[s] = "writing"
    /\ stream' = [stream EXCEPT ![s] = "open"]
    /\ UNCHANGED <<published, writer, pub, gone, subs, ch, closed, panicked, owed>>

(* The browser or the proxy goes away: the request's context is cancelled.  *)
Disconnect(s) ==
    /\ stream[s] \in {"joining", "open", "writing"}
    /\ s \notin gone
    /\ gone' = gone \cup {s}
    /\ UNCHANGED <<published, writer, pub, stream, subs, ch, closed, panicked, owed>>

\* mutant: a stream that does not watch the request's context, only its channel
NeverLeave(s) ==
    /\ s \in closed
    /\ stream' = [stream EXCEPT ![s] = "leaving"]
    /\ UNCHANGED <<published, writer, pub, gone, subs, ch, closed, panicked, owed>>

(* The select notices; the deferred Unsubscribe starts.                    *)
Leave(s) ==
    /\ stream[s] = "open"
    /\ s \in gone
    /\ stream' = [stream EXCEPT ![s] = "leaving"]
    /\ UNCHANGED <<published, writer, pub, gone, subs, ch, closed, panicked, owed>>

\* mutant: the channel is closed before the subscriber is out of the map
CloseThenUnsubscribe(s) ==
    /\ stream[s] = "leaving"
    /\ \/ /\ s \notin closed
          /\ closed' = closed \cup {s}
          /\ UNCHANGED <<published, writer, pub, stream, subs>>
       \/ /\ s \in closed
          /\ HasLock(s)
          /\ subs' = subs \ {s}
          /\ Unlock
          /\ stream' = [stream EXCEPT ![s] = "left"]
          /\ UNCHANGED closed
    /\ UNCHANGED <<published, gone, ch, panicked, owed>>

(* Unsubscribe: the deletion under the lock ... *)
Unsubscribe(s) ==
    /\ stream[s] = "leaving"
    /\ HasLock(s)
    /\ subs' = subs \ {s}
    /\ Unlock
    /\ stream' = [stream EXCEPT ![s] = "left"]
    /\ UNCHANGED <<published, gone, ch, closed, panicked, owed>>

(* ... and the close outside it. *)
CloseChannel(s) ==
    /\ stream[s] = "left"
    /\ closed' = closed \cup {s}
    /\ stream' = [stream EXCEPT ![s] = "done"]
    /\ UNCHANGED <<published, writer, pub, gone, subs, ch, panicked, owed>>

-----------------------------------------------------------------------------
(* PublishTaskEvent, called by a worker. *)

RLock(p) ==
    /\ pub[p].pc = "idle"
    /\ published[p] < MaxEvents[p]
    /\ published' = [published EXCEPT ![p] = @ + 1]
    /\ \E c \in FeedClients :
         pub' = [pub EXCEPT ![p] = [pc     |-> IF writer = {} THEN "fanning" ELSE "blocked",
                                    client |-> c,
                                    at     |-> {},
                                    sent   |-> {}]]
    /\ UNCHANGED <<writer, stream, gone, subs, ch, closed, panicked, owed>>

\* mutant: the filter by client is forgotten
EverySubscriber(p) == subs \ pub[p].sent

(* The rest of the range loop: subscribers of the task's owner. *)
Unsent(p) == {s \in subs \ pub[p].sent : StreamClient[s] = pub[p].client}

(* The loop takes a subscriber out of the map ... *)
Pick(p, s) ==
    /\ pub[p].pc = "fanning"
    /\ pub[p].at = {}
    /\ s \in Unsent(p)
    /\ pub' = [pub EXCEPT ![p].at = {s}]
    /\ UNCHANGED <<published, writer, stream, gone, subs, ch, closed, panicked, owed>>

Visited(p, ss) == pub' = [pub EXCEPT ![p].sent = @ \cup ss, ![p].at = {}]

\* mutant: return instead of the empty default: the first full buffer ends the loop
SendOrStop(p, s) ==
    /\ pub[p].at = {s}
    /\ panicked' = (panicked \/ s \in closed)
    /\ \/ /\ Len(ch[s]) < Buffer
          /\ Visited(p, {s})
          /\ ch' = [ch EXCEPT ![s] = Append(@, [by |-> p, n |-> published[p], client |-> pub[p].client])]
          /\ UNCHANGED owed
       \/ /\ Len(ch[s]) >= Buffer
          /\ Visited(p, subs)
          /\ owed' = [r \in Streams |-> IF r \in Unsent(p) THEN Buffer ELSE owed[r]]
          /\ UNCHANGED ch
    /\ UNCHANGED <<published, writer, stream, gone, subs, closed>>

\* mutant: a send without a default case waits for room in the channel
BlockingSend(p, s) ==
    /\ pub[p].at = {s}
    /\ Len(ch[s]) < Buffer
    /\ panicked' = (panicked \/ s \in closed)
    /\ Visited(p, {s})
    /\ ch' = [ch EXCEPT ![s] = Append(@, [by |-> p, n |-> published[p], client |-> pub[p].client])]
    /\ UNCHANGED <<published, writer, stream, gone, subs, closed, owed>>

(* ... and select { case s.ch <- e: default: } sends if there is room,      *)
(* otherwise the event is lost for this subscriber.                        *)
Send(p, s) ==
    /\ pub[p].at = {s}
    /\ panicked' = (panicked \/ s \in closed)
    /\ Visited(p, {s})
    /\ \/ /\ Len(ch[s]) < Buffer
          /\ ch' = [ch EXCEPT ![s] = Append(@, [by |-> p, n |-> published[p], client |-> pub[p].client])]
          /\ UNCHANGED owed
       \/ /\ Len(ch[s]) >= Buffer
          /\ owed' = [owed EXCEPT ![s] = Buffer]
          /\ UNCHANGED ch
    /\ UNCHANGED <<published, writer, stream, gone, subs, closed>>

(* The deferred RUnlock. *)
RUnlock(p) ==
    /\ pub[p].pc = "fanning"
    /\ pub[p].at = {}
    /\ Unsent(p) = {}
    /\ pub' = [pub EXCEPT ![p] = Quiet]
    /\ UNCHANGED <<published, writer, stream, gone, subs, ch, closed, panicked, owed>>

-----------------------------------------------------------------------------
StreamStep(s) == \/ Announce(s)
                 \/ Subscribe(s)
                 \/ Unsubscribe(s)
                 \/ CloseChannel(s)

Publish(p) == RUnlock(p) \/ \E s \in Streams : Pick(p, s) \/ Send(p, s)

FeedNext ==
    \/ \E s \in Streams :
         \/ StreamStep(s)
         \/ Connect(s) \/ Read(s) \/ Heartbeat(s) \/ Written(s)
         \/ Disconnect(s) \/ Leave(s)
    \/ \E p \in Publishers : RLock(p) \/ Publish(p)

(* A goroutine that can run does, and a write to a connection whose client *)
(* has gone returns.  select chooses at random among its ready cases, so a *)
(* cancelled context that stays ready is noticed however many events and   *)
(* heartbeats compete with it: strong fairness.  Connected clients owe     *)
(* nothing: they may never read.                                           *)
FeedFairness ==
    /\ \A p \in Publishers : WF_feedVars(Publish(p))
    /\ \A s \in Streams :
         /\ WF_feedVars(StreamStep(s))
         /\ WF_feedVars(Written(s) /\ s \in gone)
         /\ SF_feedVars(Leave(s))

FeedSpec == FeedInit /\ [][FeedNext]_feedVars /\ FeedFairness

-----------------------------------------------------------------------------
(* Every variable has its type, and no channel holds more than its capacity. *)
FeedTypeOK ==
    /\ published \in [Publishers -> Nat]
    /\ \A p \in Publishers : published[p] <= MaxEvents[p]
    /\ writer \in SUBSET Streams
    /\ pub \in [Publishers -> PubState]
    /\ stream \in [Streams -> StreamState]
    /\ gone \subseteq Streams
    /\ subs \subseteq Streams
    /\ ch \in [Streams -> Seq(Event)]
    /\ \A s \in Streams : Len(ch[s]) <= Buffer
    /\ closed \subseteq Streams
    /\ panicked \in BOOLEAN
    /\ owed \in [Streams -> 0..Buffer]

(* Unsubscribe closes the channel outside the lock (hub.go:50-56) while    *)
(* workers send under the read lock: no send ever meets a closed channel,  *)
(* because nobody can still be fanning out to a subscriber that the write  *)
(* lock has removed.                                                       *)
NoSendOnClosed == ~panicked

(* The tenant filter and the fan-out (PublishTaskEvent): a channel holds   *)
(* only events of its own client, and those of one worker in the order in  *)
(* which the worker published them, none twice.                            *)
OwnEventsInOrder ==
    \A s \in Streams : \A k \in 1..Len(ch[s]) :
      /\ ch[s][k].client = StreamClient[s]
      /\ \A l \in 1..(k - 1) : ch[s][l].by = ch[s][k].by => ch[s][l].n < ch[s][k].n

(* "drop the event rather than block the worker" (PublishTaskEvent): an    *)
(* event is lost only for a stream with a full buffer of earlier events,   *)
(* and those are not lost with it.  Until it has read them all they are    *)
(* still in its channel, so a stream that has lost an event is never left  *)
(* with nothing to wake it.                                                *)
LostOnlyWhenBehind == \A s \in Streams : owed[s] <= Len(ch[s])

(* "a stalled worker is not [fine]" (PublishTaskEvent): a call ends        *)
(* whatever the dashboards do, also when none of them ever reads and when  *)
(* subscriptions compete for the lock.                                     *)
PublishEnds == \A p \in Publishers : []<>(pub[p].pc = "idle")

(* Stream's deferred Unsubscribe: a connection whose client has gone is    *)
(* taken out of the hub and its channel is closed, however much is         *)
(* published to it meanwhile.  (Once gone, a client is gone for ever.)     *)
StreamEnds == \A s \in Streams : []<>(s \in gone => s \in closed \ subs)
=============================================================================
