------------------------------ MODULE Delivery ------------------------------
(***************************************************************************)
(* Acknowledged delivery over one TCP connection: the connection handler   *)
(* of src/transport/tcp/server.go and the Client of client.go.             *)
(*                                                                         *)
(* The threads are                                                         *)
(*   - the read loop of the server's connection (serve);                   *)
(*   - one delivery goroutine per subscription s \in Subs;                 *)
(*   - the broker calls that publish events, one per event;                *)
(*   - the client's readLoop;                                              *)
(*   - the application, which receives and acknowledges, and the other     *)
(*     calls on the Client.                                                *)
(* A step is one critical section, one channel operation or one frame.     *)
(*                                                                         *)
(* A wire is a bounded FIFO of frames.  The sub field of an EVENT frame is *)
(* a history field: the frame does not carry the subscription.  Only the   *)
(* queue of a subscription is kept of the broker (see Broker), under the   *)
(* Block policy that the server is run with.                               *)
(***************************************************************************)
EXTENDS Integers, Sequences, FiniteSets, Functions

CONSTANTS
    Topics,         \* topic names
    Events,         \* the events that are published, each at most once
    QueueSize,      \* broker.Config.QueueSize
    EventsSize,     \* capacity of Client.events (32)
    MaxAttempts,    \* deliveryMaxAttempts (3)
    MaxRemembered,  \* maxRememberedDeliveries (4096)
    WireSize,       \* bound: frames in flight in one direction
    MaxSubs,        \* bound: number of SUBSCRIBE frames
    MaxTimeouts,    \* bound: number of deliveryAckTimeouts that fire while
                    \* the client is there
    OwnEvents,      \* the events that this client publishes
    Operations      \* the optional calls that the client may make

Subs  == 1 .. MaxSubs
NoSub == 0
Ids   == {e.id : e \in Events}
\* The channel that the n-th deliver call of a delivery goroutine makes.
Channel(s, n) == <<s, n>>
NoChannel == <<NoSub, 0>>

\* Close: the client closes the connection, or the connection breaks.
AllOperations == {"Unsubscribe", "Close"}

ASSUME DeliveryAssumption ==
    /\ Events # {} /\ \A e \in Events : e.topic \in Topics
    /\ {QueueSize, EventsSize, MaxAttempts, MaxRemembered, WireSize} \subseteq Nat \ {0}
    /\ MaxSubs \in Nat /\ MaxTimeouts \in Nat
    /\ OwnEvents \subseteq Events
    /\ Operations \subseteq AllOperations

VARIABLES
    subs,         \* connection.subs
    pendingAck,   \* connection.pendingAck
    reader,       \* where the server's read loop is
    serverOpen,   \* the server has not closed its end of the connection
    state,        \* of a subscription: "absent", "open" or "closed"
    topicOf,      \* Subscription.topic
    queue,        \* Subscription.events
    pc,           \* where the delivery goroutine is
    event,        \* the event that it delivers
    attempt,      \* the attempt that it is at
    serial,       \* the number of its deliver call
    acknowledged, \* its acknowledged channel holds a status
    cache,        \* Broker.cache
    published,    \* the events that have been published
    todo,         \* the subscribers that a publish has yet to serve
    toClient,     \* frames on the way to the client
    toServer,     \* frames on the way to the server
    clientOpen,   \* Client.done is open, and so is its end of the connection
    loop,         \* where Client.readLoop is
    events,       \* Client.events
    acked,        \* Client.acked
    ackedIDs,     \* Client.ackedIDs
    app,          \* where the application is
    asked,        \* number of SUBSCRIBE frames sent
    ownSent,      \* the events that this client has sent to be published
    timeouts,     \* number of timeouts that fired
    stream,       \* history: everything put into a subscription's queue
    received,     \* history: what the application received, in order
    confirmed,    \* history: the IDs that it acknowledged
    delivered,    \* history: what deliver returned true for
    heard         \* history: the read loop handled an ACK for the event

serverVars   == <<subs, pendingAck, serverOpen>>
brokerVars   == <<state, topicOf, queue, cache, published, todo, stream>>
deliveryVars == <<pc, event, attempt, serial, acknowledged, delivered, heard>>
wireVars     == <<toClient, toServer>>
clientVars   == <<clientOpen, events, acked, ackedIDs>>
appVars      == <<app, received, confirmed>>
boundVars    == <<asked, ownSent, timeouts>>
vars == <<serverVars, reader, brokerVars, deliveryVars, wireVars, clientVars,
          loop, appVars, boundVars>>

-----------------------------------------------------------------------------
(* Frames *)

EventFrame(e, s)    == [type |-> "EVENT", event |-> e, sub |-> s]
AckFrame(id)        == [type |-> "ACK", id |-> id]
TopicFrame(type, t) == [type |-> type, topic |-> t]
PublishFrame(e)     == [type |-> "PUBLISH", event |-> e]
PublishedFrame(e)   == [type |-> "PUBLISHED", event |-> e]

\* A frame written to a peer that is gone is lost without an error at first.
SendToClient(frame) ==
    /\ serverOpen
    /\ IF clientOpen
       THEN /\ Len(toClient) < WireSize
            /\ toClient' = Append(toClient, frame)
       ELSE UNCHANGED toClient

\* Writing fails once the connection is closed at either end.
SendToClientFails == ~serverOpen \/ ~clientOpen

SendToServer(frame) ==
    /\ clientOpen
    /\ IF serverOpen
       THEN /\ Len(toServer) < WireSize
            /\ toServer' = Append(toServer, frame)
       ELSE UNCHANGED toServer

SendToServerFails == ~clientOpen \/ ~serverOpen

At(place)         == [at |-> place]
AtEvent(place, e) == [at |-> place, event |-> e]

-----------------------------------------------------------------------------
(* The broker: fan-out of a published event to the queues of its topic *)

OpenSubs(t) == {s \in Subs : state[s] = "open" /\ topicOf[s] = t}

\* An event that finds no subscriber is kept for the next one.
Route(e) ==
    /\ published' = published \cup {e}
    /\ todo' = [todo EXCEPT ![e] = OpenSubs(e.topic)]
    /\ cache' = IF OpenSubs(e.topic) = {}
                THEN [cache EXCEPT ![e.topic] = Append(@, e)]
                ELSE cache

\* Another connection publishes e.
PublishElsewhere(e) ==
    /\ e \notin OwnEvents /\ e \notin published
    /\ Route(e)
    /\ UNCHANGED <<serverVars, reader, state, topicOf, queue, stream,
                   deliveryVars, wireVars, clientVars, loop, appVars, boundVars>>

\* A full queue blocks the call; a subscription that closes ends it with an
\* error, and the other subscribers are not served.  The call serves them in
\* the order of a range over a map, which may be any.
Enqueue(e, s) ==
    /\ s \in todo[e]
    /\ IF state[s] = "open"
       THEN /\ Len(queue[s]) < QueueSize
            /\ queue' = [queue EXCEPT ![s] = Append(@, e)]
            /\ stream' = [stream EXCEPT ![s] = Append(@, e)]
            /\ todo' = [todo EXCEPT ![e] = @ \ {s}]
       ELSE /\ todo' = [todo EXCEPT ![e] = {}]
            /\ UNCHANGED <<queue, stream>>
    /\ UNCHANGED <<serverVars, reader, state, topicOf, cache, published,
                   deliveryVars, wireVars, clientVars, loop, appVars, boundVars>>

CloseSubs(S) == state' = [s \in Subs |-> IF s \in S THEN "closed" ELSE state[s]]

-----------------------------------------------------------------------------
(* The server's read loop *)

Reads(type) ==
    /\ reader.at = "read" /\ serverOpen
    /\ toServer # <<>> /\ Head(toServer).type = type
    /\ toServer' = Tail(toServer)

\* subscribe: Broker.Subscribe registers the new subscription first, ...
ReadSubscribe(s) ==
    /\ Reads("SUBSCRIBE")
    /\ state[s] = "absent" /\ \A r \in Subs : r < s => state[r] # "absent"
    /\ state' = [state EXCEPT ![s] = "open"]
    /\ LET t == Head(toServer).topic
           n == IF Len(cache[t]) > QueueSize THEN QueueSize ELSE Len(cache[t])
           replay == SubSeq(cache[t], 1, n)
       IN  /\ topicOf' = [topicOf EXCEPT ![s] = t]
           /\ queue' = [queue EXCEPT ![s] = replay]
           /\ stream' = [stream EXCEPT ![s] = replay]
           /\ cache' = [cache EXCEPT ![t] = SubSeq(@, n + 1, Len(@))]
    /\ reader' = [at |-> "subscribed", sub |-> s]
    /\ UNCHANGED <<serverVars, published, todo, deliveryVars, toClient, clientVars,
                   loop, appVars, boundVars>>

\* ... then the one it replaces is closed and the goroutine is started.
InstallSubscription ==
    /\ reader.at = "subscribed"
    /\ LET s == reader.sub
           t == topicOf[s]
       IN  /\ CloseSubs({subs[t]} \ {NoSub})
           /\ subs' = [subs EXCEPT ![t] = s]
           /\ pc' = [pc EXCEPT ![s] = "range"]
    /\ reader' = At("read")
    /\ UNCHANGED <<pendingAck, serverOpen, topicOf, queue, cache, published, todo, stream,
                   event, attempt, serial, acknowledged, delivered, heard,
                   wireVars, clientVars, loop, appVars, boundVars>>

\* unsubscribe: the goroutine still delivers what the queue holds.
ReadUnsubscribe ==
    /\ Reads("UNSUBSCRIBE")
    /\ LET t == Head(toServer).topic
       IN  /\ CloseSubs({subs[t]} \ {NoSub})
           /\ subs' = [subs EXCEPT ![t] = NoSub]
    /\ UNCHANGED <<pendingAck, reader, serverOpen, topicOf, queue, cache, published, todo,
                   stream, deliveryVars, toClient, clientVars, loop, appVars,
                   boundVars>>

\* Mutant: the ACK answers whichever delivery is in progress.
Waiting_Any(id) ==
    IF \E s \in Subs : pc[s] = "select"
    THEN LET s == CHOOSE s \in Subs : pc[s] = "select" IN Channel(s, serial[s])
    ELSE NoChannel

\* Mutant: an ACK counts for the first attempt only.
Waiting_FirstAttempt(id) ==
    IF \E s \in Subs : pc[s] = "select" /\ attempt[s] = 1 THEN pendingAck[id] ELSE NoChannel

\* acknowledge looks the channel up under ackMu.
Waiting(id) == pendingAck[id]

ReadAck ==
    /\ Reads("ACK")
    /\ LET id == Head(toServer).id
       IN  reader' = [at |-> "ack", id |-> id, channel |-> Waiting(id)]
    /\ UNCHANGED <<serverVars, brokerVars, deliveryVars, toClient, clientVars, loop,
                   appVars, boundVars>>

Delivering(s) == pc[s] \in {"send", "select", "true", "false"}

\* The send does not block: a channel that is full, or that its deliver call
\* has given up, takes nothing.
Acknowledged ==
    /\ reader.at = "ack"
    /\ acknowledged' = [s \in Subs |->
          acknowledged[s] \/ reader.channel = Channel(s, serial[s])]
    /\ heard' = [s \in Subs |->
          heard[s] \/ (pc[s] = "select" /\ event[s].id = reader.id)]
    /\ reader' = At("read")
    /\ UNCHANGED <<serverVars, brokerVars, pc, event, attempt, serial, delivered,
                   wireVars, clientVars, loop, appVars, boundVars>>

\* publish occupies the read loop until the fan-out is over.
ReadPublish ==
    /\ Reads("PUBLISH")
    /\ Route(Head(toServer).event)
    /\ reader' = AtEvent("publish", Head(toServer).event)
    /\ UNCHANGED <<serverVars, state, topicOf, queue, stream, deliveryVars,
                   toClient, clientVars, loop, appVars, boundVars>>

PublishDone ==
    /\ reader.at = "publish" /\ todo[reader.event] = {}
    /\ \/ SendToClient(PublishedFrame(reader.event))
       \/ SendToClientFails /\ UNCHANGED toClient
    /\ reader' = At("read")
    /\ UNCHANGED <<serverVars, brokerVars, deliveryVars, toServer, clientVars, loop,
                   appVars, boundVars>>

\* Mutant: the connection is closed, its subscriptions are not.
SubsOf_None == {}

SubsOf == {subs[t] : t \in Topics} \ {NoSub}

\* ReadFrame fails once the client is gone: abort closes the subscriptions
\* and the connection.
ReadFails ==
    /\ reader.at = "read" /\ ~clientOpen
    /\ reader' = At("stopped")
    /\ CloseSubs(SubsOf)
    /\ subs' = [t \in Topics |-> NoSub]
    /\ serverOpen' = FALSE
    /\ UNCHANGED <<pendingAck, topicOf, queue, cache, published, todo, stream, deliveryVars,
                   wireVars, clientVars, loop, appVars, boundVars>>

ServerStep ==
    \/ \E s \in Subs : ReadSubscribe(s)
    \/ InstallSubscription \/ ReadUnsubscribe
    \/ ReadAck \/ Acknowledged
    \/ ReadPublish \/ PublishDone
    \/ ReadFails

-----------------------------------------------------------------------------
(* The delivery goroutine of a subscription *)

Goes(s, place) == pc' = [pc EXCEPT ![s] = place]

\* The range takes the next event; deliver registers its channel.
Deliver(s) ==
    /\ pc[s] = "range" /\ queue[s] # <<>>
    /\ event' = [event EXCEPT ![s] = Head(queue[s])]
    /\ queue' = [queue EXCEPT ![s] = Tail(@)]
    /\ serial' = [serial EXCEPT ![s] = @ + 1]
    /\ pendingAck' = [pendingAck EXCEPT ![Head(queue[s]).id] =
                          Channel(s, serial[s] + 1)]
    /\ acknowledged' = [acknowledged EXCEPT ![s] = FALSE]
    /\ heard' = [heard EXCEPT ![s] = FALSE]
    /\ attempt' = [attempt EXCEPT ![s] = 1]
    /\ Goes(s, "send")
    /\ UNCHANGED <<subs, reader, serverOpen, state, topicOf, cache, published, todo,
                   stream, delivered, wireVars, clientVars, loop, appVars, boundVars>>

\* The channel is closed and empty: the range ends.
RangeEnds(s) ==
    /\ pc[s] = "range" /\ queue[s] = <<>> /\ state[s] = "closed"
    /\ Goes(s, "returned")
    /\ UNCHANGED <<serverVars, reader, brokerVars, event, attempt, serial,
                   acknowledged, delivered, heard, wireVars, clientVars, loop,
                   appVars, boundVars>>

DeliverSend(s) ==
    /\ pc[s] = "send"
    /\ \/ SendToClient(EventFrame(event[s], s)) /\ Goes(s, "select")
       \/ SendToClientFails /\ UNCHANGED toClient /\ Goes(s, "false")
    /\ UNCHANGED <<serverVars, reader, brokerVars, event, attempt, serial,
                   acknowledged, delivered, heard, toServer, clientVars, loop,
                   appVars, boundVars>>

DeliverAcknowledged(s) ==
    /\ pc[s] = "select" /\ acknowledged[s]
    /\ Goes(s, "true")
    /\ delivered' = delivered \cup {<<s, event[s]>>}
    /\ UNCHANGED <<serverVars, reader, brokerVars, event, attempt, serial,
                   acknowledged, heard, wireVars, clientVars, loop, appVars,
                   boundVars>>

\* Mutants: one attempt too many, and one too few.
Retries_OneMore(s) == attempt[s] <= MaxAttempts
Retries_OneLess(s) == attempt[s] < MaxAttempts - 1

Retries(s) == attempt[s] < MaxAttempts

\* Mutant: an event without ACK goes to the end of the queue.
AckTimeout_Requeue(s) ==
    /\ pc[s] = "select" /\ (clientOpen => timeouts < MaxTimeouts)
    /\ timeouts' = IF clientOpen THEN timeouts + 1 ELSE timeouts
    /\ Len(queue[s]) < QueueSize
    /\ queue' = [queue EXCEPT ![s] = Append(@, event[s])]
    /\ Goes(s, "true")
    /\ UNCHANGED <<serverVars, reader, state, topicOf, cache, published, todo, stream,
                   event, attempt, serial, acknowledged, delivered, heard, wireVars,
                   clientVars, loop, appVars, asked, ownSent>>

\* The timer may fire before or after an ACK arrives.
AckTimeout(s) ==
    /\ pc[s] = "select" /\ (clientOpen => timeouts < MaxTimeouts)
    /\ timeouts' = IF clientOpen THEN timeouts + 1 ELSE timeouts
    /\ IF Retries(s)
       THEN attempt' = [attempt EXCEPT ![s] = @ + 1] /\ Goes(s, "send")
       ELSE UNCHANGED attempt /\ Goes(s, "false")
    /\ UNCHANGED <<serverVars, reader, brokerVars, event, serial, acknowledged,
                   delivered, heard, wireVars, clientVars, loop, appVars, asked,
                   ownSent>>

\* Mutant: the entry is only removed after a failure.
Unregister_Failed(s) ==
    pendingAck' = [pendingAck EXCEPT
                     ![event[s].id] = IF pc[s] = "false" THEN NoChannel ELSE @]

\* The deferred function removes the entry of the event's ID, whichever
\* channel it holds.
Unregister(s) == pendingAck' = [pendingAck EXCEPT ![event[s].id] = NoChannel]

\* Mutant: the goroutine goes on with the next event after a failure.
GoesOn_Always(s) == TRUE

GoesOn(s) == pc[s] = "true"

\* After a failure the goroutine ends, and its subscription stays registered.
DeliverReturn(s) ==
    /\ pc[s] \in {"true", "false"}
    /\ Unregister(s)
    /\ Goes(s, IF GoesOn(s) THEN "range" ELSE "returned")
    /\ UNCHANGED <<subs, reader, serverOpen, brokerVars, event, attempt, serial,
                   acknowledged, delivered, heard, wireVars, clientVars, loop,
                   appVars, boundVars>>

DeliveryStep(s) ==
    \/ Deliver(s) \/ RangeEnds(s) \/ DeliverSend(s)
    \/ DeliverAcknowledged(s) \/ DeliverReturn(s)

-----------------------------------------------------------------------------
(* The client *)

Remembered(id) == id \in acked

\* rememberDelivery keeps the last MaxRemembered IDs.
rememberDelivery(id) ==
    IF Remembered(id)
    THEN UNCHANGED <<acked, ackedIDs>>
    ELSE LET ids == Append(ackedIDs, id)
         IN  IF Len(ids) > MaxRemembered
             THEN /\ ackedIDs' = Tail(ids)
                  /\ acked' = (acked \cup {id}) \ {Head(ids)}
             ELSE /\ ackedIDs' = ids
                  /\ acked' = acked \cup {id}

LoopReads(type) ==
    /\ loop.at = "read" /\ clientOpen
    /\ toClient # <<>> /\ Head(toClient).type = type
    /\ toClient' = Tail(toClient)

\* An event that was acknowledged is acknowledged again instead of exposed.
LoopEvent ==
    /\ LoopReads("EVENT")
    /\ loop' = [at    |-> IF Head(toClient).event.id \in acked THEN "ack" ELSE "push",
                event |-> Head(toClient).event,
                sub   |-> Head(toClient).sub]
    /\ UNCHANGED <<serverVars, reader, brokerVars, deliveryVars, toServer, clientVars,
                   appVars, boundVars>>

LoopPush ==
    /\ loop.at = "push"
    /\ \/ /\ Len(events) < EventsSize
          /\ events' = Append(events, [event |-> loop.event, sub |-> loop.sub])
          /\ loop' = At("read")
       \/ /\ ~clientOpen
          /\ loop' = At("stopped")
          /\ UNCHANGED events
    /\ UNCHANGED <<serverVars, reader, brokerVars, deliveryVars, wireVars, clientOpen,
                   acked, ackedIDs, appVars, boundVars>>

\* Acknowledge sends the frame, then remembers the ID.
LoopAcknowledge ==
    /\ loop.at = "ack"
    /\ \/ SendToServer(AckFrame(loop.event.id))
          /\ loop' = AtEvent("remember", loop.event)
       \/ SendToServerFails /\ UNCHANGED toServer /\ loop' = At("read")
    /\ UNCHANGED <<serverVars, reader, brokerVars, deliveryVars, toClient, clientVars,
                   appVars, boundVars>>

LoopRemember ==
    /\ loop.at = "remember"
    /\ rememberDelivery(loop.event.id)
    /\ loop' = At("read")
    /\ UNCHANGED <<serverVars, reader, brokerVars, deliveryVars, wireVars, clientOpen,
                   events, appVars, boundVars>>

\* The answer to a publish of this client goes to the call that waits for it.
LoopPublished ==
    /\ LoopReads("PUBLISHED")
    /\ UNCHANGED <<serverVars, reader, brokerVars, deliveryVars, toServer, clientVars,
                   loop, appVars, boundVars>>

LoopStops ==
    /\ loop.at = "read" /\ ~clientOpen
    /\ loop' = At("stopped")
    /\ UNCHANGED <<serverVars, reader, brokerVars, deliveryVars, wireVars, clientVars,
                   appVars, boundVars>>

LoopStep ==
    \/ LoopEvent \/ LoopPush \/ LoopAcknowledge \/ LoopRemember
    \/ LoopPublished \/ LoopStops

\* Calls of the application, from any goroutine.
Subscribe(t) ==
    /\ asked < MaxSubs
    /\ SendToServer(TopicFrame("SUBSCRIBE", t))
    /\ asked' = asked + 1
    /\ UNCHANGED <<serverVars, reader, brokerVars, deliveryVars, toClient, clientVars,
                   loop, appVars, ownSent, timeouts>>

Unsubscribe(t) ==
    /\ "Unsubscribe" \in Operations
    /\ TopicFrame("UNSUBSCRIBE", t) \notin Range(toServer)
    /\ subs[t] # NoSub
    /\ SendToServer(TopicFrame("UNSUBSCRIBE", t))
    /\ UNCHANGED <<serverVars, reader, brokerVars, deliveryVars, toClient, clientVars,
                   loop, appVars, boundVars>>

Publish(e) ==
    /\ e \in OwnEvents \ ownSent
    /\ SendToServer(PublishFrame(e))
    /\ ownSent' = ownSent \cup {e}
    /\ UNCHANGED <<serverVars, reader, brokerVars, deliveryVars, toClient, clientVars,
                   loop, appVars, asked, timeouts>>

Close ==
    /\ "Close" \in Operations /\ clientOpen
    /\ clientOpen' = FALSE
    /\ UNCHANGED <<serverVars, reader, brokerVars, deliveryVars, wireVars, events,
                   acked, ackedIDs, loop, appVars, boundVars>>

-----------------------------------------------------------------------------
(* The application receives an event, processes it and acknowledges it *)

Receive ==
    /\ app.at = "idle" /\ events # <<>>
    /\ events' = Tail(events)
    /\ received' = Append(received, Head(events))
    /\ app' = AtEvent("ack", Head(events).event)
    /\ UNCHANGED <<serverVars, reader, brokerVars, deliveryVars, wireVars, clientOpen,
                   acked, ackedIDs, loop, confirmed, boundVars>>

Acknowledge ==
    /\ app.at = "ack"
    /\ \/ /\ SendToServer(AckFrame(app.event.id))
          /\ confirmed' = confirmed \cup {app.event.id}
          /\ app' = AtEvent("remember", app.event)
       \/ /\ SendToServerFails
          /\ app' = At("idle")
          /\ UNCHANGED <<toServer, confirmed>>
    /\ UNCHANGED <<serverVars, reader, brokerVars, deliveryVars, toClient, clientVars,
                   loop, received, boundVars>>

Remember ==
    /\ app.at = "remember"
    /\ rememberDelivery(app.event.id)
    /\ app' = At("idle")
    /\ UNCHANGED <<serverVars, reader, brokerVars, deliveryVars, wireVars, clientOpen,
                   events, loop, received, confirmed, boundVars>>

AppStep == Receive \/ Acknowledge \/ Remember

-----------------------------------------------------------------------------
(* The specification *)

Init ==
    /\ subs = [t \in Topics |-> NoSub]
    /\ pendingAck = [id \in Ids |-> NoChannel]
    /\ reader = At("read") /\ serverOpen = TRUE
    /\ state = [s \in Subs |-> "absent"]
    /\ topicOf = [s \in Subs |-> CHOOSE t \in Topics : TRUE]
    /\ queue = [s \in Subs |-> <<>>]
    /\ cache = [t \in Topics |-> <<>>]
    /\ published = {}
    /\ todo = [e \in Events |-> {}]
    /\ pc = [s \in Subs |-> "absent"]
    /\ event = [s \in Subs |-> CHOOSE e \in Events : TRUE]
    /\ attempt = [s \in Subs |-> 0]
    /\ serial = [s \in Subs |-> 0]
    /\ acknowledged = [s \in Subs |-> FALSE]
    /\ toClient = <<>> /\ toServer = <<>>
    /\ clientOpen = TRUE
    /\ loop = At("read") /\ events = <<>>
    /\ acked = {} /\ ackedIDs = <<>>
    /\ app = At("idle")
    /\ asked = 0 /\ ownSent = {} /\ timeouts = 0
    /\ stream = [s \in Subs |-> <<>>]
    /\ received = <<>> /\ confirmed = {} /\ delivered = {}
    /\ heard = [s \in Subs |-> FALSE]

Next ==
    \/ \E e \in Events : PublishElsewhere(e) \/ Publish(e)
    \/ \E e \in Events, s \in Subs : Enqueue(e, s)
    \/ ServerStep
    \/ \E s \in Subs : DeliveryStep(s) \/ AckTimeout(s)
    \/ LoopStep
    \/ \E t \in Topics : Subscribe(t) \/ Unsubscribe(t)
    \/ Close
    \/ AppStep

Spec == Init /\ [][Next]_vars

\* The Go scheduler runs every goroutine that can move, the network passes
\* frames on, and a timer that nothing stops fires.
Fairness ==
    /\ \A e \in Events, s \in Subs : WF_vars(Enqueue(e, s))
    /\ WF_vars(ServerStep)
    /\ \A s \in Subs : WF_vars(DeliveryStep(s)) /\ WF_vars(AckTimeout(s))
    /\ WF_vars(LoopStep)

\* The application keeps receiving and acknowledging, as cmd/consumer does.
FairSpec == Spec /\ Fairness /\ WF_vars(AppStep)

-----------------------------------------------------------------------------
(* Properties that hold *)

Places == {"absent", "range", "send", "select", "true", "false", "returned"}

ToClientFrames ==
    [type : {"EVENT"}, event : Events, sub : Subs] \cup [type : {"PUBLISHED"}, event : Events]

Buffered == [event : Events, sub : Subs]

ToServerFrames ==
    [type : {"ACK"}, id : Ids] \cup [type : {"PUBLISH"}, event : Events]
      \cup [type : {"SUBSCRIBE", "UNSUBSCRIBE"}, topic : Topics]

TypeOK ==
    /\ subs \in [Topics -> Subs \cup {NoSub}]
    /\ pendingAck \in [Ids -> (Subs \cup {NoSub}) \X Nat]
    /\ reader \in [at : {"read", "stopped"}] \cup [at : {"subscribed"}, sub : Subs]
                   \cup [at : {"ack"}, id : Ids, channel : (Subs \cup {NoSub}) \X Nat]
                   \cup [at : {"publish"}, event : Events]
    /\ serverOpen \in BOOLEAN /\ clientOpen \in BOOLEAN
    /\ state \in [Subs -> {"absent", "open", "closed"}] /\ topicOf \in [Subs -> Topics]
    /\ queue \in [Subs -> Seq(Events)] /\ \A s \in Subs : Len(queue[s]) <= QueueSize
    /\ cache \in [Topics -> Seq(Events)] /\ stream \in [Subs -> Seq(Events)]
    /\ published \subseteq Events /\ todo \in [Events -> SUBSET Subs]
    /\ pc \in [Subs -> Places] /\ event \in [Subs -> Events]
    /\ attempt \in [Subs -> 0 .. MaxAttempts] /\ serial \in [Subs -> Nat]
    /\ acknowledged \in [Subs -> BOOLEAN] /\ heard \in [Subs -> BOOLEAN]
    /\ toClient \in Seq(ToClientFrames) /\ Len(toClient) <= WireSize
    /\ toServer \in Seq(ToServerFrames) /\ Len(toServer) <= WireSize
    /\ loop \in [at : {"read", "stopped"}] \cup [at : {"remember"}, event : Events]
                 \cup [at : {"push", "ack"}, event : Events, sub : Subs]
    /\ events \in Seq(Buffered) /\ Len(events) <= EventsSize
    /\ acked \subseteq Ids /\ ackedIDs \in Seq(Ids)
    /\ app \in [at : {"idle"}] \cup [at : {"ack", "remember"}, event : Events]
    /\ asked \in 0 .. MaxSubs /\ ownSent \subseteq OwnEvents /\ timeouts \in 0 .. MaxTimeouts
    /\ received \in Seq(Buffered) /\ confirmed \subseteq Ids
    /\ delivered \subseteq Subs \X Events

\* The position of an event in the stream of a subscription.
Position(s, e) == CHOOSE i \in 1 .. Len(stream[s]) : stream[s][i] = e

\* The application receives the events of one subscription in the order of
\* its queue, retries included: a retry of an event never comes after a later
\* event.
OrderedDelivery ==
    \A i, j \in 1 .. Len(received) :
        i < j /\ received[i].sub = received[j].sub =>
            Position(received[i].sub, received[i].event)
              <= Position(received[j].sub, received[j].event)

\* No event of a subscription is passed over: while an event is being
\* delivered, the application has acknowledged every event that the queue held
\* before it.  An event whose delivery is given up stops the subscription.
PredecessorsAcknowledged ==
    \A s \in Subs : Delivering(s) =>
        \A k \in 1 .. Position(s, event[s]) - 1 : stream[s][k].id \in confirmed

\* deliver returns true only for an event that the application received and
\* acknowledged: an ACK of one event never answers the delivery of another.
DeliveredMeansAcknowledged ==
    \A d \in delivered : d[2].id \in confirmed

\* Every entry of pendingAck belongs to a deliver call in progress, so the
\* table is empty when nothing is being delivered.
PendingAckLive ==
    \A id \in Ids : pendingAck[id] # NoChannel =>
        \E s \in Subs : /\ Delivering(s)
                        /\ event[s].id = id
                        /\ pendingAck[id] = Channel(s, serial[s])

\* An ACK that the read loop handles while deliver waits for it reaches that
\* deliver call.
AckReachesDelivery ==
    \A s \in Subs : pc[s] = "select" /\ heard[s] => acknowledged[s]

\* An event in a queue is eventually received and acknowledged by an
\* application that keeps up, unless the connection ends or so many ACKs are
\* late that a deliver call may have used up its attempts.
EventuallyAcknowledged ==
    \A s \in Subs, e \in Events :
        e \in Range(stream[s]) ~>
            e.id \in confirmed \/ ~clientOpen \/ timeouts >= MaxAttempts

\* When the client is gone, every delivery goroutine ends, no subscription of
\* the connection stays open, and no publish stays blocked on one.  The one
\* exception is a read loop that is blocked publishing to a full queue of its
\* own connection: it does not see the end of the connection.
ConnectionCleanedUp ==
    ~clientOpen ~>
        \/ /\ reader.at = "stopped"
           /\ \A s \in Subs : /\ state[s] # "open"
                              /\ pc[s] \in {"absent", "returned"}
           /\ \A e \in Events : todo[e] = {}
        \/ reader.at = "publish"
=============================================================================
