------------------------------- MODULE Server -------------------------------
(***************************************************************************)
(* The life of the TCP server and of its connections:                      *)
(* src/transport/tcp/server.go, with the shutdown of cmd/event-bus.        *)
(*                                                                         *)
(* The threads are                                                         *)
(*   - the accept loop (Serve), and the serve goroutine of each connection *)
(*     c \in Conns;                                                        *)
(*   - one delivery goroutine per subscription s \in Subs;                 *)
(*   - one caller of Server.Close and one of Server.GracefulShutdown,      *)
(*     which starts one gracefulClose goroutine per connection.            *)
(* A step is one critical section, one channel operation or one frame.     *)
(*                                                                         *)
(* Events are only counted: Delivery models how one is acknowledged, and   *)
(* Broker how it gets into a queue.  Here a delivery succeeds or fails.    *)
(***************************************************************************)
EXTENDS Integers, Sequences, FiniteSets

CONSTANTS
    Conns,          \* connections
    Topics,         \* topic names
    QueueSize,      \* broker.Config.QueueSize
    MaxSubs,        \* bound: number of subscriptions
    MaxPublishes,   \* bound: number of PUBLISH frames that are read
    Operations      \* what may happen besides accept, subscribe and publish

Subs  == 1 .. MaxSubs
NoSub == 0

\* Disconnect: a client goes away.  GiveUp: a delivery gets no ACK in time.
\* RacingSubscribe: GracefulShutdown may be called while a connection is in
\* the middle of a SUBSCRIBE.
AllOperations == {"Close", "GracefulShutdown", "Disconnect", "Unsubscribe",
                  "GiveUp", "RacingSubscribe"}

ASSUME ServerAssumption ==
    /\ QueueSize \in Nat \ {0} /\ MaxSubs \in Nat /\ MaxPublishes \in Nat
    /\ Topics # {} /\ Conns # {}
    /\ Operations \subseteq AllOperations

VARIABLES
    closed,      \* Server.closed
    draining,    \* Server.draining
    conns,       \* Server.conns
    serve,       \* where the serve goroutine of a connection is
    topic,       \* the topic of the frame that it handles
    todo,        \* the subscribers that its publish has yet to serve
    connClosed,  \* connection.closed
    connDraining,\* connection.draining
    subs,        \* connection.subs
    deliveryMu,  \* who holds connection.deliveryMu
    netOpen,     \* the server has not closed the transport
    closing,     \* who runs the body of connection.close
    dying,       \* the subscriptions that it has yet to close
    leaving,     \* the subscription that unsubscribe has taken and not yet closed
    clientUp,    \* the client is there
    notice,      \* the first ERROR or SHUTDOWN frame that it was sent
    state,       \* of a subscription: "absent", "open" or "closed"
    topicOf,     \* Subscription.topic
    connOf,      \* the connection that made it ("none" before)
    queue,       \* the number of events in Subscription.events
    goroutine,   \* where its delivery goroutine is
    failed,      \* history: a delivery failed
    cache,       \* the number of events in Broker.cache
    brokerDown,  \* Broker.draining or Broker.closed
    published,   \* number of PUBLISH frames read
    closer,      \* where the caller of Server.Close is
    closerTodo,  \* the connections that it has yet to close
    shutdown,    \* where the caller of GracefulShutdown is
    shutdownTodo,\* the connections that it has yet to start draining
    ctxDone,     \* the context of GracefulShutdown has ended
    graceful,    \* where the gracefulClose goroutine of a connection is
    drainTodo,   \* the subscriptions that it has yet to drain
    drainAt,     \* the one that it found empty and is about to close
    late         \* history: those whose SUBSCRIBE had not finished when it
                 \* took its list

serverVars   == <<closed, draining, conns>>
serveVars    == <<serve, topic, todo>>
connVars     == <<connClosed, connDraining, subs, deliveryMu, netOpen, closing,
                  dying, leaving>>
clientVars   == <<clientUp, notice>>
subVars      == <<state, topicOf, connOf, queue, goroutine, failed>>
brokerVars   == <<cache, brokerDown, published>>
closerVars   == <<closer, closerTodo>>
shutdownVars == <<shutdown, shutdownTodo, ctxDone, graceful, drainTodo,
                   drainAt, late>>
vars == <<serverVars, serveVars, connVars, clientVars, subVars, brokerVars,
          closerVars, shutdownVars>>

-----------------------------------------------------------------------------
(* Helpers *)

Goes(c, place) == serve' = [serve EXCEPT ![c] = place]

SubsOf(c) == {subs[c][t] : t \in Topics} \ {NoSub}

OpenSubs(t) == {s \in Subs : state[s] = "open" /\ topicOf[s] = t}

CloseSubs(S) == state' = [s \in Subs |-> IF s \in S THEN "closed" ELSE state[s]]

isDraining(c) == draining \/ connDraining[c]

\* The client of a connection stops reading at the first of these frames.
Notify(c, frame) ==
    notice' = [notice EXCEPT ![c] = IF @ = "none" /\ clientUp[c] THEN frame ELSE @]

Subscribing(c) == serve[c] \in {"lock", "register", "install"}

-----------------------------------------------------------------------------
(* Serve: the accept loop *)

Accept(c) ==
    /\ serve[c] = "absent" /\ ~closed
    /\ Goes(c, "accepted")
    /\ netOpen' = [netOpen EXCEPT ![c] = TRUE]
    /\ clientUp' = [clientUp EXCEPT ![c] = TRUE]
    /\ UNCHANGED <<serverVars, topic, todo, connClosed, connDraining, subs,
                   deliveryMu, closing, dying, leaving, notice, subVars, brokerVars, closerVars, shutdownVars>>

\* Mutant: closed is not checked again after Accept.
TooLate_Never == FALSE

TooLate == closed

\* A connection that was accepted before the server closed is dropped.
Register(c) ==
    /\ serve[c] = "accepted"
    /\ IF TooLate
       THEN /\ netOpen' = [netOpen EXCEPT ![c] = FALSE]
            /\ Goes(c, "returned")
            /\ UNCHANGED conns
       ELSE /\ conns' = conns \cup {c}
            /\ Goes(c, "connect")
            /\ UNCHANGED netOpen
    /\ UNCHANGED <<closed, draining, topic, todo, connClosed, connDraining, subs,
                   deliveryMu, closing, dying, leaving, clientVars, subVars, brokerVars, closerVars, shutdownVars>>

-----------------------------------------------------------------------------
(* connection.close: whoever sets closed closes the subscriptions and the  *)
(* transport; any other caller returns at once                             *)

\* Mutant: the subscriptions are forgotten and not closed.
ToClose_None(c) == {}

ToClose(c) == SubsOf(c)

CloseBegins(c, thread) ==
    IF connClosed[c]
    THEN UNCHANGED <<connClosed, subs, closing, dying>>
    ELSE /\ connClosed' = [connClosed EXCEPT ![c] = TRUE]
         /\ dying' = [dying EXCEPT ![c] = ToClose(c)]
         /\ subs' = [subs EXCEPT ![c] = [t \in Topics |-> NoSub]]
         /\ closing' = [closing EXCEPT ![c] = thread]

CloseSub(c) ==
    /\ closing[c] # "none"
    /\ \E s \in dying[c] : /\ CloseSubs({s})
                           /\ dying' = [dying EXCEPT ![c] = @ \ {s}]
    /\ UNCHANGED <<serverVars, serveVars, connClosed, connDraining, subs, deliveryMu,
                   netOpen, closing, leaving, clientVars, topicOf, connOf, queue,
                   goroutine, failed, brokerVars, closerVars, shutdownVars>>

CloseNet(c) ==
    /\ closing[c] # "none" /\ dying[c] = {}
    /\ netOpen' = [netOpen EXCEPT ![c] = FALSE]
    /\ closing' = [closing EXCEPT ![c] = "none"]
    /\ UNCHANGED <<serverVars, serveVars, connClosed, connDraining, subs, deliveryMu,
                   dying, leaving, clientVars, subVars, brokerVars, closerVars,
                   shutdownVars>>

-----------------------------------------------------------------------------
(* The serve goroutine *)

CanRead(c) == netOpen[c] /\ clientUp[c]

Connect(c) ==
    /\ serve[c] = "connect" /\ CanRead(c)
    /\ Goes(c, "read")
    /\ UNCHANGED <<serverVars, topic, todo, connVars, clientVars, subVars, brokerVars, closerVars, shutdownVars>>

\* A SUBSCRIBE is only sent while the bound on subscriptions allows it.
SubsLeft == Cardinality({s \in Subs : state[s] = "absent"})
              > Cardinality({c \in Conns : serve[c] \in {"lock", "register"}})

ReadSubscribe(c, t) ==
    /\ serve[c] = "read" /\ CanRead(c)
    /\ SubsLeft
    /\ Goes(c, "lock")
    /\ topic' = [topic EXCEPT ![c] = t]
    /\ UNCHANGED <<serverVars, todo, connVars, clientVars, subVars, brokerVars, closerVars, shutdownVars>>

SubscribeLock(c) ==
    /\ serve[c] = "lock" /\ deliveryMu[c] = "free"
    /\ IF isDraining(c)
       THEN Goes(c, "read") /\ Notify(c, "ERROR") /\ UNCHANGED deliveryMu
       ELSE /\ Goes(c, "register")
            /\ deliveryMu' = [deliveryMu EXCEPT ![c] = "serve"]
            /\ UNCHANGED notice
    /\ UNCHANGED <<serverVars, topic, todo, connClosed, connDraining, subs, netOpen,
                   closing, dying, leaving, clientUp, subVars, brokerVars,
                   closerVars, shutdownVars>>

\* Broker.Subscribe replays cached events into the new queue.
SubscribeRegister(c, s) ==
    /\ serve[c] = "register" /\ ~brokerDown
    /\ state[s] = "absent" /\ \A r \in Subs : r < s => state[r] # "absent"
    /\ state' = [state EXCEPT ![s] = "open"]
    /\ topicOf' = [topicOf EXCEPT ![s] = topic[c]]
    /\ connOf' = [connOf EXCEPT ![s] = c]
    /\ LET cached == cache[topic[c]]
           n == IF cached > QueueSize THEN QueueSize ELSE cached
       IN  /\ queue' = [queue EXCEPT ![s] = n]
           /\ cache' = [cache EXCEPT ![topic[c]] = @ - n]
    /\ Goes(c, "install")
    /\ UNCHANGED <<serverVars, topic, todo, connVars, clientVars, goroutine, failed,
                   brokerDown, published, closerVars, shutdownVars>>

SubscribeRefused(c) ==
    /\ serve[c] = "register" /\ brokerDown
    /\ deliveryMu' = [deliveryMu EXCEPT ![c] = "free"]
    /\ Notify(c, "ERROR")
    /\ Goes(c, "read")
    /\ UNCHANGED <<serverVars, topic, todo, connClosed, connDraining, subs, netOpen,
                   closing, dying, leaving, clientUp, subVars, brokerVars,
                   closerVars, shutdownVars>>

\* The new subscription replaces the old one of the topic; its goroutine is
\* started and deliveryMu is released.
SubscribeInstall(c) ==
    /\ serve[c] = "install"
    /\ LET s == CHOOSE s \in Subs : connOf[s] = c /\ state[s] # "absent"
                                      /\ goroutine[s] = "absent"
       IN  /\ CloseSubs({subs[c][topic[c]]} \ {NoSub})
           /\ subs' = [subs EXCEPT ![c][topic[c]] = s]
           /\ goroutine' = [goroutine EXCEPT ![s] = "range"]
    /\ deliveryMu' = [deliveryMu EXCEPT ![c] = "free"]
    /\ Goes(c, "read")
    /\ UNCHANGED <<serverVars, topic, todo, connClosed, connDraining, netOpen, closing,
                   dying, leaving, clientVars, topicOf, connOf, queue, failed, brokerVars, closerVars, shutdownVars>>

\* unsubscribe takes the subscription off the connection under c.mu and closes
\* it after that: in between nobody else holds it.
ReadUnsubscribe(c, t) ==
    /\ "Unsubscribe" \in Operations
    /\ serve[c] = "read" /\ CanRead(c)
    /\ subs[c][t] # NoSub
    /\ leaving' = [leaving EXCEPT ![c] = subs[c][t]]
    /\ subs' = [subs EXCEPT ![c][t] = NoSub]
    /\ Goes(c, "unsubscribe")
    /\ UNCHANGED <<serverVars, topic, todo, connClosed, connDraining, deliveryMu,
                   netOpen, closing, dying, clientVars, subVars, brokerVars,
                   closerVars, shutdownVars>>

UnsubscribeClose(c) ==
    /\ serve[c] = "unsubscribe"
    /\ CloseSubs({leaving[c]})
    /\ leaving' = [leaving EXCEPT ![c] = NoSub]
    /\ Goes(c, "read")
    /\ UNCHANGED <<serverVars, topic, todo, connClosed, connDraining, subs, deliveryMu,
                   netOpen, closing, dying, clientVars, topicOf, connOf, queue,
                   goroutine, failed, brokerVars, closerVars, shutdownVars>>

ReadPublish(c, t) ==
    /\ serve[c] = "read" /\ CanRead(c) /\ published < MaxPublishes
    /\ published' = published + 1
    /\ IF isDraining(c)
       THEN Notify(c, "ERROR") /\ UNCHANGED <<serve, topic>>
       ELSE /\ Goes(c, "publish")
            /\ topic' = [topic EXCEPT ![c] = t]
            /\ UNCHANGED notice
    /\ UNCHANGED <<serverVars, todo, connVars, clientUp, subVars, cache, brokerDown,
                   closerVars, shutdownVars>>

\* PublishWithResult takes the subscribers of the topic, or caches the event;
\* a broker that shuts down refuses it, which is an ACK and no ERROR.
PublishRoute(c) ==
    /\ serve[c] = "publish"
    /\ IF brokerDown
       THEN Goes(c, "read") /\ UNCHANGED <<todo, cache>>
       ELSE /\ Goes(c, "enqueue")
            /\ todo' = [todo EXCEPT ![c] = OpenSubs(topic[c])]
            /\ cache' = IF OpenSubs(topic[c]) = {}
                        THEN [cache EXCEPT ![topic[c]] = @ + 1] ELSE cache
    /\ UNCHANGED <<serverVars, topic, connVars, clientVars, subVars, brokerDown,
                   published, closerVars, shutdownVars>>

\* Mutants: the queue has no bound; closing a subscription does not release a
\* publisher.
Blocked_Never(s)  == FALSE
Blocked_Closed(s) == queue[s] >= QueueSize

Blocked(s) == state[s] = "open" /\ queue[s] >= QueueSize

\* The context of the call never ends: a full queue blocks the connection.
\* The list was copied from a map, in any order.
Enqueue(c, s) ==
    /\ serve[c] = "enqueue" /\ s \in todo[c] /\ ~Blocked(s)
    /\ IF state[s] = "open"
       THEN /\ queue' = [queue EXCEPT ![s] = @ + 1]
            /\ todo' = [todo EXCEPT ![c] = @ \ {s}]
       ELSE /\ todo' = [todo EXCEPT ![c] = {}]
            /\ UNCHANGED queue
    /\ UNCHANGED <<serverVars, serve, topic, connVars, clientVars, state, topicOf,
                   connOf, goroutine, failed, brokerVars, closerVars, shutdownVars>>

PublishDone(c) ==
    /\ serve[c] = "enqueue" /\ todo[c] = {}
    /\ Goes(c, "read")
    /\ UNCHANGED <<serverVars, topic, todo, connVars, clientVars, subVars, brokerVars,
                   closerVars, shutdownVars>>

ReadFails(c) ==
    /\ serve[c] \in {"connect", "read"} /\ ~CanRead(c)
    /\ Goes(c, "abort")
    /\ UNCHANGED <<serverVars, topic, todo, connVars, clientVars, subVars, brokerVars,
                   closerVars, shutdownVars>>

\* abort leaves a connection that is draining to gracefulClose.
Abort(c) ==
    /\ serve[c] = "abort"
    /\ Goes(c, IF isDraining(c) THEN "remove" ELSE "close")
    /\ UNCHANGED <<serverVars, topic, todo, connVars, clientVars, subVars, brokerVars,
                   closerVars, shutdownVars>>

AbortClose(c) ==
    /\ serve[c] = "close"
    /\ CloseBegins(c, "serve")
    /\ Goes(c, "closing")
    /\ UNCHANGED <<serverVars, topic, todo, connDraining, deliveryMu, netOpen, leaving,
                   clientVars, subVars, brokerVars, closerVars, shutdownVars>>

removeConnection(c) ==
    /\ \/ serve[c] = "remove"
       \/ serve[c] = "closing" /\ closing[c] # "serve"
    /\ conns' = conns \ {c}
    /\ Goes(c, "returned")
    /\ UNCHANGED <<closed, draining, topic, todo, connVars, clientVars, subVars,
                   brokerVars, closerVars, shutdownVars>>

ServeStep(c) ==
    \/ Connect(c) \/ SubscribeLock(c)
    \/ \E s \in Subs : SubscribeRegister(c, s) \/ Enqueue(c, s)
    \/ SubscribeRefused(c) \/ SubscribeInstall(c) \/ UnsubscribeClose(c)
    \/ PublishRoute(c) \/ PublishDone(c)
    \/ ReadFails(c) \/ Abort(c) \/ AbortClose(c) \/ removeConnection(c)

-----------------------------------------------------------------------------
(* The delivery goroutine of a subscription *)

Runs(s, place) == goroutine' = [goroutine EXCEPT ![s] = place]

Take(s) ==
    /\ goroutine[s] = "range" /\ queue[s] > 0
    /\ queue' = [queue EXCEPT ![s] = @ - 1]
    /\ Runs(s, "deliver")
    /\ UNCHANGED <<serverVars, serveVars, connVars, clientVars, state, topicOf, connOf,
                   failed, brokerVars, closerVars, shutdownVars>>

Delivered(s) ==
    /\ goroutine[s] = "deliver" /\ CanRead(connOf[s])
    /\ Runs(s, "range")
    /\ UNCHANGED <<serverVars, serveVars, connVars, clientVars, state, topicOf, connOf,
                   queue, failed, brokerVars, closerVars, shutdownVars>>

DeliveryFails(s) ==
    /\ goroutine[s] = "deliver"
    /\ "GiveUp" \in Operations \/ ~CanRead(connOf[s])
    /\ Runs(s, "returned")
    /\ failed' = [failed EXCEPT ![s] = TRUE]
    /\ UNCHANGED <<serverVars, serveVars, connVars, clientVars, state, topicOf, connOf,
                   queue, brokerVars, closerVars, shutdownVars>>

RangeEnds(s) ==
    /\ goroutine[s] = "range" /\ queue[s] = 0 /\ state[s] = "closed"
    /\ Runs(s, "returned")
    /\ UNCHANGED <<serverVars, serveVars, connVars, clientVars, state, topicOf, connOf,
                   queue, failed, brokerVars, closerVars, shutdownVars>>

DeliveryStep(s) == Take(s) \/ Delivered(s) \/ DeliveryFails(s) \/ RangeEnds(s)

-----------------------------------------------------------------------------
(* Clients *)

Disconnect(c) ==
    /\ "Disconnect" \in Operations /\ clientUp[c]
    /\ clientUp' = [clientUp EXCEPT ![c] = FALSE]
    /\ UNCHANGED <<serverVars, serveVars, connVars, notice, subVars, brokerVars,
                   closerVars, shutdownVars>>

\* The client's readLoop closes the connection after ERROR and SHUTDOWN.
ClientStops(c) ==
    /\ clientUp[c] /\ notice[c] # "none"
    /\ clientUp' = [clientUp EXCEPT ![c] = FALSE]
    /\ UNCHANGED <<serverVars, serveVars, connVars, notice, subVars, brokerVars,
                   closerVars, shutdownVars>>

-----------------------------------------------------------------------------
(* Server.Close *)

ServerClose ==
    /\ "Close" \in Operations /\ closer = "idle"
    /\ IF closed
       THEN closer' = "returned" /\ UNCHANGED <<closed, closerTodo>>
       ELSE /\ closed' = TRUE
            /\ closerTodo' = conns
            /\ closer' = "closing"
    /\ UNCHANGED <<draining, conns, serveVars, connVars, clientVars, subVars,
                   brokerVars, shutdownVars>>

ServerCloseConn(c) ==
    /\ closer = "closing" /\ c \in closerTodo
    /\ \A d \in Conns : closing[d] # "closer"
    /\ CloseBegins(c, "closer")
    /\ closerTodo' = closerTodo \ {c}
    /\ UNCHANGED <<serverVars, serveVars, connDraining, deliveryMu, netOpen, leaving, clientVars,
                   subVars, brokerVars, closer, shutdownVars>>

\* wg.Wait: the serve goroutines of all registered connections have returned.
ServerCloseWaits ==
    /\ closer = "closing" /\ closerTodo = {}
    /\ \A c \in Conns : closing[c] # "closer"
    /\ \A c \in Conns : serve[c] \in {"absent", "accepted", "returned"}
    /\ closer' = "returned"
    /\ UNCHANGED <<serverVars, serveVars, connVars, clientVars, subVars, brokerVars,
                   closerTodo, shutdownVars>>

-----------------------------------------------------------------------------
(* Server.GracefulShutdown, and Broker.Close after it *)

Quiet == "RacingSubscribe" \in Operations \/ \A c \in Conns : ~Subscribing(c)

GracefulShutdown ==
    /\ "GracefulShutdown" \in Operations /\ shutdown = "idle" /\ Quiet
    /\ IF closed
       THEN shutdown' = "returned" /\ UNCHANGED <<closed, draining, shutdownTodo>>
       ELSE /\ closed' = TRUE /\ draining' = TRUE
            /\ shutdownTodo' = conns
            /\ shutdown' = "begin"
    /\ UNCHANGED <<conns, serveVars, connVars, clientVars, subVars, brokerVars,
                   closerVars, ctxDone, graceful, drainTodo,
                   drainAt, late>>

\* The listener is closed and Broker.BeginShutdown is called.
ShutdownBroker ==
    /\ shutdown = "begin"
    /\ brokerDown' = TRUE
    /\ shutdown' = "draining"
    /\ UNCHANGED <<serverVars, serveVars, connVars, clientVars, subVars, cache,
                   published, closerVars, shutdownTodo, ctxDone, graceful, drainTodo,
                   drainAt, late>>

ShutdownConn(c) ==
    /\ shutdown = "draining" /\ c \in shutdownTodo
    /\ shutdownTodo' = shutdownTodo \ {c}
    /\ connDraining' = [connDraining EXCEPT ![c] = @ \/ ~connClosed[c]]
    /\ graceful' = [graceful EXCEPT ![c] = "start"]
    /\ UNCHANGED <<serverVars, serveVars, connClosed, subs, deliveryMu, netOpen,
                   closing, dying, leaving, clientVars, subVars, brokerVars, closerVars,
                   shutdown, ctxDone, drainTodo, drainAt, late>>

ShutdownWaits ==
    /\ shutdown = "draining" /\ shutdownTodo = {}
    /\ \A c \in Conns : graceful[c] \in {"none", "returned"}
    /\ shutdown' = "returned"
    /\ UNCHANGED <<serverVars, serveVars, connVars, clientVars, subVars, brokerVars,
                   closerVars, shutdownTodo, ctxDone, graceful, drainTodo,
                   drainAt, late>>

ShutdownTimeout ==
    /\ shutdown = "draining" /\ ~ctxDone
    /\ ctxDone' = TRUE
    /\ UNCHANGED <<serverVars, serveVars, connVars, clientVars, subVars, brokerVars,
                   closerVars, shutdown, shutdownTodo, graceful, drainTodo, drainAt, late>>

\* triggerShutdown closes the broker, which throws away what is queued.
BrokerClose ==
    /\ shutdown = "returned"
    /\ brokerDown' = TRUE
    /\ CloseSubs({s \in Subs : state[s] = "open"})
    /\ queue' = [s \in Subs |-> IF state[s] = "open" THEN 0 ELSE queue[s]]
    /\ shutdown' = "done"
    /\ UNCHANGED <<serverVars, serveVars, connVars, clientVars, topicOf, connOf,
                   goroutine, failed, cache, published, closerVars, shutdownTodo,
                   ctxDone, graceful, drainTodo,
                   drainAt, late>>

-----------------------------------------------------------------------------
(* connection.gracefulClose *)

Drains(c, place) == graceful' = [graceful EXCEPT ![c] = place]

DrainBegin(c) ==
    /\ graceful[c] = "start"
    /\ IF connClosed[c]
       THEN Drains(c, "returned") /\ UNCHANGED <<connDraining, drainTodo, late>>
       ELSE /\ connDraining' = [connDraining EXCEPT ![c] = TRUE]
            /\ drainTodo' = [drainTodo EXCEPT ![c] = SubsOf(c)]
            /\ late' = [late EXCEPT ![c] = {s \in Subs : connOf[s] = c
                                                        /\ goroutine[s] = "absent"}]
            /\ Drains(c, "drain")
    /\ UNCHANGED <<serverVars, serveVars, connClosed, subs, deliveryMu, netOpen,
                   closing, dying, leaving, clientVars, subVars, brokerVars, closerVars,
                   shutdown, shutdownTodo, ctxDone, drainAt>>

\* Drain finds the queue empty; it calls Close after that.
DrainEmpty(c, s) ==
    /\ graceful[c] = "drain" /\ drainAt[c] = NoSub
    /\ s \in drainTodo[c] /\ queue[s] = 0
    /\ drainAt' = [drainAt EXCEPT ![c] = s]
    /\ UNCHANGED <<serverVars, serveVars, connVars, clientVars, subVars, brokerVars,
                   closerVars, shutdown, shutdownTodo, ctxDone, graceful, drainTodo, late>>

DrainClose(c) ==
    /\ graceful[c] = "drain" /\ drainAt[c] # NoSub
    /\ CloseSubs({drainAt[c]})
    /\ drainTodo' = [drainTodo EXCEPT ![c] = @ \ {drainAt[c]}]
    /\ drainAt' = [drainAt EXCEPT ![c] = NoSub]
    /\ UNCHANGED <<serverVars, serveVars, connVars, clientVars, topicOf, connOf, queue,
                   goroutine, failed, brokerVars, closerVars, shutdown, shutdownTodo,
                   ctxDone, graceful, late>>

\* Mutant: Drain does not watch the context.
Expired_Never == FALSE

Expired == ctxDone

\* Drain gives up when the context ends: the connection is closed.
DrainTimeout(c) ==
    /\ graceful[c] = "drain" /\ drainAt[c] = NoSub /\ Expired
    /\ \E s \in drainTodo[c] : queue[s] > 0
    /\ CloseBegins(c, "graceful")
    /\ Drains(c, "closing")
    /\ UNCHANGED <<serverVars, serveVars, connDraining, deliveryMu, netOpen, leaving, clientVars,
                   subVars, brokerVars, closerVars, shutdown, shutdownTodo, ctxDone,
                   drainTodo, drainAt, late>>

DrainClosed(c) ==
    /\ graceful[c] = "closing" /\ closing[c] # "graceful"
    /\ Drains(c, "returned")
    /\ UNCHANGED <<serverVars, serveVars, connVars, clientVars, subVars, brokerVars,
                   closerVars, shutdown, shutdownTodo, ctxDone, drainTodo, drainAt, late>>

DrainLock(c) ==
    /\ graceful[c] = "drain" /\ drainTodo[c] = {} /\ deliveryMu[c] = "free"
    /\ deliveryMu' = [deliveryMu EXCEPT ![c] = "graceful"]
    /\ Drains(c, "wait")
    /\ UNCHANGED <<serverVars, serveVars, connClosed, connDraining, subs, netOpen,
                   closing, dying, leaving, clientVars, subVars, brokerVars, closerVars,
                   shutdown, shutdownTodo, ctxDone, drainTodo, drainAt, late>>

\* Mutant: the delivery goroutines are not waited for.
DeliveriesEnded_Always(c) == TRUE

\* deliveryWG counts the delivery goroutines of the connection.
DeliveriesEnded(c) ==
    \A s \in Subs : connOf[s] = c => goroutine[s] \in {"absent", "returned"}

DrainWaits(c) ==
    /\ graceful[c] = "wait" /\ DeliveriesEnded(c)
    /\ deliveryMu' = [deliveryMu EXCEPT ![c] = "free"]
    /\ Drains(c, "notify")
    /\ UNCHANGED <<serverVars, serveVars, connClosed, connDraining, subs, netOpen,
                   closing, dying, leaving, clientVars, subVars, brokerVars, closerVars,
                   shutdown, shutdownTodo, ctxDone, drainTodo, drainAt, late>>

\* Mutant: a connection without subscriptions gets no SHUTDOWN frame.
Writes_Subscribed(c) == netOpen[c] /\ SubsOf(c) # {}

Writes(c) == netOpen[c]

DrainNotify(c) ==
    /\ graceful[c] = "notify"
    /\ IF Writes(c) THEN Notify(c, "SHUTDOWN") ELSE UNCHANGED notice
    /\ Drains(c, "closeTransport")
    /\ UNCHANGED <<serverVars, serveVars, connVars, clientUp, subVars, brokerVars,
                   closerVars, shutdown, shutdownTodo, ctxDone, drainTodo, drainAt, late>>

\* closeTransport leaves the subscriptions alone.
closeTransport(c) ==
    /\ graceful[c] = "closeTransport"
    /\ connClosed' = [connClosed EXCEPT ![c] = TRUE]
    /\ netOpen' = [netOpen EXCEPT ![c] = FALSE]
    /\ Drains(c, "returned")
    /\ UNCHANGED <<serverVars, serveVars, connDraining, subs, deliveryMu, closing,
                   dying, leaving, clientVars, subVars, brokerVars, closerVars, shutdown,
                   shutdownTodo, ctxDone, drainTodo, drainAt, late>>

GracefulStep(c) ==
    \/ DrainBegin(c) \/ (\E s \in Subs : DrainEmpty(c, s)) \/ DrainClose(c)
    \/ DrainTimeout(c) \/ DrainClosed(c) \/ DrainLock(c) \/ DrainWaits(c)
    \/ DrainNotify(c) \/ closeTransport(c)

-----------------------------------------------------------------------------
(* The specification *)

Init ==
    /\ closed = FALSE /\ draining = FALSE /\ conns = {}
    /\ serve = [c \in Conns |-> "absent"]
    /\ topic = [c \in Conns |-> CHOOSE t \in Topics : TRUE]
    /\ todo = [c \in Conns |-> {}]
    /\ connClosed = [c \in Conns |-> FALSE]
    /\ connDraining = [c \in Conns |-> FALSE]
    /\ subs = [c \in Conns |-> [t \in Topics |-> NoSub]]
    /\ deliveryMu = [c \in Conns |-> "free"]
    /\ netOpen = [c \in Conns |-> FALSE]
    /\ closing = [c \in Conns |-> "none"]
    /\ dying = [c \in Conns |-> {}]
    /\ leaving = [c \in Conns |-> NoSub]
    /\ clientUp = [c \in Conns |-> FALSE]
    /\ notice = [c \in Conns |-> "none"]
    /\ state = [s \in Subs |-> "absent"]
    /\ topicOf = [s \in Subs |-> CHOOSE t \in Topics : TRUE]
    /\ connOf = [s \in Subs |-> "none"]
    /\ queue = [s \in Subs |-> 0]
    /\ goroutine = [s \in Subs |-> "absent"]
    /\ failed = [s \in Subs |-> FALSE]
    /\ cache = [t \in Topics |-> 0]
    /\ brokerDown = FALSE /\ published = 0
    /\ closer = "idle" /\ closerTodo = {}
    /\ shutdown = "idle" /\ shutdownTodo = {} /\ ctxDone = FALSE
    /\ graceful = [c \in Conns |-> "none"]
    /\ drainTodo = [c \in Conns |-> {}]
    /\ drainAt = [c \in Conns |-> NoSub]
    /\ late = [c \in Conns |-> {}]

CloserStep == (\E c \in Conns : ServerCloseConn(c)) \/ ServerCloseWaits

ShutdownStep ==
    \/ ShutdownBroker \/ (\E c \in Conns : ShutdownConn(c))
    \/ ShutdownWaits \/ BrokerClose

Next ==
    \/ \E c \in Conns :
          \/ Accept(c) \/ Register(c) \/ ServeStep(c)
          \/ \E t \in Topics : \/ ReadSubscribe(c, t) \/ ReadUnsubscribe(c, t)
                               \/ ReadPublish(c, t)
          \/ CloseSub(c) \/ CloseNet(c)
          \/ Disconnect(c) \/ ClientStops(c)
          \/ GracefulStep(c)
    \/ \E s \in Subs : DeliveryStep(s)
    \/ ServerClose \/ CloserStep
    \/ GracefulShutdown \/ ShutdownStep \/ ShutdownTimeout

Spec == Init /\ [][Next]_vars

\* The Go scheduler runs every goroutine that can move; a delivery ends, by
\* its ACK, a failed write or its last timeout; the context ends.
FairSpec ==
    /\ Spec
    /\ \A c \in Conns : /\ WF_vars(Register(c)) /\ WF_vars(ServeStep(c))
                        /\ WF_vars(CloseSub(c)) /\ WF_vars(CloseNet(c))
                        /\ WF_vars(GracefulStep(c)) /\ WF_vars(ClientStops(c))
    /\ \A s \in Subs : WF_vars(DeliveryStep(s))
    /\ WF_vars(CloserStep) /\ WF_vars(ShutdownStep) /\ WF_vars(ShutdownTimeout)

-----------------------------------------------------------------------------
(* Properties that hold *)

TypeOK ==
    /\ {closed, draining, brokerDown, ctxDone} \subseteq BOOLEAN
    /\ conns \subseteq Conns
    /\ serve \in [Conns -> {"absent", "accepted", "connect", "read", "lock",
                            "register", "install", "unsubscribe", "publish",
                            "enqueue", "abort", "close", "closing", "remove", "returned"}]
    /\ topic \in [Conns -> Topics]
    /\ todo \in [Conns -> SUBSET Subs]
    /\ {connClosed, connDraining, netOpen, clientUp} \subseteq [Conns -> BOOLEAN]
    /\ subs \in [Conns -> [Topics -> Subs \cup {NoSub}]]
    /\ deliveryMu \in [Conns -> {"free", "serve", "graceful"}]
    /\ closing \in [Conns -> {"none", "serve", "closer", "graceful"}]
    /\ dying \in [Conns -> SUBSET Subs] /\ leaving \in [Conns -> Subs \cup {NoSub}]
    /\ notice \in [Conns -> {"none", "ERROR", "SHUTDOWN"}]
    /\ state \in [Subs -> {"absent", "open", "closed"}]
    /\ topicOf \in [Subs -> Topics] /\ connOf \in [Subs -> Conns \cup {"none"}]
    /\ queue \in [Subs -> 0 .. QueueSize]
    /\ goroutine \in [Subs -> {"absent", "range", "deliver", "returned"}]
    /\ failed \in [Subs -> BOOLEAN]
    /\ cache \in [Topics -> Nat] /\ published \in 0 .. MaxPublishes
    /\ closer \in {"idle", "closing", "returned"} /\ closerTodo \subseteq Conns
    /\ shutdown \in {"idle", "begin", "draining", "returned", "done"}
    /\ shutdownTodo \subseteq Conns
    /\ graceful \in [Conns -> {"none", "start", "drain", "closing", "wait",
                               "notify", "closeTransport", "returned"}]
    /\ drainTodo \in [Conns -> SUBSET Subs]
    /\ drainAt \in [Conns -> Subs \cup {NoSub}] /\ late \in [Conns -> SUBSET Subs]

\* The subscriptions that gracefulClose may not find in c.subs: the one that
\* unsubscribe has taken and is about to close, and one whose SUBSCRIBE had
\* passed the check of draining but was not installed yet.
Unseen(c) == late[c] \cup {leaving[c]}

\* A client is told SHUTDOWN only after every subscription of its connection
\* is closed and its queue has been delivered, unless a delivery failed:
\* gracefulClose drains first, although publishers may still be enqueueing.
\* One that gracefulClose did not see may be open, if a delivery failed on it.
DrainedBeforeNotice ==
    \A c \in Conns : notice[c] = "SHUTDOWN" =>
        \A s \in Subs : state[s] # "absent" /\ connOf[s] = c =>
            /\ goroutine[s] = "returned"
            /\ state[s] = "closed" \/ (failed[s] /\ s \in Unseen(c))
            /\ queue[s] = 0 \/ failed[s]

\* When GracefulShutdown has returned, also by its timeout, the transport of
\* every connection that it found is closed and so are the subscriptions, but
\* for a connection that its own serve goroutine is closing at that moment,
\* and for the subscriptions that gracefulClose did not see.
ShutdownLeavesNothing ==
    draining /\ shutdown \in {"returned", "done"} =>
        \A c \in Conns : graceful[c] = "returned" /\ closing[c] = "none" =>
            /\ ~netOpen[c]
            /\ \A s \in Subs : connOf[s] = c /\ state[s] = "open" => s \in Unseen(c)

\* GracefulShutdown closes no connection behind its client's back: a client
\* that is still there when gracefulClose has returned was sent SHUTDOWN, or
\* ERROR before it, unless the context ended or Server.Close came first.
ClientIsTold ==
    \A c \in Conns : graceful[c] = "returned" /\ clientUp[c] =>
        notice[c] # "none" \/ ctxDone \/ closer # "idle"

\* When the Server.Close that closed the server has returned, no connection is
\* registered or open, whenever it was accepted.
CloseLeavesNoConnection ==
    closer = "returned" /\ ~draining =>
        conns = {} /\ \A c \in Conns : netOpen[c] => serve[c] = "accepted"

\* GracefulShutdown returns, once its context ends at the latest.
ShutdownReturns == shutdown = "begin" ~> shutdown = "done"

\* A subscription that was made on a connection after connection.close took
\* the subscriptions to close: only Broker.Close can close it.  (The one that
\* unsubscribe took before is closed by unsubscribe.)
Orphan(s) ==
    \E c \in Conns : /\ connOf[s] = c /\ connClosed[c]
                     /\ state[s] = "open" /\ s \notin dying[c] /\ s # leaving[c]

\* Server.Close returns, and with it every serve goroutine, although these may
\* be blocked on full queues.  The one thing that can keep it from returning
\* is an orphaned subscription.
CloseReturns ==
    closer = "closing" ~> closer = "returned" \/ \E s \in Subs : Orphan(s)

=============================================================================
