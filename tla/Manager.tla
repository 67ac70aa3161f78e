------------------------------ MODULE Manager ------------------------------
(***************************************************************************)
(* The client's connection manager: src/transport/tcp/connection_manager.go*)
(* with the life of the Clients that it dials (client.go) and the brokers  *)
(* that come and go behind a list of endpoints.                            *)
(*                                                                         *)
(* The threads are                                                         *)
(*   - the constructor, which becomes the run goroutine (`run');           *)
(*   - the readLoop goroutine of each client, numbered as they are dialled;*)
(*   - callers of Subscribe, one for each topic, and of Close;             *)
(*   - the brokers and the network.                                        *)
(* A step is one critical section, one channel operation or one frame.     *)
(* An event stands for itself by the number of the client that read it;    *)
(* Delivery models how an event is acknowledged, Publish how it is sent.   *)
(***************************************************************************)
EXTENDS Integers, Sequences, FiniteSets

CONSTANTS
    Endpoints,      \* broker addresses
    Configured,     \* the list given to NewConnectionManager
    NoRedirect,     \* a SHUTDOWN frame without a replacement address
    Topics,         \* topic names
    EventsSize,     \* capacity of Client.events
    ManagerSize,    \* capacity of ConnectionManager.events
    MaxFaults,      \* bound: crashes, shutdowns and silences of brokers
    MaxEvents,      \* bound: EVENT frames that brokers send, and ACK frames
                    \* that hold readLoop up
    Operations      \* what may happen besides Subscribe and reconnecting

\* Bound: only a fault or Close ends a connection, so no more are ever dialled.
MaxClients == MaxFaults + 2
Clients    == 1 .. MaxClients
NoClient   == 0

AllOperations == {"Close", "Crash", "Shutdown", "Silence"}

ASSUME ManagerAssumption ==
    /\ EventsSize \in Nat \ {0} /\ ManagerSize \in Nat \ {0}
    /\ MaxFaults \in Nat /\ MaxEvents \in Nat
    /\ NoRedirect \notin Endpoints
    /\ Configured \in Seq(Endpoints) /\ Configured # <<>>
    /\ Operations \subseteq AllOperations

VARIABLES
    status,     \* of an endpoint: "up", "draining", "down" or "silent"
    faults,     \* number of faults so far
    sent,       \* number of these frames so far
    count,      \* number of clients dialled so far
    at,         \* the endpoint that a client is connected to
    link,       \* its connection is intact
    wire,       \* the frames on their way to it
    asked,      \* the topics that it sent SUBSCRIBE for on an intact connection
    done,       \* Client.done is closed
    reader,     \* where its readLoop is
    buffered,   \* the number of events in Client.events
    notice,     \* the contents of Client.shutdowns
    redirected, \* history: what readLoop put there
    endpoints,  \* ConnectionManager.endpoints
    current,    \* ConnectionManager.current
    topics,     \* ConnectionManager.topics
    closed,     \* ConnectionManager.done is closed
    events,     \* ConnectionManager.events
    shutdowns,  \* ConnectionManager.shutdowns
    run,        \* the run goroutine and its local variables
    call,       \* where the caller of Subscribe for a topic is
    held,       \* the client that it found
    closer,     \* where the caller of Close is
    taken       \* the client that it found

netVars    == <<status, faults, sent>>
dialVars   == <<count, at>>
inboxVars  == <<reader, buffered, notice, redirected>>
readVars   == <<wire, inboxVars>>
clientVars == <<dialVars, link, asked, done, readVars>>
chanVars   == <<events, shutdowns>>
listVars   == <<endpoints, topics, closed, chanVars>>
mgrVars    == <<current, listVars>>
callVars   == <<call, held>>
closeVars  == <<closer, taken>>
appVars    == <<callVars, closeVars>>
vars == <<netVars, clientVars, mgrVars, run, appVars>>

Frame(type, redirect) == [type |-> type, redirect |-> redirect]

\* run.at: where it is.  client: the client that connect dialled or watch
\* watches.  list: the endpoints that connect has yet to try.  todo: the
\* topics that connect has yet to subscribe.  redirect: what watch returned.
\* new: the constructor has not returned.
Init ==
    /\ status \in [Endpoints -> {"up", "down"}] /\ faults = 0 /\ sent = 0
    /\ count = 0 /\ at = [c \in Clients |-> Configured[1]]
    /\ link = [c \in Clients |-> FALSE] /\ wire = [c \in Clients |-> <<>>]
    /\ asked = [c \in Clients |-> {}] /\ done = [c \in Clients |-> FALSE]
    /\ reader = [c \in Clients |-> "absent"] /\ buffered = [c \in Clients |-> 0]
    /\ notice = [c \in Clients |-> <<>>]
    /\ redirected = [c \in Clients |-> NoRedirect]
    /\ endpoints = Configured /\ current = NoClient /\ topics = {}
    /\ closed = FALSE /\ events = <<>> /\ shutdowns = <<>>
    /\ run = [at |-> "connect", client |-> NoClient, list |-> <<>>, todo |-> {},
              redirect |-> NoRedirect, new |-> TRUE]
    /\ call = [t \in Topics |-> "absent"] /\ held = [t \in Topics |-> NoClient]
    /\ closer = "absent" /\ taken = NoClient

-----------------------------------------------------------------------------
(* Brokers and network *)

Cut(e) ==
    /\ link' = [c \in Clients |-> link[c] /\ at[c] # e]
    /\ asked' = [c \in Clients |-> IF at[c] # e THEN asked[c] ELSE {}]

\* A broker is killed, or its host disappears: dialling it then gets no answer
\* before the context ends.
Fails(e, how) ==
    /\ faults < MaxFaults /\ status[e] \notin {how, "down"}
    /\ status' = [status EXCEPT ![e] = how]
    /\ faults' = faults + 1
    /\ Cut(e)
    /\ UNCHANGED <<sent, dialVars, done, readVars, mgrVars, run, appVars>>

Crash(e)   == "Crash" \in Operations /\ Fails(e, "down")
Silence(e) == "Silence" \in Operations /\ Fails(e, "silent")

\* GracefulShutdown closes the listener and drains the connections ...
Drain(e) ==
    /\ "Shutdown" \in Operations
    /\ faults < MaxFaults /\ status[e] = "up"
    /\ status' = [status EXCEPT ![e] = "draining"]
    /\ faults' = faults + 1
    /\ UNCHANGED <<sent, clientVars, mgrVars, run, appVars>>

\* ... and then sends each of them SHUTDOWN and closes it.
Notify(c, r) ==
    /\ link[c] /\ status[at[c]] = "draining" /\ r # at[c]
    /\ wire' = [wire EXCEPT ![c] = Append(@, Frame("SHUTDOWN", r))]
    /\ link' = [link EXCEPT ![c] = FALSE]
    /\ asked' = [asked EXCEPT ![c] = {}]
    /\ UNCHANGED <<netVars, dialVars, done, inboxVars, mgrVars, run, appVars>>

Restart(e) ==
    /\ status[e] # "up" /\ \A c \in Clients : link[c] => at[c] # e
    /\ status' = [status EXCEPT ![e] = "up"]
    /\ UNCHANGED <<faults, sent, clientVars, mgrVars, run, appVars>>

SendEvent(c) ==
    /\ link[c] /\ asked[c] # {} /\ sent < MaxEvents
    /\ wire' = [wire EXCEPT ![c] = Append(@, Frame("EVENT", NoRedirect))]
    /\ sent' = sent + 1
    /\ UNCHANGED <<status, faults, dialVars, link, asked, done, inboxVars, mgrVars,
                   run, appVars>>

-----------------------------------------------------------------------------
(* Client.Close, Client.Subscribe and readLoop *)

\* Frames that have not been read go with the connection.
CloseClient(c) ==
    /\ done' = [done EXCEPT ![c] = TRUE]
    /\ link' = [link EXCEPT ![c] = FALSE]
    /\ asked' = [asked EXCEPT ![c] = {}]
    /\ wire' = [wire EXCEPT ![c] = <<>>]

\* send: a frame for a broken connection may still be taken by the kernel.  A
\* broker that drains answers SUBSCRIBE with ERROR.
CanSend(c)  == ~done[c]
CanFail(c)  == done[c] \/ ~link[c]
Asks(c, t)  ==
    /\ asked' = [asked EXCEPT ![c] = IF link[c] THEN @ \cup {t} ELSE {}]
    /\ wire' = IF link[c] /\ status[at[c]] = "draining"
               THEN [wire EXCEPT ![c] = Append(@, Frame("ERROR", NoRedirect))]
               ELSE wire

Reads(c, type) ==
    /\ reader[c] = "read" /\ wire[c] # <<>> /\ Head(wire[c]).type = type

ReadGoes(c, place) == reader' = [reader EXCEPT ![c] = place]

ReadEvent(c) ==
    /\ Reads(c, "EVENT")
    /\ wire' = [wire EXCEPT ![c] = Tail(@)]
    /\ ReadGoes(c, "put")
    /\ UNCHANGED <<netVars, dialVars, link, asked, done, buffered, notice,
                   redirected, mgrVars, run, appVars>>

PutEvent(c) ==
    /\ reader[c] = "put" /\ buffered[c] < EventsSize
    /\ buffered' = [buffered EXCEPT ![c] = @ + 1]
    /\ ReadGoes(c, "read")
    /\ UNCHANGED <<netVars, dialVars, link, asked, done, wire, notice, redirected,
                   mgrVars, run, appVars>>

\* An ACK frame changes nothing here if its call has given up or its channel
\* has room, so wire leaves ACK frames out.  For any other one, which may come
\* between any two frames once a call can have published on the client,
\* readLoop waits for room.  Publish has the calls and their channels.
ReadAck(c) ==
    /\ reader[c] = "read" /\ ~done[c] /\ sent < MaxEvents
    /\ ~(run.at = "install" /\ run.client = c)
    /\ ReadGoes(c, "ack")
    /\ sent' = sent + 1
    /\ UNCHANGED <<status, faults, dialVars, link, asked, done, wire, buffered,
                   notice, redirected, mgrVars, run, appVars>>

\* The call makes room.  Nothing else ends this wait, neither Done nor the loss
\* of the connection.
PutAck(c) ==
    /\ reader[c] = "ack"
    /\ ReadGoes(c, "read")
    /\ UNCHANGED <<netVars, dialVars, link, asked, done, wire, buffered, notice,
                   redirected, mgrVars, run, appVars>>

ReadShutdown(c) ==
    /\ Reads(c, "SHUTDOWN")
    /\ notice' = [notice EXCEPT ![c] = <<Head(wire[c]).redirect>>]
    /\ redirected' = [redirected EXCEPT ![c] = Head(wire[c]).redirect]
    /\ wire' = [wire EXCEPT ![c] = Tail(@)]
    /\ ReadGoes(c, "return")
    /\ UNCHANGED <<netVars, dialVars, link, asked, done, buffered, mgrVars, run,
                   appVars>>

\* readLoop returns after SHUTDOWN or ERROR, when the connection fails or was
\* closed, or when Done ends its wait for room in Events; its first deferred
\* call is Close.
ReadReturns(c) ==
    /\ \/ reader[c] = "return"
       \/ Reads(c, "ERROR")
       \/ reader[c] = "read" /\ CanFail(c)
       \/ reader[c] = "put" /\ done[c]
    /\ CloseClient(c)
    /\ ReadGoes(c, "close")
    /\ UNCHANGED <<netVars, dialVars, buffered, notice, redirected, mgrVars, run,
                   appVars>>

\* The deferred calls close shutdowns and then events.
ReadCloses(c) ==
    /\ reader[c] = "close"
    /\ ReadGoes(c, "ended")
    /\ UNCHANGED <<netVars, dialVars, link, asked, done, wire, buffered, notice,
                   redirected, mgrVars, run, appVars>>

\* What readLoop does without the help of a publish call.
ReadsOn(c) ==
    \/ ReadEvent(c) \/ PutEvent(c) \/ ReadShutdown(c)
    \/ ReadReturns(c) \/ ReadCloses(c)

ReadStep(c) == ReadsOn(c) \/ ReadAck(c) \/ PutAck(c)

-----------------------------------------------------------------------------
(* connect, reconnect and connectUntilAvailable *)

RunGoes(place) == run' = [run EXCEPT !.at = place]

Connect ==
    /\ run.at = "connect"
    /\ run' = IF closed THEN [run EXCEPT !.at = "ended"]
                        ELSE [run EXCEPT !.at = "dial", !.list = endpoints]
    /\ UNCHANGED <<netVars, clientVars, mgrVars, appVars>>

Dial ==
    /\ run.at = "dial" /\ run.list # <<>> /\ status[Head(run.list)] = "up"
    /\ count < MaxClients
    /\ count' = count + 1
    /\ at' = [at EXCEPT ![count + 1] = Head(run.list)]
    /\ link' = [link EXCEPT ![count + 1] = TRUE]
    /\ reader' = [reader EXCEPT ![count + 1] = "read"]
    /\ run' = [run EXCEPT !.at = "install", !.client = count + 1, !.list = Tail(@)]
    /\ UNCHANGED <<netVars, asked, done, wire, buffered, notice, redirected,
                   mgrVars, appVars>>

\* Mutant: connect returns at the first endpoint that it cannot dial.
Untried_None == <<>>

\* reconnect gives one second to all endpoints together: once an endpoint that
\* does not answer has used it up, dialling the next ones fails at once.  The
\* constructor's context has no deadline.
Untried == IF status[Head(run.list)] = "silent" /\ ~run.new
           THEN <<>> ELSE Tail(run.list)

DialFails ==
    /\ run.at = "dial" /\ run.list # <<>> /\ status[Head(run.list)] # "up"
    /\ run' = [run EXCEPT !.list = Untried]
    /\ UNCHANGED <<netVars, clientVars, mgrVars, appVars>>

DialedAll ==
    /\ run.at = "dial" /\ run.list = <<>>
    /\ RunGoes("backoff")
    /\ UNCHANGED <<netVars, clientVars, mgrVars, appVars>>

\* Mutant: only the topics whose Subscribe has returned are subscribed again.
Recorded_Returned == {t \in topics : call[t] = "returned"}

\* The topics that connect copies.
Recorded == topics

Install ==
    /\ run.at = "install"
    /\ current' = run.client
    /\ run' = [run EXCEPT !.at = "resubscribe", !.todo = Recorded]
    /\ UNCHANGED <<netVars, clientVars, listVars, appVars>>

Resubscribe(t) ==
    /\ run.at = "resubscribe" /\ t \in run.todo /\ CanSend(run.client)
    /\ Asks(run.client, t)
    /\ run' = [run EXCEPT !.todo = @ \ {t}]
    /\ UNCHANGED <<netVars, dialVars, link, done, inboxVars, mgrVars, appVars>>

ResubscribeFails ==
    /\ run.at = "resubscribe" /\ run.todo # {} /\ CanFail(run.client)
    /\ CloseClient(run.client)
    /\ run' = [run EXCEPT !.at = "uninstall", !.todo = {}]
    /\ UNCHANGED <<netVars, dialVars, inboxVars, mgrVars, appVars>>

Uninstall ==
    /\ run.at = "uninstall"
    /\ current' = NoClient
    /\ run' = [run EXCEPT !.at = "dial", !.client = NoClient]
    /\ UNCHANGED <<netVars, clientVars, listVars, appVars>>

Connected ==
    /\ run.at = "resubscribe" /\ run.todo = {}
    /\ run' = [run EXCEPT !.at = "check", !.list = <<>>, !.new = FALSE]
    /\ UNCHANGED <<netVars, clientVars, mgrVars, appVars>>

\* The constructor tries again, every 250 ms, until its context ends; here it
\* does not.
connectUntilAvailable ==
    /\ run.at = "backoff" /\ run.new
    /\ RunGoes("connect")
    /\ UNCHANGED <<netVars, clientVars, mgrVars, appVars>>

\* In reconnect the timer fires, or Close is called; the delay only grows.
Backoff ==
    /\ run.at = "backoff" /\ ~run.new
    /\ \/ RunGoes("connect")
       \/ closed /\ RunGoes("ended")
    /\ UNCHANGED <<netVars, clientVars, mgrVars, appVars>>

-----------------------------------------------------------------------------
(* run and watch *)

Check ==
    /\ run.at = "check"
    /\ run' = IF current = NoClient
              THEN [run EXCEPT !.at = "connect"]
              ELSE [run EXCEPT !.at = "watch", !.client = current]
    /\ UNCHANGED <<netVars, clientVars, mgrVars, appVars>>

WatchEvent ==
    /\ run.at = "watch" /\ buffered[run.client] > 0
    /\ buffered' = [buffered EXCEPT ![run.client] = @ - 1]
    /\ RunGoes("forward")
    /\ UNCHANGED <<netVars, dialVars, link, asked, done, wire, reader, notice,
                   redirected, mgrVars, appVars>>

\* Mutant: the send does not wait for room.
HasRoom_Always == TRUE

HasRoom == Len(events) < ManagerSize

\* Mutant: Close does not release a run goroutine that waits for the consumer.
Released_Not == FALSE

Released == closed

Forward ==
    /\ run.at = "forward"
    /\ \/ /\ HasRoom
          /\ events' = Append(events, run.client)
          /\ RunGoes("watch")
       \/ /\ Released
          /\ run' = [run EXCEPT !.at = "leave", !.redirect = NoRedirect]
          /\ UNCHANGED events
    /\ UNCHANGED <<netVars, clientVars, endpoints, current, topics, closed,
                   shutdowns, appVars>>

\* Mutant: the end of the connection is taken for an abrupt one.
OnEnd_Abrupt == "leave"

\* Either Done or the end of Events is seen first; both then wait for what
\* readLoop leaves in Shutdowns.
OnEnd == "await"

WatchEnds ==
    /\ run.at = "watch"
    /\ \/ done[run.client]
       \/ buffered[run.client] = 0 /\ reader[run.client] = "ended"
    /\ RunGoes(OnEnd)
    /\ UNCHANGED <<netVars, clientVars, mgrVars, appVars>>

WatchShutdown ==
    /\ run.at \in {"watch", "await"}
    /\ notice[run.client] # <<>> \/ reader[run.client] = "ended"
    /\ notice' = [notice EXCEPT ![run.client] = <<>>]
    /\ run' = [run EXCEPT !.at = "leave",
                          !.redirect = IF notice[run.client] # <<>>
                                       THEN notice[run.client][1] ELSE NoRedirect]
    /\ UNCHANGED <<netVars, dialVars, link, asked, done, wire, reader, buffered,
                   redirected, mgrVars, appVars>>

WatchClosed ==
    /\ run.at = "watch" /\ closed
    /\ run' = [run EXCEPT !.at = "leave", !.redirect = NoRedirect]
    /\ UNCHANGED <<netVars, clientVars, mgrVars, appVars>>

\* ordered[i]: the new list when the first i candidates have been looked at.
prefer(e) ==
    LET ordered[i \in 0 .. Len(endpoints)] ==
            IF i = 0 THEN <<e>>
            ELSE IF endpoints[i] # e THEN Append(ordered[i - 1], endpoints[i])
            ELSE ordered[i - 1]
    IN  ordered[Len(endpoints)]

Leave ==
    /\ run.at = "leave"
    /\ IF run.redirect = NoRedirect
       THEN UNCHANGED <<endpoints, shutdowns>>
       ELSE /\ endpoints' = prefer(run.redirect)
            /\ shutdowns' = IF shutdowns = <<>> THEN <<run.redirect>> ELSE shutdowns
    /\ run' = [run EXCEPT !.at = "clear", !.redirect = NoRedirect]
    /\ UNCHANGED <<netVars, clientVars, current, topics, closed, events, appVars>>

Clear ==
    /\ run.at = "clear"
    /\ current' = IF current = run.client THEN NoClient ELSE current
    /\ RunGoes("close")
    /\ UNCHANGED <<netVars, clientVars, listVars, appVars>>

\* Mutant: the old client is left to its readLoop.
CloseWatched_Not == UNCHANGED <<done, link, asked, wire>>

CloseWatched == CloseClient(run.client)

CloseOld ==
    /\ run.at = "close"
    /\ CloseWatched
    /\ run' = [run EXCEPT !.at = "connect", !.client = NoClient]
    /\ UNCHANGED <<netVars, dialVars, inboxVars, mgrVars, appVars>>

RunStep ==
    \/ Connect \/ Dial \/ DialFails \/ DialedAll \/ Install
    \/ (\E t \in Topics : Resubscribe(t)) \/ ResubscribeFails \/ Uninstall
    \/ Connected \/ connectUntilAvailable \/ Backoff \/ Check
    \/ WatchEvent \/ Forward \/ WatchEnds \/ WatchShutdown \/ WatchClosed \/ Leave \/ Clear \/ CloseOld

-----------------------------------------------------------------------------
(* The application *)

Subscribe(t) ==
    /\ ~run.new /\ call[t] = "absent"
    /\ topics' = topics \cup {t}
    /\ call' = [call EXCEPT ![t] = IF current = NoClient THEN "returned" ELSE "send"]
    /\ held' = [held EXCEPT ![t] = current]
    /\ UNCHANGED <<netVars, clientVars, endpoints, current, closed, chanVars, run,
                   closeVars>>

SubscribeSends(t) ==
    /\ call[t] = "send"
    /\ \/ CanSend(held[t]) /\ Asks(held[t], t)
       \/ CanFail(held[t]) /\ UNCHANGED <<asked, wire>>
    /\ call' = [call EXCEPT ![t] = "returned"]
    /\ held' = [held EXCEPT ![t] = NoClient]
    /\ UNCHANGED <<netVars, dialVars, link, done, inboxVars, mgrVars, run,
                   closeVars>>

\* The consumer's loop reads both channels; nothing makes it do so.
Receive ==
    /\ \/ events # <<>> /\ events' = Tail(events) /\ UNCHANGED shutdowns
       \/ shutdowns # <<>> /\ shutdowns' = <<>> /\ UNCHANGED events
    /\ UNCHANGED <<netVars, clientVars, endpoints, current, topics, closed, run,
                   appVars>>

Close ==
    /\ "Close" \in Operations /\ ~run.new /\ closer = "absent"
    /\ closed' = TRUE
    /\ closer' = "take"
    /\ UNCHANGED <<netVars, clientVars, endpoints, current, topics, chanVars, run,
                   callVars, taken>>

CloseTakes ==
    /\ closer = "take"
    /\ taken' = current
    /\ current' = NoClient
    /\ closer' = IF current = NoClient THEN "returned" ELSE "close"
    /\ UNCHANGED <<netVars, clientVars, listVars, run, callVars>>

CloseTaken ==
    /\ closer = "close"
    /\ CloseClient(taken)
    /\ closer' = "returned"
    /\ taken' = NoClient
    /\ UNCHANGED <<netVars, dialVars, inboxVars, mgrVars, run, callVars>>

CloseStep == CloseTakes \/ CloseTaken

-----------------------------------------------------------------------------

Environment ==
    \/ \E e \in Endpoints : Crash(e) \/ Silence(e) \/ Drain(e) \/ Restart(e)
    \/ \E c \in Clients : SendEvent(c)
    \/ \E c \in Clients, r \in Endpoints \cup {NoRedirect} : Notify(c, r)

Next ==
    \/ Environment \/ RunStep \/ CloseStep \/ Close \/ Receive
    \/ \E c \in Clients : ReadStep(c)
    \/ \E t \in Topics : Subscribe(t) \/ SubscribeSends(t)

Spec == Init /\ [][Next]_vars

\* Goroutines run, and timers fire.  Brokers and the consumer owe nothing, and
\* nobody owes readLoop room for an acknowledgement (PutAck).
Fairness ==
    /\ WF_vars(RunStep) /\ WF_vars(CloseStep)
    /\ \A c \in Clients : WF_vars(ReadsOn(c))
    /\ \A t \in Topics : WF_vars(SubscribeSends(t))

FairSpec == Spec /\ Fairness

-----------------------------------------------------------------------------
(* Properties *)

TypeOK ==
    /\ status \in [Endpoints -> {"up", "draining", "down", "silent"}]
    /\ faults \in 0 .. MaxFaults /\ sent \in 0 .. MaxEvents
    /\ count \in 0 .. MaxClients /\ at \in [Clients -> Endpoints]
    /\ link \in [Clients -> BOOLEAN] /\ done \in [Clients -> BOOLEAN]
    /\ wire \in [Clients -> Seq([type : {"EVENT", "ERROR", "SHUTDOWN"},
                                 redirect : Endpoints \cup {NoRedirect}])]
    /\ asked \in [Clients -> SUBSET Topics]
    /\ reader \in [Clients -> {"absent", "read", "put", "ack", "return", "close", "ended"}]
    /\ buffered \in [Clients -> 0 .. EventsSize]
    /\ notice \in [Clients -> {<<>>} \cup {<<r>> : r \in Endpoints \cup {NoRedirect}}]
    /\ redirected \in [Clients -> Endpoints \cup {NoRedirect}]
    /\ endpoints \in Seq(Endpoints) /\ current \in Clients \cup {NoClient}
    /\ topics \subseteq Topics /\ closed \in BOOLEAN
    /\ events \in Seq(Clients) /\ Len(events) <= ManagerSize
    /\ shutdowns \in {<<>>} \cup {<<r>> : r \in Endpoints}
    /\ run \in [at : {"connect", "dial", "install", "resubscribe", "uninstall",
                      "check", "backoff", "watch", "forward", "await", "leave",
                      "clear", "close", "ended"},
                client : Clients \cup {NoClient}, list : Seq(Endpoints),
                todo : SUBSET Topics, redirect : Endpoints \cup {NoRedirect},
                new : BOOLEAN]
    /\ call \in [Topics -> {"absent", "send", "returned"}]
    /\ held \in [Topics -> Clients \cup {NoClient}]
    /\ closer \in {"absent", "take", "close", "returned"}
    /\ taken \in Clients \cup {NoClient}

\* A topic that was ever given to Subscribe has been asked for on the current
\* connection, or connect or the caller of Subscribe is about to: Subscribe
\* records the topic and reads the client in one critical section, connect
\* replaces the client and copies the topics in one.
SubscriptionsRestored ==
    current # NoClient /\ link[current] =>
        \A t \in topics :
            \/ t \in asked[current]
            \/ run.at = "resubscribe" /\ run.client = current /\ t \in run.todo
            \/ call[t] = "send" /\ held[t] = current

\* The manager has at most one open connection, the one it dialled last: run
\* and connect close a client before they dial the next.
OneOpenClient == \A c \in Clients : c < count => done[c]

\* A redirect that readLoop handed over is what the manager tries first when
\* run leaves that connection, whichever of Events, Shutdowns and Done watch
\* sees first.  (A SHUTDOWN frame that comes while connect still subscribes
\* makes connect drop the client, and its redirect with it.)
RedirectHonoured ==
    run.at \in {"clear", "close"} /\ ~closed
      /\ redirected[run.client] # NoRedirect
        => endpoints[1] = redirected[run.client]

\* The readLoop of a client waits for room for an acknowledgement.
HeldUp(c) == c # NoClient /\ reader[c] = "ack"

\* After Close every connection is closed and the run goroutine and every
\* readLoop end, even if connect has just dialled, the broker is silent and
\* nobody reads Events.  The exception is a readLoop that is held up by a full
\* acknowledgement channel, and with it a run goroutine that saw Done of that
\* client first and waits for its Shutdowns.
CloseEnds ==
    closed ~> /\ closer = "returned"
              /\ run.at = "ended" \/ (run.at = "await" /\ HeldUp(run.client))
              /\ \A c \in 1 .. count : done[c] /\ (reader[c] = "ended" \/ HeldUp(c))

Serving ==
    /\ current # NoClient /\ link[current]
    /\ run.at \in {"watch", "forward"} /\ run.client = current
    /\ topics \subseteq asked[current]

\* Some broker of the list answers, and none before it in the list lets the
\* dial run into the context's deadline.
Reachable ==
    \E i \in 1 .. Len(endpoints) :
        /\ status[endpoints[i]] = "up"
        /\ \A j \in 1 .. i - 1 : status[endpoints[j]] # "silent"

\* If a broker that can be reached stays there and the consumer keeps making
\* room in Events, the manager ends up with a connection that stays and has
\* every topic subscribed, unless the readLoop of its client is held up: that
\* client is never done, and the manager keeps it when the connection is lost.
Recovers ==
    <>[]Reachable /\ []<>(Len(events) < ManagerSize)
        => <>[](closed \/ Serving \/ HeldUp(current))
=============================================================================
