------------------------------ MODULE Publish ------------------------------
(***************************************************************************)
(* Publishing through a ConnectionManager: the retry loop of               *)
(* ConnectionManager.Publish, Client.PublishWithResult with its table of   *)
(* pending acknowledgements, the ACK path of readLoop, the PUBLISH handler *)
(* of the server, and the idempotency table of the broker.                 *)
(*                                                                         *)
(* The threads are the callers of Publish, the readLoop of each            *)
(* connection, the serve goroutine of each connection, and the manager,    *)
(* which replaces a connection once it is done (Manager has the details).  *)
(* A call stands for its event, its message ID and its idempotency key.    *)
(* Broker models how the broker fans an event out: here it is published    *)
(* when Broker.PublishWithResult returns, which may be never.              *)
(***************************************************************************)
EXTENDS Integers, Sequences, FiniteSets

CONSTANTS
    Calls,          \* calls of ConnectionManager.Publish
    NoCall,
    Brokers,        \* broker processes; one that restarts is another one
    MaxAttempts,    \* attempts of a call (50 in the code)
    MaxConns,       \* bound: connections that the manager dials
    WireSize,       \* frames that a connection holds in either direction
    KeysSize,       \* entries of the broker's idempotency table
    MaxFaults,      \* bound: things that go wrong
    Operations      \* what may go wrong

Conns    == 1 .. MaxConns
NoConn   == 0
Attempts == 1 .. MaxAttempts

AllOperations == {"Cut", "Crash", "Shutdown", "Close", "Evict", "Reject"}

ASSUME PublishAssumption ==
    /\ NoCall \notin Calls /\ Brokers # {}
    /\ {MaxAttempts, MaxConns, WireSize, KeysSize} \subseteq Nat \ {0}
    /\ MaxFaults \in Nat
    /\ Operations \subseteq AllOperations

VARIABLES
    call,       \* where a call is, its connection, its attempt, its result
    channel,    \* what the channel of an attempt holds while somebody has it
    pending,    \* Client.pending: the attempt whose channel is registered, or 0
    done,       \* Client.done is closed
    link,       \* the connection is intact
    reader,     \* where readLoop is, and the acknowledgement that it holds
    toServer,   \* PUBLISH frames on their way
    toClient,   \* ACK frames on their way
    serving,    \* the call whose PUBLISH the serve goroutine handles
    routed,     \* the broker has taken the subscribers for it
    answer,     \* the status that the handler has yet to write, or "none"
    peer,       \* the broker of a connection
    count,      \* the connections dialled so far
    current,    \* ConnectionManager.current
    closed,     \* ConnectionManager.done is closed
    status,     \* of a broker: "up", "closing" or "down"
    keys,       \* the keys in its idempotency table
    published,  \* history: how often it published the event of a call
    evicted,    \* history: the keys that it forgot
    faults,     \* number of things that went wrong
    overlapped  \* history: the keys that two connections handled at once

clientVars == <<done, reader>>
wireVars   == <<link, toServer, toClient>>
dialVars   == <<peer, count, current, closed>>
tableVars  == <<keys, published, evicted, overlapped>>
serveVars  == <<serving, routed, answer>>
serverVars == <<serveVars, status, tableVars>>
vars == <<call, channel, pending, clientVars, wireVars, dialVars, serverVars, faults>>

Reading == [at |-> "read", id |-> NoCall, attempt |-> 1, status |-> "published"]

Init ==
    /\ call = [p \in Calls |-> [at |-> "idle", conn |-> NoConn, attempt |-> 1,
                                result |-> "none"]]
    /\ channel = [p \in Calls |-> [a \in Attempts |-> <<>>]]
    /\ pending = [c \in Conns |-> [p \in Calls |-> 0]]
    /\ done = [c \in Conns |-> FALSE] /\ link = [c \in Conns |-> FALSE]
    /\ reader = [c \in Conns |-> Reading]
    /\ toServer = [c \in Conns |-> <<>>] /\ toClient = [c \in Conns |-> <<>>]
    /\ serving = [c \in Conns |-> NoCall] /\ routed = [c \in Conns |-> FALSE]
    /\ answer = [c \in Conns |-> "none"]
    /\ peer = [c \in Conns |-> CHOOSE b \in Brokers : TRUE]
    /\ count = 0 /\ current = NoConn /\ closed = FALSE
    /\ status = [b \in Brokers |-> "up"] /\ keys = [b \in Brokers |-> {}]
    /\ published = [b \in Brokers |-> [p \in Calls |-> 0]]
    /\ evicted = [b \in Brokers |-> {}] /\ overlapped = [b \in Brokers |-> {}]
    /\ faults = 0

Fault(o) == o \in Operations /\ faults < MaxFaults /\ faults' = faults + 1

-----------------------------------------------------------------------------
(* ConnectionManager.Publish and Client.PublishWithResult *)

Goes(p, place) == call' = [call EXCEPT ![p].at = place]
Fails(p, place) == call' = [call EXCEPT ![p].at = place, ![p].result = "error"]

Begin(p) ==
    /\ call[p].at = "idle"
    /\ Goes(p, "try")
    /\ UNCHANGED <<channel, pending, clientVars, wireVars, dialVars, serverVars,
                   faults>>

Try(p) ==
    /\ call[p].at = "try"
    /\ IF current = NoConn
       THEN Goes(p, "pause")
       ELSE call' = [call EXCEPT ![p].at = "register", ![p].conn = current]
    /\ UNCHANGED <<channel, pending, clientVars, wireVars, dialVars, serverVars,
                   faults>>

Register(p) ==
    /\ call[p].at = "register"
    /\ pending' = [pending EXCEPT ![call[p].conn][p] = call[p].attempt]
    /\ Goes(p, "send")
    /\ UNCHANGED <<channel, clientVars, wireVars, dialVars, serverVars, faults>>

\* The write waits for room, whatever the context says.  A frame for a broken
\* connection may still be taken by the kernel.
Send(p) ==
    LET c == call[p].conn IN
    /\ call[p].at = "send"
    /\ \/ /\ ~done[c] /\ (link[c] => Len(toServer[c]) < WireSize)
          /\ toServer' = IF link[c] THEN [toServer EXCEPT ![c] = Append(@, p)]
                                    ELSE toServer
          /\ Goes(p, "wait")
       \/ /\ done[c] \/ ~link[c]
          /\ Fails(p, "unregister")
          /\ UNCHANGED toServer
    /\ UNCHANGED <<channel, pending, clientVars, link, toClient, dialVars,
                   serverVars, faults>>

\* Mutant: every acknowledgement counts as a success.
Outcome_Any(ack) == IF ack = "duplicate" THEN ack ELSE "published"

Outcome(ack) == IF ack = "rejected" THEN "error" ELSE ack

WaitAck(p) ==
    LET a == call[p].attempt IN
    /\ call[p].at = "wait" /\ channel[p][a] # <<>>
    /\ call' = [call EXCEPT ![p].at = "unregister",
                            ![p].result = Outcome(Head(channel[p][a]))]
    /\ channel' = [channel EXCEPT ![p][a] = <<>>]
    /\ UNCHANGED <<pending, clientVars, wireVars, dialVars, serverVars, faults>>

\* Mutant: a call waits for nothing but its acknowledgement.
Expires_Not(p) == FALSE

\* The context's deadline passes, or the connection is done.
Expires(p) == TRUE

WaitEnds(p) ==
    /\ call[p].at = "wait" /\ Expires(p)
    /\ Fails(p, "unregister")
    /\ UNCHANGED <<channel, pending, clientVars, wireVars, dialVars, serverVars,
                   faults>>

\* Mutant: only a call that was answered removes its entry.
Entry_Answered(p) == IF call[p].result = "error" THEN call[p].attempt ELSE 0

Entry(p) == 0

\* readLoop has found the channel of the attempt.
Found(p, a) == \E c \in Conns : /\ reader[c].at = "put" /\ reader[c].id = p
                                /\ reader[c].attempt = a

\* The channel of the attempt is garbage now, unless readLoop has found it.
Unregister(p) ==
    LET a == call[p].attempt IN
    /\ call[p].at = "unregister"
    /\ pending' = [pending EXCEPT ![call[p].conn][p] = Entry(p)]
    /\ channel' = IF Found(p, a) THEN channel ELSE [channel EXCEPT ![p][a] = <<>>]
    /\ Goes(p, IF call[p].result = "error" THEN "pause" ELSE "returned")
    /\ UNCHANGED <<clientVars, wireVars, dialVars, serverVars, faults>>

Pause(p) ==
    /\ call[p].at = "pause"
    /\ \/ closed /\ Fails(p, "returned")
       \/ call[p].attempt = MaxAttempts /\ Fails(p, "returned")
       \/ /\ call[p].attempt < MaxAttempts
          /\ call' = [call EXCEPT ![p].at = "try", ![p].conn = NoConn,
                                  ![p].attempt = @ + 1, ![p].result = "none"]
    /\ UNCHANGED <<channel, pending, clientVars, wireVars, dialVars, serverVars,
                   faults>>

CallStep(p) ==
    \/ Try(p) \/ Register(p) \/ Send(p) \/ WaitAck(p) \/ WaitEnds(p)
    \/ Unregister(p) \/ Pause(p)

-----------------------------------------------------------------------------
(* readLoop *)

ReadAck(c) ==
    LET ack == Head(toClient[c]) IN
    /\ reader[c].at = "read" /\ toClient[c] # <<>> /\ ack.status # "error"
    /\ toClient' = [toClient EXCEPT ![c] = Tail(@)]
    /\ reader' = IF pending[c][ack.id] = 0 THEN reader
                 ELSE [reader EXCEPT ![c] = [at |-> "put", id |-> ack.id,
                           attempt |-> pending[c][ack.id], status |-> ack.status]]
    /\ UNCHANGED <<call, channel, pending, done, link, toServer, dialVars,
                   serverVars, faults>>

Room(p, a) == channel[p][a] = <<>>

\* The send that no other event releases; its attempt may have ended.
PutAck(c) ==
    LET r == reader[c] IN
    /\ r.at = "put" /\ Room(r.id, r.attempt)
    /\ channel' = IF pending[c][r.id] # r.attempt THEN channel
                  ELSE [channel EXCEPT ![r.id][r.attempt] = <<r.status>>]
    /\ reader' = [reader EXCEPT ![c] = Reading]
    /\ UNCHANGED <<call, pending, done, wireVars, dialVars, serverVars, faults>>

\* Mutant: readLoop does not close the client when it returns.
OnReturn_Open(c) == FALSE

OnReturn(c) == TRUE

ReadEnds(c) ==
    /\ c <= count /\ reader[c].at = "read"
    /\ done[c] \/ ~link[c] \/ (toClient[c] # <<>> /\ Head(toClient[c]).status = "error")
    /\ reader' = [reader EXCEPT ![c].at = "ended"]
    /\ done' = [done EXCEPT ![c] = @ \/ OnReturn(c)]
    /\ link' = [link EXCEPT ![c] = FALSE]
    /\ UNCHANGED <<call, channel, pending, toServer, toClient, dialVars, serverVars,
                   faults>>

ReadStep(c) == ReadAck(c) \/ PutAck(c) \/ ReadEnds(c)

-----------------------------------------------------------------------------
(* The server's PUBLISH handler and Broker.PublishWithResult *)

\* Mutant: an answer does not wait for room.
CanAnswer_Always(c) == TRUE

\* A write waits while the answers that the client has not read fill the
\* connection.
CanAnswer(c) == link[c] => Len(toClient[c]) < WireSize

\* ... and the handler ends with it.
Answer(c) ==
    LET ack == [id |-> serving[c], status |-> answer[c]] IN
    /\ answer[c] # "none" /\ CanAnswer(c)
    /\ toClient' = IF link[c] THEN [toClient EXCEPT ![c] = Append(@, ack)]
                              ELSE toClient
    /\ serving' = [serving EXCEPT ![c] = NoCall]
    /\ answer' = [answer EXCEPT ![c] = "none"]
    /\ UNCHANGED <<call, channel, pending, clientVars, link, toServer, dialVars,
                   routed, status, tableVars, faults>>

Serves(c) == toServer[c] # <<>> /\ serving[c] = NoCall

\* serve reads a PUBLISH frame that the server does not refuse for draining ...
ServeReads(c) ==
    /\ Serves(c) /\ status[peer[c]] = "up"
    /\ toServer' = [toServer EXCEPT ![c] = Tail(@)]
    /\ serving' = [serving EXCEPT ![c] = Head(toServer[c])]
    /\ UNCHANGED <<call, channel, pending, clientVars, link, toClient, dialVars,
                   routed, answer, status, tableVars, faults>>

\* ... the broker takes the subscribers for an event that it does not know ...
Route(c) ==
    LET p == serving[c] IN
    /\ p # NoCall /\ ~routed[c] /\ answer[c] = "none"
    /\ status[peer[c]] = "up" /\ p \notin keys[peer[c]]
    /\ routed' = [routed EXCEPT ![c] = TRUE]
    /\ overlapped' = IF \E d \in Conns : peer[d] = peer[c] /\ serving[d] = p /\ routed[d]
                     THEN [overlapped EXCEPT ![peer[c]] = @ \cup {p}] ELSE overlapped
    /\ UNCHANGED <<call, channel, pending, clientVars, wireVars, dialVars, serving,
                   answer, status, keys, published, evicted, faults>>

\* ... or knows its key, or has begun to shut down meanwhile.
Refuse(c) ==
    LET p == serving[c] IN
    /\ p # NoCall /\ ~routed[c] /\ answer[c] = "none"
    /\ \/ /\ status[peer[c]] = "closing"
          /\ answer' = [answer EXCEPT ![c] = "rejected"]
       \/ /\ status[peer[c]] = "up" /\ p \in keys[peer[c]]
          /\ answer' = [answer EXCEPT ![c] = "duplicate"]
    /\ UNCHANGED <<call, channel, pending, clientVars, wireVars, dialVars, serving,
                   routed, status, tableVars, faults>>

\* Mutant: the key of an accepted event is not remembered.
Remember_Not(b, p, gone) == keys' = keys

\* A full table first drops an entry, whichever the map yields first.
Remember(b, p, gone) == keys' = [keys EXCEPT ![b] = (@ \ gone) \cup {p}]

\* The event is in every queue, or ...
PublishEnds(c) ==
    LET p == serving[c]
        b == peer[c]
    IN
    /\ routed[c]
    /\ published' = [published EXCEPT ![b][p] = @ + 1]
    /\ \E gone \in IF Cardinality(keys[b]) >= KeysSize THEN {{k} : k \in keys[b]} ELSE {{}} :
           /\ Remember(b, p, gone)
           /\ evicted' = [evicted EXCEPT ![b] = @ \cup (gone \ {p})]
    /\ routed' = [routed EXCEPT ![c] = FALSE]
    /\ answer' = [answer EXCEPT ![c] = "published"]
    /\ UNCHANGED <<call, channel, pending, clientVars, wireVars, dialVars, serving,
                   status, overlapped, faults>>

\* ... one of them was full, or closed before it was reached.
PublishFails(c) ==
    /\ Fault("Reject") /\ routed[c]
    /\ routed' = [routed EXCEPT ![c] = FALSE]
    /\ answer' = [answer EXCEPT ![c] = "rejected"]
    /\ UNCHANGED <<call, channel, pending, clientVars, wireVars, dialVars, serving,
                   status, tableVars>>

\* A server that drains answers PUBLISH with ERROR.
ServeRefuses(c) ==
    /\ Serves(c) /\ status[peer[c]] = "closing"
    /\ toServer' = [toServer EXCEPT ![c] = Tail(@)]
    /\ serving' = [serving EXCEPT ![c] = Head(toServer[c])]
    /\ answer' = [answer EXCEPT ![c] = "error"]
    /\ UNCHANGED <<call, channel, pending, clientVars, link, toClient, dialVars,
                   routed, status, tableVars, faults>>

\* Frames may be lost with the connection.
ServeEnds(c) ==
    /\ toServer[c] # <<>> /\ ~link[c]
    /\ toServer' = [toServer EXCEPT ![c] = <<>>]
    /\ UNCHANGED <<call, channel, pending, clientVars, link, toClient, dialVars,
                   serverVars, faults>>

ServeStep(c) ==
    \/ ServeReads(c) \/ Route(c) \/ Refuse(c) \/ Answer(c)
    \/ ServeRefuses(c) \/ ServeEnds(c)

-----------------------------------------------------------------------------
(* The manager, the network and the brokers *)

\* run leaves a connection that is done and connects to some broker.
Reconnect(b) ==
    /\ ~closed /\ count < MaxConns /\ status[b] = "up"
    /\ current # NoConn => done[current]
    /\ count' = count + 1 /\ current' = count + 1
    /\ peer' = [peer EXCEPT ![count + 1] = b]
    /\ link' = [link EXCEPT ![count + 1] = TRUE]
    /\ UNCHANGED <<call, channel, pending, clientVars, toServer, toClient, closed,
                   serverVars, faults>>

Leave ==
    /\ current # NoConn /\ done[current]
    /\ current' = NoConn
    /\ UNCHANGED <<call, channel, pending, clientVars, wireVars, peer, count,
                   closed, serverVars, faults>>

Close ==
    /\ Fault("Close") /\ ~closed
    /\ closed' = TRUE
    /\ current' = NoConn
    /\ done' = [c \in Conns |-> done[c] \/ c = current]
    /\ link' = [c \in Conns |-> link[c] /\ c # current]
    /\ UNCHANGED <<call, channel, pending, reader, toServer, toClient, peer, count,
                   serverVars>>

Cut(c) ==
    /\ Fault("Cut") /\ link[c]
    /\ link' = [link EXCEPT ![c] = FALSE]
    /\ UNCHANGED <<call, channel, pending, clientVars, toServer, toClient, dialVars,
                   serverVars>>

Shutdown(b) ==
    /\ Fault("Shutdown") /\ status[b] = "up"
    /\ status' = [status EXCEPT ![b] = "closing"]
    /\ UNCHANGED <<call, channel, pending, clientVars, wireVars, dialVars,
                   serveVars, tableVars>>

Crash(b) ==
    /\ Fault("Crash") /\ status[b] # "down"
    /\ status' = [status EXCEPT ![b] = "down"]
    /\ link' = [c \in Conns |-> link[c] /\ peer[c] # b]
    /\ toServer' = [c \in Conns |-> IF peer[c] = b THEN <<>> ELSE toServer[c]]
    /\ serving' = [c \in Conns |-> IF peer[c] = b THEN NoCall ELSE serving[c]]
    /\ routed' = [c \in Conns |-> routed[c] /\ peer[c] # b]
    /\ answer' = [c \in Conns |-> IF peer[c] = b THEN "none" ELSE answer[c]]
    /\ UNCHANGED <<call, channel, pending, clientVars, toClient, dialVars,
                   tableVars>>

\* The keys of other clients fill the table.
Evict(b) ==
    /\ Fault("Evict") /\ keys[b] # {}
    /\ \E k \in keys[b] :
           /\ keys' = [keys EXCEPT ![b] = @ \ {k}]
           /\ evicted' = [evicted EXCEPT ![b] = @ \cup {k}]
    /\ UNCHANGED <<call, channel, pending, clientVars, wireVars, dialVars,
                   serveVars, status, published, overlapped>>

-----------------------------------------------------------------------------

Next ==
    \/ \E p \in Calls : Begin(p) \/ CallStep(p)
    \/ \E c \in Conns : \/ ReadStep(c) \/ ServeStep(c) \/ PublishEnds(c)
                       \/ PublishFails(c) \/ Cut(c)
    \/ \E b \in Brokers : Reconnect(b) \/ Shutdown(b) \/ Crash(b) \/ Evict(b)
    \/ Leave \/ Close

Spec == Init /\ [][Next]_vars

\* Goroutines run and deadlines pass.  Nothing is assumed of PublishEnds: the
\* server publishes without a deadline, and may wait for ever for room in the
\* queue of a subscriber that no longer takes events.
Fairness ==
    /\ \A p \in Calls : WF_vars(CallStep(p))
    /\ \A c \in Conns : WF_vars(ReadStep(c)) /\ WF_vars(ServeStep(c))

FairSpec == Spec /\ Fairness

-----------------------------------------------------------------------------
(* Properties *)

Acks    == {"published", "duplicate", "rejected"}
Results == {"none", "error", "published", "duplicate"}

TypeOK ==
    /\ call \in [Calls -> [at : {"idle", "try", "register", "send", "wait",
                                 "unregister", "pause", "returned"},
                           conn : Conns \cup {NoConn}, attempt : Attempts,
                           result : Results]]
    /\ channel \in [Calls -> [Attempts -> {<<>>} \cup {<<k>> : k \in Acks}]]
    /\ pending \in [Conns -> [Calls -> Attempts \cup {0}]]
    /\ done \in [Conns -> BOOLEAN] /\ link \in [Conns -> BOOLEAN]
    /\ reader \in [Conns -> [at : {"read", "put", "ended"}, id : Calls \cup {NoCall},
                             attempt : Attempts, status : Acks]]
    /\ toServer \in [Conns -> Seq(Calls)]
    /\ toClient \in [Conns -> Seq([id : Calls, status : Acks \cup {"error"}])]
    /\ \A c \in Conns : Len(toServer[c]) <= WireSize /\ Len(toClient[c]) <= WireSize
    /\ serving \in [Conns -> Calls \cup {NoCall}] /\ routed \in [Conns -> BOOLEAN]
    /\ answer \in [Conns -> Acks \cup {"error", "none"}]
    /\ peer \in [Conns -> Brokers]
    /\ faults \in 0 .. MaxFaults /\ count \in 0 .. MaxConns
    /\ current \in 0 .. count /\ closed \in BOOLEAN
    /\ status \in [Brokers -> {"up", "closing", "down"}]
    /\ keys \in [Brokers -> SUBSET Calls] /\ published \in [Brokers -> [Calls -> Nat]]
    /\ evicted \in [Brokers -> SUBSET Calls] /\ overlapped \in [Brokers -> SUBSET Calls]
    /\ \A b \in Brokers : Cardinality(keys[b]) <= KeysSize

\* A Publish that returns without an error was published by some broker, even
\* if the acknowledgement it took answers an earlier attempt, and whatever
\* other attempts were rejected, timed out or cut off.
SuccessWasPublished ==
    \A p \in Calls : call[p].at = "returned" /\ call[p].result # "error" =>
        \E b \in Brokers : published[b][p] > 0

\* One broker publishes the event of a call once, however often the manager
\* repeats it, unless the broker's table forgot its key or a second connection
\* brought the event while the first was still being handled.
PublishedOnce ==
    \A b \in Brokers, p \in Calls :
        published[b][p] > 1 => p \in evicted[b] \cup overlapped[b]

\* The table of pending acknowledgements holds the channel of an attempt that
\* is still being made on that connection, and nothing else.
PendingIsOpen ==
    \A c \in Conns, p \in Calls : pending[c][p] # 0 =>
        /\ call[p].conn = c /\ call[p].attempt = pending[c][p]
        /\ call[p].at \in {"send", "wait", "unregister"}

\* readLoop is held up by the full channel of a repeated attempt.
Blocked(c) ==
    /\ reader[c].at = "put" /\ reader[c].attempt > 1
    /\ channel[reader[c].id][reader[c].attempt] # <<>>

\* The write of a PUBLISH frame, which has no deadline, waits for room in an
\* intact connection whose serve goroutine waits itself: in the broker, for
\* room in a queue, or for the answers that a readLoop held up does not read.
Stalled(p) ==
    LET c == call[p].conn IN
    /\ call[p].at = "send" /\ link[c] /\ ~done[c] /\ Len(toServer[c]) = WireSize
    /\ routed[c] \/ (answer[c] # "none" /\ ~CanAnswer(c) /\ Blocked(c))

\* Every Publish returns, whatever becomes of the connection, of the broker and
\* of readLoop, unless one of its writes is stalled for good.
CallReturns ==
    \A p \in Calls : call[p].at = "try" ~> (call[p].at = "returned" \/ []Stalled(p))

\* Client.Done is closed after the connection is lost, unless readLoop is held
\* up by a full channel.  Only the answer to a repeated attempt can do that:
\* the channel of a first attempt has room for the only answer to it.
EndIsNoticed ==
    \A c \in Conns : c <= count /\ ~link[c] ~> done[c] \/ Blocked(c)

\* Client.Done "is closed when the connection stops".
DoneWhenConnectionStops == \A c \in Conns : c <= count /\ ~link[c] ~> done[c]
=============================================================================
