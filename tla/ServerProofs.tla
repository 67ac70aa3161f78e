---------------------------- MODULE ServerProofs ----------------------------
(***************************************************************************)
(* What Server.Close and GracefulShutdown promise, for any number of       *)
(* connections, subscriptions and publishers.                              *)
(*                                                                         *)
(* Server.Close leaves no connection behind.  The property speaks of the   *)
(* moment at which Close returns.  What makes it inductive is who may      *)
(* still be closing a connection: a serve goroutine may return while Close *)
(* is in the middle of closing its transport, and only Close itself then   *)
(* waits for that.                                                         *)
(*                                                                         *)
(* For GracefulShutdown three arguments build on one another.  The first   *)
(* is who holds a subscription from Broker.Subscribe to                    *)
(* Subscription.Close; the second is that a connection whose client has    *)
(* heard nothing was touched by nobody; the third follows the              *)
(* subscriptions that gracefulClose found through drain, wait and notice.  *)
(***************************************************************************)
EXTENDS Server, TLAPS

\* Most leaves are first-order steps, the others need arithmetic or sequences.
USE ZenonT(4), SMTT(60), ZenonT(60)

Gone    == {"absent", "accepted", "returned"}
Running == {"connect", "read", "lock", "register", "install", "unsubscribe", "publish",
            "enqueue", "abort", "close"}
Places  == Gone \cup Running \cup {"closing", "remove"}

Drainings == {"none", "start", "drain", "closing", "wait", "notify", "closeTransport",
              "returned"}

\* The part of TypeOK that the argument needs.
Types ==
    /\ closed \in BOOLEAN /\ draining \in BOOLEAN
    /\ conns \subseteq Conns
    /\ serve \in [Conns -> Places]
    /\ connClosed \in [Conns -> BOOLEAN] /\ connDraining \in [Conns -> BOOLEAN]
    /\ netOpen \in [Conns -> BOOLEAN]
    /\ closing \in [Conns -> {"none", "serve", "closer", "graceful"}]
    /\ graceful \in [Conns -> Drainings]

\* Whatever belongs to GracefulShutdown exists only once it has begun.
ShutdownInv ==
    /\ shutdown \in {"begin", "draining"} => draining
    /\ \A c \in Conns :
           /\ graceful[c] # "none" => draining
           /\ connDraining[c] => draining
           /\ closing[c] = "graceful" => draining
           /\ serve[c] = "remove" => draining
    /\ closed => draining \/ closer # "idle"

\* A connection is registered while its serve goroutine runs.
RegisteredInv == \A c \in Conns : c \in conns <=> serve[c] \notin Gone

\* A transport that connection.close has not closed yet is being closed, and
\* a serve goroutine that returned leaves that to Close or gracefulClose.
TransportInv ==
    \A c \in Conns :
        /\ connClosed[c] /\ netOpen[c] => closing[c] # "none"
        /\ serve[c] = "closing" => connClosed[c]
        /\ closing[c] = "serve" => serve[c] = "closing"
        /\ serve[c] = "absent" => ~netOpen[c]
        /\ serve[c] = "returned" /\ netOpen[c] => draining \/ closing[c] = "closer"

\* What wg.Wait has established stays true.
ReturnedInv ==
    /\ closer # "idle" => closed
    /\ closer = "returned" /\ ~draining =>
           \A c \in Conns : serve[c] \in Gone /\ closing[c] # "closer"

\* Nobody closes a connection that is not registered yet.
KnownInv ==
    \A c \in Conns : serve[c] \in {"absent", "accepted"} =>
        ~connClosed[c] /\ graceful[c] = "none" /\ c \notin closerTodo \cup shutdownTodo

CloseInv == KnownInv /\ ShutdownInv /\ RegisteredInv /\ TransportInv /\ ReturnedInv

LEMMA CloseInit == Init => Types /\ CloseInv
<1> SUFFICES ASSUME Init PROVE Types /\ CloseInv
  OBVIOUS
<1>1. /\ closed = FALSE /\ draining = FALSE /\ conns = {}
      /\ serve = [c \in Conns |-> "absent"] /\ connClosed = [c \in Conns |-> FALSE]
      /\ connDraining = [c \in Conns |-> FALSE] /\ netOpen = [c \in Conns |-> FALSE]
      /\ closing = [c \in Conns |-> "none"] /\ graceful = [c \in Conns |-> "none"]
      /\ shutdown = "idle" /\ closer = "idle" /\ closerTodo = {} /\ shutdownTodo = {}
  BY Zenon DEF Init
<1>2. Types
  <2>1. /\ connClosed \in [Conns -> BOOLEAN] /\ connDraining \in [Conns -> BOOLEAN]
        /\ netOpen \in [Conns -> BOOLEAN]
    BY <1>1, Zenon
  <2> QED
    <3>1. serve \in [Conns -> Places]
      BY <1>1 DEF Places, Gone
    <3>2. closing \in [Conns -> {"none", "serve", "closer", "graceful"}]
      BY <1>1
    <3>3. graceful \in [Conns -> Drainings]
      BY <1>1 DEF Drainings
    <3> QED
      BY <1>1, <2>1, <3>1, <3>2, <3>3, Zenon DEF Types
<1>3. KnownInv /\ ShutdownInv /\ RegisteredInv /\ TransportInv /\ ReturnedInv
  BY <1>1 DEF KnownInv, ShutdownInv, RegisteredInv, TransportInv, ReturnedInv, Gone
<1> QED
  BY <1>2, <1>3 DEF CloseInv

-----------------------------------------------------------------------------
(* Steps that change at most one thing that the invariant speaks of *)

Others == /\ UNCHANGED closed /\ UNCHANGED draining /\ UNCHANGED conns
          /\ UNCHANGED connClosed /\ UNCHANGED connDraining /\ UNCHANGED netOpen
          /\ UNCHANGED closing /\ UNCHANGED shutdown /\ UNCHANGED closer
          /\ UNCHANGED closerTodo /\ UNCHANGED shutdownTodo

LEMMA CloseSame ==
    ASSUME Types, CloseInv, Others, UNCHANGED serve, UNCHANGED graceful
    PROVE  Types' /\ CloseInv'
BY DEF Others, Types, CloseInv, KnownInv, ShutdownInv, RegisteredInv, TransportInv, ReturnedInv

LEMMA CloseMoves ==
    ASSUME Types, CloseInv, Others, UNCHANGED graceful, NEW c \in Conns, NEW p \in Running,
           serve[c] \in Running, Goes(c, p)
    PROVE  Types' /\ CloseInv'
<1>1. /\ serve'[c] \in Running /\ \A d \in Conns : d # c => serve'[d] = serve[d]
      /\ serve' \in [Conns -> Places]
  BY DEF Goes, Types, Places
<1>2. Types'
  BY <1>1 DEF Others, Types
<1>3. KnownInv' /\ ShutdownInv' /\ RegisteredInv'
  BY <1>1 DEF Others, CloseInv, KnownInv, ShutdownInv, RegisteredInv, Gone, Running
<1>4. TransportInv'
  BY <1>1 DEF Others, CloseInv, TransportInv, Running
<1>5. ReturnedInv'
  BY <1>1 DEF Others, CloseInv, ReturnedInv, Gone, Running
<1> QED
  BY <1>2, <1>3, <1>4, <1>5 DEF CloseInv

LEMMA CloseDrains ==
    ASSUME Types, CloseInv, Others, UNCHANGED serve, NEW c \in Conns, NEW p \in Drainings,
           graceful[c] # "none", Drains(c, p)
    PROVE  Types' /\ CloseInv'
<1>1. /\ draining /\ graceful' \in [Conns -> Drainings]
      /\ \A d \in Conns : d # c => graceful'[d] = graceful[d]
  BY DEF Drains, Types, CloseInv, ShutdownInv
<1> QED
  BY <1>1 DEF Others, Types, CloseInv, KnownInv, ShutdownInv, RegisteredInv, TransportInv, ReturnedInv

-----------------------------------------------------------------------------
(* The accept loop and the serve goroutine *)

LEMMA AcceptStep ==
    ASSUME Types, CloseInv, NEW c \in Conns, Accept(c) \/ Register(c)
    PROVE  Types' /\ CloseInv'
<1>0. /\ UNCHANGED closed /\ UNCHANGED draining /\ UNCHANGED connClosed
      /\ UNCHANGED connDraining /\ UNCHANGED closing /\ UNCHANGED shutdown
      /\ UNCHANGED closer /\ UNCHANGED graceful /\ UNCHANGED closerTodo
      /\ UNCHANGED shutdownTodo
      /\ \A d \in Conns : d # c => serve'[d] = serve[d] /\ netOpen'[d] = netOpen[d]
  BY DEF Accept, Register, Goes, serverVars, closerVars, shutdownVars, Types
<1>1. CASE Accept(c)
  <2>1. /\ ~closed /\ serve[c] = "absent" /\ serve'[c] = "accepted" /\ UNCHANGED conns
        /\ serve' \in [Conns -> Places] /\ netOpen' \in [Conns -> BOOLEAN]
    BY <1>1 DEF Accept, Goes, serverVars, Types, Places, Gone
  <2>2. closer = "idle"
    BY <2>1 DEF CloseInv, ReturnedInv
  <2>3. Types' /\ KnownInv' /\ ShutdownInv' /\ RegisteredInv' /\ ReturnedInv'
    BY <1>0, <2>1, <2>2 DEF Types, CloseInv, KnownInv, ShutdownInv, RegisteredInv,
                            ReturnedInv, Gone
  <2>4. ~connClosed[c]
    BY <2>1 DEF CloseInv, KnownInv
  <2> QED
    BY <1>0, <2>1, <2>3, <2>4 DEF CloseInv, TransportInv
<1>2. CASE Register(c)
  <2>1. CASE closed
    <3>1. /\ serve[c] = "accepted" /\ serve'[c] = "returned" /\ UNCHANGED conns
          /\ ~netOpen'[c]
          /\ serve' \in [Conns -> Places] /\ netOpen' \in [Conns -> BOOLEAN]
      BY <1>2, <2>1 DEF Register, TooLate, Goes, Types, Places, Gone
    <3> QED
      BY <1>0, <3>1 DEF Types, CloseInv, KnownInv, ShutdownInv, RegisteredInv,
                        TransportInv, ReturnedInv, Gone
  <2>2. CASE ~closed
    <3>1. /\ serve[c] = "accepted" /\ serve'[c] = "connect" /\ conns' = conns \cup {c}
          /\ UNCHANGED netOpen /\ serve' \in [Conns -> Places]
      BY <1>2, <2>2 DEF Register, TooLate, Goes, Types, Places, Running
    <3>2. closer = "idle"
      BY <2>2 DEF CloseInv, ReturnedInv
    <3> QED
      BY <1>0, <3>1, <3>2 DEF Types, CloseInv, KnownInv, ShutdownInv, RegisteredInv,
                              TransportInv, ReturnedInv, Gone
  <2> QED
    BY <2>1, <2>2
<1> QED
  BY <1>1, <1>2

\* Frames are read and handled: only the place of the goroutine matters.
LEMMA ReadStep ==
    ASSUME Types, CloseInv, NEW c \in Conns,
           \/ \E t \in Topics : ReadSubscribe(c, t) \/ ReadUnsubscribe(c, t) \/ ReadPublish(c, t)
           \/ Connect(c) \/ SubscribeLock(c) \/ SubscribeRefused(c) \/ SubscribeInstall(c)
           \/ \E s \in Subs : SubscribeRegister(c, s) \/ Enqueue(c, s)
           \/ UnsubscribeClose(c) \/ PublishRoute(c) \/ PublishDone(c) \/ ReadFails(c)
    PROVE  Types' /\ CloseInv'
<1>1. ASSUME NEW t \in Topics, ReadSubscribe(c, t) \/ ReadUnsubscribe(c, t) \/ ReadPublish(c, t)
      PROVE  /\ Others /\ UNCHANGED graceful /\ serve[c] \in Running
             /\ UNCHANGED serve \/ \E p \in Running : Goes(c, p)
  BY <1>1 DEF ReadSubscribe, ReadUnsubscribe, ReadPublish, Others, serverVars, connVars,
              serveVars, closerVars, shutdownVars, Running
<1>2. ASSUME NEW s \in Subs, SubscribeRegister(c, s) \/ Enqueue(c, s)
      PROVE  /\ Others /\ UNCHANGED graceful /\ serve[c] \in Running
             /\ UNCHANGED serve \/ \E p \in Running : Goes(c, p)
  BY <1>2 DEF SubscribeRegister, Enqueue, Others, serverVars, connVars, closerVars,
              shutdownVars, Running
<1>3. ASSUME Connect(c) \/ SubscribeLock(c) \/ SubscribeRefused(c) \/ SubscribeInstall(c)
      PROVE  /\ Others /\ UNCHANGED graceful /\ serve[c] \in Running
             /\ \E p \in Running : Goes(c, p)
  BY <1>3 DEF Connect, SubscribeLock, SubscribeRefused, SubscribeInstall, Others, serverVars,
              connVars, closerVars, shutdownVars, Running
<1>4. ASSUME UnsubscribeClose(c) \/ PublishRoute(c) \/ PublishDone(c) \/ ReadFails(c)
      PROVE  /\ Others /\ UNCHANGED graceful /\ serve[c] \in Running
             /\ \E p \in Running : Goes(c, p)
  BY <1>4 DEF UnsubscribeClose, PublishRoute, PublishDone, ReadFails, Others, serverVars, connVars, closerVars,
              shutdownVars, Running
<1> QED
  BY <1>1, <1>2, <1>3, <1>4, CloseSame, CloseMoves

LEMMA AbortStep ==
    ASSUME Types, CloseInv, NEW c \in Conns, Abort(c) \/ AbortClose(c) \/ removeConnection(c)
    PROVE  Types' /\ CloseInv'
<1>0. /\ UNCHANGED closed /\ UNCHANGED draining /\ UNCHANGED connDraining
      /\ UNCHANGED netOpen /\ UNCHANGED shutdown /\ UNCHANGED closer /\ UNCHANGED graceful
      /\ UNCHANGED closerTodo /\ UNCHANGED shutdownTodo
      /\ \A d \in Conns : d # c => serve'[d] = serve[d]
  BY DEF Abort, AbortClose, removeConnection, Goes, serverVars, connVars, closerVars,
         shutdownVars, Types
<1>1. CASE Abort(c)
  <2>1. Others
    BY <1>0, <1>1 DEF Abort, Others, serverVars, connVars
  <2>2. CASE ~isDraining(c)
    BY <1>0, <1>1, <2>1, <2>2, CloseMoves DEF Abort, Running
  <2>3. CASE isDraining(c)
    <3>1. /\ draining /\ serve[c] = "abort" /\ serve'[c] = "remove"
          /\ serve' \in [Conns -> Places]
      BY <1>1, <2>3 DEF Abort, isDraining, Goes, Types, CloseInv, ShutdownInv, Places
    <3> QED
      BY <1>0, <2>1, <3>1 DEF Others, Types, CloseInv, KnownInv, ShutdownInv, RegisteredInv,
                              TransportInv, ReturnedInv, Gone
  <2> QED
    BY <2>2, <2>3
<1>2. CASE AbortClose(c)
  <2>1. /\ serve[c] = "close" /\ serve'[c] = "closing" /\ serve' \in [Conns -> Places]
        /\ UNCHANGED conns
    BY <1>2 DEF AbortClose, Goes, Types, Places, serverVars
  <2>2. /\ connClosed'[c] /\ connClosed' \in [Conns -> BOOLEAN]
        /\ closing' \in [Conns -> {"none", "serve", "closer", "graceful"}]
        /\ \A d \in Conns : d # c => connClosed'[d] = connClosed[d] /\ closing'[d] = closing[d]
        /\ \/ closing'[c] = "serve"
           \/ closing'[c] = closing[c] /\ connClosed[c]
    <3>1. CASE connClosed[c]
      BY <1>2, <3>1 DEF AbortClose, CloseBegins, Types
    <3>2. CASE ~connClosed[c]
      <4>1. /\ connClosed' = [connClosed EXCEPT ![c] = TRUE]
            /\ closing' = [closing EXCEPT ![c] = "serve"]
        BY <1>2, <3>2 DEF AbortClose, CloseBegins
      <4> QED
        BY <4>1 DEF Types
    <3> QED
      BY <3>1, <3>2
  <2>3. Types'
    BY <1>0, <2>1, <2>2 DEF Types
  <2>4. KnownInv' /\ ShutdownInv' /\ RegisteredInv' /\ ReturnedInv'
    BY <1>0, <2>1, <2>2 DEF CloseInv, KnownInv, ShutdownInv, RegisteredInv, ReturnedInv, Gone
  <2>5. TransportInv'
    BY <1>0, <2>1, <2>2 DEF CloseInv, TransportInv
  <2> QED
    BY <2>3, <2>4, <2>5 DEF CloseInv
<1>3. CASE removeConnection(c)
  <2>1. /\ serve'[c] = "returned" /\ serve' \in [Conns -> Places]
        /\ conns' = conns \ {c} /\ UNCHANGED connClosed /\ UNCHANGED closing
    BY <1>3 DEF removeConnection, Goes, Types, Places, Gone, connVars
  <2>0. \/ serve[c] = "remove"
        \/ serve[c] = "closing" /\ closing[c] # "serve"
    BY <1>3 DEF removeConnection
  <2>2. netOpen[c] => draining \/ closing[c] = "closer"
    BY <2>0, <2>1 DEF Types, CloseInv, ShutdownInv, TransportInv
  <2>3. closing[c] # "serve"
    BY <2>0 DEF CloseInv, TransportInv
  <2>4. Types' /\ KnownInv' /\ ShutdownInv' /\ RegisteredInv'
    BY <1>0, <2>0, <2>1 DEF Types, CloseInv, KnownInv, ShutdownInv, RegisteredInv, Gone
  <2>5. TransportInv'
    BY <1>0, <2>1, <2>2, <2>3 DEF CloseInv, TransportInv
  <2>6. ReturnedInv'
    BY <1>0, <2>0, <2>1 DEF CloseInv, ReturnedInv, Gone
  <2> QED
    BY <2>4, <2>5, <2>6 DEF CloseInv
<1> QED
  BY <1>1, <1>2, <1>3

-----------------------------------------------------------------------------
(* connection.close, Server.Close and GracefulShutdown *)

\* connection.close, by Server.Close or by gracefulClose.
LEMMA BeginsClosing ==
    ASSUME Types, CloseInv, NEW c \in Conns, NEW thread \in {"closer", "graceful"},
           CloseBegins(c, thread), serve[c] \notin {"absent", "accepted"},
           thread = "closer" => closer = "closing", thread = "graceful" => draining,
           UNCHANGED closed, UNCHANGED draining, UNCHANGED conns, UNCHANGED serve,
           UNCHANGED connDraining, UNCHANGED netOpen, UNCHANGED shutdown, UNCHANGED closer,
           closerTodo' \subseteq closerTodo, UNCHANGED shutdownTodo,
           graceful' \in [Conns -> Drainings],
           \A d \in Conns : graceful[d] = "none" <=> graceful'[d] = "none"
    PROVE  Types' /\ CloseInv'
<1>1. /\ connClosed' \in [Conns -> BOOLEAN]
      /\ closing' \in [Conns -> {"none", "serve", "closer", "graceful"}]
      /\ \A d \in Conns : d # c => connClosed'[d] = connClosed[d] /\ closing'[d] = closing[d]
      /\ connClosed'[c]
      /\ \/ closing'[c] = thread /\ ~connClosed[c]
         \/ closing'[c] = closing[c] /\ connClosed[c]
  <2>1. CASE connClosed[c]
    BY <2>1 DEF CloseBegins, Types
  <2>2. CASE ~connClosed[c]
    <3>1. /\ connClosed' = [connClosed EXCEPT ![c] = TRUE]
          /\ closing' = [closing EXCEPT ![c] = thread]
      BY <2>2 DEF CloseBegins
    <3> QED
      BY <2>2, <3>1 DEF Types
  <2> QED
    BY <2>1, <2>2
<1>2. Types'
  BY <1>1 DEF Types
<1>3. KnownInv' /\ ShutdownInv' /\ RegisteredInv' /\ ReturnedInv'
  BY <1>1 DEF CloseInv, KnownInv, ShutdownInv, RegisteredInv, ReturnedInv
<1>4. TransportInv'
  BY <1>1 DEF CloseInv, TransportInv
<1> QED
  BY <1>2, <1>3, <1>4 DEF CloseInv

LEMMA TransportCloses ==
    ASSUME Types, CloseInv, NEW c \in Conns, CloseNet(c) \/ closeTransport(c)
    PROVE  Types' /\ CloseInv'
<1>0. /\ UNCHANGED closed /\ UNCHANGED draining /\ UNCHANGED conns /\ UNCHANGED serve
      /\ UNCHANGED connDraining /\ UNCHANGED shutdown /\ UNCHANGED closer
      /\ UNCHANGED closerTodo /\ UNCHANGED shutdownTodo
      /\ ~netOpen'[c] /\ netOpen' \in [Conns -> BOOLEAN]
      /\ \A d \in Conns : d # c => netOpen'[d] = netOpen[d]
  BY DEF CloseNet, closeTransport, serverVars, serveVars, closerVars, shutdownVars, Types
<1>1. CASE CloseNet(c)
  <2>1. /\ UNCHANGED connClosed /\ UNCHANGED graceful /\ closing'[c] = "none"
        /\ closing' \in [Conns -> {"none", "serve", "closer", "graceful"}]
        /\ \A d \in Conns : d # c => closing'[d] = closing[d]
    BY <1>1 DEF CloseNet, shutdownVars, Types
  <2> QED
    BY <1>0, <2>1 DEF Types, CloseInv, KnownInv, ShutdownInv, RegisteredInv, TransportInv,
                      ReturnedInv
<1>2. CASE closeTransport(c)
  <2>1. /\ UNCHANGED closing /\ graceful[c] = "closeTransport"
        /\ connClosed'[c] /\ connClosed' \in [Conns -> BOOLEAN]
        /\ \A d \in Conns : d # c => connClosed'[d] = connClosed[d]
        /\ graceful'[c] = "returned" /\ graceful' \in [Conns -> Drainings]
        /\ \A d \in Conns : d # c => graceful'[d] = graceful[d]
    BY <1>2 DEF closeTransport, Drains, Drainings, Types
  <2>2. draining /\ serve[c] \notin {"absent", "accepted"}
    BY <2>1 DEF CloseInv, KnownInv, ShutdownInv
  <2>3. Types'
    BY <1>0, <2>1 DEF Types
  <2> QED
    BY <1>0, <2>1, <2>2, <2>3 DEF CloseInv, KnownInv, ShutdownInv, RegisteredInv,
                                  TransportInv, ReturnedInv
<1> QED
  BY <1>1, <1>2

LEMMA CloserSteps ==
    ASSUME Types, CloseInv, ServerClose \/ CloserStep
    PROVE  Types' /\ CloseInv'
<1>1. CASE ServerClose
  <2>0. /\ UNCHANGED draining /\ UNCHANGED conns /\ UNCHANGED serve /\ UNCHANGED connClosed
        /\ UNCHANGED connDraining /\ UNCHANGED netOpen /\ UNCHANGED closing
        /\ UNCHANGED shutdown /\ UNCHANGED graceful /\ UNCHANGED shutdownTodo
        /\ closer = "idle"
    BY <1>1 DEF ServerClose, serveVars, connVars, shutdownVars
  <2>1. CASE closed
    <3>1. closer' = "returned" /\ UNCHANGED closed /\ UNCHANGED closerTodo /\ draining
      BY <1>1, <2>0, <2>1 DEF ServerClose, CloseInv, ShutdownInv
    <3> QED
      BY <2>0, <2>1, <3>1 DEF Types, CloseInv, KnownInv, ShutdownInv, RegisteredInv,
                              TransportInv, ReturnedInv
  <2>2. CASE ~closed
    <3>1. closer' = "closing" /\ closed' = TRUE /\ closerTodo' = conns
      BY <1>1, <2>2 DEF ServerClose
    <3> QED
      BY <2>0, <3>1 DEF Types, CloseInv, KnownInv, ShutdownInv, RegisteredInv, TransportInv,
                        ReturnedInv, Gone
  <2> QED
    BY <2>1, <2>2
<1>2. ASSUME NEW c \in Conns, ServerCloseConn(c) PROVE Types' /\ CloseInv'
  <2>1. /\ c \in closerTodo /\ closer = "closing" /\ closerTodo' = closerTodo \ {c}
        /\ CloseBegins(c, "closer")
        /\ UNCHANGED closed /\ UNCHANGED draining /\ UNCHANGED conns /\ UNCHANGED serve
        /\ UNCHANGED connDraining /\ UNCHANGED netOpen /\ UNCHANGED shutdown
        /\ UNCHANGED closer /\ UNCHANGED shutdownTodo /\ UNCHANGED graceful
    BY <1>2 DEF ServerCloseConn, serverVars, serveVars, shutdownVars
  <2>2. serve[c] \notin {"absent", "accepted"} /\ graceful' \in [Conns -> Drainings]
    BY <2>1 DEF CloseInv, KnownInv, Types
  <2> QED
    BY <2>1, <2>2, BeginsClosing
<1>3. CASE ServerCloseWaits
  <2>1. /\ UNCHANGED closed /\ UNCHANGED draining /\ UNCHANGED conns /\ UNCHANGED serve
        /\ UNCHANGED connClosed /\ UNCHANGED connDraining /\ UNCHANGED netOpen
        /\ UNCHANGED closing /\ UNCHANGED shutdown /\ UNCHANGED graceful
        /\ UNCHANGED closerTodo /\ UNCHANGED shutdownTodo
        /\ closer = "closing" /\ closer' = "returned"
        /\ \A c \in Conns : closing[c] # "closer" /\ serve[c] \in Gone
    BY <1>3 DEF ServerCloseWaits, serverVars, serveVars, connVars, shutdownVars, Gone
  <2> QED
    BY <2>1 DEF Types, CloseInv, KnownInv, ShutdownInv, RegisteredInv, TransportInv,
                ReturnedInv
<1> QED
  BY <1>1, <1>2, <1>3 DEF CloserStep

LEMMA ShutdownSteps ==
    ASSUME Types, CloseInv, GracefulShutdown \/ ShutdownStep \/ ShutdownTimeout
    PROVE  Types' /\ CloseInv'
<1>0. /\ UNCHANGED conns /\ UNCHANGED serve /\ UNCHANGED connClosed /\ UNCHANGED netOpen
      /\ UNCHANGED closing /\ UNCHANGED closer /\ UNCHANGED closerTodo
  BY DEF GracefulShutdown, ShutdownStep, ShutdownTimeout, ShutdownBroker, ShutdownConn,
         ShutdownWaits, BrokerClose, serverVars, serveVars, connVars, closerVars
<1>1. CASE GracefulShutdown
  <2>1. UNCHANGED connDraining /\ UNCHANGED graceful
    BY <1>1 DEF GracefulShutdown, connVars
  <2>2. CASE closed
    <3>1. /\ UNCHANGED closed /\ UNCHANGED draining /\ UNCHANGED shutdownTodo
          /\ shutdown' = "returned"
      BY <1>1, <2>2 DEF GracefulShutdown
    <3> QED
      BY <1>0, <2>1, <3>1 DEF Types, CloseInv, KnownInv, ShutdownInv, RegisteredInv,
                              TransportInv, ReturnedInv
  <2>3. CASE ~closed
    <3>1. closed' = TRUE /\ draining' = TRUE /\ shutdownTodo' = conns
      BY <1>1, <2>3 DEF GracefulShutdown
    <3> QED
      BY <1>0, <2>1, <3>1 DEF Types, CloseInv, KnownInv, ShutdownInv, RegisteredInv,
                              TransportInv, ReturnedInv, Gone
  <2> QED
    BY <2>2, <2>3
<1>2. ASSUME NEW c \in Conns, ShutdownConn(c) PROVE Types' /\ CloseInv'
  <2>1. /\ UNCHANGED closed /\ UNCHANGED draining /\ UNCHANGED shutdown
        /\ shutdown = "draining" /\ c \in shutdownTodo /\ shutdownTodo' \subseteq shutdownTodo
        /\ graceful' = [graceful EXCEPT ![c] = "start"]
    BY <1>2 DEF ShutdownConn, serverVars
  <2>2. /\ graceful' \in [Conns -> Drainings]
        /\ \A d \in Conns : d # c => graceful'[d] = graceful[d]
    BY <2>1 DEF Types, Drainings
  <2>3. connDraining' \in [Conns -> BOOLEAN]
    BY <1>2 DEF ShutdownConn, Types
  <2>4. draining /\ serve[c] \notin {"absent", "accepted"}
    BY <2>1 DEF CloseInv, KnownInv, ShutdownInv
  <2>5. Types'
    BY <1>0, <2>1, <2>2, <2>3 DEF Types
  <2> QED
    BY <1>0, <2>1, <2>2, <2>4, <2>5 DEF CloseInv, KnownInv, ShutdownInv, RegisteredInv,
                                        TransportInv, ReturnedInv
<1>3. CASE ShutdownBroker \/ ShutdownWaits \/ BrokerClose \/ ShutdownTimeout
  <2>1. /\ UNCHANGED closed /\ UNCHANGED draining /\ UNCHANGED connDraining
        /\ UNCHANGED graceful /\ UNCHANGED shutdownTodo
    BY <1>3 DEF ShutdownBroker, ShutdownWaits, BrokerClose, ShutdownTimeout, serverVars,
                connVars
  <2>2. shutdown' \in {"begin", "draining"} => shutdown \in {"begin", "draining"}
    BY <1>3 DEF ShutdownBroker, ShutdownWaits, BrokerClose, ShutdownTimeout
  <2> QED
    BY <1>0, <2>1, <2>2 DEF Types, CloseInv, KnownInv, ShutdownInv, RegisteredInv,
                            TransportInv, ReturnedInv
<1> QED
  BY <1>1, <1>2, <1>3 DEF ShutdownStep

LEMMA GracefulSteps ==
    ASSUME Types, CloseInv, NEW c \in Conns, GracefulStep(c), ~closeTransport(c)
    PROVE  Types' /\ CloseInv'
<1>1. CASE DrainTimeout(c)
  <2>1. /\ graceful[c] = "drain" /\ CloseBegins(c, "graceful")
        /\ UNCHANGED closed /\ UNCHANGED draining /\ UNCHANGED conns /\ UNCHANGED serve
        /\ UNCHANGED connDraining /\ UNCHANGED netOpen /\ UNCHANGED shutdown
        /\ UNCHANGED closer /\ UNCHANGED closerTodo /\ UNCHANGED shutdownTodo
        /\ graceful' = [graceful EXCEPT ![c] = "closing"]
    BY <1>1 DEF DrainTimeout, Drains, serverVars, serveVars, closerVars
  <2>2. /\ graceful' \in [Conns -> Drainings]
        /\ \A d \in Conns : graceful[d] = "none" <=> graceful'[d] = "none"
    BY <2>1 DEF Types, Drainings
  <2>3. draining /\ serve[c] \notin {"absent", "accepted"}
    BY <2>1 DEF CloseInv, KnownInv, ShutdownInv
  <2> QED
    BY <2>1, <2>2, <2>3, BeginsClosing
<1>2. CASE DrainBegin(c)
  <2>1. /\ UNCHANGED closed /\ UNCHANGED draining /\ UNCHANGED conns /\ UNCHANGED serve
        /\ UNCHANGED connClosed /\ UNCHANGED netOpen /\ UNCHANGED closing
        /\ UNCHANGED shutdown /\ UNCHANGED closer /\ UNCHANGED closerTodo
        /\ UNCHANGED shutdownTodo /\ graceful[c] = "start"
    BY <1>2 DEF DrainBegin, serverVars, serveVars, closerVars
  <2>2. \E p \in {"returned", "drain"} : graceful' = [graceful EXCEPT ![c] = p]
    BY <1>2 DEF DrainBegin, Drains
  <2>3. /\ graceful' \in [Conns -> Drainings]
        /\ \A d \in Conns : graceful[d] = "none" <=> graceful'[d] = "none"
    BY <2>1, <2>2 DEF Types, Drainings
  <2>4. connDraining' \in [Conns -> BOOLEAN] /\ draining
    BY <1>2, <2>1 DEF DrainBegin, Types, CloseInv, ShutdownInv
  <2>5. Types'
    BY <2>1, <2>3, <2>4 DEF Types
  <2> QED
    BY <2>1, <2>3, <2>4, <2>5 DEF CloseInv, KnownInv, ShutdownInv, RegisteredInv,
                                  TransportInv, ReturnedInv
<1>3. CASE (\E s \in Subs : DrainEmpty(c, s)) \/ DrainClose(c)
  BY <1>3, CloseSame DEF DrainEmpty, DrainClose, Others, serverVars, serveVars, connVars,
                         closerVars
<1>4. CASE DrainClosed(c) \/ DrainLock(c) \/ DrainWaits(c) \/ DrainNotify(c)
  <2>1. /\ Others /\ UNCHANGED serve /\ graceful[c] # "none"
        /\ \E p \in Drainings : Drains(c, p)
    BY <1>4 DEF DrainClosed, DrainLock, DrainWaits, DrainNotify, Others, serverVars,
                serveVars, connVars, closerVars, Drainings
  <2> QED
    BY <2>1, CloseDrains
<1> QED
  BY <1>1, <1>2, <1>3, <1>4 DEF GracefulStep

-----------------------------------------------------------------------------
(* The theorem *)

LEMMA CloseStep == Types /\ CloseInv /\ [Next]_vars => Types' /\ CloseInv'
<1> SUFFICES ASSUME Types, CloseInv, [Next]_vars PROVE Types' /\ CloseInv'
  OBVIOUS
<1>1. CASE UNCHANGED vars
  BY <1>1, CloseSame DEF vars, Others, serverVars, serveVars, connVars, closerVars,
                         shutdownVars
<1>2. ASSUME NEW c \in Conns, ServeStep(c) PROVE Types' /\ CloseInv'
  BY <1>2, ReadStep, AbortStep DEF ServeStep
<1>3. ASSUME NEW c \in Conns, CloseSub(c) \/ Disconnect(c) \/ ClientStops(c)
      PROVE  Types' /\ CloseInv'
  BY <1>3, CloseSame DEF CloseSub, Disconnect, ClientStops, Others, serverVars, serveVars,
                         connVars, closerVars, shutdownVars
<1>4. ASSUME NEW s \in Subs, DeliveryStep(s) PROVE Types' /\ CloseInv'
  BY <1>4, CloseSame DEF DeliveryStep, Take, Delivered, DeliveryFails, RangeEnds, Others,
                         serverVars, serveVars, connVars, closerVars, shutdownVars
<1>5. ASSUME NEW c \in Conns, GracefulStep(c) PROVE Types' /\ CloseInv'
  BY <1>5, GracefulSteps, TransportCloses
<1> QED
  BY <1>1, <1>2, <1>3, <1>4, <1>5, AcceptStep, ReadStep, TransportCloses, CloserSteps,
     ShutdownSteps DEF Next

\* When the Server.Close that closed the server has returned, no connection is
\* registered and no transport is open, but for one that the accept loop has
\* yet to drop: whichever connections were accepted, were closing themselves
\* or were being served at the moment of the call.
THEOREM CloseLeavesNoConnectionHolds == Spec => []CloseLeavesNoConnection
<1>1. CloseInv /\ Types => CloseLeavesNoConnection
  BY DEF CloseInv, Types, RegisteredInv, TransportInv, ReturnedInv, CloseLeavesNoConnection,
         Gone
<1> QED
  BY <1>1, CloseInit, CloseStep, PTL DEF Spec

-----------------------------------------------------------------------------
(* The graceful shutdown *)

\* The parts of TypeOK beside Types.
ConnTypes ==
    /\ topic \in [Conns -> Topics]
    /\ todo \in [Conns -> SUBSET Subs]
    /\ subs \in [Conns -> [Topics -> Subs \cup {NoSub}]]
    /\ deliveryMu \in [Conns -> {"free", "serve", "graceful"}]
    /\ dying \in [Conns -> SUBSET Subs]
    /\ leaving \in [Conns -> Subs \cup {NoSub}]
    /\ clientUp \in [Conns -> BOOLEAN]
    /\ notice \in [Conns -> {"none", "ERROR", "SHUTDOWN"}]

SubTypes ==
    /\ state \in [Subs -> {"absent", "open", "closed"}]
    /\ topicOf \in [Subs -> Topics]
    /\ connOf \in [Subs -> Conns \cup {"none"}]
    /\ queue \in [Subs -> 0 .. QueueSize]
    /\ goroutine \in [Subs -> {"absent", "range", "deliver", "returned"}]
    /\ failed \in [Subs -> BOOLEAN]

RunTypes ==
    /\ cache \in [Topics -> Nat] /\ published \in 0 .. MaxPublishes
    /\ brokerDown \in BOOLEAN /\ ctxDone \in BOOLEAN
    /\ closer \in {"idle", "closing", "returned"} /\ closerTodo \subseteq Conns
    /\ shutdown \in {"idle", "begin", "draining", "returned", "done"}
    /\ shutdownTodo \subseteq Conns
    /\ drainTodo \in [Conns -> SUBSET Subs]
    /\ drainAt \in [Conns -> Subs \cup {NoSub}]
    /\ late \in [Conns -> SUBSET Subs]

\* Between Broker.Subscribe and the start of its goroutine a subscription is
\* held by the serve goroutine of its connection, which is installing it.
Uninstalled(s) == state[s] # "absent" /\ goroutine[s] = "absent"

InstallInv ==
    /\ \A c \in Conns : serve[c] = "install" =>
           \E s \in Subs : Uninstalled(s) /\ connOf[s] = c
    /\ \A s \in Subs : Uninstalled(s) => serve[connOf[s]] = "install"
    /\ \A s, r \in Subs : Uninstalled(s) /\ Uninstalled(r) /\ connOf[s] = connOf[r] => s = r
    /\ \A s \in Subs : IF state[s] = "absent" THEN goroutine[s] = "absent" ELSE connOf[s] \in Conns

\* The subscriptions that a connection, or whoever closes it or unsubscribes,
\* will close, and those that somebody holds besides.
Kept(c) == SubsOf(c) \cup dying[c] \cup ({leaving[c]} \ {NoSub})

Held(c) == Kept(c) \cup drainTodo[c] \cup ({drainAt[c]} \ {NoSub})

HeldInv == \A c \in Conns : \A s \in Held(c) : connOf[s] = c /\ goroutine[s] # "absent"

\* An open subscription that is installed is still kept by its connection.
OwnedInv ==
    \A s \in Subs : state[s] = "open" /\ goroutine[s] # "absent" => s \in Kept(connOf[s])

\* A delivery goroutine returns after a failure, or when nothing is left and
\* nothing can come.
EndedInv ==
    \A s \in Subs : goroutine[s] = "returned" =>
        failed[s] \/ (state[s] = "closed" /\ queue[s] = 0)

SubsInv == InstallInv /\ HeldInv /\ OwnedInv /\ EndedInv

\* Whoever runs connection.close has set closed, and closes every subscription
\* that it took before it stops; Close and GracefulShutdown exclude each other.
ClosingInv ==
    /\ \A c \in Conns : /\ dying[c] # {} => closing[c] # "none"
                        /\ closing[c] # "none" => connClosed[c]
                        /\ graceful[c] \in {"closing", "returned"} => connClosed[c]
    /\ draining => closed
    /\ closer = "closing" => closed /\ ~draining

\* unsubscribe holds a subscription exactly while it is about to close it.
LeavingInv == \A c \in Conns : leaving[c] # NoSub <=> serve[c] = "unsubscribe"

\* deliveryMu keeps a SUBSCRIBE and the wait for the deliveries apart, and
\* every gracefulClose starts after Broker.BeginShutdown, once.
TurnInv ==
    /\ \A c \in Conns : /\ serve[c] \in {"register", "install"} => deliveryMu[c] = "serve"
                        /\ graceful[c] = "wait" => deliveryMu[c] = "graceful"
                        /\ graceful[c] # "none" => brokerDown /\ c \notin shutdownTodo
    /\ shutdown = "draining" => brokerDown

-----------------------------------------------------------------------------
(* Types *)

LEMMA ShutdownTypesInit == Init => ConnTypes /\ SubTypes /\ RunTypes
<1> SUFFICES ASSUME Init PROVE ConnTypes /\ SubTypes /\ RunTypes
  OBVIOUS
<1>0. (CHOOSE t \in Topics : TRUE) \in Topics
  BY ServerAssumption
<1>1. ConnTypes
  BY <1>0 DEF Init, ConnTypes
<1>2. SubTypes
  <2>1. failed \in [Subs -> BOOLEAN]
    BY Zenon DEF Init
  <2>2. queue \in [Subs -> 0 .. QueueSize]
    BY ServerAssumption DEF Init
  <2> QED
    BY <1>0, <2>1, <2>2 DEF Init, SubTypes
<1>3. RunTypes
  <2>1. cache \in [Topics -> Nat] /\ published \in 0 .. MaxPublishes
    BY ServerAssumption DEF Init
  <2>2. brokerDown \in BOOLEAN /\ ctxDone \in BOOLEAN
    BY Zenon DEF Init
  <2>3. /\ drainTodo \in [Conns -> SUBSET Subs]
        /\ drainAt \in [Conns -> Subs \cup {NoSub}]
        /\ late \in [Conns -> SUBSET Subs]
    BY DEF Init
  <2> QED
    BY <2>1, <2>2, <2>3 DEF Init, RunTypes
<1> QED
  BY <1>1, <1>2, <1>3

LEMMA TypesSame ==
    ASSUME ConnTypes, SubTypes, RunTypes, UNCHANGED vars
    PROVE  ConnTypes' /\ SubTypes' /\ RunTypes'
BY DEF vars, serveVars, connVars, clientVars, subVars, brokerVars, closerVars, shutdownVars,
       ConnTypes, SubTypes, RunTypes

LEMMA CloseBeginsTypes ==
    ASSUME ConnTypes, NEW c \in Conns, NEW thread, CloseBegins(c, thread)
    PROVE  /\ subs' \in [Conns -> [Topics -> Subs \cup {NoSub}]]
           /\ dying' \in [Conns -> SUBSET Subs]
<1>1. CASE connClosed[c]
  BY <1>1 DEF CloseBegins, ConnTypes
<1>2. CASE ~connClosed[c]
  <2>1. SubsOf(c) \subseteq Subs
    BY DEF SubsOf, ConnTypes
  <2>2. /\ dying' = [dying EXCEPT ![c] = SubsOf(c)]
        /\ subs' = [subs EXCEPT ![c] = [t \in Topics |-> NoSub]]
    BY <1>2 DEF CloseBegins, ToClose
  <2> QED
    BY <2>1, <2>2 DEF ConnTypes
<1> QED
  BY <1>1, <1>2

LEMMA CloseSubsTypes ==
    ASSUME SubTypes, NEW S, CloseSubs(S)
    PROVE  state' \in [Subs -> {"absent", "open", "closed"}]
BY DEF CloseSubs, SubTypes

LEMMA NotifyTypes ==
    ASSUME ConnTypes, NEW c \in Conns, NEW frame \in {"ERROR", "SHUTDOWN"}, Notify(c, frame)
    PROVE  notice' \in [Conns -> {"none", "ERROR", "SHUTDOWN"}]
BY DEF Notify, ConnTypes

\* The subscription that SubscribeInstall installs.
Installed(c) == CHOOSE s \in Subs : connOf[s] = c /\ state[s] # "absent" /\ goroutine[s] = "absent"

LEMMA InstalledIs ==
    ASSUME InstallInv, NEW c \in Conns, serve[c] = "install"
    PROVE  /\ Installed(c) \in Subs /\ Uninstalled(Installed(c)) /\ connOf[Installed(c)] = c
           /\ \A s \in Subs : Uninstalled(s) /\ connOf[s] = c => s = Installed(c)
<1>1. \E s \in Subs : connOf[s] = c /\ state[s] # "absent" /\ goroutine[s] = "absent"
  BY DEF InstallInv, Uninstalled
<1>2. /\ Installed(c) \in Subs /\ connOf[Installed(c)] = c
      /\ state[Installed(c)] # "absent" /\ goroutine[Installed(c)] = "absent"
  BY <1>1 DEF Installed
<1> QED
  BY <1>2 DEF InstallInv, Uninstalled

LEMMA ConnTypesStep ==
    ASSUME Types, ConnTypes, SubTypes, InstallInv, Next PROVE ConnTypes'
<1> USE DEF ConnTypes
<1>1. ASSUME NEW c \in Conns, Accept(c) \/ Disconnect(c) \/ ClientStops(c) PROVE ConnTypes'
  <2>1. clientUp' \in [Conns -> BOOLEAN]
    BY <1>1 DEF Accept, Disconnect, ClientStops
  <2> QED
    BY <1>1, <2>1 DEF Accept, Disconnect, ClientStops, serveVars, connVars
<1>2. ASSUME NEW c \in Conns, CloseSub(c) PROVE ConnTypes'
  BY <1>2 DEF CloseSub, serveVars, clientVars
<1>3. ASSUME NEW c \in Conns, NEW t \in Topics, ReadSubscribe(c, t) PROVE ConnTypes'
  BY <1>3 DEF ReadSubscribe, connVars, clientVars
<1>4. ASSUME NEW c \in Conns, SubscribeLock(c) \/ SubscribeRefused(c) PROVE ConnTypes'
  <2>1. notice' \in [Conns -> {"none", "ERROR", "SHUTDOWN"}]
    BY <1>4, NotifyTypes DEF SubscribeLock, SubscribeRefused
  <2>2. deliveryMu' \in [Conns -> {"free", "serve", "graceful"}]
    BY <1>4 DEF SubscribeLock, SubscribeRefused
  <2> QED
    BY <1>4, <2>1, <2>2 DEF SubscribeLock, SubscribeRefused
<1>5. ASSUME NEW c \in Conns, SubscribeInstall(c) PROVE ConnTypes'
  <2>1. subs' = [subs EXCEPT ![c][topic[c]] = Installed(c)] /\ Installed(c) \in Subs
    BY <1>5, InstalledIs DEF SubscribeInstall, Installed
  <2>2. subs' \in [Conns -> [Topics -> Subs \cup {NoSub}]]
    BY <2>1
  <2> QED
    BY <1>5, <2>2 DEF SubscribeInstall, clientVars
<1>6. ASSUME NEW c \in Conns, UnsubscribeClose(c) \/ \E t \in Topics : ReadUnsubscribe(c, t)
      PROVE  ConnTypes'
  <2>1. leaving' \in [Conns -> Subs \cup {NoSub}]
    BY <1>6 DEF UnsubscribeClose, ReadUnsubscribe
  <2>2. subs' \in [Conns -> [Topics -> Subs \cup {NoSub}]]
    <3>1. CASE UnsubscribeClose(c)
      BY <3>1 DEF UnsubscribeClose
    <3>2. ASSUME NEW t \in Topics, ReadUnsubscribe(c, t)
          PROVE  subs' \in [Conns -> [Topics -> Subs \cup {NoSub}]]
      <4>1. subs' = [subs EXCEPT ![c][t] = NoSub]
        BY <3>2 DEF ReadUnsubscribe
      <4> QED
        BY <4>1
    <3> QED
      BY <1>6, <3>1, <3>2
  <2> QED
    BY <1>6, <2>1, <2>2 DEF UnsubscribeClose, ReadUnsubscribe, clientVars
<1>7. ASSUME NEW c \in Conns, NEW t \in Topics, ReadPublish(c, t) PROVE ConnTypes'
  <2>1. notice' \in [Conns -> {"none", "ERROR", "SHUTDOWN"}] /\ topic' \in [Conns -> Topics]
    BY <1>7, NotifyTypes DEF ReadPublish
  <2> QED
    BY <1>7, <2>1 DEF ReadPublish, connVars
<1>8. ASSUME NEW c \in Conns, PublishRoute(c) \/ \E s \in Subs : Enqueue(c, s) PROVE ConnTypes'
  <2>1. todo' \in [Conns -> SUBSET Subs]
    BY <1>8 DEF PublishRoute, Enqueue, OpenSubs
  <2> QED
    BY <1>8, <2>1 DEF PublishRoute, Enqueue, connVars, clientVars
<1>9. ASSUME NEW c \in Conns, AbortClose(c) \/ ServerCloseConn(c) \/ DrainTimeout(c) PROVE ConnTypes'
  BY <1>9, CloseBeginsTypes DEF AbortClose, ServerCloseConn, DrainTimeout, serveVars, clientVars
<1>10. ASSUME NEW c \in Conns, DrainLock(c) \/ DrainWaits(c) PROVE ConnTypes'
  BY <1>10 DEF DrainLock, DrainWaits, serveVars, clientVars
<1>11. ASSUME NEW c \in Conns, DrainNotify(c) PROVE ConnTypes'
  <2>1. notice' \in [Conns -> {"none", "ERROR", "SHUTDOWN"}]
    BY <1>11, NotifyTypes DEF DrainNotify
  <2> QED
    BY <1>11, <2>1 DEF DrainNotify, serveVars, connVars
<1>12. ASSUME NEW c \in Conns, \/ Register(c) \/ CloseNet(c) \/ Connect(c) \/ PublishDone(c)
                               \/ ReadFails(c) \/ Abort(c) \/ removeConnection(c)
                               \/ \E s \in Subs : SubscribeRegister(c, s)
       PROVE  ConnTypes'
  BY <1>12 DEF Register, CloseNet, Connect, PublishDone, ReadFails, Abort, removeConnection,
               SubscribeRegister, serveVars, connVars, clientVars
<1>13. ASSUME NEW c \in Conns, \/ ShutdownConn(c) \/ DrainBegin(c) \/ DrainClose(c)
                               \/ DrainClosed(c) \/ closeTransport(c)
                               \/ \E s \in Subs : DrainEmpty(c, s)
       PROVE  ConnTypes'
  BY <1>13 DEF ShutdownConn, DrainBegin, DrainClose, DrainClosed, closeTransport, DrainEmpty,
               serveVars, connVars, clientVars
<1>14. ASSUME NEW s \in Subs, DeliveryStep(s) PROVE ConnTypes'
  BY <1>14 DEF DeliveryStep, Take, Delivered, DeliveryFails, RangeEnds, serveVars, connVars, clientVars
<1>15. CASE \/ ServerClose \/ ServerCloseWaits \/ GracefulShutdown \/ ShutdownBroker
            \/ ShutdownWaits \/ BrokerClose \/ ShutdownTimeout
  BY <1>15 DEF ServerClose, ServerCloseWaits, GracefulShutdown, ShutdownBroker, ShutdownWaits,
               BrokerClose, ShutdownTimeout, serveVars, connVars, clientVars
<1> HIDE DEF ConnTypes
<1> QED
  BY <1>1, <1>2, <1>3, <1>4, <1>5, <1>6, <1>7, <1>8, <1>9, <1>10, <1>11, <1>12, <1>13, <1>14,
     <1>15 DEF Next, ServeStep, CloserStep, GracefulStep, ShutdownStep

LEMMA SubTypesStep ==
    ASSUME ConnTypes, SubTypes, RunTypes, InstallInv, Next PROVE SubTypes'
<1> USE DEF SubTypes
<1>1. ASSUME NEW c \in Conns, CloseSub(c) \/ DrainClose(c) \/ UnsubscribeClose(c) PROVE SubTypes'
  BY <1>1, CloseSubsTypes DEF CloseSub, DrainClose, UnsubscribeClose
<1>2. ASSUME NEW c \in Conns, NEW s \in Subs, SubscribeRegister(c, s) PROVE SubTypes'
  <2>1. cache[topic[c]] \in Nat /\ topic[c] \in Topics
    BY DEF ConnTypes, RunTypes
  <2>2. \E n \in 0 .. QueueSize : queue' = [queue EXCEPT ![s] = n]
    <3> DEFINE n == IF cache[topic[c]] > QueueSize THEN QueueSize ELSE cache[topic[c]]
    <3>1. queue' = [queue EXCEPT ![s] = n]
      BY <1>2 DEF SubscribeRegister
    <3>2. n \in 0 .. QueueSize
      BY <2>1, ServerAssumption
    <3> QED
      BY <3>1, <3>2
  <2>3. queue' \in [Subs -> 0 .. QueueSize]
    BY <2>2
  <2>4. /\ state' = [state EXCEPT ![s] = "open"] /\ topicOf' = [topicOf EXCEPT ![s] = topic[c]]
        /\ connOf' = [connOf EXCEPT ![s] = c] /\ UNCHANGED goroutine /\ UNCHANGED failed
    BY <1>2 DEF SubscribeRegister
  <2> QED
    BY <2>1, <2>3, <2>4
<1>3. ASSUME NEW c \in Conns, SubscribeInstall(c) PROVE SubTypes'
  <2>1. goroutine' = [goroutine EXCEPT ![Installed(c)] = "range"]
    BY <1>3 DEF SubscribeInstall, Installed
  <2>2. state' \in [Subs -> {"absent", "open", "closed"}]
    BY <1>3, CloseSubsTypes DEF SubscribeInstall
  <2> QED
    BY <1>3, <2>1, <2>2 DEF SubscribeInstall
<1>4. ASSUME NEW c \in Conns, NEW s \in Subs, Enqueue(c, s) PROVE SubTypes'
  <2>1. queue' \in [Subs -> 0 .. QueueSize]
    <3>1. CASE state[s] = "open"
      <4>1. queue' = [queue EXCEPT ![s] = queue[s] + 1] /\ ~(queue[s] >= QueueSize)
        BY <1>4, <3>1 DEF Enqueue, Blocked
      <4>2. queue[s] + 1 \in 0 .. QueueSize
        BY <4>1, ServerAssumption
      <4> QED
        BY <4>1, <4>2
    <3>2. CASE state[s] # "open"
      BY <1>4, <3>2 DEF Enqueue
    <3> QED
      BY <3>1, <3>2
  <2> QED
    BY <1>4, <2>1 DEF Enqueue
<1>5. ASSUME NEW s \in Subs, DeliveryStep(s) PROVE SubTypes'
  <2>1. queue' \in [Subs -> 0 .. QueueSize]
    <3>1. CASE Take(s)
      <4>1. queue' = [queue EXCEPT ![s] = queue[s] - 1] /\ queue[s] > 0
        BY <3>1 DEF Take
      <4>2. queue[s] - 1 \in 0 .. QueueSize
        BY <4>1, ServerAssumption
      <4> QED
        BY <4>1, <4>2
    <3> QED
      BY <1>5, <3>1 DEF DeliveryStep, Delivered, DeliveryFails, RangeEnds
  <2>2. goroutine' \in [Subs -> {"absent", "range", "deliver", "returned"}]
    BY <1>5 DEF DeliveryStep, Take, Delivered, DeliveryFails, RangeEnds, Runs
  <2>3. failed' \in [Subs -> BOOLEAN]
    BY <1>5 DEF DeliveryStep, Take, Delivered, DeliveryFails, RangeEnds
  <2>4. UNCHANGED state /\ UNCHANGED topicOf /\ UNCHANGED connOf
    BY <1>5 DEF DeliveryStep, Take, Delivered, DeliveryFails, RangeEnds
  <2> QED
    BY <2>1, <2>2, <2>3, <2>4
<1>6. CASE BrokerClose
  <2>1. queue' \in [Subs -> 0 .. QueueSize]
    BY <1>6, ServerAssumption DEF BrokerClose
  <2>2. state' \in [Subs -> {"absent", "open", "closed"}]
    BY <1>6, CloseSubsTypes DEF BrokerClose
  <2> QED
    BY <1>6, <2>1, <2>2 DEF BrokerClose
<1>7. ASSUME NEW c \in Conns, \/ Accept(c) \/ Register(c) \/ CloseNet(c) \/ Connect(c)
                              \/ SubscribeLock(c) \/ SubscribeRefused(c) \/ PublishRoute(c)
                              \/ PublishDone(c) \/ ReadFails(c) \/ Abort(c) \/ AbortClose(c)
                              \/ removeConnection(c) \/ Disconnect(c) \/ ClientStops(c)
                              \/ \E t \in Topics : \/ ReadSubscribe(c, t) \/ ReadPublish(c, t)
                                                   \/ ReadUnsubscribe(c, t)
      PROVE  SubTypes'
  BY <1>7 DEF Accept, Register, CloseNet, Connect, SubscribeLock, SubscribeRefused, PublishRoute,
              PublishDone, ReadFails, Abort, AbortClose, removeConnection, Disconnect,
              ClientStops, ReadSubscribe, ReadPublish, ReadUnsubscribe, subVars
<1>8. ASSUME NEW c \in Conns, \/ ServerCloseConn(c) \/ ShutdownConn(c) \/ DrainBegin(c)
                              \/ DrainTimeout(c) \/ DrainClosed(c) \/ DrainLock(c)
                              \/ DrainWaits(c) \/ DrainNotify(c) \/ closeTransport(c)
                              \/ \E s \in Subs : DrainEmpty(c, s)
      PROVE  SubTypes'
  BY <1>8 DEF ServerCloseConn, ShutdownConn, DrainBegin, DrainTimeout, DrainClosed, DrainLock,
              DrainWaits, DrainNotify, closeTransport, DrainEmpty, subVars
<1>9. CASE \/ ServerClose \/ ServerCloseWaits \/ GracefulShutdown \/ ShutdownBroker
           \/ ShutdownWaits \/ ShutdownTimeout
  BY <1>9 DEF ServerClose, ServerCloseWaits, GracefulShutdown, ShutdownBroker, ShutdownWaits,
              ShutdownTimeout, subVars
<1> HIDE DEF SubTypes
<1> QED
  BY <1>1, <1>2, <1>3, <1>4, <1>5, <1>6, <1>7, <1>8, <1>9 DEF Next, ServeStep, CloserStep,
     GracefulStep, ShutdownStep

LEMMA RunTypesStep ==
    ASSUME Types, ConnTypes, RunTypes, Next PROVE RunTypes'
<1> USE DEF RunTypes
<1>1. ASSUME NEW c \in Conns, NEW t \in Topics, ReadPublish(c, t) PROVE RunTypes'
  <2>1. published' \in 0 .. MaxPublishes
    BY <1>1, ServerAssumption DEF ReadPublish
  <2> QED
    BY <1>1, <2>1 DEF ReadPublish, closerVars, shutdownVars
<1>2. ASSUME NEW c \in Conns, NEW s \in Subs, SubscribeRegister(c, s) PROVE RunTypes'
  <2> DEFINE n == IF cache[topic[c]] > QueueSize THEN QueueSize ELSE cache[topic[c]]
  <2>1. cache' = [cache EXCEPT ![topic[c]] = cache[topic[c]] - n]
    BY <1>2 DEF SubscribeRegister
  <2>2. cache[topic[c]] - n \in Nat
    BY ServerAssumption DEF ConnTypes
  <2>3. cache' \in [Topics -> Nat]
    BY <2>1, <2>2
  <2> QED
    BY <1>2, <2>3 DEF SubscribeRegister, closerVars, shutdownVars
<1>3. ASSUME NEW c \in Conns, PublishRoute(c) PROVE RunTypes'
  <2>1. cache' = cache \/ cache' = [cache EXCEPT ![topic[c]] = cache[topic[c]] + 1]
    BY <1>3 DEF PublishRoute
  <2>2. cache[topic[c]] + 1 \in Nat
    BY DEF ConnTypes
  <2>3. cache' \in [Topics -> Nat]
    BY <2>1, <2>2
  <2> QED
    BY <1>3, <2>3 DEF PublishRoute, closerVars, shutdownVars
<1>4. CASE \/ ServerClose \/ ServerCloseWaits \/ GracefulShutdown \/ ShutdownBroker
           \/ ShutdownWaits \/ BrokerClose \/ ShutdownTimeout
  <2>1. /\ closer' \in {"idle", "closing", "returned"} /\ closerTodo' \subseteq Conns
        /\ shutdown' \in {"idle", "begin", "draining", "returned", "done"}
        /\ shutdownTodo' \subseteq Conns
    BY <1>4 DEF ServerClose, ServerCloseWaits, GracefulShutdown, ShutdownBroker, ShutdownWaits,
                BrokerClose, ShutdownTimeout, closerVars, shutdownVars, Types
  <2>2. brokerDown' \in BOOLEAN /\ ctxDone' \in BOOLEAN
    BY <1>4, Zenon DEF ServerClose, ServerCloseWaits, GracefulShutdown, ShutdownBroker,
                       ShutdownWaits, BrokerClose, ShutdownTimeout, brokerVars, shutdownVars
  <2>3. /\ UNCHANGED cache /\ UNCHANGED published /\ UNCHANGED drainTodo /\ UNCHANGED drainAt
        /\ UNCHANGED late
    BY <1>4 DEF ServerClose, ServerCloseWaits, GracefulShutdown, ShutdownBroker, ShutdownWaits,
                BrokerClose, ShutdownTimeout, brokerVars, shutdownVars
  <2> QED
    BY <2>1, <2>2, <2>3
<1>5. ASSUME NEW c \in Conns, ServerCloseConn(c) \/ ShutdownConn(c) PROVE RunTypes'
  BY <1>5 DEF ServerCloseConn, ShutdownConn, brokerVars, closerVars, shutdownVars
<1>6. ASSUME NEW c \in Conns, DrainBegin(c) PROVE RunTypes'
  <2>1. SubsOf(c) \subseteq Subs
    BY DEF SubsOf, ConnTypes
  <2>2. drainTodo' = drainTodo \/ drainTodo' = [drainTodo EXCEPT ![c] = SubsOf(c)]
    BY <1>6 DEF DrainBegin
  <2>3. drainTodo' \in [Conns -> SUBSET Subs]
    BY <2>1, <2>2
  <2>4. late' \in [Conns -> SUBSET Subs]
    BY <1>6 DEF DrainBegin
  <2> QED
    BY <1>6, <2>3, <2>4 DEF DrainBegin, brokerVars, closerVars
<1>7. ASSUME NEW c \in Conns, DrainClose(c) \/ \E s \in Subs : DrainEmpty(c, s) PROVE RunTypes'
  BY <1>7 DEF DrainClose, DrainEmpty, brokerVars, closerVars
<1>8. ASSUME NEW c \in Conns, \/ DrainTimeout(c) \/ DrainClosed(c) \/ DrainLock(c)
                              \/ DrainWaits(c) \/ DrainNotify(c) \/ closeTransport(c)
                              \/ Accept(c) \/ Register(c) \/ CloseSub(c) \/ CloseNet(c)
                              \/ Disconnect(c) \/ ClientStops(c)
      PROVE  RunTypes'
  BY <1>8, ZenonT(30) DEF DrainTimeout, DrainClosed, DrainLock, DrainWaits, DrainNotify, closeTransport,
              Accept, Register, CloseSub, CloseNet, Disconnect, ClientStops, brokerVars,
              closerVars, shutdownVars
<1>9. ASSUME NEW c \in Conns, \/ Connect(c) \/ SubscribeLock(c) \/ SubscribeRefused(c)
                              \/ SubscribeInstall(c) \/ \E s \in Subs : Enqueue(c, s)
                              \/ UnsubscribeClose(c)
                              \/ \E t \in Topics : ReadSubscribe(c, t) \/ ReadUnsubscribe(c, t)
      PROVE  RunTypes'
  BY <1>9, ZenonT(30) DEF Connect, SubscribeLock, SubscribeRefused, SubscribeInstall, Enqueue,
              ReadSubscribe, ReadUnsubscribe, UnsubscribeClose, brokerVars, closerVars, shutdownVars
<1>10. ASSUME NEW c \in Conns, \/ PublishDone(c) \/ ReadFails(c) \/ Abort(c) \/ AbortClose(c)
                               \/ removeConnection(c)
       PROVE  RunTypes'
  BY <1>10 DEF PublishDone, ReadFails, Abort, AbortClose, removeConnection, brokerVars,
               closerVars, shutdownVars
<1>11. ASSUME NEW s \in Subs, DeliveryStep(s) PROVE RunTypes'
  BY <1>11 DEF DeliveryStep, Take, Delivered, DeliveryFails, RangeEnds, brokerVars, closerVars,
               shutdownVars
<1> HIDE DEF RunTypes
<1> QED
  BY <1>1, <1>2, <1>3, <1>4, <1>5, <1>6, <1>7, <1>8, <1>9, <1>10, <1>11 DEF Next, ServeStep,
     CloserStep, GracefulStep, ShutdownStep

-----------------------------------------------------------------------------
(* connection.close *)

LEMMA ClosingInit == Init => ClosingInv
BY DEF Init, ClosingInv

\* connection.close hands every subscription over and drops none.
LEMMA CloseBeginsIs ==
    ASSUME Types, ConnTypes, ClosingInv, NEW c \in Conns, NEW thread, CloseBegins(c, thread)
    PROVE  /\ connClosed'[c]
           /\ \A d \in Conns : /\ d # c => /\ connClosed'[d] = connClosed[d]
                                           /\ closing'[d] = closing[d] /\ dying'[d] = dying[d]
                               /\ (SubsOf(d) \cup dying[d])' = SubsOf(d) \cup dying[d]
           /\ IF connClosed[c]
              THEN closing'[c] = closing[c] /\ dying'[c] = dying[c]
              ELSE closing'[c] = thread /\ dying'[c] = SubsOf(c)
<1>1. CASE connClosed[c]
  BY <1>1 DEF CloseBegins, SubsOf
<1>2. CASE ~connClosed[c]
  <2>1. /\ connClosed' = [connClosed EXCEPT ![c] = TRUE]
        /\ dying' = [dying EXCEPT ![c] = SubsOf(c)]
        /\ subs' = [subs EXCEPT ![c] = [t \in Topics |-> NoSub]]
        /\ closing' = [closing EXCEPT ![c] = thread]
    BY <1>2 DEF CloseBegins, ToClose
  <2>2. /\ connClosed'[c] /\ closing'[c] = thread /\ dying'[c] = SubsOf(c)
        /\ \A d \in Conns : d # c => /\ connClosed'[d] = connClosed[d] /\ subs'[d] = subs[d]
                                     /\ closing'[d] = closing[d] /\ dying'[d] = dying[d]
        /\ \A t \in Topics : subs'[c][t] = NoSub
    BY <2>1 DEF Types, ConnTypes
  <2>3. dying[c] = {} /\ SubsOf(c)' = {}
    BY <1>2, <2>2 DEF ClosingInv, SubsOf
  <2>4. \A d \in Conns : d # c => SubsOf(d)' = SubsOf(d)
    BY <2>2 DEF SubsOf
  <2> QED
    BY <1>2, <2>2, <2>3, <2>4
<1> QED
  BY <1>1, <1>2

LEMMA ClosingStep ==
    ASSUME Types, ConnTypes, ClosingInv, Next PROVE ClosingInv'
<1> USE DEF ClosingInv
<1>1. ASSUME NEW c \in Conns, NEW thread \in {"serve", "closer", "graceful"},
             CloseBegins(c, thread), UNCHANGED draining, UNCHANGED closed, UNCHANGED closer,
             \A d \in Conns : graceful'[d] = graceful[d] \/ d = c
      PROVE  ClosingInv'
  BY <1>1, CloseBeginsIs
<1>2. ASSUME NEW c \in Conns, AbortClose(c) \/ ServerCloseConn(c) PROVE ClosingInv'
  BY <1>1, <1>2 DEF AbortClose, ServerCloseConn, serverVars, closerVars, shutdownVars
<1>3. ASSUME NEW c \in Conns, DrainTimeout(c) PROVE ClosingInv'
  <2>1. \A d \in Conns : graceful'[d] = graceful[d] \/ d = c
    BY <1>3 DEF DrainTimeout, Drains, Types
  <2> QED
    BY <1>1, <1>3, <2>1 DEF DrainTimeout, serverVars, closerVars
<1>4. ASSUME NEW c \in Conns, CloseSub(c) PROVE ClosingInv'
  <2>1. /\ closing[c] # "none" /\ UNCHANGED closing /\ UNCHANGED connClosed
        /\ UNCHANGED graceful /\ UNCHANGED draining /\ UNCHANGED closed /\ UNCHANGED closer
        /\ \A d \in Conns : d # c => dying'[d] = dying[d]
    BY <1>4 DEF CloseSub, serverVars, closerVars, shutdownVars, ConnTypes
  <2> QED
    BY <2>1
<1>5. ASSUME NEW c \in Conns, CloseNet(c) PROVE ClosingInv'
  <2>1. /\ dying[c] = {} /\ UNCHANGED dying /\ UNCHANGED connClosed /\ UNCHANGED graceful
        /\ UNCHANGED draining /\ UNCHANGED closed /\ UNCHANGED closer
        /\ closing'[c] = "none" /\ \A d \in Conns : d # c => closing'[d] = closing[d]
    BY <1>5 DEF CloseNet, serverVars, closerVars, shutdownVars, Types
  <2> QED
    BY <2>1
<1>6. ASSUME NEW c \in Conns, closeTransport(c) PROVE ClosingInv'
  <2>1. /\ UNCHANGED dying /\ UNCHANGED closing /\ UNCHANGED draining /\ UNCHANGED closed
        /\ UNCHANGED closer /\ connClosed'[c]
        /\ \A d \in Conns : d # c => /\ connClosed'[d] = connClosed[d]
                                     /\ graceful'[d] = graceful[d]
    BY <1>6 DEF closeTransport, Drains, serverVars, closerVars, Types
  <2> QED
    BY <2>1
<1>7. ASSUME NEW c \in Conns, \/ DrainBegin(c) \/ DrainClosed(c) \/ DrainLock(c)
                              \/ DrainWaits(c) \/ DrainNotify(c) \/ ShutdownConn(c)
      PROVE  ClosingInv'
  <2>1. /\ UNCHANGED dying /\ UNCHANGED closing /\ UNCHANGED draining /\ UNCHANGED closed
        /\ UNCHANGED closer /\ UNCHANGED connClosed
    BY <1>7 DEF DrainBegin, DrainClosed, DrainLock, DrainWaits, DrainNotify, ShutdownConn,
                serverVars, connVars, closerVars
  <2>2. \E p \in Drainings : /\ graceful' = [graceful EXCEPT ![c] = p]
                             /\ p \in {"closing", "returned"} => connClosed[c]
    <3>1. graceful[c] = "closing" => connClosed[c]
      OBVIOUS
    <3> HIDE DEF ClosingInv
    <3> QED
      BY <1>7, <3>1 DEF DrainBegin, DrainClosed, DrainLock, DrainWaits, DrainNotify,
                        ShutdownConn, Drains, Drainings
  <2> QED
    BY <2>1, <2>2 DEF Types
<1>8. CASE ServerClose \/ ServerCloseWaits \/ GracefulShutdown
  <2>1. UNCHANGED dying /\ UNCHANGED closing /\ UNCHANGED connClosed /\ UNCHANGED graceful
    BY <1>8 DEF ServerClose, ServerCloseWaits, GracefulShutdown, connVars, shutdownVars
  <2>2. /\ draining' => closed'
        /\ closer' = "closing" => closed' /\ ~draining'
    BY <1>8 DEF ServerClose, ServerCloseWaits, GracefulShutdown, closerVars, serverVars, Types
  <2> QED
    BY <2>1, <2>2
<1> DEFINE Same == /\ UNCHANGED dying /\ UNCHANGED closing /\ UNCHANGED connClosed
                   /\ UNCHANGED graceful /\ UNCHANGED draining /\ UNCHANGED closed
                   /\ UNCHANGED closer
<1>9. Same => ClosingInv'
  OBVIOUS
<1> HIDE DEF ClosingInv
<1>10. ASSUME NEW c \in Conns, \/ Accept(c) \/ Register(c) \/ Connect(c) \/ SubscribeLock(c)
                               \/ SubscribeRefused(c) \/ SubscribeInstall(c) \/ PublishRoute(c)
                               \/ PublishDone(c) \/ ReadFails(c) \/ Abort(c)
                               \/ UnsubscribeClose(c)
       PROVE  Same
  BY <1>10 DEF Accept, Register, Connect, SubscribeLock, SubscribeRefused, SubscribeInstall,
               UnsubscribeClose, PublishRoute, PublishDone, ReadFails, Abort, serverVars,
               connVars, closerVars, shutdownVars
<1>11. ASSUME NEW c \in Conns,
              \/ removeConnection(c) \/ Disconnect(c) \/ ClientStops(c) \/ DrainClose(c)
              \/ \E s \in Subs : SubscribeRegister(c, s) \/ Enqueue(c, s) \/ DrainEmpty(c, s)
              \/ \E t \in Topics : ReadSubscribe(c, t) \/ ReadUnsubscribe(c, t) \/ ReadPublish(c, t)
       PROVE  Same
  BY <1>11 DEF removeConnection, Disconnect, ClientStops, DrainClose, SubscribeRegister, Enqueue,
               DrainEmpty, ReadSubscribe, ReadUnsubscribe, ReadPublish, serverVars, connVars,
               closerVars, shutdownVars
<1>12. ASSUME NEW s \in Subs, DeliveryStep(s) PROVE Same
  BY <1>12 DEF DeliveryStep, Take, Delivered, DeliveryFails, RangeEnds, serverVars, connVars,
               closerVars, shutdownVars
<1>13. CASE ShutdownBroker \/ ShutdownWaits \/ BrokerClose \/ ShutdownTimeout
  BY <1>9, <1>13 DEF ShutdownBroker, ShutdownWaits, BrokerClose, ShutdownTimeout, serverVars,
                     connVars, closerVars, shutdownVars
<1> HIDE DEF Same
<1> QED
  BY <1>2, <1>3, <1>4, <1>5, <1>6, <1>7, <1>8, <1>9, <1>10, <1>11, <1>12, <1>13 DEF Next,
     ServeStep, CloserStep, GracefulStep, ShutdownStep

-----------------------------------------------------------------------------
(* Whose turn it is *)

LEMMA TurnInit == Init => LeavingInv /\ TurnInv
BY DEF Init, LeavingInv, TurnInv

\* The steps of the serve goroutine that take no lock and no subscription.
Ordinary(c) ==
    \/ Accept(c) \/ Register(c) \/ Connect(c) \/ PublishRoute(c) \/ PublishDone(c)
    \/ ReadFails(c) \/ Abort(c) \/ AbortClose(c) \/ removeConnection(c)
    \/ \E s \in Subs : SubscribeRegister(c, s) \/ Enqueue(c, s)
    \/ \E t \in Topics : ReadSubscribe(c, t) \/ ReadPublish(c, t)

Locking(c) == SubscribeLock(c) \/ SubscribeRefused(c) \/ SubscribeInstall(c)

Leaves(c) == UnsubscribeClose(c) \/ \E t \in Topics : ReadUnsubscribe(c, t)

LEMMA OrdinaryIs ==
    ASSUME Types, NEW c \in Conns, Ordinary(c)
    PROVE  /\ UNCHANGED deliveryMu /\ UNCHANGED leaving /\ UNCHANGED graceful
           /\ UNCHANGED shutdown /\ UNCHANGED shutdownTodo /\ UNCHANGED brokerDown
           /\ \A d \in Conns :
                /\ serve'[d] = "unsubscribe" <=> serve[d] = "unsubscribe"
                /\ serve'[d] \in {"register", "install"} => serve[d] \in {"register", "install"}
<1>1. /\ UNCHANGED deliveryMu /\ UNCHANGED leaving /\ UNCHANGED graceful
      /\ UNCHANGED shutdown /\ UNCHANGED shutdownTodo /\ UNCHANGED brokerDown
  BY DEF Ordinary, Accept, Register, Connect, PublishRoute, PublishDone, ReadFails, Abort,
         AbortClose, removeConnection, SubscribeRegister, Enqueue, ReadSubscribe, ReadPublish,
         connVars, brokerVars, shutdownVars
<1>2. \/ UNCHANGED serve
      \/ \E p \in Places : /\ serve' = [serve EXCEPT ![c] = p]
                           /\ p # "unsubscribe" /\ serve[c] # "unsubscribe"
                           /\ p \in {"register", "install"} => serve[c] \in {"register", "install"}
  BY DEF Ordinary, Accept, Register, Connect, PublishRoute, PublishDone, ReadFails, Abort,
         AbortClose, removeConnection, SubscribeRegister, Enqueue, ReadSubscribe, ReadPublish,
         Goes, Places, Gone, Running
<1> QED
  BY <1>1, <1>2 DEF Types

\* The steps of everybody else.
Foreign ==
    \/ \E c \in Conns : \/ CloseSub(c) \/ CloseNet(c) \/ Disconnect(c) \/ ClientStops(c)
                        \/ ShutdownConn(c) \/ ServerCloseConn(c) \/ GracefulStep(c)
    \/ \E s \in Subs : DeliveryStep(s)
    \/ ServerClose \/ ServerCloseWaits \/ GracefulShutdown \/ ShutdownBroker
    \/ ShutdownWaits \/ BrokerClose \/ ShutdownTimeout

LEMMA ForeignIs == ASSUME Foreign PROVE UNCHANGED serve /\ UNCHANGED leaving
<1>1. ASSUME NEW c \in Conns, \/ CloseSub(c) \/ CloseNet(c) \/ Disconnect(c) \/ ClientStops(c)
                              \/ ShutdownConn(c) \/ ServerCloseConn(c) \/ GracefulStep(c)
      PROVE  UNCHANGED serve /\ UNCHANGED leaving
  BY <1>1 DEF CloseSub, CloseNet, Disconnect, ClientStops, ShutdownConn, ServerCloseConn,
              GracefulStep, DrainBegin, DrainEmpty, DrainClose, DrainTimeout, DrainClosed,
              DrainLock, DrainWaits, DrainNotify, closeTransport, serveVars, connVars
<1>2. CASE \/ \E s \in Subs : DeliveryStep(s)
           \/ ServerClose \/ ServerCloseWaits \/ GracefulShutdown \/ ShutdownBroker
           \/ ShutdownWaits \/ BrokerClose \/ ShutdownTimeout
  BY <1>2 DEF DeliveryStep, Take, Delivered, DeliveryFails, RangeEnds, ServerClose,
              ServerCloseWaits, GracefulShutdown, ShutdownBroker, ShutdownWaits, BrokerClose,
              ShutdownTimeout, serveVars, connVars
<1> QED
  BY <1>1, <1>2 DEF Foreign

LEMMA NextSplit ==
    ASSUME Next
    PROVE  Foreign \/ \E c \in Conns : Ordinary(c) \/ Locking(c) \/ Leaves(c)
BY DEF Next, ServeStep, CloserStep, ShutdownStep, Foreign, Ordinary, Locking, Leaves

LEMMA LeavingStep ==
    ASSUME Types, ConnTypes, LeavingInv, Next PROVE LeavingInv'
<1>1. ASSUME UNCHANGED leaving,
             \A d \in Conns : serve'[d] = "unsubscribe" <=> serve[d] = "unsubscribe"
      PROVE  LeavingInv'
  BY <1>1 DEF LeavingInv
<1>2. ASSUME NEW c \in Conns, Locking(c) PROVE LeavingInv'
  <2>1. UNCHANGED leaving /\ serve[c] # "unsubscribe"
    BY <1>2 DEF Locking, SubscribeLock, SubscribeRefused, SubscribeInstall
  <2>2. serve' = [serve EXCEPT ![c] = "read"] \/ serve' = [serve EXCEPT ![c] = "register"]
    BY <1>2 DEF Locking, SubscribeLock, SubscribeRefused, SubscribeInstall, Goes
  <2> QED
    BY <1>1, <2>1, <2>2 DEF Types
<1>3. ASSUME NEW c \in Conns, Leaves(c) PROVE LeavingInv'
  <2>1. /\ leaving'[c] # NoSub <=> serve'[c] = "unsubscribe"
        /\ \A d \in Conns : d # c => leaving'[d] = leaving[d] /\ serve'[d] = serve[d]
    BY <1>3 DEF Leaves, UnsubscribeClose, ReadUnsubscribe, Goes, Types, ConnTypes
  <2> QED
    BY <2>1 DEF LeavingInv
<1> QED
  BY <1>1, <1>2, <1>3, NextSplit, OrdinaryIs, ForeignIs

LEMMA TurnServe ==
    ASSUME Types, ConnTypes, TurnInv, NEW c \in Conns, Ordinary(c) \/ Locking(c) \/ Leaves(c)
    PROVE  TurnInv'
<1>1. /\ UNCHANGED graceful /\ UNCHANGED shutdown /\ UNCHANGED shutdownTodo
      /\ UNCHANGED brokerDown
  BY OrdinaryIs DEF Locking, Leaves, SubscribeLock, SubscribeRefused, SubscribeInstall,
                    UnsubscribeClose, ReadUnsubscribe, brokerVars, shutdownVars
<1>2. ASSUME UNCHANGED deliveryMu,
             \A d \in Conns : serve'[d] \in {"register", "install"} =>
                                  serve[d] \in {"register", "install"}
      PROVE  TurnInv'
  BY <1>1, <1>2 DEF TurnInv
<1>3. CASE Leaves(c)
  <2>1. /\ UNCHANGED deliveryMu
        /\ \E p \in {"read", "unsubscribe"} : serve' = [serve EXCEPT ![c] = p]
    BY <1>3 DEF Leaves, UnsubscribeClose, ReadUnsubscribe, Goes
  <2> QED
    BY <1>2, <2>1 DEF Types
<1>4. CASE Locking(c)
  <2>1. \/ UNCHANGED deliveryMu /\ serve' = [serve EXCEPT ![c] = "read"]
        \/ /\ deliveryMu[c] = "free" /\ deliveryMu' = [deliveryMu EXCEPT ![c] = "serve"]
           /\ serve' = [serve EXCEPT ![c] = "register"]
        \/ /\ serve[c] \in {"register", "install"}
           /\ deliveryMu' = [deliveryMu EXCEPT ![c] = "free"]
           /\ serve' = [serve EXCEPT ![c] = "read"]
    BY <1>4 DEF Locking, SubscribeLock, SubscribeRefused, SubscribeInstall, Goes
  <2>2. /\ \A d \in Conns : d # c => deliveryMu'[d] = deliveryMu[d] /\ serve'[d] = serve[d]
        /\ serve'[c] \in {"register", "install"} => deliveryMu'[c] = "serve"
        /\ graceful[c] = "wait" => deliveryMu'[c] = "graceful"
    BY <2>1 DEF Types, ConnTypes, TurnInv
  <2> QED
    BY <1>1, <2>2 DEF TurnInv
<1> QED
  BY <1>2, <1>3, <1>4, OrdinaryIs

LEMMA TurnForeign ==
    ASSUME Types, ConnTypes, CloseInv, ClosingInv, TurnInv, Foreign
    PROVE  TurnInv'
<1>0. UNCHANGED serve
  BY ForeignIs
<1>1. ASSUME UNCHANGED deliveryMu, UNCHANGED graceful, UNCHANGED shutdownTodo,
             brokerDown => brokerDown', shutdown' = "draining" => shutdown = "draining" \/ brokerDown'
      PROVE  TurnInv'
  BY <1>0, <1>1 DEF TurnInv
<1>2. ASSUME NEW c \in Conns, \/ CloseSub(c) \/ CloseNet(c) \/ Disconnect(c) \/ ClientStops(c)
                              \/ ServerCloseConn(c) \/ DrainClose(c)
                              \/ \E s \in Subs : DrainEmpty(c, s)
      PROVE  TurnInv'
  BY <1>1, <1>2 DEF CloseSub, CloseNet, Disconnect, ClientStops, ServerCloseConn, DrainClose,
                    DrainEmpty, connVars, brokerVars, shutdownVars
<1>3. CASE \/ \E s \in Subs : DeliveryStep(s)
           \/ ServerClose \/ ServerCloseWaits \/ ShutdownBroker
           \/ ShutdownWaits \/ BrokerClose \/ ShutdownTimeout
  BY <1>1, <1>3 DEF DeliveryStep, Take, Delivered, DeliveryFails, RangeEnds, ServerClose,
                    ServerCloseWaits, ShutdownBroker, ShutdownWaits, BrokerClose,
                    ShutdownTimeout, connVars, brokerVars, shutdownVars
<1>4. CASE GracefulShutdown
  <2>1. /\ UNCHANGED deliveryMu /\ UNCHANGED graceful /\ UNCHANGED brokerDown
        /\ shutdown' # "draining"
        /\ \/ UNCHANGED shutdownTodo
           \/ ~closed
    BY <1>4 DEF GracefulShutdown, connVars, brokerVars
  <2>2. CASE UNCHANGED shutdownTodo
    BY <1>1, <2>1, <2>2
  <2>3. CASE ~closed
    <3>1. \A c \in Conns : graceful[c] = "none"
      BY <2>3 DEF CloseInv, ShutdownInv, ClosingInv
    <3> QED
      BY <1>0, <2>1, <3>1 DEF TurnInv
  <2> QED
    BY <2>1, <2>2, <2>3
<1>5. ASSUME NEW c \in Conns, ShutdownConn(c) PROVE TurnInv'
  <2>1. /\ UNCHANGED deliveryMu /\ UNCHANGED brokerDown /\ UNCHANGED shutdown
        /\ shutdown = "draining" /\ shutdownTodo' = shutdownTodo \ {c}
        /\ graceful'[c] = "start" /\ \A d \in Conns : d # c => graceful'[d] = graceful[d]
    BY <1>5 DEF ShutdownConn, brokerVars, Types
  <2> QED
    BY <1>0, <2>1 DEF TurnInv
<1>6. ASSUME NEW c \in Conns, \/ DrainBegin(c) \/ DrainTimeout(c) \/ DrainClosed(c)
                              \/ DrainLock(c) \/ DrainWaits(c) \/ DrainNotify(c)
                              \/ closeTransport(c)
      PROVE  TurnInv'
  <2>1. UNCHANGED brokerDown /\ UNCHANGED shutdown /\ UNCHANGED shutdownTodo
    BY <1>6 DEF DrainBegin, DrainTimeout, DrainClosed, DrainLock, DrainWaits, DrainNotify,
                closeTransport, brokerVars
  <2>2. /\ graceful[c] # "none"
        /\ \E p \in Drainings :
               /\ graceful' = [graceful EXCEPT ![c] = p]
               /\ \/ UNCHANGED deliveryMu /\ p # "wait"
                  \/ /\ deliveryMu[c] = "free" /\ p = "wait"
                     /\ deliveryMu' = [deliveryMu EXCEPT ![c] = "graceful"]
                  \/ /\ graceful[c] = "wait" /\ p = "notify"
                     /\ deliveryMu' = [deliveryMu EXCEPT ![c] = "free"]
    BY <1>6 DEF DrainBegin, DrainTimeout, DrainClosed, DrainLock, DrainWaits, DrainNotify,
                closeTransport, Drains, Drainings, connVars
  <2>3. /\ \A d \in Conns : d # c => graceful'[d] = graceful[d] /\ deliveryMu'[d] = deliveryMu[d]
        /\ serve[c] \in {"register", "install"} => deliveryMu'[c] = "serve"
        /\ graceful'[c] = "wait" => deliveryMu'[c] = "graceful"
    BY <2>2 DEF Types, ConnTypes, TurnInv
  <2> QED
    BY <1>0, <2>1, <2>2, <2>3 DEF TurnInv
<1> QED
  BY <1>2, <1>3, <1>4, <1>5, <1>6 DEF Foreign, GracefulStep

LEMMA TurnStep ==
    ASSUME Types, ConnTypes, CloseInv, ClosingInv, TurnInv, Next PROVE TurnInv'
BY NextSplit, TurnServe, TurnForeign

-----------------------------------------------------------------------------
(* Who holds a subscription *)

LEMMA SubsInit == Init => SubsInv
BY DEF Init, SubsInv, InstallInv, HeldInv, OwnedInv, EndedInv, Uninstalled, Held, Kept, SubsOf, NoSub

LEMMA HeldSubs ==
    ASSUME ConnTypes, RunTypes PROVE \A c \in Conns : Held(c) \subseteq Subs
BY DEF Held, Kept, SubsOf, ConnTypes, RunTypes

\* Subscriptions are at most closed, and nobody who holds an open one drops it.
LEMMA SubsSame ==
    ASSUME SubsInv, UNCHANGED connOf, UNCHANGED goroutine, UNCHANGED failed,
           \A c \in Conns : serve'[c] = "install" <=> serve[c] = "install",
           \A s \in Subs : \/ state'[s] = state[s]
                           \/ state'[s] = "closed" /\ state[s] # "absent",
           \A s \in Subs : state[s] = "open" \/ queue'[s] = queue[s],
           \A c \in Conns : Held(c)' \subseteq Held(c),
           \A c \in Conns : \A s \in Kept(c) : state'[s] = "open" => s \in Kept(c)'
    PROVE  SubsInv'
<1>1. InstallInv'
  BY DEF SubsInv, InstallInv, Uninstalled
<1>2. HeldInv'
  BY DEF SubsInv, HeldInv
<1>3. OwnedInv'
  <2> SUFFICES ASSUME NEW s \in Subs, state'[s] = "open", goroutine'[s] # "absent"
               PROVE  s \in Kept(connOf[s])'
    BY DEF OwnedInv
  <2>1. state[s] = "open" /\ goroutine[s] # "absent" /\ connOf[s] \in Conns
    BY DEF SubsInv, InstallInv
  <2>2. s \in Kept(connOf[s])
    BY <2>1 DEF SubsInv, OwnedInv
  <2>3. PICK c \in Conns : c = connOf[s]
    BY <2>1
  <2>4. s \in Kept(c)'
    BY <2>2, <2>3
  <2> QED
    BY <2>3, <2>4 DEF Kept, SubsOf
<1>4. EndedInv'
  BY DEF SubsInv, EndedInv
<1> QED
  BY <1>1, <1>2, <1>3, <1>4 DEF SubsInv

SubFrame ==
    /\ UNCHANGED state /\ UNCHANGED connOf /\ UNCHANGED queue /\ UNCHANGED goroutine
    /\ UNCHANGED failed /\ UNCHANGED subs /\ UNCHANGED dying /\ UNCHANGED drainTodo
    /\ UNCHANGED drainAt /\ UNCHANGED leaving

LEMMA SubsFrame ==
    ASSUME SubsInv, SubFrame, \A c \in Conns : serve'[c] = "install" <=> serve[c] = "install"
    PROVE  SubsInv'
<1>1. \A c \in Conns : Kept(c)' = Kept(c) /\ Held(c)' = Held(c)
  BY DEF SubFrame, SubsOf, Held, Kept
<1> QED
  BY <1>1, SubsSame DEF SubFrame

\* The steps that leave every subscription alone.
ServeAlone(c) ==
    \/ Accept(c) \/ Register(c) \/ Connect(c) \/ SubscribeLock(c) \/ SubscribeRefused(c)
    \/ PublishRoute(c) \/ PublishDone(c) \/ ReadFails(c) \/ Abort(c) \/ removeConnection(c)
    \/ \E t \in Topics : ReadSubscribe(c, t) \/ ReadPublish(c, t)

OtherAlone ==
    \/ \E c \in Conns : \/ CloseNet(c) \/ Disconnect(c) \/ ClientStops(c) \/ ShutdownConn(c)
                        \/ DrainClosed(c) \/ DrainLock(c) \/ DrainWaits(c) \/ DrainNotify(c)
                        \/ closeTransport(c)
    \/ ServerClose \/ ServerCloseWaits \/ GracefulShutdown \/ ShutdownBroker \/ ShutdownWaits
    \/ ShutdownTimeout

LEMMA ServeAloneIs ==
    ASSUME Types, NEW c \in Conns, ServeAlone(c)
    PROVE  /\ SubFrame
           /\ \A d \in Conns : serve'[d] = "install" <=> serve[d] = "install"
<1>1. SubFrame
  BY DEF ServeAlone, Accept, Register, Connect, SubscribeLock, SubscribeRefused, PublishRoute,
         PublishDone, ReadFails, Abort, removeConnection, ReadSubscribe, ReadPublish, SubFrame,
         subVars, connVars, shutdownVars
<1>2. /\ serve[c] # "install"
      /\ \/ UNCHANGED serve
         \/ \E p \in Places : p # "install" /\ serve' = [serve EXCEPT ![c] = p]
  BY DEF ServeAlone, Accept, Register, Connect, SubscribeLock, SubscribeRefused, PublishRoute,
         PublishDone, ReadFails, Abort, removeConnection, ReadSubscribe, ReadPublish, Goes,
         Places, Gone, Running
<1> QED
  BY <1>1, <1>2 DEF Types

LEMMA OtherAloneIs == ASSUME OtherAlone PROVE SubFrame /\ UNCHANGED serve
<1>1. ASSUME NEW c \in Conns, \/ CloseNet(c) \/ Disconnect(c) \/ ClientStops(c)
                              \/ ShutdownConn(c) \/ DrainClosed(c) \/ DrainLock(c)
                              \/ DrainWaits(c) \/ DrainNotify(c) \/ closeTransport(c)
      PROVE  SubFrame /\ UNCHANGED serve
  BY <1>1 DEF CloseNet, Disconnect, ClientStops, ShutdownConn, DrainClosed, DrainLock,
              DrainWaits, DrainNotify, closeTransport, SubFrame, serveVars, subVars, connVars,
              shutdownVars
<1>2. CASE \/ ServerClose \/ ServerCloseWaits \/ GracefulShutdown \/ ShutdownBroker
           \/ ShutdownWaits \/ ShutdownTimeout
  BY <1>2 DEF ServerClose, ServerCloseWaits, GracefulShutdown, ShutdownBroker, ShutdownWaits,
              ShutdownTimeout, SubFrame, serveVars, subVars, connVars, shutdownVars
<1> QED
  BY <1>1, <1>2 DEF OtherAlone

\* Broker.Subscribe makes a subscription that only the serve goroutine knows.
LEMMA RegisterStep ==
    ASSUME Types, SubTypes, ConnTypes, RunTypes, SubsInv, NEW c \in Conns, NEW s \in Subs,
           SubscribeRegister(c, s)
    PROVE  SubsInv'
<1>1. /\ serve[c] = "register" /\ serve'[c] = "install"
      /\ \A d \in Conns : d # c => serve'[d] = serve[d]
      /\ state[s] = "absent" /\ state'[s] = "open" /\ connOf'[s] = c
      /\ \A r \in Subs : r # s => /\ state'[r] = state[r] /\ connOf'[r] = connOf[r]
                                  /\ queue'[r] = queue[r]
      /\ UNCHANGED goroutine /\ UNCHANGED failed /\ UNCHANGED subs /\ UNCHANGED dying
      /\ UNCHANGED drainTodo /\ UNCHANGED drainAt /\ UNCHANGED leaving
  BY DEF SubscribeRegister, Goes, connVars, shutdownVars, Types, SubTypes
<1>2. goroutine[s] = "absent"
  BY <1>1 DEF SubsInv, InstallInv
<1>3. \A r \in Subs : Uninstalled(r) => connOf[r] # c
  BY <1>1 DEF SubsInv, InstallInv
<1>4. InstallInv'
  <2>1. \A r \in Subs : Uninstalled(r)' <=> r = s \/ Uninstalled(r)
    BY <1>1, <1>2 DEF Uninstalled
  <2>2. \A d \in Conns : serve'[d] = "install" => \E r \in Subs : Uninstalled(r)' /\ connOf'[r] = d
    <3> SUFFICES ASSUME NEW d \in Conns, serve'[d] = "install"
                 PROVE  \E r \in Subs : Uninstalled(r)' /\ connOf'[r] = d
      OBVIOUS
    <3>1. CASE d = c
      BY <1>1, <2>1, <3>1
    <3>2. CASE d # c
      <4>1. PICK r \in Subs : Uninstalled(r) /\ connOf[r] = d
        BY <1>1, <3>2 DEF SubsInv, InstallInv
      <4>2. r # s
        BY <1>1, <4>1 DEF Uninstalled
      <4> QED
        BY <1>1, <2>1, <4>1, <4>2
    <3> QED
      BY <3>1, <3>2
  <2>3. \A r \in Subs : Uninstalled(r)' => serve'[connOf'[r]] = "install"
    <3> SUFFICES ASSUME NEW r \in Subs, Uninstalled(r)' PROVE serve'[connOf'[r]] = "install"
      OBVIOUS
    <3>1. CASE r = s
      BY <1>1, <3>1
    <3>2. CASE r # s
      <4>1. Uninstalled(r) /\ connOf'[r] = connOf[r] /\ connOf[r] \in Conns
        BY <1>1, <2>1, <3>2 DEF SubsInv, InstallInv, Uninstalled
      <4> QED
        BY <1>1, <1>3, <4>1 DEF SubsInv, InstallInv
    <3> QED
      BY <3>1, <3>2
  <2>4. \A r, q \in Subs : Uninstalled(r)' /\ Uninstalled(q)' /\ connOf'[r] = connOf'[q] => r = q
    BY <1>1, <1>3, <2>1 DEF SubsInv, InstallInv
  <2>5. \A r \in Subs : IF state'[r] = "absent" THEN goroutine'[r] = "absent"
                                                ELSE connOf'[r] \in Conns
    BY <1>1 DEF SubsInv, InstallInv
  <2> QED
    BY <2>2, <2>3, <2>4, <2>5 DEF InstallInv
<1>5. HeldInv'
  <2>1. \A d \in Conns : Held(d)' = Held(d)
    BY <1>1 DEF Held, Kept, SubsOf
  <2> QED
    BY <1>1, <1>2, <2>1, HeldSubs DEF SubsInv, HeldInv
<1>6. OwnedInv'
  <2>1. \A r \in Subs : r # s => connOf'[r] = connOf[r]
    BY <1>1
  <2>2. \A r \in Subs : goroutine'[r] # "absent" => r # s
    BY <1>1, <1>2
  <2> QED
    BY <1>1, <2>1, <2>2 DEF SubsInv, OwnedInv, Kept, SubsOf
<1>7. EndedInv'
  BY <1>1, <1>2 DEF SubsInv, EndedInv
<1> QED
  BY <1>4, <1>5, <1>6, <1>7 DEF SubsInv

\* SubscribeInstall starts the goroutine and closes the one that it replaces.
LEMMA InstallStep ==
    ASSUME Types, SubTypes, ConnTypes, RunTypes, SubsInv, NEW c \in Conns, SubscribeInstall(c)
    PROVE  SubsInv'
<1> DEFINE s == Installed(c)
           old == subs[c][topic[c]]
<1>0. serve[c] = "install"
  BY DEF SubscribeInstall
<1>1. /\ s \in Subs /\ Uninstalled(s) /\ connOf[s] = c
      /\ \A r \in Subs : Uninstalled(r) /\ connOf[r] = c => r = s
  BY <1>0, InstalledIs DEF SubsInv
<1> HIDE DEF s
<1>2. /\ CloseSubs({old} \ {NoSub}) /\ subs' = [subs EXCEPT ![c][topic[c]] = s]
      /\ goroutine' = [goroutine EXCEPT ![s] = "range"] /\ serve' = [serve EXCEPT ![c] = "read"]
      /\ UNCHANGED connOf /\ UNCHANGED queue /\ UNCHANGED failed /\ UNCHANGED dying
      /\ UNCHANGED drainTodo /\ UNCHANGED drainAt /\ UNCHANGED leaving
  BY DEF SubscribeInstall, Goes, Installed, shutdownVars, s
<1>3. /\ serve'[c] = "read" /\ \A d \in Conns : d # c => serve'[d] = serve[d]
      /\ goroutine'[s] = "range" /\ \A r \in Subs : r # s => goroutine'[r] = goroutine[r]
      /\ topic[c] \in Topics /\ subs'[c][topic[c]] = s
      /\ \A d \in Conns, t \in Topics : \/ d = c /\ t = topic[c]
                                        \/ subs'[d][t] = subs[d][t]
  BY <1>1, <1>2 DEF Types, SubTypes, ConnTypes
<1>4. old # NoSub => old \in SubsOf(c)
  BY <1>3 DEF SubsOf
<1>5. old # NoSub => connOf[old] = c /\ goroutine[old] # "absent" /\ old # s /\ old \in Subs
  <2>1. old # NoSub => connOf[old] = c /\ goroutine[old] # "absent"
    BY <1>4 DEF SubsInv, HeldInv, Held, Kept
  <2>2. old \in Subs \cup {NoSub}
    BY <1>3 DEF ConnTypes
  <2> QED
    BY <1>1, <2>1, <2>2 DEF Uninstalled
<1>6. \A r \in Subs : \/ state'[r] = state[r]
                      \/ r = old /\ state'[r] = "closed" /\ state[r] # "absent"
  <2>1. \A r \in Subs : state'[r] = IF r \in {old} \ {NoSub} THEN "closed" ELSE state[r]
    BY <1>2 DEF CloseSubs
  <2>2. old # NoSub => state[old] # "absent"
    BY <1>5 DEF SubsInv, InstallInv
  <2> QED
    BY <2>1, <2>2
<1>7. InstallInv'
  <2>1. \A r \in Subs : Uninstalled(r)' <=> Uninstalled(r) /\ r # s
    BY <1>1, <1>3, <1>6 DEF Uninstalled
  <2>2. \A d \in Conns : serve'[d] = "install" => \E r \in Subs : Uninstalled(r)' /\ connOf'[r] = d
    BY <1>1, <1>2, <1>3, <2>1 DEF SubsInv, InstallInv
  <2>3. \A r \in Subs : Uninstalled(r)' => serve'[connOf'[r]] = "install"
    <3> SUFFICES ASSUME NEW r \in Subs, Uninstalled(r)' PROVE serve'[connOf[r]] = "install"
      BY <1>2
    <3>1. Uninstalled(r) /\ connOf[r] # c
      BY <1>1, <2>1
    <3>2. connOf[r] \in Conns /\ serve[connOf[r]] = "install"
      BY <3>1 DEF SubsInv, InstallInv, Uninstalled
    <3> QED
      BY <1>3, <3>1, <3>2
  <2>4. \A r, q \in Subs : Uninstalled(r)' /\ Uninstalled(q)' /\ connOf'[r] = connOf'[q] => r = q
    BY <1>2, <2>1 DEF SubsInv, InstallInv
  <2>5. \A r \in Subs : IF state'[r] = "absent" THEN goroutine'[r] = "absent"
                                                ELSE connOf'[r] \in Conns
    BY <1>1, <1>2, <1>3, <1>6 DEF SubsInv, InstallInv, Uninstalled
  <2> QED
    BY <2>2, <2>3, <2>4, <2>5 DEF InstallInv
<1>8. \A d \in Conns : Held(d)' \subseteq Held(d) \cup (IF d = c THEN {s} ELSE {})
  <2>1. \A d \in Conns : SubsOf(d)' \subseteq SubsOf(d) \cup (IF d = c THEN {s} ELSE {})
    BY <1>3 DEF SubsOf
  <2> QED
    BY <1>2, <2>1 DEF Held, Kept
<1>9. HeldInv'
  <2>1. \A d \in Conns : \A r \in Held(d) : connOf'[r] = d /\ goroutine'[r] # "absent"
    BY <1>2, <1>3, HeldSubs DEF SubsInv, HeldInv
  <2> QED
    BY <1>1, <1>2, <1>3, <1>8, <2>1 DEF HeldInv
<1>10. OwnedInv'
  <2> SUFFICES ASSUME NEW r \in Subs, state'[r] = "open", goroutine'[r] # "absent"
               PROVE  r \in Kept(connOf[r])'
    BY DEF OwnedInv
  <2>0. NoSub \notin Subs
    BY ServerAssumption DEF NoSub, Subs
  <2>1. CASE r = s
    <3>1. r \in SubsOf(c)'
      BY <1>1, <1>3, <2>0, <2>1 DEF SubsOf
    <3> QED
      BY <1>1, <1>2, <2>1, <3>1 DEF Kept, SubsOf
  <2>2. CASE r # s
    <3>1. state[r] = "open" /\ goroutine[r] # "absent" /\ r # old
      <4>1. old # NoSub => state'[old] = "closed"
        BY <1>2, <1>5 DEF CloseSubs
      <4> QED
        BY <1>3, <1>6, <2>0, <2>2, <4>1
    <3>2. connOf[r] \in Conns /\ r \in Kept(connOf[r])
      BY <3>1 DEF SubsInv, InstallInv, OwnedInv
    <3>3. r \in SubsOf(connOf[r]) => r \in SubsOf(connOf[r])'
      <4> SUFFICES ASSUME r \in SubsOf(connOf[r]) PROVE r \in SubsOf(connOf[r])'
        OBVIOUS
      <4>1. PICK t \in Topics : r = subs[connOf[r]][t] /\ r # NoSub
        BY DEF SubsOf
      <4>2. subs'[connOf[r]][t] = r
        BY <1>3, <3>1, <3>2, <4>1
      <4> QED
        BY <1>2, <4>1, <4>2 DEF SubsOf
    <3> QED
      BY <1>2, <3>2, <3>3 DEF Kept
  <2> QED
    BY <2>1, <2>2
<1>11. EndedInv'
  BY <1>2, <1>3, <1>6 DEF SubsInv, EndedInv
<1> QED
  BY <1>7, <1>9, <1>10, <1>11 DEF SubsInv

LEMMA SubsDeliveryStep ==
    ASSUME ConnTypes, SubTypes, RunTypes, SubsInv, NEW s \in Subs, DeliveryStep(s)
    PROVE  SubsInv'
<1>1. /\ UNCHANGED serve /\ UNCHANGED state /\ UNCHANGED connOf /\ UNCHANGED subs
      /\ UNCHANGED dying /\ UNCHANGED leaving /\ UNCHANGED drainTodo /\ UNCHANGED drainAt
  BY DEF DeliveryStep, Take, Delivered, DeliveryFails, RangeEnds, serveVars, connVars,
         shutdownVars
<1>2. /\ goroutine[s] # "absent" /\ goroutine'[s] # "absent"
      /\ \A r \in Subs : r # s => /\ goroutine'[r] = goroutine[r] /\ queue'[r] = queue[r]
                                  /\ failed'[r] = failed[r]
  BY DEF DeliveryStep, Take, Delivered, DeliveryFails, RangeEnds, Runs, SubTypes
<1>3. goroutine'[s] = "returned" => failed'[s] \/ (state[s] = "closed" /\ queue'[s] = 0)
  BY DEF DeliveryStep, Take, Delivered, DeliveryFails, RangeEnds, Runs, SubTypes
<1>4. \A r \in Subs : goroutine'[r] = "absent" <=> goroutine[r] = "absent"
  BY <1>2
<1>5. InstallInv'
  BY <1>1, <1>4 DEF SubsInv, InstallInv, Uninstalled
<1>6. HeldInv'
  <2>1. \A c \in Conns : Held(c)' = Held(c)
    BY <1>1 DEF Held, Kept, SubsOf
  <2> QED
    BY <1>1, <1>4, <2>1, HeldSubs DEF SubsInv, HeldInv
<1>7. OwnedInv'
  BY <1>1, <1>4 DEF SubsInv, OwnedInv, Kept, SubsOf
<1>8. EndedInv'
  BY <1>1, <1>2, <1>3 DEF SubsInv, EndedInv
<1> QED
  BY <1>5, <1>6, <1>7, <1>8 DEF SubsInv

\* Closing a subscription that a connection holds.
LEMMA HeldCloses ==
    ASSUME SubsInv, NEW c \in Conns, NEW s \in Subs \cap Held(c), CloseSubs({s})
    PROVE  /\ \A r \in Subs : \/ state'[r] = state[r]
                              \/ state'[r] = "closed" /\ state[r] # "absent"
           /\ state'[s] = "closed"
BY DEF CloseSubs, SubsInv, HeldInv, InstallInv

LEMMA SubsCloseStep ==
    ASSUME Types, ConnTypes, SubTypes, RunTypes, ClosingInv, SubsInv, NEW c \in Conns,
           AbortClose(c) \/ ServerCloseConn(c) \/ DrainTimeout(c) \/ CloseSub(c)
    PROVE  SubsInv'
<1>0. /\ UNCHANGED connOf /\ UNCHANGED goroutine /\ UNCHANGED failed /\ UNCHANGED queue
      /\ UNCHANGED drainTodo /\ UNCHANGED drainAt /\ UNCHANGED leaving
      /\ \A d \in Conns : serve'[d] = "install" <=> serve[d] = "install"
  BY DEF AbortClose, ServerCloseConn, DrainTimeout, CloseSub, Goes, subVars, serveVars,
         shutdownVars, Types
<1>1. CASE AbortClose(c) \/ ServerCloseConn(c) \/ DrainTimeout(c)
  <2>1. UNCHANGED state /\ \E thread \in {"serve", "closer", "graceful"} : CloseBegins(c, thread)
    BY <1>1 DEF AbortClose, ServerCloseConn, DrainTimeout, subVars
  <2>2. \A d \in Conns : (SubsOf(d) \cup dying[d])' = SubsOf(d) \cup dying[d]
    BY <2>1, CloseBeginsIs
  <2>3. \A d \in Conns : Kept(d)' = Kept(d)
    BY <1>0, <2>2 DEF Kept
  <2>4. \A d \in Conns : Held(d)' \subseteq Held(d)
    BY <1>0, <2>3 DEF Held
  <2> QED
    BY <1>0, <2>1, <2>3, <2>4, SubsSame
<1>2. CASE CloseSub(c)
  <2>1. PICK s \in dying[c] : CloseSubs({s}) /\ dying' = [dying EXCEPT ![c] = dying[c] \ {s}]
    BY <1>2 DEF CloseSub
  <2>2. s \in Subs \cap Held(c)
    BY <2>1 DEF ConnTypes, Held, Kept
  <2>3. UNCHANGED subs
    BY <1>2 DEF CloseSub
  <2>4. /\ dying'[c] = dying[c] \ {s}
        /\ \A d \in Conns : d # c => dying'[d] = dying[d]
    BY <2>1 DEF ConnTypes
  <2>5. \A d \in Conns : SubsOf(d)' = SubsOf(d)
    BY <2>3 DEF SubsOf
  <2>6. \A d \in Conns : Kept(d)' \subseteq Kept(d) /\ Kept(d) \subseteq Kept(d)' \cup {s}
    BY <1>0, <2>4, <2>5 DEF Kept
  <2>7. \A d \in Conns : Held(d)' \subseteq Held(d)
    BY <1>0, <2>6 DEF Held
  <2>8. \A d \in Conns : \A r \in Kept(d) : state'[r] = "open" => r \in Kept(d)'
    BY <2>1, <2>2, <2>6, HeldCloses
  <2> QED
    BY <1>0, <2>1, <2>2, <2>7, <2>8, HeldCloses, SubsSame
<1> QED
  BY <1>1, <1>2

\* unsubscribe keeps what it takes until it closes it.
LEMMA SubsLeaveStep ==
    ASSUME Types, ConnTypes, SubTypes, RunTypes, LeavingInv, SubsInv, NEW c \in Conns,
           UnsubscribeClose(c) \/ \E t \in Topics : ReadUnsubscribe(c, t)
    PROVE  SubsInv'
<1>0. /\ UNCHANGED connOf /\ UNCHANGED goroutine /\ UNCHANGED failed /\ UNCHANGED queue
      /\ UNCHANGED drainTodo /\ UNCHANGED drainAt /\ UNCHANGED dying
      /\ \A d \in Conns : serve'[d] = "install" <=> serve[d] = "install"
  BY DEF UnsubscribeClose, ReadUnsubscribe, Goes, subVars, shutdownVars, Types
<1>1. ASSUME NEW t \in Topics, ReadUnsubscribe(c, t) PROVE SubsInv'
  <2>1. /\ subs[c][t] # NoSub /\ UNCHANGED state /\ serve[c] = "read"
        /\ subs' = [subs EXCEPT ![c][t] = NoSub]
        /\ leaving' = [leaving EXCEPT ![c] = subs[c][t]]
    BY <1>1 DEF ReadUnsubscribe, subVars
  <2>2. leaving[c] = NoSub
    BY <2>1 DEF LeavingInv
  <2>3. \A d \in Conns, u \in Topics : \/ d = c /\ u = t /\ subs'[d][u] = NoSub
                                       \/ subs'[d][u] = subs[d][u]
    BY <2>1 DEF ConnTypes
  <2>4. /\ leaving'[c] = subs[c][t]
        /\ \A d \in Conns : d # c => leaving'[d] = leaving[d]
    BY <2>1 DEF ConnTypes
  <2>5. \A d \in Conns : SubsOf(d)' \subseteq SubsOf(d)
    BY <2>3 DEF SubsOf
  <2>6. \A d \in Conns : SubsOf(d) \subseteq SubsOf(d)' \cup (IF d = c THEN {subs[c][t]} ELSE {})
    BY <2>3 DEF SubsOf
  <2>7. subs[c][t] \in SubsOf(c)
    BY <2>1 DEF SubsOf
  <2>8. \A d \in Conns : Kept(d)' = Kept(d)
    BY <1>0, <2>1, <2>2, <2>4, <2>5, <2>6, <2>7 DEF Kept
  <2>9. \A d \in Conns : Held(d)' \subseteq Held(d)
    BY <1>0, <2>8 DEF Held
  <2> QED
    BY <1>0, <2>1, <2>8, <2>9, SubsSame
<1>2. CASE UnsubscribeClose(c)
  <2>1. /\ serve[c] = "unsubscribe" /\ CloseSubs({leaving[c]}) /\ UNCHANGED subs
        /\ leaving' = [leaving EXCEPT ![c] = NoSub]
    BY <1>2 DEF UnsubscribeClose
  <2>2. leaving[c] \in Subs \cap Held(c)
    BY <2>1 DEF LeavingInv, ConnTypes, Held, Kept
  <2>3. \A d \in Conns : SubsOf(d)' = SubsOf(d)
    BY <2>1 DEF SubsOf
  <2>4. leaving'[c] = NoSub /\ \A d \in Conns : d # c => leaving'[d] = leaving[d]
    BY <2>1 DEF ConnTypes
  <2>5. \A d \in Conns : Kept(d)' \subseteq Kept(d) /\ Kept(d) \subseteq Kept(d)' \cup {leaving[c]}
    BY <1>0, <2>3, <2>4 DEF Kept
  <2>6. \A d \in Conns : Held(d)' \subseteq Held(d)
    BY <1>0, <2>5 DEF Held
  <2>7. \A d \in Conns : \A r \in Kept(d) : state'[r] = "open" => r \in Kept(d)'
    BY <2>1, <2>2, <2>5, HeldCloses
  <2> QED
    BY <1>0, <2>1, <2>2, <2>6, <2>7, HeldCloses, SubsSame
<1> QED
  BY <1>1, <1>2

LEMMA SubsDrainStep ==
    ASSUME Types, ConnTypes, SubTypes, RunTypes, SubsInv,
           \/ \E c \in Conns : \/ DrainBegin(c) \/ DrainClose(c)
                               \/ \E s \in Subs : DrainEmpty(c, s) \/ Enqueue(c, s)
           \/ BrokerClose
    PROVE  SubsInv'
<1>0. /\ UNCHANGED connOf /\ UNCHANGED goroutine /\ UNCHANGED failed /\ UNCHANGED subs
      /\ UNCHANGED dying /\ UNCHANGED leaving /\ UNCHANGED serve
  BY DEF DrainBegin, DrainClose, DrainEmpty, Enqueue, BrokerClose, subVars, serveVars, connVars
<1>1. \A d \in Conns : Kept(d)' = Kept(d) /\ SubsOf(d) \subseteq Kept(d)
  BY <1>0 DEF Kept, SubsOf
<1>3. ASSUME NEW c \in Conns, DrainBegin(c) PROVE SubsInv'
  <2>1. UNCHANGED state /\ UNCHANGED queue /\ UNCHANGED drainAt
    BY <1>3 DEF DrainBegin, subVars
  <2>2. \A d \in Conns : drainTodo'[d] \subseteq drainTodo[d] \cup SubsOf(d)
    <3>1. drainTodo' = drainTodo \/ drainTodo' = [drainTodo EXCEPT ![c] = SubsOf(c)]
      BY <1>3 DEF DrainBegin
    <3> QED
      BY <3>1 DEF RunTypes
  <2>3. \A d \in Conns : Held(d)' \subseteq Held(d)
    BY <1>0, <1>1, <2>1, <2>2 DEF Held
  <2> QED
    BY <1>0, <1>1, <2>1, <2>3, SubsSame
<1>4. ASSUME NEW c \in Conns, NEW s \in Subs, DrainEmpty(c, s) PROVE SubsInv'
  <2>1. /\ UNCHANGED state /\ UNCHANGED queue /\ UNCHANGED drainTodo
        /\ s \in drainTodo[c] /\ drainAt' = [drainAt EXCEPT ![c] = s]
    BY <1>4 DEF DrainEmpty, subVars
  <2>2. \A d \in Conns : drainAt'[d] = drainAt[d] \/ drainAt'[d] \in drainTodo[d]
    BY <2>1 DEF RunTypes
  <2>3. \A d \in Conns : Held(d)' \subseteq Held(d)
    BY <1>0, <1>1, <2>1, <2>2 DEF Held
  <2> QED
    BY <1>0, <1>1, <2>1, <2>3, SubsSame
<1>5. ASSUME NEW c \in Conns, DrainClose(c) PROVE SubsInv'
  <2>1. /\ UNCHANGED queue /\ drainAt[c] # NoSub /\ CloseSubs({drainAt[c]})
        /\ drainTodo' = [drainTodo EXCEPT ![c] = drainTodo[c] \ {drainAt[c]}]
        /\ drainAt' = [drainAt EXCEPT ![c] = NoSub]
    BY <1>5 DEF DrainClose
  <2>2. drainAt[c] \in Subs \cap Held(c)
    BY <2>1 DEF RunTypes, Held
  <2>3. \A d \in Conns : /\ drainTodo'[d] \subseteq drainTodo[d]
                         /\ drainAt'[d] = drainAt[d] \/ drainAt'[d] = NoSub
    BY <2>1 DEF RunTypes
  <2>4. \A d \in Conns : Held(d)' \subseteq Held(d)
    BY <1>0, <1>1, <2>3 DEF Held
  <2> QED
    BY <1>0, <1>1, <2>1, <2>2, <2>4, HeldCloses, SubsSame
<1>6. ASSUME UNCHANGED drainTodo, UNCHANGED drainAt
      PROVE  \A d \in Conns : Held(d)' \subseteq Held(d)
  BY <1>0, <1>1, <1>6 DEF Held
<1>7. ASSUME NEW c \in Conns, NEW s \in Subs, Enqueue(c, s) PROVE SubsInv'
  <2>1. UNCHANGED state /\ UNCHANGED drainTodo /\ UNCHANGED drainAt
    BY <1>7 DEF Enqueue, shutdownVars
  <2>2. \A r \in Subs : state[r] = "open" \/ queue'[r] = queue[r]
    BY <1>7 DEF Enqueue, SubTypes
  <2> QED
    BY <1>0, <1>1, <1>6, <2>1, <2>2, SubsSame
<1>8. CASE BrokerClose
  <2>1. UNCHANGED drainTodo /\ UNCHANGED drainAt
    BY <1>8 DEF BrokerClose
  <2>2. \A r \in Subs : /\ state[r] = "open" \/ queue'[r] = queue[r]
                        /\ \/ state'[r] = state[r]
                           \/ state'[r] = "closed" /\ state[r] # "absent"
    BY <1>8 DEF BrokerClose, CloseSubs
  <2> QED
    BY <1>0, <1>1, <1>6, <2>1, <2>2, SubsSame
<1> QED
  BY <1>3, <1>4, <1>5, <1>7, <1>8

LEMMA SubsStep ==
    ASSUME Types, ConnTypes, SubTypes, RunTypes, ClosingInv, LeavingInv, SubsInv, Next
    PROVE  SubsInv'
<1>1. ASSUME NEW c \in Conns, ServeAlone(c) PROVE SubsInv'
  BY <1>1, ServeAloneIs, SubsFrame
<1>2. CASE OtherAlone
  BY <1>2, OtherAloneIs, SubsFrame
<1> QED
  BY <1>1, <1>2, RegisterStep, InstallStep, SubsDeliveryStep, SubsCloseStep, SubsLeaveStep,
     SubsDrainStep
     DEF Next, ServeStep, CloserStep, GracefulStep, ShutdownStep, ServeAlone, OtherAlone

-----------------------------------------------------------------------------
(* A client that has heard nothing *)

\* As long as the context has not ended and Server.Close was not called, the
\* connection of a client that is there and was sent neither ERROR nor
\* SHUTDOWN is open and served, or it was never registered.
Served == {"accepted", "connect", "read", "lock", "register", "install", "unsubscribe",
           "publish", "enqueue"}

Unaware(c) == clientUp[c] /\ notice[c] = "none" /\ closer = "idle" /\ ~ctxDone

ToldInv ==
    \A c \in Conns : Unaware(c) =>
        \/ serve[c] = "returned" /\ graceful[c] = "none" /\ c \notin shutdownTodo
        \/ /\ serve[c] \in Served /\ netOpen[c] /\ ~connClosed[c]
           /\ graceful[c] # "closeTransport"

LEMMA ToldInit == Init => ToldInv
BY DEF Init, ToldInv, Unaware

LEMMA ToldServeStep ==
    ASSUME Types, ConnTypes, CloseInv, ClosingInv, ToldInv, NEW c \in Conns,
           \/ Accept(c) \/ Register(c) \/ ServeStep(c)
           \/ \E t \in Topics : ReadSubscribe(c, t) \/ ReadUnsubscribe(c, t) \/ ReadPublish(c, t)
    PROVE  ToldInv'
<1> DEFINE Rest == /\ UNCHANGED closer /\ UNCHANGED ctxDone /\ UNCHANGED graceful
                   /\ UNCHANGED shutdownTodo
           Same == /\ Rest /\ UNCHANGED netOpen /\ UNCHANGED connClosed /\ UNCHANGED clientUp
                   /\ \A d \in Conns : notice'[d] = "none" => notice[d] = "none"
                   /\ \A d \in Conns : d # c => serve'[d] = serve[d]
<1>1. ASSUME Same, serve[c] \in Served, serve'[c] \in Served PROVE ToldInv'
  BY <1>1 DEF ToldInv, Unaware, Served
<1>2. ASSUME Same, serve[c] \notin Served \cup {"returned"} PROVE ToldInv'
  BY <1>2 DEF ToldInv, Unaware
<1>3. ASSUME NEW frame, Notify(c, frame), frame # "none"
      PROVE  \A d \in Conns : notice'[d] = "none" => notice[d] = "none"
  BY <1>3 DEF Notify, ConnTypes
<1>4. CASE \/ Connect(c) \/ PublishRoute(c) \/ PublishDone(c) \/ SubscribeInstall(c)
           \/ UnsubscribeClose(c)
  BY <1>1, <1>4 DEF Connect, PublishRoute, PublishDone, SubscribeInstall, UnsubscribeClose, Goes,
                    Served, connVars,
                    clientVars, closerVars, shutdownVars, Types
<1>5. CASE SubscribeLock(c) \/ SubscribeRefused(c)
  <2>1. \A d \in Conns : notice'[d] = "none" => notice[d] = "none"
    BY <1>3, <1>5 DEF SubscribeLock, SubscribeRefused
  <2> QED
    BY <1>1, <1>5, <2>1 DEF SubscribeLock, SubscribeRefused, Goes, Served, closerVars,
                            shutdownVars, Types
<1>6. ASSUME NEW s \in Subs, SubscribeRegister(c, s) \/ Enqueue(c, s) PROVE ToldInv'
  BY <1>1, <1>6 DEF SubscribeRegister, Enqueue, Goes, Served, connVars, clientVars, closerVars,
                    shutdownVars, Types
<1>7. ASSUME NEW t \in Topics, ReadSubscribe(c, t) \/ ReadUnsubscribe(c, t) PROVE ToldInv'
  BY <1>1, <1>7 DEF ReadSubscribe, ReadUnsubscribe, Goes, Served, serveVars, connVars,
                    clientVars, closerVars, shutdownVars, Types
<1>8. ASSUME NEW t \in Topics, ReadPublish(c, t) PROVE ToldInv'
  <2>1. \A d \in Conns : notice'[d] = "none" => notice[d] = "none"
    BY <1>3, <1>8 DEF ReadPublish
  <2> QED
    BY <1>1, <1>8, <2>1 DEF ReadPublish, Goes, Served, connVars, closerVars, shutdownVars, Types
<1>9. CASE ReadFails(c)
  <2>1. ~netOpen[c] \/ ~clientUp[c]
    BY <1>9 DEF ReadFails, CanRead
  <2>2. Same /\ serve[c] \in Served
    BY <1>9 DEF ReadFails, Goes, Served, connVars, clientVars, closerVars, shutdownVars, Types
  <2> QED
    BY <2>1, <2>2 DEF ToldInv, Unaware, Served
<1>10. CASE Abort(c) \/ removeConnection(c)
  <2>1. Same /\ serve[c] \notin Served \cup {"returned"}
    BY <1>10 DEF Abort, removeConnection, Goes, Served, connVars, clientVars, closerVars,
                 shutdownVars, Types
  <2> QED
    BY <1>2, <2>1
<1>11. CASE AbortClose(c)
  <2>1. /\ Rest /\ UNCHANGED clientUp /\ UNCHANGED notice /\ UNCHANGED netOpen
        /\ serve[c] = "close" /\ \A d \in Conns : d # c => serve'[d] = serve[d]
    BY <1>11 DEF AbortClose, Goes, clientVars, closerVars, shutdownVars, Types
  <2>2. \A d \in Conns : d # c => connClosed'[d] = connClosed[d]
    BY <1>11, CloseBeginsIs DEF AbortClose
  <2> QED
    BY <2>1, <2>2 DEF ToldInv, Unaware, Served
<1>12. CASE Accept(c)
  <2>1. /\ Rest /\ UNCHANGED notice /\ UNCHANGED connClosed
        /\ serve[c] = "absent" /\ serve'[c] = "accepted" /\ netOpen'[c]
        /\ \A d \in Conns : d # c => /\ serve'[d] = serve[d] /\ netOpen'[d] = netOpen[d]
                                     /\ clientUp'[d] = clientUp[d]
    BY <1>12 DEF Accept, Goes, closerVars, shutdownVars, Types, ConnTypes
  <2>2. ~connClosed[c] /\ graceful[c] = "none"
    BY <2>1 DEF CloseInv, KnownInv
  <2> QED
    BY <2>1, <2>2 DEF ToldInv, Unaware, Served
<1>13. CASE Register(c)
  <2>1. /\ Rest /\ UNCHANGED notice /\ UNCHANGED connClosed /\ UNCHANGED clientUp
        /\ serve[c] = "accepted"
        /\ \A d \in Conns : d # c => serve'[d] = serve[d] /\ netOpen'[d] = netOpen[d]
        /\ \/ serve'[c] = "returned"
           \/ serve'[c] = "connect" /\ UNCHANGED netOpen
    BY <1>13 DEF Register, Goes, clientVars, closerVars, shutdownVars, Types
  <2>2. graceful[c] = "none" /\ c \notin shutdownTodo
    BY <2>1 DEF CloseInv, KnownInv
  <2> QED
    BY <2>1, <2>2 DEF ToldInv, Unaware, Served
<1> QED
  BY <1>4, <1>5, <1>6, <1>7, <1>8, <1>9, <1>10, <1>11, <1>12, <1>13 DEF ServeStep

LEMMA ToldOtherStep ==
    ASSUME Types, ConnTypes, CloseInv, ClosingInv, ToldInv, UNCHANGED serve,
           \/ \E c \in Conns : \/ CloseSub(c) \/ CloseNet(c) \/ Disconnect(c) \/ ClientStops(c)
                               \/ GracefulStep(c) \/ ShutdownConn(c) \/ ServerCloseConn(c)
           \/ \E s \in Subs : DeliveryStep(s)
           \/ ServerClose \/ ServerCloseWaits \/ GracefulShutdown \/ ShutdownBroker
           \/ ShutdownWaits \/ BrokerClose \/ ShutdownTimeout
    PROVE  ToldInv'
<1> DEFINE Same == /\ UNCHANGED closer /\ UNCHANGED ctxDone /\ UNCHANGED graceful
                   /\ UNCHANGED shutdownTodo /\ UNCHANGED netOpen /\ UNCHANGED connClosed
                   /\ UNCHANGED notice
                   /\ \A d \in Conns : clientUp'[d] => clientUp[d]
<1>1. Same => ToldInv'
  BY DEF ToldInv, Unaware
<1>2. ASSUME NEW c \in Conns, \/ CloseSub(c) \/ Disconnect(c) \/ ClientStops(c) \/ DrainClose(c)
                              \/ \E s \in Subs : DrainEmpty(c, s)
      PROVE  ToldInv'
  <2>1. Same
    BY <1>2 DEF CloseSub, Disconnect, ClientStops, DrainClose, DrainEmpty, connVars, clientVars,
                closerVars, shutdownVars, ConnTypes
  <2> QED
    BY <1>1, <2>1
<1>3. CASE \/ \E s \in Subs : DeliveryStep(s)
           \/ ShutdownBroker \/ ShutdownWaits \/ BrokerClose
  <2>1. Same
    BY <1>3 DEF DeliveryStep, Take, Delivered, DeliveryFails, RangeEnds, ShutdownBroker,
                ShutdownWaits, BrokerClose, connVars, clientVars, closerVars, shutdownVars
  <2> QED
    BY <1>1, <2>1
<1>4. CASE ServerClose \/ ServerCloseWaits \/ ShutdownTimeout
  <2>1. closer' # "idle" \/ ctxDone'
    BY <1>4 DEF ServerClose, ServerCloseWaits, ShutdownTimeout
  <2> QED
    BY <2>1 DEF ToldInv, Unaware
<1>5. CASE GracefulShutdown
  <2>1. /\ UNCHANGED closer /\ UNCHANGED ctxDone /\ UNCHANGED graceful /\ UNCHANGED conns
        /\ UNCHANGED netOpen /\ UNCHANGED connClosed /\ UNCHANGED notice /\ UNCHANGED clientUp
        /\ shutdownTodo' = conns \/ UNCHANGED shutdownTodo
    BY <1>5 DEF GracefulShutdown, connVars, clientVars, closerVars
  <2>2. \A c \in Conns : serve[c] = "returned" => c \notin conns
    BY DEF CloseInv, RegisteredInv, Gone
  <2> QED
    BY <2>1, <2>2 DEF ToldInv, Unaware
<1>6. ASSUME NEW c \in Conns, CloseNet(c) PROVE ToldInv'
  <2>1. /\ UNCHANGED closer /\ UNCHANGED ctxDone /\ UNCHANGED graceful /\ UNCHANGED shutdownTodo
        /\ UNCHANGED connClosed /\ UNCHANGED notice /\ UNCHANGED clientUp
        /\ connClosed[c] /\ \A d \in Conns : d # c => netOpen'[d] = netOpen[d]
    BY <1>6 DEF CloseNet, clientVars, closerVars, shutdownVars, ClosingInv, Types
  <2> QED
    BY <2>1 DEF ToldInv, Unaware, Served
<1>7. ASSUME NEW c \in Conns, ServerCloseConn(c) \/ DrainTimeout(c) PROVE ToldInv'
  <2>1. closer' # "idle" \/ ctxDone'
    BY <1>7 DEF ServerCloseConn, DrainTimeout, Expired
  <2> QED
    BY <2>1 DEF ToldInv, Unaware
<1>8. ASSUME NEW c \in Conns, \/ ShutdownConn(c) \/ DrainBegin(c) \/ DrainClosed(c)
                              \/ DrainLock(c) \/ DrainWaits(c)
      PROVE  ToldInv'
  <2>1. /\ UNCHANGED closer /\ UNCHANGED ctxDone /\ shutdownTodo' \subseteq shutdownTodo
        /\ UNCHANGED netOpen /\ UNCHANGED connClosed /\ UNCHANGED notice /\ UNCHANGED clientUp
        /\ graceful[c] # "none" \/ c \in shutdownTodo
    BY <1>8 DEF ShutdownConn, DrainBegin, DrainClosed, DrainLock, DrainWaits, connVars,
                clientVars, closerVars
  <2>2. /\ \A d \in Conns : d # c => graceful'[d] = graceful[d]
        /\ graceful'[c] # "closeTransport"
    BY <1>8 DEF ShutdownConn, DrainBegin, DrainClosed, DrainLock, DrainWaits, Drains, Types
  <2> QED
    BY <2>1, <2>2 DEF ToldInv, Unaware
<1>9. ASSUME NEW c \in Conns, DrainNotify(c) PROVE ToldInv'
  <2>1. /\ UNCHANGED closer /\ UNCHANGED ctxDone /\ UNCHANGED shutdownTodo
        /\ UNCHANGED netOpen /\ UNCHANGED connClosed /\ UNCHANGED clientUp
        /\ graceful[c] = "notify" /\ \A d \in Conns : d # c => graceful'[d] = graceful[d]
    BY <1>9 DEF DrainNotify, Drains, connVars, closerVars, Types
  <2>2. \A d \in Conns : d # c => notice'[d] = notice[d]
    BY <1>9 DEF DrainNotify, Notify, ConnTypes
  <2>3. netOpen[c] /\ clientUp[c] => notice'[c] # "none"
    <3> SUFFICES ASSUME netOpen[c], clientUp[c] PROVE notice'[c] # "none"
      OBVIOUS
    <3>1. Notify(c, "SHUTDOWN")
      BY <1>9 DEF DrainNotify, Writes
    <3> QED
      BY <3>1 DEF Notify, ConnTypes
  <2>4. notice'[c] = "none" => notice[c] = "none"
    BY <1>9 DEF DrainNotify, Notify, ConnTypes
  <2> QED
    BY <2>1, <2>2, <2>3, <2>4 DEF ToldInv, Unaware
<1>10. ASSUME NEW c \in Conns, closeTransport(c) PROVE ToldInv'
  <2>1. /\ UNCHANGED closer /\ UNCHANGED ctxDone /\ UNCHANGED shutdownTodo
        /\ UNCHANGED notice /\ UNCHANGED clientUp /\ graceful[c] = "closeTransport"
        /\ \A d \in Conns : d # c => /\ graceful'[d] = graceful[d] /\ netOpen'[d] = netOpen[d]
                                     /\ connClosed'[d] = connClosed[d]
    BY <1>10 DEF closeTransport, Drains, clientVars, closerVars, Types
  <2> QED
    BY <2>1 DEF ToldInv, Unaware
<1> QED
  BY <1>2, <1>3, <1>4, <1>5, <1>6, <1>7, <1>8, <1>9, <1>10 DEF GracefulStep

-----------------------------------------------------------------------------
(* What a step may do to a subscription and to a connection *)

\* A subscription is made while its connection registers it and the broker does
\* not shut down; then it keeps its connection, closes once, and its goroutine
\* starts once and returns once.
OneWay(s) ==
    /\ state[s] # "absent" => state'[s] # "absent" /\ connOf'[s] = connOf[s]
    /\ state'[s] # "absent" => \/ state[s] # "absent"
                               \/ /\ connOf'[s] \in Conns /\ serve[connOf'[s]] = "register"
                                  /\ ~brokerDown
    /\ state[s] = "closed" => state'[s] = "closed"
    /\ goroutine[s] = "returned" => goroutine'[s] = "returned"
    /\ goroutine'[s] = "absent" => goroutine[s] = "absent"

LEMMA OneWayStep ==
    ASSUME Types, ConnTypes, SubTypes, RunTypes, ClosingInv, LeavingInv, SubsInv, Next,
           NEW s \in Subs
    PROVE  OneWay(s)
<1>1. ASSUME SubFrame PROVE OneWay(s)
  BY <1>1 DEF SubFrame, OneWay
<1>2. ASSUME NEW S, CloseSubs(S), UNCHANGED connOf, UNCHANGED goroutine,
             s \in S => state[s] # "absent"
      PROVE  OneWay(s)
  BY <1>2 DEF CloseSubs, OneWay
<1>3. ASSUME NEW c \in Conns, NEW r \in Held(c) PROVE r \in Subs /\ state[r] # "absent"
  BY HeldSubs DEF SubsInv, HeldInv, InstallInv
<1>4. ASSUME NEW c \in Conns, CloseSub(c) PROVE OneWay(s)
  <2>1. PICK r \in dying[c] : CloseSubs({r})
    BY <1>4 DEF CloseSub
  <2>2. r \in Held(c)
    BY <2>1 DEF Held, Kept
  <2> QED
    BY <1>2, <1>3, <1>4, <2>1, <2>2 DEF CloseSub
<1>5. ASSUME NEW c \in Conns, UnsubscribeClose(c) PROVE OneWay(s)
  <2>1. CloseSubs({leaving[c]}) /\ leaving[c] \in Held(c)
    BY <1>5 DEF UnsubscribeClose, LeavingInv, Held, Kept
  <2> QED
    BY <1>2, <1>3, <1>5, <2>1 DEF UnsubscribeClose
<1>6. ASSUME NEW c \in Conns, DrainClose(c) PROVE OneWay(s)
  <2>1. CloseSubs({drainAt[c]}) /\ drainAt[c] \in Held(c)
    BY <1>6 DEF DrainClose, Held
  <2> QED
    BY <1>2, <1>3, <1>6, <2>1 DEF DrainClose
<1>7. CASE BrokerClose
  BY <1>2, <1>7 DEF BrokerClose
<1>8. ASSUME NEW c \in Conns, \/ AbortClose(c) \/ ServerCloseConn(c) \/ DrainTimeout(c)
                              \/ DrainBegin(c) \/ \E r \in Subs : DrainEmpty(c, r)
                              \/ \E t \in Topics : ReadUnsubscribe(c, t)
      PROVE  OneWay(s)
  BY <1>8 DEF AbortClose, ServerCloseConn, DrainTimeout, DrainBegin, DrainEmpty,
              ReadUnsubscribe, subVars, OneWay
<1>9. ASSUME NEW c \in Conns, NEW r \in Subs, Enqueue(c, r) PROVE OneWay(s)
  BY <1>9 DEF Enqueue, OneWay
<1>10. ASSUME NEW r \in Subs, DeliveryStep(r) PROVE OneWay(s)
  <2>1. UNCHANGED state /\ UNCHANGED connOf
    BY <1>10 DEF DeliveryStep, Take, Delivered, DeliveryFails, RangeEnds
  <2>2. /\ goroutine[s] = "returned" => goroutine'[s] = "returned"
        /\ goroutine'[s] = "absent" => goroutine[s] = "absent"
    BY <1>10 DEF DeliveryStep, Take, Delivered, DeliveryFails, RangeEnds, Runs, SubTypes
  <2> QED
    BY <2>1, <2>2 DEF OneWay
<1>11. ASSUME NEW c \in Conns, NEW r \in Subs, SubscribeRegister(c, r) PROVE OneWay(s)
  <2>1. /\ serve[c] = "register" /\ state[r] = "absent" /\ state'[r] = "open" /\ connOf'[r] = c
        /\ r # s => state'[s] = state[s] /\ connOf'[s] = connOf[s]
        /\ UNCHANGED goroutine /\ ~brokerDown
    BY <1>11 DEF SubscribeRegister, SubTypes
  <2> QED
    BY <2>1 DEF OneWay
<1>12. ASSUME NEW c \in Conns, SubscribeInstall(c) PROVE OneWay(s)
  <2>1. /\ CloseSubs({subs[c][topic[c]]} \ {NoSub})
        /\ goroutine' = [goroutine EXCEPT ![Installed(c)] = "range"]
        /\ UNCHANGED connOf
    BY <1>12 DEF SubscribeInstall, Installed
  <2>2. goroutine[Installed(c)] = "absent"
    BY <1>12, InstalledIs DEF SubscribeInstall, SubsInv, Uninstalled
  <2>3. /\ goroutine[s] = "returned" => goroutine'[s] = "returned"
        /\ goroutine'[s] = "absent" => goroutine[s] = "absent"
    BY <2>1, <2>2 DEF SubTypes
  <2>4. subs[c][topic[c]] # NoSub => state[subs[c][topic[c]]] # "absent"
    BY <1>3 DEF Held, Kept, SubsOf, ConnTypes
  <2> QED
    BY <2>1, <2>3, <2>4 DEF OneWay, CloseSubs
<1>13. ASSUME NEW c \in Conns, ServeAlone(c) PROVE OneWay(s)
  BY <1>1, <1>13, ServeAloneIs
<1>14. CASE OtherAlone
  BY <1>1, <1>14, OtherAloneIs
<1> QED
  BY <1>4, <1>5, <1>6, <1>7, <1>8, <1>9, <1>10, <1>11, <1>12, <1>13, <1>14
     DEF Next, ServeStep, CloserStep, GracefulStep, ShutdownStep, ServeAlone, OtherAlone

Draining  == {"drain", "wait", "notify", "closeTransport"}
Waited    == {"wait", "notify", "closeTransport"}
Notifying == {"notify", "closeTransport"}

\* How a connection gets to where the invariants below speak of it.
Moves(c) ==
    /\ notice'[c] = "SHUTDOWN" => notice[c] = "SHUTDOWN" \/ graceful[c] = "notify"
    /\ serve[c] \in {"closing", "returned"} => serve'[c] \in {"closing", "returned"}
    /\ graceful'[c] \in Draining => graceful[c] \in Draining \/ DrainBegin(c)
    /\ graceful'[c] \in Waited => graceful[c] \in Waited \/ DrainLock(c)
    /\ graceful'[c] \in Notifying => graceful[c] \in Notifying \/ DrainWaits(c)
    /\ drainTodo'[c] = drainTodo[c] \/ DrainBegin(c) \/ DrainClose(c)
    /\ connClosed'[c] => \/ connClosed[c] \/ AbortClose(c) \/ DrainTimeout(c)
                         \/ closeTransport(c) \/ closer = "closing"
    /\ dying'[c] = dying[c] \/ ~connClosed[c] \/ CloseSub(c)
    /\ graceful'[c] \in {"none", "start"} => \/ graceful[c] \in {"none", "start"}
                                             \/ c \in shutdownTodo
    /\ late'[c] = late[c] \/ (DrainBegin(c) /\ ~connClosed[c])
    /\ leaving'[c] = leaving[c] \/ Leaves(c)

LEMMA MovesServe ==
    ASSUME Types, ConnTypes, RunTypes, ClosingInv, NEW c \in Conns, NEW d \in Conns,
           \/ Accept(d) \/ Register(d) \/ ServeStep(d)
           \/ \E t \in Topics : ReadSubscribe(d, t) \/ ReadUnsubscribe(d, t) \/ ReadPublish(d, t)
    PROVE  Moves(c)
<1>1. UNCHANGED graceful /\ UNCHANGED drainTodo /\ UNCHANGED late
  BY DEF Accept, Register, ServeStep, Connect, SubscribeLock, SubscribeRegister, Enqueue,
         SubscribeRefused, SubscribeInstall, UnsubscribeClose, PublishRoute, PublishDone, ReadFails, Abort,
         AbortClose, removeConnection, ReadSubscribe, ReadUnsubscribe, ReadPublish, shutdownVars
<1>2. \/ AbortClose(d)
      \/ UNCHANGED connClosed /\ UNCHANGED dying
  BY DEF Accept, Register, ServeStep, Connect, SubscribeLock, SubscribeRegister, Enqueue,
         SubscribeRefused, SubscribeInstall, UnsubscribeClose, PublishRoute, PublishDone, ReadFails, Abort,
         removeConnection, ReadSubscribe, ReadUnsubscribe, ReadPublish, connVars
<1>3. /\ connClosed'[c] => connClosed[c] \/ AbortClose(c)
      /\ dying'[c] = dying[c] \/ ~connClosed[c]
  <2>1. CASE AbortClose(d)
    BY <2>1, CloseBeginsIs DEF AbortClose
  <2> QED
    BY <1>2, <2>1
<1>4. notice'[c] = "SHUTDOWN" => notice[c] = "SHUTDOWN"
  <2>1. UNCHANGED notice \/ Notify(d, "ERROR")
    BY DEF Accept, Register, ServeStep, Connect, SubscribeLock, SubscribeRegister, Enqueue,
           SubscribeRefused, SubscribeInstall, UnsubscribeClose, PublishRoute, PublishDone, ReadFails, Abort,
           AbortClose, removeConnection, ReadSubscribe, ReadUnsubscribe, ReadPublish, clientVars
  <2> QED
    BY <2>1 DEF Notify, ConnTypes
<1>5. \/ UNCHANGED serve
      \/ \E p \in Places : /\ serve' = [serve EXCEPT ![d] = p]
                           /\ serve[d] \in {"closing", "returned"} => p \in {"closing", "returned"}
  <2>1. CASE \/ Accept(d) \/ Register(d) \/ ReadFails(d) \/ Abort(d) \/ AbortClose(d)
             \/ removeConnection(d) \/ Connect(d) \/ PublishRoute(d) \/ PublishDone(d)
    BY <2>1 DEF Accept, Register, ReadFails, Abort, AbortClose, removeConnection, Connect,
                PublishRoute, PublishDone, Goes, Places, Gone, Running
  <2>2. CASE \/ SubscribeLock(d) \/ SubscribeRefused(d) \/ SubscribeInstall(d)
             \/ UnsubscribeClose(d)
             \/ \E s \in Subs : SubscribeRegister(d, s) \/ Enqueue(d, s)
             \/ \E t \in Topics : \/ ReadSubscribe(d, t) \/ ReadUnsubscribe(d, t)
                                  \/ ReadPublish(d, t)
    BY <2>2 DEF SubscribeLock, SubscribeRefused, SubscribeInstall, SubscribeRegister, Enqueue,
                ReadSubscribe, ReadUnsubscribe, UnsubscribeClose, ReadPublish, Goes, serveVars,
                Places, Running
  <2> QED
    BY <2>1, <2>2 DEF ServeStep
<1>6. serve[c] \in {"closing", "returned"} => serve'[c] \in {"closing", "returned"}
  BY <1>5 DEF Types
<1>7. leaving'[c] = leaving[c] \/ Leaves(c)
  <2>1. CASE Leaves(d)
    <3>1. \E l : leaving' = [leaving EXCEPT ![d] = l]
      BY <2>1 DEF Leaves, UnsubscribeClose, ReadUnsubscribe
    <3> QED
      BY <2>1, <3>1 DEF ConnTypes
  <2>2. CASE Locking(d)
    BY <2>2 DEF Locking, SubscribeLock, SubscribeRefused, SubscribeInstall
  <2> QED
    BY <2>1, <2>2, OrdinaryIs DEF ServeStep, Ordinary, Locking, Leaves
<1> QED
  BY <1>1, <1>3, <1>4, <1>6, <1>7 DEF Moves

LEMMA MovesOther ==
    ASSUME Types, ConnTypes, RunTypes, ClosingInv, NEW c \in Conns,
           \/ \E d \in Conns : \/ CloseSub(d) \/ CloseNet(d) \/ Disconnect(d) \/ ClientStops(d)
                               \/ ShutdownConn(d) \/ ServerCloseConn(d)
           \/ \E s \in Subs : DeliveryStep(s)
           \/ ServerClose \/ ServerCloseWaits \/ GracefulShutdown \/ ShutdownBroker
           \/ ShutdownWaits \/ BrokerClose \/ ShutdownTimeout
    PROVE  Moves(c)
<1>0. UNCHANGED serve /\ UNCHANGED leaving
  BY ForeignIs DEF Foreign
<1>1. UNCHANGED notice /\ UNCHANGED drainTodo /\ UNCHANGED late
  BY DEF CloseSub, CloseNet, Disconnect, ClientStops, ShutdownConn, ServerCloseConn,
         DeliveryStep, Take, Delivered, DeliveryFails, RangeEnds, ServerClose, ServerCloseWaits,
         GracefulShutdown, ShutdownBroker, ShutdownWaits, BrokerClose, ShutdownTimeout,
         clientVars, shutdownVars
<1>2. \/ UNCHANGED graceful
      \/ \E d \in Conns : d \in shutdownTodo /\ graceful' = [graceful EXCEPT ![d] = "start"]
  BY DEF CloseSub, CloseNet, Disconnect, ClientStops, ShutdownConn, ServerCloseConn,
         DeliveryStep, Take, Delivered, DeliveryFails, RangeEnds, ServerClose, ServerCloseWaits,
         GracefulShutdown, ShutdownBroker, ShutdownWaits, BrokerClose, ShutdownTimeout,
         shutdownVars
<1>3. graceful'[c] = graceful[c] \/ (graceful'[c] = "start" /\ c \in shutdownTodo)
  BY <1>2 DEF Types
<1>4. \/ UNCHANGED connClosed /\ UNCHANGED dying
      \/ \E d \in Conns : ServerCloseConn(d) \/ CloseSub(d)
  BY DEF CloseNet, Disconnect, ClientStops, ShutdownConn, DeliveryStep, Take, Delivered,
         DeliveryFails, RangeEnds, ServerClose, ServerCloseWaits, GracefulShutdown,
         ShutdownBroker, ShutdownWaits, BrokerClose, ShutdownTimeout, connVars
<1>5. /\ connClosed'[c] => connClosed[c] \/ closer = "closing"
      /\ dying'[c] = dying[c] \/ ~connClosed[c] \/ CloseSub(c)
  <2>1. ASSUME NEW d \in Conns, ServerCloseConn(d)
        PROVE  closer = "closing" /\ (dying'[c] = dying[c] \/ ~connClosed[c])
    BY <2>1, CloseBeginsIs DEF ServerCloseConn
  <2>2. ASSUME NEW d \in Conns, CloseSub(d)
        PROVE  UNCHANGED connClosed /\ (c # d => dying'[c] = dying[c])
    BY <2>2 DEF CloseSub, ConnTypes
  <2> QED
    BY <1>4, <2>1, <2>2
<1> QED
  BY <1>0, <1>1, <1>3, <1>5 DEF Moves, Draining, Waited, Notifying

LEMMA MovesGraceful ==
    ASSUME Types, ConnTypes, RunTypes, ClosingInv, NEW c \in Conns, NEW d \in Conns,
           GracefulStep(d)
    PROVE  Moves(c)
<1>1. UNCHANGED serve /\ UNCHANGED leaving
  BY ForeignIs DEF Foreign
<1>2. notice'[c] = "SHUTDOWN" => notice[c] = "SHUTDOWN" \/ graceful[c] = "notify"
  <2>1. \/ UNCHANGED notice
        \/ Notify(d, "SHUTDOWN") /\ graceful[d] = "notify"
    BY DEF GracefulStep, DrainBegin, DrainEmpty, DrainClose, DrainTimeout, DrainClosed,
           DrainLock, DrainWaits, DrainNotify, closeTransport, clientVars
  <2> QED
    BY <2>1 DEF Notify, ConnTypes
<1>3. drainTodo'[c] = drainTodo[c] \/ DrainBegin(c) \/ DrainClose(c)
  BY DEF GracefulStep, DrainBegin, DrainEmpty, DrainClose, DrainTimeout, DrainClosed, DrainLock,
         DrainWaits, DrainNotify, closeTransport, RunTypes
<1>4. /\ connClosed'[c] => connClosed[c] \/ DrainTimeout(c) \/ closeTransport(c)
      /\ dying'[c] = dying[c] \/ ~connClosed[c]
  <2>1. CASE DrainTimeout(d)
    BY <2>1, CloseBeginsIs DEF DrainTimeout
  <2>2. CASE closeTransport(d)
    BY <2>2 DEF closeTransport, Types
  <2>3. CASE ~DrainTimeout(d) /\ ~closeTransport(d)
    BY <2>3 DEF GracefulStep, DrainBegin, DrainEmpty, DrainClose, DrainClosed, DrainLock,
                DrainWaits, DrainNotify, connVars
  <2> QED
    BY <2>1, <2>2, <2>3
<1>5. \/ graceful'[c] = graceful[c]
      \/ d = c /\ graceful'[c] \in {"closing", "returned"}
      \/ DrainBegin(c) /\ graceful'[c] = "drain"
      \/ DrainLock(c) /\ graceful[c] = "drain" /\ graceful'[c] = "wait"
      \/ DrainWaits(c) /\ graceful[c] = "wait" /\ graceful'[c] = "notify"
      \/ graceful[c] = "notify" /\ graceful'[c] = "closeTransport"
  <2>1. CASE c # d
    <3>1. UNCHANGED graceful \/ \E p \in Drainings : Drains(d, p)
      BY DEF GracefulStep, DrainBegin, DrainEmpty, DrainClose, DrainTimeout, DrainClosed,
             DrainLock, DrainWaits, DrainNotify, closeTransport, Drainings
    <3> QED
      BY <2>1, <3>1 DEF Drains, Types
  <2>2. CASE c = d
    <3>1. ASSUME NEW p \in Drainings, Drains(c, p) PROVE graceful'[c] = p
      BY <3>1 DEF Drains, Types
    <3>2. CASE DrainBegin(c)
      BY <2>2, <3>1, <3>2 DEF DrainBegin, Drainings
    <3>3. CASE DrainLock(c) \/ DrainWaits(c)
      BY <3>1, <3>3 DEF DrainLock, DrainWaits, Drainings
    <3>4. CASE DrainNotify(c) \/ closeTransport(c) \/ DrainTimeout(c) \/ DrainClosed(c)
      BY <2>2, <3>1, <3>4 DEF DrainNotify, closeTransport, DrainTimeout, DrainClosed, Drainings
    <3>5. CASE DrainClose(c) \/ \E s \in Subs : DrainEmpty(c, s)
      BY <3>5 DEF DrainClose, DrainEmpty
    <3> QED
      BY <2>2, <3>2, <3>3, <3>4, <3>5 DEF GracefulStep
  <2> QED
    BY <2>1, <2>2
<1>6. late'[c] = late[c] \/ (DrainBegin(c) /\ ~connClosed[c])
  BY DEF GracefulStep, DrainBegin, DrainEmpty, DrainClose, DrainTimeout, DrainClosed, DrainLock,
         DrainWaits, DrainNotify, closeTransport, RunTypes
<1> QED
  BY <1>1, <1>2, <1>3, <1>4, <1>5, <1>6 DEF Moves, Draining, Waited, Notifying

LEMMA MovesStep ==
    ASSUME Types, ConnTypes, RunTypes, ClosingInv, NEW c \in Conns, Next
    PROVE  Moves(c)
BY MovesServe, MovesOther, MovesGraceful DEF Next, CloserStep, ShutdownStep

LEMMA FlagsStep ==
    ASSUME Next
    PROVE  /\ draining => draining'
           /\ draining' => draining \/ (GracefulShutdown /\ ~closed)
           /\ closed => closed'
           /\ brokerDown => brokerDown'
<1>1. CASE ServerClose \/ GracefulShutdown
  BY <1>1 DEF ServerClose, GracefulShutdown, brokerVars
<1>2. CASE ~ServerClose /\ ~GracefulShutdown
  <2>1. ASSUME NEW c \in Conns, \/ Accept(c) \/ Register(c) \/ ServeStep(c)
                                \/ \E t \in Topics : \/ ReadSubscribe(c, t) \/ ReadPublish(c, t)
                                                     \/ ReadUnsubscribe(c, t)
        PROVE  UNCHANGED draining /\ UNCHANGED closed /\ UNCHANGED brokerDown
    BY <2>1 DEF Accept, Register, ServeStep, Connect, SubscribeLock, SubscribeRegister, Enqueue,
                SubscribeRefused, SubscribeInstall, UnsubscribeClose, PublishRoute, PublishDone, ReadFails,
                Abort, AbortClose, removeConnection, ReadSubscribe, ReadUnsubscribe, ReadPublish,
                serverVars, brokerVars
  <2>2. ASSUME NEW c \in Conns, \/ CloseSub(c) \/ CloseNet(c) \/ Disconnect(c) \/ ClientStops(c)
                                \/ GracefulStep(c)
        PROVE  UNCHANGED draining /\ UNCHANGED closed /\ UNCHANGED brokerDown
    BY <2>2 DEF CloseSub, CloseNet, Disconnect, ClientStops, GracefulStep, DrainBegin,
                DrainEmpty, DrainClose, DrainTimeout, DrainClosed, DrainLock, DrainWaits,
                DrainNotify, closeTransport, serverVars, brokerVars
  <2>3. ASSUME (\E s \in Subs : DeliveryStep(s)) \/ CloserStep \/ ShutdownStep \/ ShutdownTimeout
        PROVE  UNCHANGED draining /\ UNCHANGED closed /\ (UNCHANGED brokerDown \/ brokerDown')
    BY <2>3 DEF DeliveryStep, Take, Delivered, DeliveryFails, RangeEnds, CloserStep,
                ServerCloseConn, ServerCloseWaits, ShutdownStep, ShutdownBroker, ShutdownConn,
                ShutdownWaits, BrokerClose, ShutdownTimeout, serverVars, brokerVars
  <2> QED
    BY <1>2, <2>1, <2>2, <2>3 DEF Next
<1> QED
  BY <1>1, <1>2

-----------------------------------------------------------------------------
(* What gracefulClose drains *)

OpenOf(c) == {s \in Subs : state[s] = "open" /\ connOf[s] = c}

\* The subscriptions that a SUBSCRIBE is about to install when gracefulClose
\* takes its list are those that it does not see.
LateInv ==
    \A c \in Conns : graceful[c] \in Draining =>
        \A s \in Subs : Uninstalled(s) /\ connOf[s] = c => s \in late[c]

\* Unless Server.Close closed the server, connection.close leaves no open
\* subscription behind but those that it is about to close, and those that
\* gracefulClose did not see.
OrphanInv ==
    draining \/ ~closed =>
        \A c \in Conns : connClosed[c] => /\ OpenOf(c) \subseteq dying[c] \cup Unseen(c)
                                          /\ brokerDown \/ serve[c] \in {"closing", "returned"}

\* gracefulClose has every open subscription of the connection on its list that
\* it could see, and the list is empty when it waits for the delivery
\* goroutines.
DrainInv ==
    \A c \in Conns : /\ graceful[c] \in Draining => OpenOf(c) \subseteq drainTodo[c] \cup Unseen(c)
                     /\ graceful[c] \in Waited => drainTodo[c] = {}

\* When the delivery goroutines have been waited for, they stay returned, and
\* what is open was not seen.
DeliveredInv ==
    \A c \in Conns : notice[c] = "SHUTDOWN" \/ graceful[c] \in Notifying =>
        /\ graceful[c] \notin {"none", "start"}
        /\ \A s \in Subs : state[s] # "absent" /\ connOf[s] = c => goroutine[s] = "returned"
        /\ OpenOf(c) \subseteq Unseen(c)

DrainedInv == LateInv /\ OrphanInv /\ DrainInv /\ DeliveredInv

LEMMA DrainedInit == Init => DrainedInv
BY DEF Init, DrainedInv, LateInv, OrphanInv, DrainInv, DeliveredInv, Draining, Waited,
       Notifying

\* An open subscription is kept by its connection, or about to be installed.
LEMMA OpenIsKept ==
    ASSUME SubsInv, NEW c \in Conns
    PROVE  /\ \A s \in OpenOf(c) : s \in Kept(c) \/ (Uninstalled(s) /\ connOf[s] = c)
           /\ serve[c] # "install" => OpenOf(c) \subseteq Kept(c)
BY DEF SubsInv, InstallInv, OwnedInv, Uninstalled, OpenOf

\* Once the broker shuts down, and on a connection that registers none,
\* subscriptions only close.
LEMMA OpenShrinks ==
    ASSUME Types, ConnTypes, SubTypes, RunTypes, ClosingInv, LeavingInv, SubsInv, Next,
           NEW c \in Conns, serve[c] # "register" \/ brokerDown
    PROVE  OpenOf(c)' \subseteq OpenOf(c)
<1> SUFFICES ASSUME NEW s \in Subs, state'[s] = "open", connOf'[s] = c
             PROVE  state[s] = "open" /\ connOf[s] = c
  BY DEF OpenOf
<1>1. OneWay(s)
  BY OneWayStep
<1> QED
  BY <1>1 DEF OneWay, SubTypes

\* What gracefulClose did not see stays so until it is closed.
LEMMA UnseenStays ==
    ASSUME Types, ConnTypes, RunTypes, ClosingInv, LeavingInv, Next, NEW c \in Conns,
           connClosed[c] \/ graceful[c] # "start"
    PROVE  \A s \in OpenOf(c)' : s \in Unseen(c) => s \in Unseen(c)'
<1> SUFFICES ASSUME NEW s \in Subs, state'[s] = "open", s \in late[c] \/ s = leaving[c]
             PROVE  s \in late'[c] \/ s = leaving'[c]
  BY DEF OpenOf, Unseen
<1>1. Moves(c)
  BY MovesStep
<1>2. late'[c] = late[c]
  BY <1>1 DEF Moves, DrainBegin
<1>3. CASE s = leaving[c]
  <2>1. serve[c] = "unsubscribe"
    <3>1. NoSub \notin Subs
      BY ServerAssumption DEF NoSub, Subs
    <3> QED
      BY <1>3, <3>1 DEF LeavingInv
  <2>2. ~UnsubscribeClose(c)
    BY <1>3 DEF UnsubscribeClose, CloseSubs
  <2>3. leaving'[c] = leaving[c]
    BY <1>1, <2>1, <2>2 DEF Moves, Leaves, ReadUnsubscribe
  <2> QED
    BY <1>3, <2>3
<1> QED
  BY <1>2, <1>3

LEMMA LateStep ==
    ASSUME Types, ConnTypes, SubTypes, RunTypes, ClosingInv, LeavingInv, TurnInv, SubsInv,
           LateInv, Next
    PROVE  LateInv'
<1> SUFFICES ASSUME NEW c \in Conns, graceful'[c] \in Draining,
                    NEW s \in Subs, Uninstalled(s)', connOf'[s] = c
             PROVE  s \in late'[c]
  BY DEF LateInv
<1>1. Moves(c) /\ OneWay(s)
  BY MovesStep, OneWayStep
<1>2. graceful[c] \in Draining \/ graceful[c] = "start"
  BY <1>1 DEF Moves, DrainBegin
<1>3. brokerDown
  BY <1>2 DEF TurnInv, Draining
<1>4. Uninstalled(s) /\ connOf[s] = c
  BY <1>1, <1>3 DEF OneWay, Uninstalled
<1>5. CASE DrainBegin(c)
  <2>1. ~connClosed[c]
    <3>1. connClosed[c] => graceful'[c] = "returned"
      BY <1>5 DEF DrainBegin, Drains, Types
    <3> QED
      BY <3>1 DEF Draining
  <2>2. late'[c] = {r \in Subs : connOf[r] = c /\ goroutine[r] = "absent"}
    BY <1>5, <2>1 DEF DrainBegin, RunTypes
  <2> QED
    BY <1>4, <2>2 DEF Uninstalled
<1>6. CASE ~DrainBegin(c)
  BY <1>1, <1>4, <1>6 DEF Moves, LateInv
<1> QED
  BY <1>5, <1>6

LEMMA OrphanStep ==
    ASSUME Types, CloseInv, ConnTypes, SubTypes, RunTypes, ClosingInv, LeavingInv, TurnInv,
           SubsInv, DrainedInv, Next
    PROVE  OrphanInv'
<1> SUFFICES ASSUME draining' \/ ~closed', NEW c \in Conns, connClosed'[c]
             PROVE  /\ OpenOf(c)' \subseteq (dying[c] \cup Unseen(c))'
                    /\ brokerDown' \/ serve'[c] \in {"closing", "returned"}
  BY DEF OrphanInv
<1>0. draining \/ ~closed
  BY FlagsStep
<1>1. CASE connClosed[c]
  <2>1. /\ OpenOf(c) \subseteq dying[c] \cup Unseen(c)
        /\ brokerDown \/ serve[c] \in {"closing", "returned"}
    BY <1>0, <1>1 DEF DrainedInv, OrphanInv
  <2>2. OpenOf(c)' \subseteq OpenOf(c)
    BY <2>1, OpenShrinks
  <2>3. \A s \in OpenOf(c)' : s \in Unseen(c) => s \in Unseen(c)'
    BY <1>1, UnseenStays
  <2>4. \A s \in OpenOf(c)' : s \in dying[c] => s \in dying'[c]
    <3>1. CASE dying'[c] = dying[c]
      BY <3>1
    <3>2. CASE CloseSub(c)
      <4>1. PICK s \in dying[c] : CloseSubs({s}) /\ dying' = [dying EXCEPT ![c] = dying[c] \ {s}]
        BY <3>2 DEF CloseSub
      <4>2. dying'[c] = dying[c] \ {s} /\ s \notin OpenOf(c)'
        BY <4>1 DEF ConnTypes, OpenOf, CloseSubs
      <4> QED
        BY <4>2
    <3> QED
      BY <1>1, <3>1, <3>2, MovesStep DEF Moves
  <2> QED
    BY <2>1, <2>2, <2>3, <2>4, FlagsStep, MovesStep DEF Moves
<1>2. CASE ~connClosed[c]
  <2>1. closer # "closing"
    BY <1>0 DEF ClosingInv
  <2>2. Kept(c) \subseteq SubsOf(c) \cup {leaving[c]}
    BY <1>2 DEF ClosingInv, Kept
  <2>3. CASE AbortClose(c)
    <3>1. serve[c] = "close" /\ serve'[c] = "closing" /\ CloseBegins(c, "serve")
      BY <2>3 DEF AbortClose, Goes, Types
    <3>2. dying'[c] = SubsOf(c) /\ leaving'[c] = leaving[c]
      BY <1>2, <2>3, <3>1, CloseBeginsIs DEF AbortClose
    <3>3. OpenOf(c)' \subseteq Kept(c)
      BY <3>1, OpenIsKept, OpenShrinks
    <3> QED
      BY <2>2, <3>1, <3>2, <3>3 DEF Unseen
  <2>4. CASE DrainTimeout(c)
    <3>1. graceful[c] = "drain" /\ late'[c] = late[c] /\ leaving'[c] = leaving[c]
      BY <2>4 DEF DrainTimeout
    <3>2. brokerDown /\ brokerDown'
      BY <3>1, FlagsStep DEF TurnInv
    <3>3. dying'[c] = SubsOf(c)
      BY <1>2, <2>4, CloseBeginsIs DEF DrainTimeout
    <3>4. \A s \in OpenOf(c) : s \in Kept(c) \/ s \in late[c]
      BY <3>1, OpenIsKept DEF DrainedInv, LateInv, Draining, OpenOf
    <3>5. OpenOf(c)' \subseteq OpenOf(c)
      BY <3>2, OpenShrinks
    <3> QED
      BY <2>2, <3>1, <3>2, <3>3, <3>4, <3>5 DEF Unseen
  <2>5. CASE closeTransport(c)
    <3>1. graceful[c] = "closeTransport"
      BY <2>5 DEF closeTransport
    <3>2. OpenOf(c) \subseteq Unseen(c)
      BY <3>1 DEF DrainedInv, DeliveredInv, Notifying
    <3>3. brokerDown /\ brokerDown'
      BY <3>1, FlagsStep DEF TurnInv
    <3> QED
      BY <3>1, <3>2, <3>3, OpenShrinks, UnseenStays
  <2> QED
    BY <1>2, <2>1, <2>3, <2>4, <2>5, MovesStep DEF Moves
<1> QED
  BY <1>1, <1>2

LEMMA DrainStep ==
    ASSUME Types, CloseInv, ConnTypes, SubTypes, RunTypes, ClosingInv, LeavingInv, TurnInv,
           SubsInv, DrainedInv, Next
    PROVE  DrainInv'
<1> SUFFICES ASSUME NEW c \in Conns
             PROVE  /\ graceful'[c] \in Draining =>
                           OpenOf(c)' \subseteq (drainTodo[c] \cup Unseen(c))'
                    /\ graceful'[c] \in Waited => drainTodo'[c] = {}
  BY DEF DrainInv
<1>1. Moves(c)
  BY MovesStep
<1>2. ASSUME graceful[c] # "none" PROVE OpenOf(c)' \subseteq OpenOf(c)
  BY <1>2, OpenShrinks DEF TurnInv
<1>3. CASE DrainBegin(c)
  <2>1. /\ graceful[c] = "start"
        /\ graceful' = [graceful EXCEPT ![c] = IF connClosed[c] THEN "returned" ELSE "drain"]
    BY <1>3 DEF DrainBegin, Drains
  <2>2. CASE connClosed[c]
    <3>1. graceful'[c] = "returned"
      BY <2>1, <2>2 DEF Types
    <3> QED
      BY <3>1 DEF Draining, Waited
  <2>3. CASE ~connClosed[c]
    <3>1. /\ graceful'[c] = "drain" /\ drainTodo' = [drainTodo EXCEPT ![c] = SubsOf(c)]
          /\ leaving'[c] = leaving[c]
          /\ late' = [late EXCEPT ![c] = {s \in Subs : connOf[s] = c /\ goroutine[s] = "absent"}]
      BY <1>3, <2>1, <2>3 DEF DrainBegin, Types
    <3>2. /\ drainTodo'[c] = SubsOf(c) /\ dying[c] = {}
          /\ late'[c] = {s \in Subs : connOf[s] = c /\ goroutine[s] = "absent"}
      BY <2>3, <3>1 DEF RunTypes, ClosingInv
    <3>3. \A s \in OpenOf(c) : s \in Kept(c) \/ s \in late'[c]
      BY <3>2, OpenIsKept DEF OpenOf, Uninstalled
    <3> QED
      BY <1>2, <2>1, <3>1, <3>2, <3>3 DEF Waited, Kept, Unseen
  <2> QED
    BY <2>2, <2>3
<1>4. ASSUME ~DrainBegin(c), graceful'[c] \in Draining
      PROVE  /\ graceful[c] # "none"
             /\ OpenOf(c) \subseteq drainTodo[c] \cup Unseen(c)
             /\ \A s \in OpenOf(c)' : s \in Unseen(c) => s \in Unseen(c)'
  <2>1. graceful[c] \in Draining
    BY <1>1, <1>4 DEF Moves
  <2> QED
    BY <2>1, UnseenStays DEF DrainedInv, DrainInv, Draining
<1>5. CASE DrainClose(c)
  <2>1. /\ graceful[c] = "drain" /\ UNCHANGED graceful /\ CloseSubs({drainAt[c]})
        /\ drainTodo' = [drainTodo EXCEPT ![c] = drainTodo[c] \ {drainAt[c]}]
    BY <1>5 DEF DrainClose
  <2>2. drainTodo'[c] = drainTodo[c] \ {drainAt[c]} /\ drainAt[c] \notin OpenOf(c)'
    BY <2>1 DEF RunTypes, OpenOf, CloseSubs
  <2>3. ~DrainBegin(c)
    BY <2>1 DEF DrainBegin
  <2> QED
    BY <1>2, <1>4, <2>1, <2>2, <2>3 DEF Waited
<1>6. CASE ~DrainBegin(c) /\ ~DrainClose(c)
  <2>1. drainTodo'[c] = drainTodo[c]
    BY <1>1, <1>6 DEF Moves
  <2>2. graceful'[c] \in Waited => drainTodo'[c] = {}
    BY <1>1, <2>1 DEF Moves, DrainLock, DrainedInv, DrainInv
  <2> QED
    BY <1>2, <1>4, <1>6, <2>1, <2>2
<1> QED
  BY <1>3, <1>5, <1>6

LEMMA DeliveredStep ==
    ASSUME Types, CloseInv, ConnTypes, SubTypes, RunTypes, ClosingInv, LeavingInv, TurnInv,
           SubsInv, DrainedInv, Next
    PROVE  DeliveredInv'
<1> SUFFICES ASSUME NEW c \in Conns, notice'[c] = "SHUTDOWN" \/ graceful'[c] \in Notifying
             PROVE  /\ graceful'[c] \notin {"none", "start"}
                    /\ \A s \in Subs : state'[s] # "absent" /\ connOf'[s] = c =>
                                           goroutine'[s] = "returned"
                    /\ OpenOf(c)' \subseteq Unseen(c)'
  BY DEF DeliveredInv
<1>1. Moves(c)
  BY MovesStep
<1>2. /\ graceful[c] \notin {"none", "start"}
      /\ \A s \in Subs : state[s] # "absent" /\ connOf[s] = c => goroutine[s] = "returned"
      /\ OpenOf(c) \subseteq Unseen(c)
  <2>1. CASE notice[c] = "SHUTDOWN" \/ graceful[c] \in Notifying
    BY <2>1 DEF DrainedInv, DeliveredInv
  <2>2. CASE DrainWaits(c)
    <3>1. /\ graceful[c] = "wait"
          /\ \A s \in Subs : connOf[s] = c => goroutine[s] \in {"absent", "returned"}
      BY <2>2 DEF DrainWaits, DeliveriesEnded
    <3>2. serve[c] # "install"
      BY <3>1 DEF TurnInv
    <3>3. OpenOf(c) \subseteq Unseen(c)
      BY <3>1 DEF DrainedInv, DrainInv, Draining, Waited
    <3>4. \A s \in Subs : state[s] # "absent" /\ connOf[s] = c => goroutine[s] # "absent"
      BY <3>2 DEF SubsInv, InstallInv, Uninstalled
    <3> QED
      BY <3>1, <3>3, <3>4
  <2>3. notice[c] = "SHUTDOWN" \/ graceful[c] \in Notifying \/ DrainWaits(c)
    BY <1>1 DEF Moves, Notifying
  <2> QED
    BY <2>1, <2>2, <2>3
<1>3. brokerDown /\ c \notin shutdownTodo
  BY <1>2 DEF TurnInv
<1>4. graceful'[c] \notin {"none", "start"}
  BY <1>1, <1>2, <1>3 DEF Moves
<1>5. ASSUME NEW s \in Subs, state'[s] # "absent", connOf'[s] = c PROVE goroutine'[s] = "returned"
  <2>1. OneWay(s)
    BY OneWayStep
  <2> QED
    BY <1>2, <1>3, <1>5, <2>1 DEF OneWay
<1>6. OpenOf(c)' \subseteq Unseen(c)'
  BY <1>2, <1>3, OpenShrinks, UnseenStays
<1> QED
  BY <1>4, <1>5, <1>6

-----------------------------------------------------------------------------
(* The theorems *)

BaseInv ==
    /\ Types /\ CloseInv /\ ConnTypes /\ SubTypes /\ RunTypes
    /\ ClosingInv /\ LeavingInv /\ TurnInv /\ SubsInv /\ ToldInv

LEMMA ToldStep ==
    ASSUME Types, ConnTypes, CloseInv, ClosingInv, ToldInv, Next PROVE ToldInv'
<1>1. ASSUME NEW c \in Conns, \/ CloseSub(c) \/ CloseNet(c) \/ Disconnect(c) \/ ClientStops(c)
                              \/ GracefulStep(c) \/ ShutdownConn(c) \/ ServerCloseConn(c)
      PROVE  ToldInv'
  <2>1. UNCHANGED serve
    BY <1>1 DEF CloseSub, CloseNet, Disconnect, ClientStops, GracefulStep, DrainBegin,
                DrainEmpty, DrainClose, DrainTimeout, DrainClosed, DrainLock, DrainWaits,
                DrainNotify, closeTransport, ShutdownConn, ServerCloseConn, serveVars
  <2> QED
    BY <1>1, <2>1, ToldOtherStep
<1>2. CASE \/ \E s \in Subs : DeliveryStep(s)
           \/ ServerClose \/ ServerCloseWaits \/ GracefulShutdown \/ ShutdownBroker
           \/ ShutdownWaits \/ BrokerClose \/ ShutdownTimeout
  <2>1. UNCHANGED serve
    BY <1>2 DEF DeliveryStep, Take, Delivered, DeliveryFails, RangeEnds, ServerClose,
                ServerCloseWaits, GracefulShutdown, ShutdownBroker, ShutdownWaits, BrokerClose,
                ShutdownTimeout, serveVars
  <2> QED
    BY <1>2, <2>1, ToldOtherStep
<1> QED
  BY <1>1, <1>2, ToldServeStep DEF Next, CloserStep, ShutdownStep

LEMMA BaseSame == ASSUME BaseInv, UNCHANGED vars PROVE BaseInv'
<1>1. Types' /\ CloseInv'
  BY CloseStep DEF BaseInv
<1>2. ConnTypes' /\ SubTypes' /\ RunTypes'
  BY TypesSame DEF BaseInv
<1>3. SubFrame /\ UNCHANGED serve
  BY DEF vars, SubFrame, serveVars, connVars, subVars, shutdownVars
<1>4. SubsInv'
  BY <1>3, SubsFrame DEF BaseInv
<1>5. ClosingInv' /\ LeavingInv' /\ TurnInv' /\ ToldInv'
  BY DEF BaseInv, ClosingInv, LeavingInv, TurnInv, ToldInv, Unaware, vars, serverVars,
         serveVars, connVars, clientVars, brokerVars, closerVars, shutdownVars
<1> QED
  BY <1>1, <1>2, <1>4, <1>5 DEF BaseInv

LEMMA BaseStep == BaseInv /\ [Next]_vars => BaseInv'
<1> SUFFICES ASSUME BaseInv, Next PROVE BaseInv'
  BY BaseSame
<1>1. /\ Types /\ CloseInv /\ ConnTypes /\ SubTypes /\ RunTypes /\ ClosingInv /\ LeavingInv
      /\ TurnInv /\ SubsInv /\ ToldInv /\ InstallInv
  BY DEF BaseInv, SubsInv
<1>2. Types' /\ CloseInv'
  BY <1>1, CloseStep
<1>3. ConnTypes' /\ SubTypes' /\ RunTypes'
  BY <1>1, ConnTypesStep, SubTypesStep, RunTypesStep
<1>4. ClosingInv' /\ LeavingInv' /\ TurnInv' /\ SubsInv' /\ ToldInv'
  BY <1>1, ClosingStep, LeavingStep, TurnStep, SubsStep, ToldStep
<1> QED
  BY <1>2, <1>3, <1>4 DEF BaseInv

LEMMA BaseHolds == Spec => []BaseInv
<1>1. Init => BaseInv
  BY CloseInit, ShutdownTypesInit, ClosingInit, TurnInit, SubsInit, ToldInit DEF BaseInv
<1> QED
  BY <1>1, BaseStep, PTL DEF Spec

\* Every variable keeps its type; in particular no queue of a subscription
\* holds more than QueueSize events, however many connections publish to it
\* while Subscribe fills it from the cache.
THEOREM TypeCorrect == Spec => []TypeOK
<1>1. BaseInv => TypeOK
  <2> SUFFICES ASSUME BaseInv PROVE TypeOK
    OBVIOUS
  <2>1. Types /\ ConnTypes /\ SubTypes /\ RunTypes
    BY DEF BaseInv
  <2>2. /\ serve \in [Conns -> {"absent", "accepted", "connect", "read", "lock",
                                "register", "install", "unsubscribe", "publish",
                                "enqueue", "abort",
                                "close", "closing", "remove", "returned"}]
        /\ graceful \in [Conns -> {"none", "start", "drain", "closing", "wait",
                                   "notify", "closeTransport", "returned"}]
    BY <2>1 DEF Types, Places, Gone, Running, Drainings
  <2>3. /\ {closed, draining, brokerDown, ctxDone} \subseteq BOOLEAN
        /\ {connClosed, connDraining, netOpen, clientUp} \subseteq [Conns -> BOOLEAN]
    BY <2>1, Zenon DEF Types, ConnTypes, RunTypes
  <2> QED
    BY <2>1, <2>2, <2>3, Zenon DEF Types, ConnTypes, SubTypes, RunTypes, TypeOK
<1> QED
  BY <1>1, BaseHolds, PTL

\* GracefulShutdown closes no connection behind its client's back: a client
\* that is there when gracefulClose has returned was sent SHUTDOWN, or ERROR
\* before it, unless the context ended or Server.Close was called.  A SUBSCRIBE
\* may race with the shutdown.
THEOREM ClientIsToldHolds == Spec => []ClientIsTold
<1>1. BaseInv => ClientIsTold
  BY DEF BaseInv, ToldInv, Unaware, ClosingInv, ClientIsTold
<1> QED
  BY <1>1, BaseHolds, PTL

LEMMA DrainedStep == BaseInv /\ DrainedInv /\ [Next]_vars => DrainedInv'
<1> SUFFICES ASSUME BaseInv, DrainedInv, [Next]_vars PROVE DrainedInv'
  OBVIOUS
<1>1. CASE Next
  <2>1. /\ Types /\ CloseInv /\ ConnTypes /\ SubTypes /\ RunTypes /\ ClosingInv /\ LeavingInv
        /\ TurnInv /\ SubsInv /\ LateInv
    BY DEF BaseInv, DrainedInv
  <2> QED
    BY <1>1, <2>1, LateStep, OrphanStep, DrainStep, DeliveredStep DEF DrainedInv
<1>2. CASE UNCHANGED vars
  BY <1>2 DEF vars, serverVars, serveVars, connVars, clientVars, subVars, brokerVars,
              shutdownVars, DrainedInv, LateInv, OrphanInv, DrainInv, DeliveredInv, OpenOf,
              Uninstalled, Unseen
<1> QED
  BY <1>1, <1>2

\* A client is told SHUTDOWN only when the goroutine of every subscription that
\* its connection ever made has returned and has delivered the whole queue, or
\* failed, whatever publishers enqueue while gracefulClose drains.  What is
\* still open then is a failed subscription whose SUBSCRIBE or UNSUBSCRIBE was
\* being handled when gracefulClose took its list.
THEOREM DrainedBeforeNoticeHolds == Spec => []DrainedBeforeNotice
<1>1. BaseInv /\ DrainedInv => DrainedBeforeNotice
  <2> SUFFICES ASSUME BaseInv, DrainedInv, NEW c \in Conns, notice[c] = "SHUTDOWN",
                      NEW s \in Subs, state[s] # "absent", connOf[s] = c
               PROVE  /\ goroutine[s] = "returned"
                      /\ state[s] = "closed" \/ (failed[s] /\ s \in Unseen(c))
                      /\ queue[s] = 0 \/ failed[s]
    BY DEF DrainedBeforeNotice
  <2>1. goroutine[s] = "returned" /\ (state[s] = "open" => s \in Unseen(c))
    BY DEF DrainedInv, DeliveredInv, OpenOf
  <2>2. failed[s] \/ (state[s] = "closed" /\ queue[s] = 0)
    BY <2>1 DEF BaseInv, SubsInv, EndedInv
  <2>3. state[s] \in {"open", "closed"}
    BY DEF BaseInv, SubTypes
  <2> QED
    BY <2>1, <2>2, <2>3
<1> QED
  BY <1>1, DrainedStep, BaseHolds, DrainedInit, PTL DEF Spec

\* When GracefulShutdown has returned, the transport of every connection that
\* it found is closed and so are all subscriptions that were made on it, also
\* when the context ended in the middle of a drain or the serve goroutine
\* closed the connection at the same time, except one whose SUBSCRIBE was being
\* handled when gracefulClose took its list or whose UNSUBSCRIBE still is.
THEOREM ShutdownLeavesNothingHolds == Spec => []ShutdownLeavesNothing
<1>1. BaseInv /\ DrainedInv => ShutdownLeavesNothing
  BY DEF BaseInv, ClosingInv, CloseInv, TransportInv, DrainedInv, OrphanInv, OpenOf,
         ShutdownLeavesNothing
<1> QED
  BY <1>1, DrainedStep, BaseHolds, DrainedInit, PTL DEF Spec

=============================================================================
