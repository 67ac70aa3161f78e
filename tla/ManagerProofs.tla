--------------------------- MODULE ManagerProofs ---------------------------
(***************************************************************************)
(* Proofs about Manager, for any endpoints, topics, faults and capacities: *)
(* at most one connection is open, no subscription is forgotten when the   *)
(* connection is replaced, no endpoint is forgotten when the list is       *)
(* reordered, and a redirect that readLoop read is honoured.               *)
(***************************************************************************)
EXTENDS Manager, Loops, SequenceTheorems, TLAPS

\* Most leaves are first-order steps, the others need arithmetic or sequences.
USE ZenonT(4), SMTT(60), ZenonT(60)

-----------------------------------------------------------------------------
(* Shapes *)

\* What the steps need to know of the values: the functions are defined
\* everywhere, and run has its fields.
Shape ==
    /\ count \in 0 .. MaxClients
    /\ link \in [Clients -> BOOLEAN] /\ done \in [Clients -> BOOLEAN]
    /\ DOMAIN asked = Clients /\ DOMAIN reader = Clients
    /\ DOMAIN call = Topics /\ DOMAIN held = Topics
    /\ DOMAIN run = {"at", "client", "list", "todo", "redirect", "new"}

LEMMA ClientNumbers == MaxClients \in Nat /\ Clients = 1 .. MaxClients /\ NoClient = 0
  BY ManagerAssumption DEF MaxClients, Clients, NoClient

\* Client.Close closes one connection and leaves the others alone.
LEMMA CloseEffect ==
    ASSUME Shape, NEW c \in Clients, CloseClient(c)
    PROVE  /\ \A d \in Clients : /\ done'[d] = (done[d] \/ d = c)
                                 /\ link'[d] = (link[d] /\ d # c)
                                 /\ d # c => asked'[d] = asked[d]
           /\ link' \in [Clients -> BOOLEAN] /\ done' \in [Clients -> BOOLEAN]
           /\ DOMAIN asked' = Clients
<1>1. DOMAIN asked' = Clients /\ \A d \in Clients : d # c => asked'[d] = asked[d]
  BY DEF CloseClient, Shape
<1>2. /\ link' \in [Clients -> BOOLEAN] /\ done' \in [Clients -> BOOLEAN]
      /\ \A d \in Clients : done'[d] = (done[d] \/ d = c) /\ link'[d] = (link[d] /\ d # c)
  BY DEF CloseClient, Shape
<1> QED
  BY <1>1, <1>2

-----------------------------------------------------------------------------
(* One open client *)

AllDone == \A c \in Clients : c <= count => done[c]

\* A closed client has no connection, one that was not dialled is not closed,
\* and Close marks the manager before it takes the current client.
ClientInv ==
    /\ \A c \in Clients : done[c] => ~link[c]
    /\ \A c \in Clients : c > count => ~done[c] /\ ~link[c] /\ reader[c] = "absent"
    /\ taken \in Clients \cup {NoClient} /\ taken <= count
    /\ closer = "close" => taken # NoClient
    /\ closer # "absent" => closed

\* Where run stands on a client, it is the newest one; it dials only when all
\* that it dialled are closed.  The manager is without a client at other times
\* only because Close took it, and then run ends at the next connect.
RunInv ==
    /\ OneOpenClient
    /\ current \in {NoClient, count}
    /\ run.at \in {"dial", "backoff", "uninstall"} => AllDone
    /\ run.at = "connect" => closed \/ AllDone
    /\ run.at \in {"install", "resubscribe", "watch", "forward", "await", "leave",
                   "clear", "close"} => run.client = count /\ count # 0
    /\ run.at \in {"connect", "dial", "install", "backoff", "close"} => current = NoClient
    /\ run.at \in {"resubscribe", "check"} /\ current = NoClient => closed

LifeInv == Shape /\ ClientInv /\ RunInv

LEMMA LifeInit == Init => LifeInv
<1> SUFFICES ASSUME Init PROVE LifeInv
  OBVIOUS
<1>1. Shape
  BY ClientNumbers DEF Init, Shape
<1>2. ClientInv
  BY ClientNumbers DEF Init, ClientInv
<1>3. RunInv
  BY ClientNumbers DEF Init, RunInv, OneOpenClient, AllDone
<1> QED
  BY <1>1, <1>2, <1>3 DEF LifeInv

\* Steps that leave run, current and the numbering alone may close clients.
LEMMA LifeKept ==
    ASSUME LifeInv, UNCHANGED <<count, current, closed, run, closer, taken>>,
           link' \in [Clients -> BOOLEAN], done' \in [Clients -> BOOLEAN],
           DOMAIN asked' = Clients, DOMAIN reader' = Clients,
           DOMAIN call' = Topics, DOMAIN held' = Topics,
           \A c \in Clients : /\ done[c] => done'[c]
                              /\ done'[c] => ~link'[c]
                              /\ c > count => ~done'[c] /\ ~link'[c] /\ reader'[c] = "absent"
    PROVE  LifeInv'
<1>1. Shape' /\ ClientInv'
  BY DEF LifeInv, Shape, ClientInv
<1>2. OneOpenClient' /\ (AllDone => AllDone')
  BY DEF LifeInv, RunInv, OneOpenClient, AllDone
<1>3. RunInv'
  BY <1>2 DEF LifeInv, RunInv
<1> QED
  BY <1>1, <1>3 DEF LifeInv

\* Steps of run that leave the clients alone.
LEMMA LifeMoves ==
    ASSUME LifeInv, UNCHANGED <<count, done, link, asked, reader, closer, taken, closed,
                                call, held>>,
           DOMAIN run' = DOMAIN run
    PROVE  /\ Shape' /\ ClientInv' /\ OneOpenClient' /\ (AllDone' <=> AllDone)
           /\ RunInv' => LifeInv'
<1>1. Shape'
  BY DEF LifeInv, Shape
<1>2. ClientInv' /\ OneOpenClient' /\ (AllDone' <=> AllDone)
  BY DEF LifeInv, ClientInv, RunInv, OneOpenClient, AllDone
<1> QED
  BY <1>1, <1>2 DEF LifeInv

\* The brokers, the network and readLoop.
LEMMA LifeOutside ==
    ASSUME LifeInv,
           Environment \/ (\E c \in Clients : ReadStep(c)) \/ Receive
           \/ \E t \in Topics : Subscribe(t) \/ SubscribeSends(t)
    PROVE  LifeInv'
<1> USE DEF netVars, dialVars, inboxVars, readVars, clientVars, chanVars, listVars, mgrVars,
            callVars, closeVars, appVars
<1>s. Shape /\ ClientInv
  BY DEF LifeInv
<1>1. ASSUME NEW e \in Endpoints, Crash(e) \/ Silence(e)
      PROVE  LifeInv'
  <2>1. /\ UNCHANGED <<count, current, closed, run, closer, taken, done, reader, call, held>>
        /\ Cut(e)
    BY <1>1 DEF Crash, Silence, Fails
  <2>2. /\ link' \in [Clients -> BOOLEAN] /\ DOMAIN asked' = Clients
        /\ \A c \in Clients : link'[c] => link[c]
    BY <1>s, <2>1 DEF Cut, Shape
  <2> QED
    BY <1>s, <2>1, <2>2, LifeKept DEF Shape, ClientInv
<1>2. ASSUME NEW e \in Endpoints, Drain(e) \/ Restart(e)
      PROVE  LifeInv'
  <2>1. UNCHANGED <<count, current, closed, run, closer, taken, done, reader, call, held,
                    link, asked>>
    BY <1>2 DEF Drain, Restart
  <2> QED
    BY <1>s, <2>1, LifeKept DEF Shape, ClientInv
<1>3. ASSUME NEW c \in Clients, SendEvent(c)
      PROVE  LifeInv'
  <2>1. UNCHANGED <<count, current, closed, run, closer, taken, done, reader, call, held,
                    link, asked>>
    BY <1>3 DEF SendEvent
  <2> QED
    BY <1>s, <2>1, LifeKept DEF Shape, ClientInv
<1>4. ASSUME NEW c \in Clients, NEW r, Notify(c, r)
      PROVE  LifeInv'
  <2>1. /\ UNCHANGED <<count, current, closed, run, closer, taken, done, reader, call, held>>
        /\ link' = [link EXCEPT ![c] = FALSE] /\ asked' = [asked EXCEPT ![c] = {}]
    BY <1>4 DEF Notify
  <2>2. /\ link' \in [Clients -> BOOLEAN] /\ DOMAIN asked' = Clients
        /\ \A d \in Clients : link'[d] => link[d]
    BY <1>s, <2>1 DEF Shape
  <2> QED
    BY <1>s, <2>1, <2>2, LifeKept DEF Shape, ClientInv
<1>5. ASSUME NEW c \in Clients,
             \/ ReadEvent(c) \/ PutEvent(c) \/ ReadAck(c) \/ PutAck(c) \/ ReadShutdown(c)
             \/ ReadCloses(c)
      PROVE  LifeInv'
  <2>1. /\ UNCHANGED <<count, current, closed, run, closer, taken, done, call, held, link,
                       asked>>
        /\ reader[c] # "absent" /\ \E place : reader' = [reader EXCEPT ![c] = place]
    BY <1>5 DEF ReadEvent, PutEvent, ReadAck, PutAck, ReadShutdown, ReadCloses, Reads,
                ReadGoes
  <2>2. DOMAIN reader' = Clients /\ \A d \in Clients : d # c => reader'[d] = reader[d]
    BY <1>s, <2>1 DEF Shape
  <2>3. ~(c > count)
    BY <1>s, <2>1 DEF ClientInv
  <2> QED
    BY <1>s, <2>1, <2>2, <2>3, LifeKept DEF Shape, ClientInv
<1>6. ASSUME NEW c \in Clients, ReadReturns(c)
      PROVE  LifeInv'
  <2>1. /\ UNCHANGED <<count, current, closed, run, closer, taken, call, held>>
        /\ reader[c] # "absent" /\ reader' = [reader EXCEPT ![c] = "close"]
        /\ CloseClient(c)
    BY <1>6 DEF ReadReturns, Reads, ReadGoes
  <2>2. DOMAIN reader' = Clients /\ \A d \in Clients : d # c => reader'[d] = reader[d]
    BY <1>s, <2>1 DEF Shape
  <2>3. ~(c > count)
    BY <1>s, <2>1 DEF ClientInv
  <2>4. /\ \A d \in Clients : done'[d] = (done[d] \/ d = c) /\ link'[d] = (link[d] /\ d # c)
        /\ link' \in [Clients -> BOOLEAN] /\ done' \in [Clients -> BOOLEAN]
        /\ DOMAIN asked' = Clients
    BY <1>s, <2>1, CloseEffect
  <2>5. \A d \in Clients : /\ done[d] => done'[d]
                           /\ done'[d] => ~link'[d]
                           /\ d > count => ~done'[d] /\ ~link'[d] /\ reader'[d] = "absent"
    BY <1>s, <2>2, <2>3, <2>4 DEF ClientInv
  <2> QED
    BY <1>s, <2>1, <2>2, <2>4, <2>5, LifeKept DEF Shape
<1>7. ASSUME Receive
      PROVE  LifeInv'
  <2>1. UNCHANGED <<count, current, closed, run, closer, taken, done, reader, call, held,
                    link, asked>>
    BY <1>7 DEF Receive
  <2> QED
    BY <1>s, <2>1, LifeKept DEF Shape, ClientInv
<1>8. ASSUME NEW t \in Topics, Subscribe(t) \/ SubscribeSends(t)
      PROVE  LifeInv'
  <2>1. /\ UNCHANGED <<count, current, closed, run, closer, taken, done, reader, link>>
        /\ DOMAIN call' = DOMAIN call /\ DOMAIN held' = DOMAIN held
        /\ DOMAIN asked' = DOMAIN asked
    BY <1>8 DEF Subscribe, SubscribeSends, Asks
  <2> QED
    BY <1>s, <2>1, LifeKept DEF Shape, ClientInv
<1> QED
  BY <1>1, <1>2, <1>3, <1>4, <1>5, <1>6, <1>7, <1>8
  DEF Environment, ReadStep, ReadsOn

\* A new client is dialled when all others are closed.
LEMMA LifeDial == ASSUME LifeInv, Dial PROVE LifeInv'
<1> DEFINE n == count + 1
<1> USE DEF netVars, dialVars, inboxVars, readVars, clientVars, chanVars, listVars, mgrVars,
            callVars, closeVars, appVars
<1>s. Shape /\ ClientInv /\ RunInv
  BY DEF LifeInv
<1>1. /\ run.at = "dial" /\ count < MaxClients /\ count' = n
      /\ link' = [link EXCEPT ![n] = TRUE] /\ reader' = [reader EXCEPT ![n] = "read"]
      /\ UNCHANGED <<asked, done, current, closed, closer, taken, call, held>>
  BY DEF Dial
<1>2. run'.at = "install" /\ run'.client = n /\ DOMAIN run' = DOMAIN run
  BY <1>s DEF Dial, Shape
<1>3. /\ count \in Nat /\ n \in Clients /\ n \in 0 .. MaxClients /\ n # 0
      /\ \A c \in Clients : (c < n <=> c <= count) /\ (c > n => c > count /\ c # n)
  BY <1>s, <1>1, ClientNumbers DEF Shape
<1>4. AllDone /\ current = NoClient
  BY <1>s, <1>1 DEF RunInv
<1> HIDE DEF n
<1>5. Shape'
  BY <1>s, <1>1, <1>2, <1>3 DEF Shape
<1>6. ~done[n] /\ \A c \in Clients : c # n => link'[c] = link[c] /\ reader'[c] = reader[c]
  <2>1. n > count
    BY <1>3 DEF n
  <2> QED
    BY <1>s, <1>1, <1>3, <2>1 DEF ClientInv, Shape
<1>7. taken <= n
  BY <1>s, <1>3, ClientNumbers DEF ClientInv, n
<1>8. ClientInv'
  BY <1>s, <1>1, <1>3, <1>6, <1>7 DEF ClientInv
<1>9. OneOpenClient'
  BY <1>1, <1>3, <1>4 DEF OneOpenClient, AllDone
<1>10. RunInv'
  BY <1>1, <1>2, <1>3, <1>4, <1>9 DEF RunInv
<1> QED
  BY <1>5, <1>8, <1>10 DEF LifeInv

\* ResubscribeFails and CloseOld close the newest client.
LEMMA LifeCloses ==
    ASSUME LifeInv, run.client = count, count # 0, CloseClient(run.client),
           UNCHANGED <<count, current, closed, reader, closer, taken, call, held>>,
           DOMAIN run' = DOMAIN run
    PROVE  Shape' /\ ClientInv' /\ OneOpenClient' /\ AllDone'
<1>s. Shape /\ ClientInv /\ OneOpenClient
  BY DEF LifeInv, RunInv
<1>1. run.client \in Clients /\ count \in Nat
  BY <1>s, ClientNumbers DEF Shape
<1>2. /\ \A d \in Clients : done'[d] = (done[d] \/ d = run.client)
                            /\ link'[d] = (link[d] /\ d # run.client)
      /\ link' \in [Clients -> BOOLEAN] /\ done' \in [Clients -> BOOLEAN]
      /\ DOMAIN asked' = Clients
  BY <1>s, <1>1, CloseEffect
<1>3. Shape'
  BY <1>s, <1>2 DEF Shape
<1>4. \A d \in Clients : d > count => d # run.client
  BY <1>1, ClientNumbers
<1>5. ClientInv'
  BY <1>s, <1>2, <1>4 DEF ClientInv
<1>6. \A d \in Clients : d <= count => d < count \/ d = run.client
  BY <1>1, ClientNumbers
<1>7. OneOpenClient' /\ AllDone'
  BY <1>s, <1>2, <1>6 DEF OneOpenClient, AllDone
<1> QED
  BY <1>3, <1>5, <1>7

LEMMA LifeRun == ASSUME LifeInv, RunStep PROVE LifeInv'
<1> USE DEF netVars, dialVars, inboxVars, readVars, clientVars, chanVars, listVars, mgrVars,
            callVars, closeVars, appVars
<1>s. Shape /\ ClientInv /\ RunInv
  BY DEF LifeInv
<1>r. DOMAIN run = {"at", "client", "list", "todo", "redirect", "new"}
  BY <1>s DEF Shape
<1>1. CASE Connect
  <2>1. /\ DOMAIN run' = DOMAIN run /\ run.at = "connect"
        /\ run'.at = IF closed THEN "ended" ELSE "dial"
        /\ UNCHANGED <<count, done, link, asked, reader, closer, taken, closed, call, held,
                       current>>
    BY <1>r, <1>1 DEF Connect
  <2>2. OneOpenClient' /\ (AllDone' <=> AllDone) /\ (RunInv' => LifeInv')
    BY <2>1, LifeMoves
  <2>3. RunInv'
    BY <1>s, <2>1, <2>2 DEF RunInv
  <2> QED
    BY <2>2, <2>3
<1>2. CASE Dial
  BY <1>2, LifeDial
<1>3. CASE DialFails \/ DialedAll \/ connectUntilAvailable \/ Backoff
  <2>1. /\ DOMAIN run' = DOMAIN run
        /\ \/ run.at = "dial" /\ run'.at \in {"dial", "backoff"}
           \/ run.at = "backoff" /\ run'.at \in {"connect", "ended"}
        /\ UNCHANGED <<count, done, link, asked, reader, closer, taken, closed, call, held,
                       current>>
    BY <1>r, <1>3 DEF DialFails, DialedAll, connectUntilAvailable, Backoff, RunGoes
  <2>2. OneOpenClient' /\ (AllDone' <=> AllDone) /\ (RunInv' => LifeInv')
    BY <2>1, LifeMoves
  <2>3. RunInv'
    BY <1>s, <2>1, <2>2 DEF RunInv
  <2> QED
    BY <2>2, <2>3
<1>4. CASE Install
  <2>1. /\ DOMAIN run' = DOMAIN run /\ run.at = "install" /\ run'.at = "resubscribe"
        /\ run'.client = run.client /\ current' = run.client
        /\ UNCHANGED <<count, done, link, asked, reader, closer, taken, closed, call, held>>
    BY <1>r, <1>4 DEF Install
  <2>2. OneOpenClient' /\ (AllDone' <=> AllDone) /\ (RunInv' => LifeInv')
    BY <2>1, LifeMoves
  <2>3. RunInv'
    BY <1>s, <2>1, <2>2, ClientNumbers DEF RunInv
  <2> QED
    BY <2>2, <2>3
<1>5. ASSUME NEW t \in Topics, Resubscribe(t)
      PROVE  LifeInv'
  <2>1. /\ DOMAIN run' = DOMAIN run /\ run.at = "resubscribe" /\ run'.at = run.at
        /\ run'.client = run.client /\ DOMAIN asked' = Clients
        /\ UNCHANGED <<count, done, link, reader, closer, taken, closed, call, held, current>>
    BY <1>s, <1>r, <1>5 DEF Resubscribe, Asks, Shape
  <2>2. Shape' /\ ClientInv' /\ OneOpenClient'
    BY <1>s, <2>1 DEF Shape, ClientInv, RunInv, OneOpenClient
  <2>3. RunInv'
    BY <1>s, <2>1, <2>2 DEF RunInv
  <2> QED
    BY <2>2, <2>3 DEF LifeInv
<1>6. CASE ResubscribeFails
  <2>1. /\ DOMAIN run' = DOMAIN run /\ run.at = "resubscribe" /\ run'.at = "uninstall"
        /\ CloseClient(run.client)
        /\ UNCHANGED <<count, reader, closer, taken, closed, call, held, current>>
    BY <1>r, <1>6 DEF ResubscribeFails
  <2>2. Shape' /\ ClientInv' /\ OneOpenClient' /\ AllDone'
    BY <1>s, <2>1, LifeCloses DEF RunInv
  <2>3. RunInv'
    BY <1>s, <2>1, <2>2 DEF RunInv
  <2> QED
    BY <2>2, <2>3 DEF LifeInv
<1>7. CASE Uninstall
  <2>1. /\ DOMAIN run' = DOMAIN run /\ run.at = "uninstall" /\ run'.at = "dial"
        /\ current' = NoClient
        /\ UNCHANGED <<count, done, link, asked, reader, closer, taken, closed, call, held>>
    BY <1>r, <1>7 DEF Uninstall
  <2>2. OneOpenClient' /\ (AllDone' <=> AllDone) /\ (RunInv' => LifeInv')
    BY <2>1, LifeMoves
  <2>3. RunInv'
    BY <1>s, <2>1, <2>2 DEF RunInv
  <2> QED
    BY <2>2, <2>3
<1>8. CASE Connected
  <2>1. /\ DOMAIN run' = DOMAIN run /\ run.at = "resubscribe" /\ run'.at = "check"
        /\ UNCHANGED <<count, done, link, asked, reader, closer, taken, closed, call, held,
                       current>>
    BY <1>r, <1>8 DEF Connected
  <2>2. OneOpenClient' /\ (AllDone' <=> AllDone) /\ (RunInv' => LifeInv')
    BY <2>1, LifeMoves
  <2>3. RunInv'
    BY <1>s, <2>1, <2>2 DEF RunInv
  <2> QED
    BY <2>2, <2>3
<1>9. CASE Check
  <2>1. /\ DOMAIN run' = DOMAIN run /\ run.at = "check"
        /\ \/ current = NoClient /\ run'.at = "connect"
           \/ current # NoClient /\ run'.at = "watch" /\ run'.client = current
        /\ UNCHANGED <<count, done, link, asked, reader, closer, taken, closed, call, held,
                       current>>
    BY <1>r, <1>9 DEF Check
  <2>2. OneOpenClient' /\ (AllDone' <=> AllDone) /\ (RunInv' => LifeInv')
    BY <2>1, LifeMoves
  <2>3. RunInv'
    BY <1>s, <2>1, <2>2, ClientNumbers DEF RunInv
  <2> QED
    BY <2>2, <2>3
<1>10. CASE WatchEvent \/ Forward \/ WatchEnds \/ WatchShutdown \/ WatchClosed \/ Leave
  <2>1. /\ DOMAIN run' = DOMAIN run /\ run'.client = run.client
        /\ run.at \in {"watch", "forward", "await", "leave"}
        /\ run'.at \in {"watch", "forward", "await", "leave", "clear"}
        /\ UNCHANGED <<count, done, link, asked, reader, closer, taken, closed, call, held,
                       current>>
    BY <1>r, <1>10 DEF WatchEvent, Forward, WatchEnds, WatchShutdown, WatchClosed, Leave,
                       RunGoes, OnEnd
  <2>2. OneOpenClient' /\ (AllDone' <=> AllDone) /\ (RunInv' => LifeInv')
    BY <2>1, LifeMoves
  <2>3. RunInv'
    BY <1>s, <2>1, <2>2 DEF RunInv
  <2> QED
    BY <2>2, <2>3
<1>11. CASE Clear
  <2>1. /\ DOMAIN run' = DOMAIN run /\ run.at = "clear" /\ run'.at = "close"
        /\ run'.client = run.client
        /\ current' = IF current = run.client THEN NoClient ELSE current
        /\ UNCHANGED <<count, done, link, asked, reader, closer, taken, closed, call, held>>
    BY <1>r, <1>11 DEF Clear, RunGoes
  <2>2. OneOpenClient' /\ (AllDone' <=> AllDone) /\ (RunInv' => LifeInv')
    BY <2>1, LifeMoves
  <2>3. RunInv'
    BY <1>s, <2>1, <2>2 DEF RunInv
  <2> QED
    BY <2>2, <2>3
<1>12. CASE CloseOld
  <2>1. /\ DOMAIN run' = DOMAIN run /\ run.at = "close" /\ run'.at = "connect"
        /\ CloseClient(run.client)
        /\ UNCHANGED <<count, reader, closer, taken, closed, call, held, current>>
    BY <1>r, <1>12 DEF CloseOld, CloseWatched
  <2>2. Shape' /\ ClientInv' /\ OneOpenClient' /\ AllDone'
    BY <1>s, <2>1, LifeCloses DEF RunInv
  <2>3. RunInv'
    BY <1>s, <2>1, <2>2 DEF RunInv
  <2> QED
    BY <2>2, <2>3 DEF LifeInv
<1> QED
  BY <1>1, <1>2, <1>3, <1>4, <1>5, <1>6, <1>7, <1>8, <1>9, <1>10, <1>11, <1>12 DEF RunStep

LEMMA LifeClose == ASSUME LifeInv, Close \/ CloseStep PROVE LifeInv'
<1> USE DEF netVars, dialVars, inboxVars, readVars, clientVars, chanVars, listVars, mgrVars,
            callVars, closeVars, appVars
<1>s. Shape /\ ClientInv /\ RunInv
  BY DEF LifeInv
<1>1. CASE Close
  <2>1. /\ closed' /\ closer' = "take"
        /\ UNCHANGED <<count, current, run, taken, done, reader, call, held, link, asked>>
    BY <1>1 DEF Close
  <2>2. Shape'
    BY <1>s, <2>1 DEF Shape
  <2>3. ClientInv'
    BY <1>s, <2>1 DEF ClientInv
  <2>4. RunInv'
    BY <1>s, <2>1 DEF RunInv, OneOpenClient, AllDone
  <2> QED
    BY <2>2, <2>3, <2>4 DEF LifeInv
<1>2. CASE CloseTakes
  <2>1. /\ closer = "take" /\ taken' = current /\ current' = NoClient
        /\ closer' = IF current = NoClient THEN "returned" ELSE "close"
        /\ UNCHANGED <<count, closed, run, done, reader, call, held, link, asked>>
    BY <1>2 DEF CloseTakes
  <2>2. Shape'
    BY <1>s, <2>1 DEF Shape
  <2>3. current \in Clients \cup {NoClient} /\ current <= count
    BY <1>s, ClientNumbers DEF RunInv, Shape
  <2>4. ClientInv'
    BY <1>s, <2>1, <2>3 DEF ClientInv
  <2>5. RunInv'
    BY <1>s, <2>1 DEF RunInv, ClientInv, OneOpenClient, AllDone
  <2> QED
    BY <2>2, <2>4, <2>5 DEF LifeInv
<1>3. CASE CloseTaken
  <2>1. /\ closer = "close" /\ CloseClient(taken) /\ closer' = "returned" /\ taken' = NoClient
        /\ UNCHANGED <<count, current, closed, run, reader, call, held>>
    BY <1>3 DEF CloseTaken
  <2>2. taken \in Clients /\ taken <= count
    BY <1>s, <2>1 DEF ClientInv
  <2>3. /\ \A d \in Clients : done'[d] = (done[d] \/ d = taken)
                              /\ link'[d] = (link[d] /\ d # taken)
        /\ link' \in [Clients -> BOOLEAN] /\ done' \in [Clients -> BOOLEAN]
        /\ DOMAIN asked' = Clients
    BY <1>s, <2>1, <2>2, CloseEffect
  <2>4. Shape'
    BY <1>s, <2>1, <2>3 DEF Shape
  <2>5. count \in Nat /\ \A d \in Clients : d > count => d # taken
    BY <1>s, <2>2, ClientNumbers DEF Shape
  <2>6. NoClient <= count
    BY <2>5, ClientNumbers
  <2>7. ClientInv'
    BY <1>s, <2>1, <2>3, <2>5, <2>6 DEF ClientInv
  <2>8. OneOpenClient' /\ (AllDone => AllDone')
    BY <1>s, <2>1, <2>3 DEF RunInv, OneOpenClient, AllDone
  <2>9. RunInv'
    BY <1>s, <2>1, <2>8 DEF RunInv
  <2> QED
    BY <2>4, <2>7, <2>9 DEF LifeInv
<1> QED
  BY <1>1, <1>2, <1>3 DEF CloseStep

LEMMA LifeStep == LifeInv /\ [Next]_vars => LifeInv'
<1> SUFFICES ASSUME LifeInv, [Next]_vars PROVE LifeInv'
  OBVIOUS
<1>1. CASE UNCHANGED vars
  <2>1. UNCHANGED <<count, current, closed, run, closer, taken, done, reader, call, held,
                    link, asked>>
    BY <1>1 DEF vars, netVars, dialVars, inboxVars, readVars, clientVars, chanVars, listVars,
                mgrVars, callVars, closeVars, appVars
  <2> QED
    BY <2>1, LifeKept DEF LifeInv, Shape, ClientInv
<1> QED
  BY <1>1, LifeOutside, LifeRun, LifeClose DEF Next

\* Whatever brokers, consumer and callers do, every connection but the newest
\* is closed: run and connect never dial while an older client is open, even
\* when Close takes the client away from under them.
THEOREM OneOpenClientHolds == Spec => []OneOpenClient
<1>1. LifeInv => OneOpenClient
  BY DEF LifeInv, RunInv
<1> QED
  BY <1>1, LifeInit, LifeStep, PTL DEF Spec

-----------------------------------------------------------------------------
(* Subscriptions *)

\* With the topics that were ever given to Subscribe.
SubscribedInv == topics \subseteq Topics /\ SubscriptionsRestored

LEMMA SubscribedInit == Init => SubscribedInv
  BY DEF Init, SubscribedInv, SubscriptionsRestored

\* Steps that close connections, or leave them alone, and change no topic.
LEMMA SubscribedKept ==
    ASSUME SubscribedInv, UNCHANGED <<current, topics, run, call, held>>,
           current # NoClient /\ link'[current] =>
               link[current] /\ asked[current] \subseteq asked'[current]
    PROVE  SubscribedInv'
  BY DEF SubscribedInv, SubscriptionsRestored

\* The brokers, the network, readLoop and the consumer.
LEMMA SubscribedOutside ==
    ASSUME LifeInv, SubscribedInv,
           Environment \/ (\E c \in Clients : ReadStep(c)) \/ Receive \/ Close \/ CloseStep
    PROVE  SubscribedInv'
<1> USE DEF netVars, dialVars, inboxVars, readVars, clientVars, chanVars, listVars, mgrVars,
            callVars, closeVars, appVars
<1>s. Shape
  BY DEF LifeInv
<1>c. current # NoClient => current \in Clients
  BY ClientNumbers DEF LifeInv, RunInv, Shape
<1>k. ASSUME NEW c \in Clients, CloseClient(c), current # NoClient, link'[current]
      PROVE  link[current] /\ asked[current] \subseteq asked'[current]
  BY <1>s, <1>c, <1>k, CloseEffect
<1>1. ASSUME NEW e \in Endpoints, Crash(e) \/ Silence(e)
      PROVE  SubscribedInv'
  <2>1. UNCHANGED <<current, topics, run, call, held>> /\ Cut(e)
    BY <1>1 DEF Crash, Silence, Fails
  <2>2. current # NoClient /\ link'[current] =>
            link[current] /\ asked'[current] = asked[current]
    BY <1>c, <2>1 DEF Cut
  <2> QED
    BY <2>1, <2>2, SubscribedKept
<1>2. ASSUME UNCHANGED <<current, topics, run, call, held, link, asked>>
      PROVE  SubscribedInv'
  BY <1>2, SubscribedKept
<1>7. ASSUME NEW e \in Endpoints, Drain(e) \/ Restart(e)
      PROVE  SubscribedInv'
  BY <1>2, <1>7 DEF Drain, Restart
<1>8. ASSUME NEW c \in Clients, SendEvent(c) \/ ReadEvent(c) \/ PutEvent(c) \/ ReadAck(c)
                                 \/ PutAck(c) \/ ReadShutdown(c) \/ ReadCloses(c)
      PROVE  SubscribedInv'
  BY <1>2, <1>8 DEF SendEvent, ReadEvent, PutEvent, ReadAck, PutAck, ReadShutdown, ReadCloses
<1>9. ASSUME Receive \/ Close
      PROVE  SubscribedInv'
  BY <1>2, <1>9 DEF Receive, Close
<1>3. ASSUME NEW c \in Clients, NEW r, Notify(c, r)
      PROVE  SubscribedInv'
  <2>1. /\ UNCHANGED <<current, topics, run, call, held>>
        /\ link' = [link EXCEPT ![c] = FALSE] /\ asked' = [asked EXCEPT ![c] = {}]
    BY <1>3 DEF Notify
  <2>2. current # NoClient /\ link'[current] =>
            link[current] /\ asked'[current] = asked[current]
    BY <1>s, <1>c, <2>1 DEF Shape
  <2> QED
    BY <2>1, <2>2, SubscribedKept
<1>4. ASSUME NEW c \in Clients, ReadReturns(c)
      PROVE  SubscribedInv'
  <2>1. UNCHANGED <<current, topics, run, call, held>> /\ CloseClient(c)
    BY <1>4 DEF ReadReturns
  <2> QED
    BY <1>k, <2>1, SubscribedKept
<1>5. ASSUME CloseTakes
      PROVE  SubscribedInv'
  BY <1>5 DEF CloseTakes, SubscribedInv, SubscriptionsRestored
<1>6. ASSUME CloseTaken
      PROVE  SubscribedInv'
  <2>1. UNCHANGED <<current, topics, run, call, held>> /\ CloseClient(taken)
        /\ closer = "close"
    BY <1>6 DEF CloseTaken
  <2>2. taken \in Clients
    BY <2>1 DEF LifeInv, ClientInv
  <2> QED
    BY <1>k, <2>1, <2>2, SubscribedKept
<1> QED
  BY <1>1, <1>3, <1>4, <1>5, <1>6, <1>7, <1>8, <1>9
  DEF Environment, ReadStep, ReadsOn, CloseStep

\* Subscribe, and the SUBSCRIBE frame that it sends.
LEMMA SubscribedCalls ==
    ASSUME LifeInv, SubscribedInv, NEW u \in Topics, Subscribe(u) \/ SubscribeSends(u)
    PROVE  SubscribedInv'
<1> USE DEF netVars, dialVars, inboxVars, readVars, clientVars, chanVars, listVars, mgrVars,
            callVars, closeVars, appVars
<1>s. Shape /\ ClientInv /\ topics \subseteq Topics
  BY DEF LifeInv, SubscribedInv
<1>c. current # NoClient => current \in Clients
  BY ClientNumbers DEF LifeInv, RunInv, Shape
<1>1. CASE Subscribe(u)
  <2>1. /\ topics' = topics \cup {u} /\ held' = [held EXCEPT ![u] = current]
        /\ call' = [call EXCEPT ![u] = IF current = NoClient THEN "returned" ELSE "send"]
        /\ UNCHANGED <<current, run, link, asked>>
    BY <1>1 DEF Subscribe
  <2>2. \A t \in topics : t # u => call'[t] = call[t] /\ held'[t] = held[t]
    BY <1>s, <2>1 DEF Shape
  <2>3. current # NoClient => call'[u] = "send" /\ held'[u] = current
    BY <1>s, <2>1 DEF Shape
  <2> QED
    BY <1>s, <2>1, <2>2, <2>3 DEF SubscribedInv, SubscriptionsRestored
<1>2. CASE SubscribeSends(u)
  <2>1. /\ UNCHANGED <<current, topics, run, link, done>>
        /\ call' = [call EXCEPT ![u] = "returned"] /\ held' = [held EXCEPT ![u] = NoClient]
        /\ \/ /\ ~done[held[u]]
              /\ asked' = [asked EXCEPT ![held[u]] = IF link[held[u]] THEN @ \cup {u} ELSE {}]
           \/ (done[held[u]] \/ ~link[held[u]]) /\ UNCHANGED asked
    BY <1>2 DEF SubscribeSends, CanSend, CanFail, Asks
  <2>2. \A t \in topics : t # u => call'[t] = call[t] /\ held'[t] = held[t]
    BY <1>s, <2>1 DEF Shape
  <2>3. ASSUME current # NoClient, link[current]
        PROVE  asked[current] \subseteq asked'[current]
               /\ (held[u] = current => u \in asked'[current])
    <3>1. current \in Clients /\ ~done[current]
      BY <1>s, <1>c, <2>3 DEF ClientInv
    <3> QED
      BY <1>s, <2>1, <2>3, <3>1 DEF Shape
  <2>4. ASSUME current # NoClient, link[current], NEW t \in topics
        PROVE  \/ t \in asked'[current]
               \/ run.at = "resubscribe" /\ run.client = current /\ t \in run.todo
               \/ call'[t] = "send" /\ held'[t] = current
    BY <2>2, <2>3, <2>4 DEF SubscribedInv, SubscriptionsRestored
  <2> QED
    BY <1>s, <2>1, <2>4 DEF SubscribedInv, SubscriptionsRestored
<1> QED
  BY <1>1, <1>2

LEMMA SubscribedRun == ASSUME LifeInv, SubscribedInv, RunStep PROVE SubscribedInv'
<1> USE DEF netVars, dialVars, inboxVars, readVars, clientVars, chanVars, listVars, mgrVars,
            callVars, closeVars, appVars
<1>s. Shape /\ ClientInv /\ RunInv /\ topics \subseteq Topics
  BY DEF LifeInv, SubscribedInv
<1>r. DOMAIN run = {"at", "client", "list", "todo", "redirect", "new"}
  BY <1>s DEF Shape
<1>c. current # NoClient => current \in Clients
  BY <1>s, ClientNumbers DEF RunInv, Shape
\* Steps after which connect has nothing left to subscribe, as before.
<1>q. ASSUME UNCHANGED <<topics, call, held, link, asked>>, current' \in {NoClient, current},
             run.at # "resubscribe" \/ run.todo = {}
      PROVE  SubscribedInv'
  BY <1>q DEF SubscribedInv, SubscriptionsRestored
<1>1. CASE Connect \/ DialFails \/ DialedAll \/ connectUntilAvailable \/ Backoff \/ Check
           \/ WatchEvent \/ Forward \/ WatchEnds \/ WatchShutdown \/ WatchClosed \/ Leave
  <2>1. UNCHANGED <<topics, call, held, link, asked, current>> /\ run.at # "resubscribe"
    BY <1>1 DEF Connect, DialFails, DialedAll, connectUntilAvailable, Backoff, Check,
                WatchEvent, Forward, WatchEnds, WatchShutdown, WatchClosed, Leave
  <2> QED
    BY <1>q, <2>1
<1>2. CASE Uninstall \/ Connected \/ Clear
  <2>1. /\ UNCHANGED <<topics, call, held, link, asked>> /\ current' \in {NoClient, current}
        /\ run.at # "resubscribe" \/ run.todo = {}
    BY <1>2 DEF Uninstall, Connected, Clear
  <2> QED
    BY <1>q, <2>1
<1>3. CASE Dial
  <2>1. UNCHANGED <<topics, current>> /\ run.at = "dial"
    BY <1>3 DEF Dial
  <2>2. current' = NoClient
    BY <1>s, <2>1 DEF RunInv
  <2> QED
    BY <1>s, <2>1, <2>2 DEF SubscribedInv, SubscriptionsRestored
<1>4. CASE Install
  <2>1. /\ current' = run.client /\ run'.at = "resubscribe" /\ run'.client = run.client
        /\ run'.todo = topics /\ UNCHANGED topics
    BY <1>r, <1>4 DEF Install, Recorded
  <2> QED
    BY <1>s, <2>1 DEF SubscribedInv, SubscriptionsRestored
<1>5. ASSUME NEW u \in Topics, Resubscribe(u)
      PROVE  SubscribedInv'
  <2>1. /\ run'.at = run.at /\ run'.client = run.client /\ run'.todo = run.todo \ {u}
        /\ asked' = [asked EXCEPT ![run.client] = IF link[run.client] THEN @ \cup {u} ELSE {}]
        /\ UNCHANGED <<current, topics, link, call, held>>
    BY <1>r, <1>5 DEF Resubscribe, Asks
  <2>2. ASSUME current # NoClient, link[current]
        PROVE  asked[current] \subseteq asked'[current]
               /\ (run.client = current => u \in asked'[current])
    BY <1>s, <1>c, <2>1, <2>2 DEF Shape
  <2> QED
    BY <1>s, <2>1, <2>2 DEF SubscribedInv, SubscriptionsRestored
<1>6. CASE ResubscribeFails
  <2>1. /\ run.at = "resubscribe" /\ CloseClient(run.client)
        /\ UNCHANGED <<current, topics, call, held>>
    BY <1>6 DEF ResubscribeFails
  <2>2. run.client \in Clients /\ current \in {NoClient, run.client}
    BY <1>s, <2>1, ClientNumbers DEF RunInv, Shape
  <2>3. ~link'[run.client]
    BY <1>s, <2>1, <2>2, CloseEffect
  <2> QED
    BY <1>s, <2>1, <2>2, <2>3 DEF SubscribedInv, SubscriptionsRestored
<1>7. CASE CloseOld
  <2>1. run.at = "close" /\ UNCHANGED <<current, topics>>
    BY <1>7 DEF CloseOld
  <2>2. current' = NoClient
    BY <1>s, <2>1 DEF RunInv
  <2> QED
    BY <1>s, <2>1, <2>2 DEF SubscribedInv, SubscriptionsRestored
<1> QED
  BY <1>1, <1>2, <1>3, <1>4, <1>5, <1>6, <1>7 DEF RunStep

LEMMA SubscribedStep == LifeInv /\ SubscribedInv /\ [Next]_vars => SubscribedInv'
<1> SUFFICES ASSUME LifeInv, SubscribedInv, [Next]_vars PROVE SubscribedInv'
  OBVIOUS
<1>1. CASE UNCHANGED vars
  BY <1>1 DEF vars, clientVars, mgrVars, listVars, appVars, callVars, SubscribedInv,
              SubscriptionsRestored
<1> QED
  BY <1>1, SubscribedOutside, SubscribedCalls, SubscribedRun DEF Next

\* No topic is forgotten when the connection is replaced, however Subscribe,
\* connect, readLoop and Close interleave: on the current connection it has
\* been asked for, or connect or Subscribe is still going to ask.
THEOREM SubscriptionsRestoredHolds == Spec => []SubscriptionsRestored
<1>1. SubscribedInv => SubscriptionsRestored
  BY DEF SubscribedInv
<1>2. LifeInv /\ SubscribedInv /\ [Next]_vars => LifeInv' /\ SubscribedInv'
  BY LifeStep, SubscribedStep
<1> QED
  BY <1>1, <1>2, LifeInit, SubscribedInit, PTL DEF Spec

-----------------------------------------------------------------------------
(* prefer *)

\* prefer's loop, candidate by candidate.
LEMMA PreferLoop ==
    ASSUME endpoints \in Seq(Endpoints), NEW e \in Endpoints
    PROVE  \E ordered :
               /\ prefer(e) = ordered[Len(endpoints)]
               /\ ordered[0] = <<e>>
               /\ \A i \in 1 .. Len(endpoints) :
                      ordered[i] = IF endpoints[i] # e
                                   THEN Append(ordered[i - 1], endpoints[i])
                                   ELSE ordered[i - 1]
<1> DEFINE N == Len(endpoints)
           V == Seq(Endpoints)
           Loop(g) == g = [i \in 0 .. N |->
                             IF i = 0 THEN <<e>>
                             ELSE IF endpoints[i] # e THEN Append(g[i - 1], endpoints[i])
                             ELSE g[i - 1]]
           step == [p \in (1 .. N) \X V |->
                       IF endpoints[p[1]] # e THEN Append(p[2], endpoints[p[1]]) ELSE p[2]]
<1>1. N \in Nat /\ <<e>> \in V /\ \A i \in 1 .. N : endpoints[i] \in Endpoints
  OBVIOUS
<1>2. step \in Loops(N, V)
  <2>1. \A i \in 1 .. N, v \in V : Append(v, endpoints[i]) \in V
    BY <1>1
  <2> HIDE DEF N, V
  <2> QED
    BY <2>1 DEF Loops
<1>3. \A i \in 1 .. N, v \in V :
          step[<<i, v>>] = IF endpoints[i] # e THEN Append(v, endpoints[i]) ELSE v
  <2> HIDE DEF N, V
  <2> QED
    OBVIOUS
<1> HIDE DEF step
<1>4. PICK g : Iterates(g, N, V, <<e>>, step)
  <2> HIDE DEF N, V, Loop
  <2> QED
    BY <1>1, <1>2, Iteration
<1>5. Loop(g)
  <2>1. ASSUME NEW i \in 1 .. N
        PROVE  g[i] = IF endpoints[i] # e THEN Append(g[i - 1], endpoints[i]) ELSE g[i - 1]
    <3>1. i - 1 \in 0 .. N
      BY <1>1
    <3>2. g[i - 1] \in V
      BY <1>4, <3>1 DEF Iterates
    <3> HIDE DEF N, V
    <3> QED
      BY <1>3, <1>4, <3>2 DEF Iterates
  <2>2. \A i \in 0 .. N : i # 0 => i \in 1 .. N
    BY <1>1
  <2> HIDE DEF N, V
  <2> QED
    BY <1>4, <2>1, <2>2 DEF Iterates
<1> DEFINE ordered == CHOOSE r : Loop(r)
<1>6. Loop(ordered)
  <2> HIDE DEF Loop
  <2> QED
    BY <1>5
<1>7. prefer(e) = ordered[N]
  BY DEF prefer
<1> HIDE DEF ordered
<1>8. \A i \in 1 .. N : i \in 0 .. N /\ i # 0
  BY <1>1
<1>9. ordered[0] = <<e>>
  BY <1>1, <1>6
<1>10. \A i \in 1 .. N : ordered[i] = IF endpoints[i] # e
                                      THEN Append(ordered[i - 1], endpoints[i])
                                      ELSE ordered[i - 1]
  BY <1>6, <1>8
<1> QED
  BY <1>7, <1>9, <1>10

\* The new list starts with the endpoint and has every endpoint of the old one.
LEMMA PreferFacts ==
    ASSUME endpoints \in Seq(Endpoints), NEW e \in Endpoints
    PROVE  /\ prefer(e) \in Seq(Endpoints) /\ prefer(e) # <<>> /\ prefer(e)[1] = e
           /\ \A i \in 1 .. Len(endpoints) :
                  \E j \in 1 .. Len(prefer(e)) : prefer(e)[j] = endpoints[i]
<1>1. PICK ordered :
          /\ prefer(e) = ordered[Len(endpoints)]
          /\ ordered[0] = <<e>>
          /\ \A i \in 1 .. Len(endpoints) :
                 ordered[i] = IF endpoints[i] # e THEN Append(ordered[i - 1], endpoints[i])
                                                  ELSE ordered[i - 1]
  BY PreferLoop
<1> DEFINE Lists(s, m) ==
             /\ s \in Seq(Endpoints) /\ Len(s) > 0 /\ s[1] = e
             /\ \A i \in 1 .. m : \E j \in 1 .. Len(s) : s[j] = endpoints[i]
           X == {m \in Nat : m <= Len(endpoints) => Lists(ordered[m], m)}
<1>2. Len(endpoints) \in Nat
  OBVIOUS
<1>3. 0 \in X
  <2>1. Lists(<<e>>, 0)
    OBVIOUS
  <2> HIDE DEF Lists
  <2> QED
    BY <1>1, <2>1
<1>4. ASSUME NEW m \in Nat, m \in X
      PROVE  m + 1 \in X
  <2>1. ASSUME m + 1 <= Len(endpoints)
        PROVE  Lists(ordered[m + 1], m + 1)
    <3> DEFINE s == ordered[m]
               x == endpoints[m + 1]
    <3>1. Lists(s, m)
      <4> HIDE DEF Lists
      <4> QED
        BY <1>2, <1>4, <2>1
    <3>2. /\ x \in Endpoints /\ m + 1 \in 1 .. Len(endpoints)
          /\ \A i \in 1 .. m + 1 : i \in 1 .. m \/ i = m + 1
      BY <1>2, <2>1
    <3>3. ordered[m + 1] = IF x # e THEN Append(s, x) ELSE s
      BY <1>1, <3>2
    <3>4. CASE x # e
      <4> DEFINE t == Append(s, x)
      <4>1. /\ t \in Seq(Endpoints) /\ Len(t) = Len(s) + 1 /\ t[Len(t)] = x
            /\ \A j \in 1 .. Len(s) : t[j] = s[j]
        <5> HIDE DEF s, x
        <5> QED
          BY <3>1, <3>2
      <4>2. Len(s) \in Nat /\ Len(s) > 0
        BY <3>1
      <4>3. Len(t) \in 1 .. Len(t) /\ 1 \in 1 .. Len(s) /\ \A j \in 1 .. Len(s) : j \in 1 .. Len(t)
        <5> HIDE DEF s, t
        <5> QED
          BY <4>1, <4>2
      <4> HIDE DEF s, t
      <4>4. Len(t) > 0
        BY <4>1, <4>2
      <4>5. t[1] = e
        BY <3>1, <4>1, <4>3
      <4>6. \A i \in 1 .. m + 1 : \E j \in 1 .. Len(t) : t[j] = endpoints[i]
        BY <3>1, <3>2, <4>1, <4>3
      <4>7. ordered[m + 1] = t
        BY <3>3, <3>4 DEF t
      <4> QED
        BY <4>1, <4>4, <4>5, <4>6, <4>7
    <3>5. CASE x = e
      <4>1. 1 \in 1 .. Len(s) /\ s[1] = x
        BY <3>1, <3>5
      <4> HIDE DEF s
      <4> QED
        BY <3>1, <3>2, <3>3, <3>5, <4>1
    <3> QED
      BY <3>4, <3>5
  <2> HIDE DEF Lists
  <2> QED
    BY <2>1
<1>5. Nat \subseteq X
  <2> HIDE DEF X
  <2> QED
    BY <1>3, <1>4, SetInduction
<1>6. Lists(ordered[Len(endpoints)], Len(endpoints))
  <2> HIDE DEF Lists
  <2> QED
    BY <1>2, <1>5
<1> QED
  BY <1>1, <1>6

-----------------------------------------------------------------------------
(* Types *)

Frames == [type : {"EVENT", "ERROR", "SHUTDOWN"}, redirect : Endpoints \cup {NoRedirect}]

NetTypes ==
    /\ status \in [Endpoints -> {"up", "draining", "down", "silent"}]
    /\ faults \in 0 .. MaxFaults /\ sent \in 0 .. MaxEvents

\* The client's side of its connections, without what Shape says of it.
WireTypes ==
    /\ at \in [Clients -> Endpoints] /\ asked \in [Clients -> SUBSET Topics]
    /\ wire \in [Clients -> Seq(Frames)]

InboxTypes ==
    /\ reader \in [Clients -> {"absent", "read", "put", "ack", "return", "close", "ended"}]
    /\ buffered \in [Clients -> 0 .. EventsSize]
    /\ notice \in [Clients -> {<<>>} \cup {<<r>> : r \in Endpoints \cup {NoRedirect}}]
    /\ redirected \in [Clients -> Endpoints \cup {NoRedirect}]

ListTypes ==
    /\ endpoints \in Seq(Endpoints) /\ topics \subseteq Topics /\ closed \in BOOLEAN
    /\ events \in Seq(Clients) /\ Len(events) <= ManagerSize
    /\ shutdowns \in {<<>>} \cup {<<r>> : r \in Endpoints}

Places == {"connect", "dial", "install", "resubscribe", "uninstall", "check", "backoff",
           "watch", "forward", "await", "leave", "clear", "close", "ended"}

RunTypes ==
    run \in [at : Places, client : Clients \cup {NoClient}, list : Seq(Endpoints),
             todo : SUBSET Topics, redirect : Endpoints \cup {NoRedirect}, new : BOOLEAN]

CallTypes ==
    /\ call \in [Topics -> {"absent", "send", "returned"}]
    /\ held \in [Topics -> Clients \cup {NoClient}]
    /\ closer \in {"absent", "take", "close", "returned"}

TypeInv ==
    /\ LifeInv
    /\ NetTypes /\ WireTypes /\ InboxTypes /\ ListTypes /\ RunTypes /\ CallTypes

LEMMA TypesSplit == TypeInv => TypeOK
<1> SUFFICES ASSUME TypeInv PROVE TypeOK
  OBVIOUS
<1>1. /\ count \in 0 .. MaxClients /\ link \in [Clients -> BOOLEAN]
      /\ done \in [Clients -> BOOLEAN]
  BY DEF TypeInv, LifeInv, Shape
<1>2. current \in Clients \cup {NoClient} /\ taken \in Clients \cup {NoClient}
  BY <1>1, ClientNumbers DEF TypeInv, LifeInv, RunInv, ClientInv
<1> QED
  BY <1>1, <1>2 DEF TypeOK, TypeInv, NetTypes, WireTypes, InboxTypes, ListTypes, RunTypes,
                    CallTypes, Frames, Places

LEMMA TypesInit == Init => TypeInv
<1> SUFFICES ASSUME Init PROVE TypeInv
  OBVIOUS
<1>1. NetTypes
  <2>1. /\ status \in [Endpoints -> {"up", "down"}] /\ faults = 0 /\ sent = 0
    BY DEF Init
  <2>2. status \in [Endpoints -> {"up", "draining", "down", "silent"}]
    BY <2>1
  <2> QED
    BY <2>1, <2>2, ManagerAssumption DEF NetTypes
<1>2. WireTypes
  <2>1. Configured[1] \in Endpoints
    BY ManagerAssumption
  <2> QED
    BY <2>1 DEF Init, WireTypes
<1>3. InboxTypes
  <2>1. /\ reader = [c \in Clients |-> "absent"] /\ buffered = [c \in Clients |-> 0]
        /\ notice = [c \in Clients |-> <<>>] /\ redirected = [c \in Clients |-> NoRedirect]
    BY DEF Init
  <2>2. 0 \in 0 .. EventsSize
    BY ManagerAssumption
  <2>3. buffered \in [Clients -> 0 .. EventsSize]
    BY <2>1, <2>2
  <2>4. reader \in [Clients -> {"absent", "read", "put", "ack", "return", "close", "ended"}]
    BY <2>1
  <2>5. notice \in [Clients -> {<<>>} \cup {<<r>> : r \in Endpoints \cup {NoRedirect}}]
    BY <2>1
  <2>6. redirected \in [Clients -> Endpoints \cup {NoRedirect}]
    BY <2>1
  <2> QED
    BY <2>3, <2>4, <2>5, <2>6 DEF InboxTypes
<1>4. ListTypes
  <2>1. /\ endpoints = Configured /\ topics = {} /\ closed = FALSE
        /\ events = <<>> /\ shutdowns = <<>>
    BY DEF Init
  <2>2. events \in Seq(Clients) /\ Len(events) <= ManagerSize
    BY <2>1, ManagerAssumption
  <2> QED
    BY <2>1, <2>2, ManagerAssumption DEF ListTypes
<1>5. RunTypes
  BY DEF Init, RunTypes, Places
<1>6. CallTypes
  BY DEF Init, CallTypes
<1> QED
  BY <1>1, <1>2, <1>3, <1>4, <1>5, <1>6, LifeInit DEF TypeInv

LEMMA NetTypesStep == TypeInv /\ [Next]_vars => NetTypes'
<1> SUFFICES ASSUME TypeInv, [Next]_vars PROVE NetTypes'
  OBVIOUS
<1> USE DEF netVars, dialVars, inboxVars, readVars, clientVars, chanVars, listVars, mgrVars,
            callVars, closeVars, appVars
<1>s. NetTypes
  BY DEF TypeInv
<1>k. ASSUME UNCHANGED netVars
      PROVE  NetTypes'
  BY <1>s, <1>k DEF NetTypes
<1>1. ASSUME NEW e \in Endpoints, Crash(e) \/ Silence(e) \/ Drain(e) \/ Restart(e)
      PROVE  NetTypes'
  <2>1. \E how \in {"up", "draining", "down", "silent"} : status' = [status EXCEPT ![e] = how]
    BY <1>1 DEF Crash, Silence, Fails, Drain, Restart
  <2>2. sent' = sent /\ (faults' = faults \/ (faults < MaxFaults /\ faults' = faults + 1))
    BY <1>1 DEF Crash, Silence, Fails, Drain, Restart
  <2>3. status' \in [Endpoints -> {"up", "draining", "down", "silent"}]
    BY <1>s, <2>1 DEF NetTypes
  <2>4. faults' \in 0 .. MaxFaults
    BY <1>s, <2>2, ManagerAssumption DEF NetTypes
  <2> QED
    BY <1>s, <2>2, <2>3, <2>4 DEF NetTypes
<1>2. ASSUME NEW c \in Clients, SendEvent(c) \/ ReadAck(c)
      PROVE  NetTypes'
  <2>1. sent < MaxEvents /\ sent' = sent + 1 /\ UNCHANGED <<status, faults>>
    BY <1>2 DEF SendEvent, ReadAck
  <2>2. sent' \in 0 .. MaxEvents
    BY <1>s, <2>1, ManagerAssumption DEF NetTypes
  <2> QED
    BY <1>s, <2>1, <2>2 DEF NetTypes
<1>3. ASSUME NEW c \in Clients, NEW r, Notify(c, r)
      PROVE  NetTypes'
  BY <1>3, <1>k DEF Notify
<1>4. ASSUME NEW c \in Clients, ReadsOn(c) \/ PutAck(c)
      PROVE  NetTypes'
  BY <1>4, <1>k
  DEF ReadsOn, ReadEvent, PutEvent, PutAck, ReadShutdown, ReadReturns, ReadCloses
<1>5. ASSUME RunStep
      PROVE  NetTypes'
  BY <1>5, <1>k DEF RunStep, Connect, Dial, DialFails, DialedAll, Install, Resubscribe,
                    ResubscribeFails, Uninstall, Connected, connectUntilAvailable, Backoff,
                    Check, WatchEvent, Forward, WatchEnds, WatchShutdown, WatchClosed, Leave,
                    Clear, CloseOld
<1>6. ASSUME CloseStep \/ Close \/ Receive \/ \E t \in Topics : Subscribe(t) \/ SubscribeSends(t)
      PROVE  NetTypes'
  BY <1>6, <1>k DEF CloseStep, CloseTakes, CloseTaken, Close, Receive, Subscribe,
                    SubscribeSends
<1>7. CASE UNCHANGED vars
  BY <1>7, <1>k DEF vars
<1> QED
  BY <1>1, <1>2, <1>3, <1>4, <1>5, <1>6, <1>7 DEF Next, Environment, ReadStep

\* A frame is added to one connection, or taken from it, or the connection goes.
LEMMA WireSends ==
    ASSUME WireTypes, NEW c, NEW f \in Frames
    PROVE  /\ [wire EXCEPT ![c] = Append(@, f)] \in [Clients -> Seq(Frames)]
           /\ [wire EXCEPT ![c] = <<>>] \in [Clients -> Seq(Frames)]
           /\ [asked EXCEPT ![c] = {}] \in [Clients -> SUBSET Topics]
<1>1. c \in Clients => Append(wire[c], f) \in Seq(Frames)
  BY DEF WireTypes
<1>2. [wire EXCEPT ![c] = Append(@, f)] \in [Clients -> Seq(Frames)]
  BY <1>1 DEF WireTypes
<1>3. <<>> \in Seq(Frames)
  OBVIOUS
<1>4. [wire EXCEPT ![c] = <<>>] \in [Clients -> Seq(Frames)]
  BY <1>3 DEF WireTypes
<1>5. [asked EXCEPT ![c] = {}] \in [Clients -> SUBSET Topics]
  BY DEF WireTypes
<1> QED
  BY <1>2, <1>4, <1>5

LEMMA WireReads ==
    ASSUME WireTypes, NEW c \in Clients, wire[c] # <<>>
    PROVE  /\ [wire EXCEPT ![c] = Tail(@)] \in [Clients -> Seq(Frames)]
           /\ Head(wire[c]).redirect \in Endpoints \cup {NoRedirect}
<1>1. wire[c] \in Seq(Frames)
  BY DEF WireTypes
<1>2. Tail(wire[c]) \in Seq(Frames) /\ Head(wire[c]) \in Frames
  BY <1>1
<1>3. [wire EXCEPT ![c] = Tail(@)] \in [Clients -> Seq(Frames)]
  BY <1>2 DEF WireTypes
<1>4. Head(wire[c]).redirect \in Endpoints \cup {NoRedirect}
  BY <1>2 DEF Frames
<1> QED
  BY <1>3, <1>4

LEMMA AskTypes ==
    ASSUME WireTypes, NEW c, NEW t \in Topics, Asks(c, t)
    PROVE  wire' \in [Clients -> Seq(Frames)] /\ asked' \in [Clients -> SUBSET Topics]
<1>1. Frame("ERROR", NoRedirect) \in Frames
  BY DEF Frame, Frames
<1>2. wire' \in [Clients -> Seq(Frames)]
  BY <1>1, WireSends DEF Asks, WireTypes
<1>3. asked' \in [Clients -> SUBSET Topics]
  BY DEF Asks, WireTypes
<1> QED
  BY <1>2, <1>3

LEMMA WireTypesOutside ==
    ASSUME TypeInv, Environment \/ (\E c \in Clients : ReadStep(c)) \/ CloseStep \/ Close
                    \/ Receive \/ \E t \in Topics : Subscribe(t) \/ SubscribeSends(t)
    PROVE  WireTypes'
<1> USE DEF netVars, dialVars, inboxVars, readVars, clientVars, chanVars, listVars, mgrVars,
            callVars, closeVars, appVars
<1>s. WireTypes
  BY DEF TypeInv
<1>k. ASSUME UNCHANGED <<at, asked, wire>>
      PROVE  WireTypes'
  BY <1>s, <1>k DEF WireTypes
<1>c. ASSUME NEW c, CloseClient(c), at' = at
      PROVE  WireTypes'
  <2>1. wire' = [wire EXCEPT ![c] = <<>>] /\ asked' = [asked EXCEPT ![c] = {}]
    BY <1>c DEF CloseClient
  <2>2. Frame("EVENT", NoRedirect) \in Frames
    BY DEF Frame, Frames
  <2> QED
    BY <1>s, <1>c, <2>1, <2>2, WireSends DEF WireTypes
<1>1. ASSUME NEW e \in Endpoints, Crash(e) \/ Silence(e)
      PROVE  WireTypes'
  <2>1. UNCHANGED <<at, wire>> /\ Cut(e)
    BY <1>1 DEF Crash, Silence, Fails
  <2>2. asked' \in [Clients -> SUBSET Topics]
    BY <1>s, <2>1 DEF Cut, WireTypes
  <2> QED
    BY <1>s, <2>1, <2>2 DEF WireTypes
<1>2. ASSUME NEW e \in Endpoints, Drain(e) \/ Restart(e)
      PROVE  WireTypes'
  BY <1>2, <1>k DEF Drain, Restart
<1>3. ASSUME NEW c \in Clients, SendEvent(c)
      PROVE  WireTypes'
  <2>1. Frame("EVENT", NoRedirect) \in Frames
    BY DEF Frame, Frames
  <2> QED
    BY <1>s, <1>3, <2>1, WireSends DEF SendEvent, WireTypes
<1>4. ASSUME NEW c \in Clients, NEW r \in Endpoints \cup {NoRedirect}, Notify(c, r)
      PROVE  WireTypes'
  <2>1. Frame("SHUTDOWN", r) \in Frames
    BY DEF Frame, Frames
  <2> QED
    BY <1>s, <1>4, <2>1, WireSends DEF Notify, WireTypes
<1>5. ASSUME NEW c \in Clients, ReadEvent(c) \/ ReadShutdown(c)
      PROVE  WireTypes'
  <2>1. wire[c] # <<>> /\ wire' = [wire EXCEPT ![c] = Tail(@)] /\ UNCHANGED <<at, asked>>
    BY <1>5 DEF ReadEvent, ReadShutdown, Reads
  <2> QED
    BY <1>s, <2>1, WireReads DEF WireTypes
<1>6. ASSUME NEW c \in Clients, PutEvent(c) \/ ReadAck(c) \/ PutAck(c) \/ ReadCloses(c)
      PROVE  WireTypes'
  BY <1>6, <1>k DEF PutEvent, ReadAck, PutAck, ReadCloses
<1>7. ASSUME NEW c \in Clients, ReadReturns(c)
      PROVE  WireTypes'
  BY <1>7, <1>c DEF ReadReturns
<1>8. CASE CloseTakes \/ Close \/ Receive
  BY <1>8, <1>k DEF CloseTakes, Close, Receive
<1>9. CASE CloseTaken
  BY <1>9, <1>c DEF CloseTaken
<1>10. ASSUME NEW t \in Topics, Subscribe(t)
       PROVE  WireTypes'
  BY <1>10, <1>k DEF Subscribe
<1>11. ASSUME NEW t \in Topics, SubscribeSends(t)
       PROVE  WireTypes'
  BY <1>s, <1>11, <1>k, AskTypes DEF SubscribeSends, WireTypes
<1> QED
  BY <1>1, <1>2, <1>3, <1>4, <1>5, <1>6, <1>7, <1>8, <1>9, <1>10, <1>11
  DEF Environment, ReadStep, ReadsOn, CloseStep

LEMMA WireTypesRun == ASSUME TypeInv, RunStep PROVE WireTypes'
<1> USE DEF netVars, dialVars, inboxVars, readVars, clientVars, chanVars, listVars, mgrVars,
            callVars, closeVars, appVars
<1>s. WireTypes /\ RunTypes
  BY DEF TypeInv
<1>k. ASSUME UNCHANGED <<at, asked, wire>>
      PROVE  WireTypes'
  BY <1>s, <1>k DEF WireTypes
<1>1. CASE Connect \/ DialFails \/ DialedAll \/ Install \/ Uninstall \/ Connected
           \/ connectUntilAvailable \/ Backoff \/ Check
  BY <1>1, <1>k DEF Connect, DialFails, DialedAll, Install, Uninstall, Connected,
                    connectUntilAvailable, Backoff, Check
<1>2. CASE WatchEvent \/ Forward \/ WatchEnds \/ WatchShutdown \/ WatchClosed \/ Leave \/ Clear
  BY <1>2, <1>k DEF WatchEvent, Forward, WatchEnds, WatchShutdown, WatchClosed, Leave, Clear
<1>3. CASE Dial
  <2>1. /\ run.list # <<>> /\ at' = [at EXCEPT ![count + 1] = Head(run.list)]
        /\ UNCHANGED <<asked, wire>>
    BY <1>3 DEF Dial
  <2>2. Head(run.list) \in Endpoints
    BY <1>s, <2>1 DEF RunTypes
  <2>3. at' \in [Clients -> Endpoints]
    BY <1>s, <2>1, <2>2 DEF WireTypes
  <2> QED
    BY <1>s, <2>1, <2>3 DEF WireTypes
<1>4. ASSUME NEW t \in Topics, Resubscribe(t)
      PROVE  WireTypes'
  BY <1>s, <1>4, AskTypes DEF Resubscribe, WireTypes
<1>5. CASE ResubscribeFails \/ CloseOld
  <2>1. CloseClient(run.client) /\ at' = at
    BY <1>5 DEF ResubscribeFails, CloseOld, CloseWatched
  <2>2. wire' = [wire EXCEPT ![run.client] = <<>>] /\ asked' = [asked EXCEPT ![run.client] = {}]
    BY <2>1 DEF CloseClient
  <2>3. Frame("EVENT", NoRedirect) \in Frames
    BY DEF Frame, Frames
  <2> QED
    BY <1>s, <2>1, <2>2, <2>3, WireSends DEF WireTypes
<1> QED
  BY <1>1, <1>2, <1>3, <1>4, <1>5 DEF RunStep

LEMMA InboxTypesStep == TypeInv /\ [Next]_vars => InboxTypes'
<1> SUFFICES ASSUME TypeInv, [Next]_vars PROVE InboxTypes'
  OBVIOUS
<1> USE DEF netVars, dialVars, inboxVars, readVars, clientVars, chanVars, listVars, mgrVars,
            callVars, closeVars, appVars
<1>s. InboxTypes /\ WireTypes /\ LifeInv
  BY DEF TypeInv
<1>k. ASSUME UNCHANGED inboxVars
      PROVE  InboxTypes'
  BY <1>s, <1>k DEF InboxTypes
<1>g. ASSUME NEW c, NEW place \in {"read", "put", "ack", "return", "close", "ended"},
             reader' = [reader EXCEPT ![c] = place]
      PROVE  reader' \in [Clients -> {"absent", "read", "put", "ack", "return", "close", "ended"}]
  BY <1>s, <1>g DEF InboxTypes
<1>1. ASSUME NEW c \in Clients, ReadEvent(c) \/ ReadAck(c) \/ PutAck(c) \/ ReadReturns(c)
                                 \/ ReadCloses(c)
      PROVE  InboxTypes'
  <2>1. /\ \E place \in {"read", "put", "ack", "close", "ended"} :
               reader' = [reader EXCEPT ![c] = place]
        /\ UNCHANGED <<buffered, notice, redirected>>
    BY <1>1 DEF ReadEvent, ReadAck, PutAck, ReadReturns, ReadCloses, ReadGoes
  <2> QED
    BY <1>s, <1>g, <2>1 DEF InboxTypes
<1>2. ASSUME NEW c \in Clients, PutEvent(c)
      PROVE  InboxTypes'
  <2>1. /\ reader' = [reader EXCEPT ![c] = "read"] /\ buffered[c] < EventsSize
        /\ buffered' = [buffered EXCEPT ![c] = @ + 1] /\ UNCHANGED <<notice, redirected>>
    BY <1>2 DEF PutEvent, ReadGoes
  <2>2. buffered[c] + 1 \in 0 .. EventsSize
    BY <1>s, <2>1, ManagerAssumption DEF InboxTypes
  <2>3. buffered' \in [Clients -> 0 .. EventsSize]
    BY <1>s, <2>1, <2>2 DEF InboxTypes
  <2> QED
    BY <1>s, <1>g, <2>1, <2>3 DEF InboxTypes
<1>3. ASSUME NEW c \in Clients, ReadShutdown(c)
      PROVE  InboxTypes'
  <2> DEFINE r == Head(wire[c]).redirect
  <2>1. /\ reader' = [reader EXCEPT ![c] = "return"] /\ UNCHANGED buffered
        /\ notice' = [notice EXCEPT ![c] = <<r>>] /\ wire[c] # <<>>
        /\ redirected' = [redirected EXCEPT ![c] = r]
    BY <1>3 DEF ReadShutdown, ReadGoes, Reads
  <2>2. r \in Endpoints \cup {NoRedirect}
    BY <1>s, <2>1, WireReads
  <2> HIDE DEF r
  <2>3. notice' \in [Clients -> {<<>>} \cup {<<x>> : x \in Endpoints \cup {NoRedirect}}]
    BY <1>s, <2>1, <2>2 DEF InboxTypes
  <2>4. redirected' \in [Clients -> Endpoints \cup {NoRedirect}]
    BY <1>s, <2>1, <2>2 DEF InboxTypes
  <2> QED
    BY <1>s, <1>g, <2>1, <2>3, <2>4 DEF InboxTypes
<1>4. CASE Dial
  <2>1. reader' = [reader EXCEPT ![count + 1] = "read"] /\ UNCHANGED <<buffered, notice, redirected>>
    BY <1>4 DEF Dial
  <2> QED
    BY <1>s, <1>g, <2>1 DEF InboxTypes
<1>5. CASE WatchEvent
  <2>1. /\ run.at = "watch" /\ buffered[run.client] > 0
        /\ buffered' = [buffered EXCEPT ![run.client] = @ - 1]
        /\ UNCHANGED <<reader, notice, redirected>>
    BY <1>5 DEF WatchEvent
  <2>2. run.client \in Clients
    BY <1>s, <2>1, ClientNumbers DEF LifeInv, RunInv, Shape
  <2>3. buffered[run.client] - 1 \in 0 .. EventsSize
    BY <1>s, <2>1, <2>2, ManagerAssumption DEF InboxTypes
  <2>4. buffered' \in [Clients -> 0 .. EventsSize]
    BY <1>s, <2>1, <2>3 DEF InboxTypes
  <2> QED
    BY <1>s, <2>1, <2>4 DEF InboxTypes
<1>6. CASE WatchShutdown
  <2>1. notice' = [notice EXCEPT ![run.client] = <<>>] /\ UNCHANGED <<reader, buffered, redirected>>
    BY <1>6 DEF WatchShutdown
  <2>2. notice' \in [Clients -> {<<>>} \cup {<<x>> : x \in Endpoints \cup {NoRedirect}}]
    BY <1>s, <2>1 DEF InboxTypes
  <2> QED
    BY <1>s, <2>1, <2>2 DEF InboxTypes
<1>7. CASE Environment
  BY <1>7, <1>k DEF Environment, Crash, Silence, Fails, Drain, Restart, SendEvent, Notify
<1>8. CASE Connect \/ DialFails \/ DialedAll \/ Install \/ (\E t \in Topics : Resubscribe(t))
           \/ ResubscribeFails \/ Uninstall \/ Connected
  BY <1>8, <1>k DEF Connect, DialFails, DialedAll, Install, Resubscribe, ResubscribeFails,
                    Uninstall, Connected
<1>9. CASE connectUntilAvailable \/ Backoff \/ Check \/ Forward \/ WatchEnds \/ WatchClosed
           \/ Leave \/ Clear \/ CloseOld
  BY <1>9, <1>k DEF connectUntilAvailable, Backoff, Check, Forward, WatchEnds, WatchClosed,
                    Leave, Clear, CloseOld
<1>10. CASE CloseStep \/ Close \/ Receive \/ \E t \in Topics : Subscribe(t) \/ SubscribeSends(t)
  BY <1>10, <1>k DEF CloseStep, CloseTakes, CloseTaken, Close, Receive, Subscribe,
                     SubscribeSends
<1>11. CASE UNCHANGED vars
  BY <1>11, <1>k DEF vars
<1> QED
  BY <1>1, <1>2, <1>3, <1>4, <1>5, <1>6, <1>7, <1>8, <1>9, <1>10, <1>11
  DEF Next, ReadStep, ReadsOn, RunStep

LEMMA ListTypesStep == TypeInv /\ [Next]_vars => ListTypes'
<1> SUFFICES ASSUME TypeInv, [Next]_vars PROVE ListTypes'
  OBVIOUS
<1> USE DEF netVars, dialVars, inboxVars, readVars, clientVars, chanVars, listVars, mgrVars,
            callVars, closeVars, appVars
<1>s. ListTypes /\ RunTypes /\ LifeInv
  BY DEF TypeInv
<1>k. ASSUME UNCHANGED listVars
      PROVE  ListTypes'
  BY <1>s, <1>k DEF ListTypes
<1>1. CASE Forward
  <2>1. UNCHANGED <<endpoints, topics, closed, shutdowns>>
    BY <1>1 DEF Forward
  <2>2. \/ UNCHANGED events
        \/ Len(events) < ManagerSize /\ events' = Append(events, run.client)
    BY <1>1 DEF Forward, HasRoom
  <2>3. run.client \in Clients
    BY <1>s, <1>1, ClientNumbers DEF Forward, LifeInv, RunInv, Shape
  <2>4. events' \in Seq(Clients) /\ Len(events') <= ManagerSize
    <3>1. events \in Seq(Clients) /\ Len(events) \in Nat /\ ManagerSize \in Nat
      BY <1>s, ManagerAssumption DEF ListTypes
    <3>2. /\ Append(events, run.client) \in Seq(Clients)
          /\ Len(Append(events, run.client)) = Len(events) + 1
      BY <2>3, <3>1
    <3>3. Len(events) < ManagerSize => Len(events) + 1 <= ManagerSize
      BY <3>1
    <3> QED
      BY <1>s, <2>2, <3>1, <3>2, <3>3 DEF ListTypes
  <2> QED
    BY <1>s, <2>1, <2>4 DEF ListTypes
<1>2. CASE Leave
  <2>1. UNCHANGED <<topics, closed, events>>
    BY <1>2 DEF Leave
  <2>2. CASE run.redirect = NoRedirect
    BY <1>s, <1>2, <2>1, <2>2 DEF Leave, ListTypes
  <2>3. CASE run.redirect # NoRedirect
    <3>1. /\ endpoints' = prefer(run.redirect) /\ run.redirect \in Endpoints
          /\ shutdowns' \in {<<run.redirect>>, shutdowns}
      BY <1>s, <1>2, <2>3 DEF Leave, RunTypes
    <3>2. endpoints' \in Seq(Endpoints)
      BY <1>s, <3>1, PreferFacts DEF ListTypes
    <3> QED
      BY <1>s, <2>1, <3>1, <3>2 DEF ListTypes
  <2> QED
    BY <2>2, <2>3
<1>3. CASE Receive
  <2>1. UNCHANGED <<endpoints, topics, closed>>
    BY <1>3 DEF Receive
  <2>2. CASE events # <<>> /\ events' = Tail(events) /\ UNCHANGED shutdowns
    <3>1. events \in Seq(Clients) /\ Len(events) \in Nat /\ ManagerSize \in Nat
      BY <1>s, ManagerAssumption DEF ListTypes
    <3>2. Tail(events) \in Seq(Clients) /\ Len(Tail(events)) = Len(events) - 1
      BY <2>2, <3>1
    <3>3. Len(Tail(events)) <= ManagerSize
      BY <1>s, <3>1, <3>2 DEF ListTypes
    <3> QED
      BY <1>s, <2>1, <2>2, <3>2, <3>3 DEF ListTypes
  <2>3. CASE shutdowns' = <<>> /\ UNCHANGED events
    BY <1>s, <2>1, <2>3 DEF ListTypes
  <2> QED
    BY <1>3, <2>2, <2>3 DEF Receive
<1>4. CASE Close
  BY <1>s, <1>4 DEF Close, ListTypes
<1>5. ASSUME NEW t \in Topics, Subscribe(t)
      PROVE  ListTypes'
  BY <1>s, <1>5 DEF Subscribe, ListTypes
<1>6. ASSUME NEW t \in Topics, SubscribeSends(t)
      PROVE  ListTypes'
  BY <1>6, <1>k DEF SubscribeSends
<1>7. CASE Environment
  BY <1>7, <1>k DEF Environment, Crash, Silence, Fails, Drain, Restart, SendEvent, Notify
<1>8. CASE Connect \/ Dial \/ DialFails \/ DialedAll \/ Install
           \/ (\E t \in Topics : Resubscribe(t)) \/ ResubscribeFails \/ Uninstall \/ Connected
  BY <1>8, <1>k DEF Connect, Dial, DialFails, DialedAll, Install, Resubscribe,
                    ResubscribeFails, Uninstall, Connected
<1>9. CASE connectUntilAvailable \/ Backoff \/ Check \/ WatchEvent \/ WatchEnds
           \/ WatchShutdown \/ WatchClosed \/ Clear \/ CloseOld
  BY <1>9, <1>k DEF connectUntilAvailable, Backoff, Check, WatchEvent, WatchEnds,
                    WatchShutdown, WatchClosed, Clear, CloseOld
<1>10. ASSUME NEW c \in Clients, ReadStep(c)
       PROVE  ListTypes'
  BY <1>10, <1>k
  DEF ReadStep, ReadsOn, ReadEvent, PutEvent, ReadAck, PutAck, ReadShutdown, ReadReturns,
      ReadCloses
<1>11. CASE CloseStep
  BY <1>11, <1>k DEF CloseStep, CloseTakes, CloseTaken
<1>12. CASE UNCHANGED vars
  BY <1>12, <1>k DEF vars
<1> QED
  BY <1>1, <1>2, <1>3, <1>4, <1>5, <1>6, <1>7, <1>8, <1>9, <1>10, <1>11, <1>12
  DEF Next, RunStep

LEMMA CallTypesStep == TypeInv /\ [Next]_vars => CallTypes'
<1> SUFFICES ASSUME TypeInv, [Next]_vars PROVE CallTypes'
  OBVIOUS
<1> USE DEF netVars, dialVars, inboxVars, readVars, clientVars, chanVars, listVars, mgrVars,
            callVars, closeVars, appVars
<1>s. CallTypes /\ LifeInv
  BY DEF TypeInv
<1>k. ASSUME UNCHANGED appVars
      PROVE  CallTypes'
  BY <1>s, <1>k DEF CallTypes
<1>1. ASSUME NEW t \in Topics, Subscribe(t) \/ SubscribeSends(t)
      PROVE  CallTypes'
  <2>1. current \in Clients \cup {NoClient}
    BY <1>s, ClientNumbers DEF LifeInv, RunInv, Shape
  <2>2. /\ \E p \in {"returned", "send"} : call' = [call EXCEPT ![t] = p]
        /\ \E c \in Clients \cup {NoClient} : held' = [held EXCEPT ![t] = c]
        /\ UNCHANGED closer
    BY <1>1, <2>1 DEF Subscribe, SubscribeSends
  <2>3. call' \in [Topics -> {"absent", "send", "returned"}]
    BY <1>s, <2>2 DEF CallTypes
  <2>4. held' \in [Topics -> Clients \cup {NoClient}]
    BY <1>s, <2>2 DEF CallTypes
  <2> QED
    BY <1>s, <2>2, <2>3, <2>4 DEF CallTypes
<1>2. CASE Close \/ CloseStep
  <2>1. closer' \in {"take", "returned", "close"} /\ UNCHANGED callVars
    BY <1>2 DEF Close, CloseStep, CloseTakes, CloseTaken
  <2> QED
    BY <1>s, <2>1 DEF CallTypes
<1>3. CASE Environment \/ Receive
  BY <1>3, <1>k DEF Environment, Crash, Silence, Fails, Drain, Restart, SendEvent, Notify,
                    Receive
<1>4. CASE RunStep
  BY <1>4, <1>k DEF RunStep, Connect, Dial, DialFails, DialedAll, Install, Resubscribe,
                    ResubscribeFails, Uninstall, Connected, connectUntilAvailable, Backoff,
                    Check, WatchEvent, Forward, WatchEnds, WatchShutdown, WatchClosed, Leave,
                    Clear, CloseOld
<1>5. ASSUME NEW c \in Clients, ReadStep(c)
      PROVE  CallTypes'
  BY <1>5, <1>k
  DEF ReadStep, ReadsOn, ReadEvent, PutEvent, ReadAck, PutAck, ReadShutdown, ReadReturns,
      ReadCloses
<1>6. CASE UNCHANGED vars
  BY <1>6, <1>k DEF vars
<1> QED
  BY <1>1, <1>2, <1>3, <1>4, <1>5, <1>6 DEF Next

\* run keeps its fields; the client that it dials or watches is one of them.
LEMMA RunTypesStep == TypeInv /\ [Next]_vars => RunTypes'
<1> SUFFICES ASSUME TypeInv, [Next]_vars PROVE RunTypes'
  OBVIOUS
<1> USE DEF netVars, dialVars, inboxVars, readVars, clientVars, chanVars, listVars, mgrVars,
            callVars, closeVars, appVars
<1>s. RunTypes /\ ListTypes /\ InboxTypes /\ LifeInv
  BY DEF TypeInv
<1>k. ASSUME UNCHANGED run
      PROVE  RunTypes'
  BY <1>s, <1>k DEF RunTypes
<1>g. ASSUME NEW place \in Places, RunGoes(place)
      PROVE  RunTypes'
  BY <1>s, <1>g DEF RunTypes, RunGoes
<1>c. current \in Clients \cup {NoClient}
  BY <1>s, ClientNumbers DEF LifeInv, RunInv, Shape
<1>1. CASE DialedAll \/ connectUntilAvailable \/ Backoff \/ WatchEvent \/ WatchEnds \/ Clear
  BY <1>1, <1>g DEF DialedAll, connectUntilAvailable, Backoff, WatchEvent, WatchEnds, OnEnd,
                    Clear, Places
<1>2. CASE Connect
  BY <1>s, <1>2 DEF Connect, RunTypes, ListTypes, Places
<1>3. CASE Dial
  <2>1. /\ run.list # <<>> /\ count < MaxClients
        /\ run' = [run EXCEPT !.at = "install", !.client = count + 1, !.list = Tail(@)]
    BY <1>3 DEF Dial
  <2>2. Tail(run.list) \in Seq(Endpoints)
    BY <1>s, <2>1 DEF RunTypes
  <2>3. count + 1 \in Clients
    BY <1>s, <2>1, ClientNumbers DEF LifeInv, Shape
  <2> QED
    BY <1>s, <2>1, <2>2, <2>3 DEF RunTypes, Places
<1>4. CASE DialFails
  <2>1. run.list # <<>> /\ run' = [run EXCEPT !.list = Untried]
    BY <1>4 DEF DialFails
  <2>2. Tail(run.list) \in Seq(Endpoints) /\ <<>> \in Seq(Endpoints)
    BY <1>s, <2>1 DEF RunTypes
  <2>3. Untried \in Seq(Endpoints)
    BY <2>2 DEF Untried
  <2> QED
    BY <1>s, <2>1, <2>3 DEF RunTypes
<1>5. CASE Install \/ Connected
  <2>1. /\ <<>> \in Seq(Endpoints)
        /\ \/ run' = [run EXCEPT !.at = "resubscribe", !.todo = topics]
           \/ run' = [run EXCEPT !.at = "check", !.list = <<>>, !.new = FALSE]
    BY <1>5 DEF Install, Connected, Recorded
  <2> QED
    BY <1>s, <2>1 DEF RunTypes, ListTypes, Places
<1>6. ASSUME NEW t \in Topics, Resubscribe(t)
      PROVE  RunTypes'
  BY <1>s, <1>6 DEF Resubscribe, RunTypes
<1>7. CASE ResubscribeFails \/ Uninstall \/ CloseOld
  <2>1. \/ run' = [run EXCEPT !.at = "uninstall", !.todo = {}]
        \/ run' = [run EXCEPT !.at = "dial", !.client = NoClient]
        \/ run' = [run EXCEPT !.at = "connect", !.client = NoClient]
    BY <1>7 DEF ResubscribeFails, Uninstall, CloseOld
  <2> QED
    BY <1>s, <2>1, ZenonT(60) DEF RunTypes, Places
<1>8. CASE Check
  BY <1>s, <1>c, <1>8 DEF Check, RunTypes, Places
<1>9. CASE WatchClosed \/ Leave
  <2>1. \/ run' = [run EXCEPT !.at = "leave", !.redirect = NoRedirect]
        \/ run' = [run EXCEPT !.at = "clear", !.redirect = NoRedirect]
    BY <1>9 DEF WatchClosed, Leave
  <2> QED
    BY <1>s, <2>1, ZenonT(60) DEF RunTypes, Places
<1>10. CASE Forward
  <2>1. \/ RunGoes("watch")
        \/ run' = [run EXCEPT !.at = "leave", !.redirect = NoRedirect]
    BY <1>10 DEF Forward
  <2>2. "watch" \in Places /\ "leave" \in Places
    BY DEF Places
  <2> QED
    BY <1>s, <1>g, <2>1, <2>2 DEF RunTypes
<1>11. CASE WatchShutdown
  <2> DEFINE r == IF notice[run.client] # <<>> THEN notice[run.client][1] ELSE NoRedirect
  <2>1. run.at \in {"watch", "await"} /\ run' = [run EXCEPT !.at = "leave", !.redirect = r]
    BY <1>11 DEF WatchShutdown
  <2>2. run.client \in Clients
    BY <1>s, <2>1, ClientNumbers DEF LifeInv, RunInv, Shape
  <2>3. r \in Endpoints \cup {NoRedirect}
    BY <1>s, <2>2 DEF InboxTypes
  <2> HIDE DEF r
  <2> QED
    BY <1>s, <2>1, <2>3 DEF RunTypes, Places
<1>12. CASE Environment \/ Receive \/ Close \/ CloseStep
  BY <1>12, <1>k DEF Environment, Crash, Silence, Fails, Drain, Restart, SendEvent, Notify,
                     Receive, Close, CloseStep, CloseTakes, CloseTaken
<1>13. ASSUME NEW c \in Clients, ReadStep(c)
       PROVE  RunTypes'
  BY <1>13, <1>k
  DEF ReadStep, ReadsOn, ReadEvent, PutEvent, ReadAck, PutAck, ReadShutdown, ReadReturns,
      ReadCloses
<1>14. ASSUME NEW t \in Topics, Subscribe(t) \/ SubscribeSends(t)
       PROVE  RunTypes'
  BY <1>14, <1>k DEF Subscribe, SubscribeSends
<1>15. CASE UNCHANGED vars
  BY <1>15, <1>k DEF vars
<1> QED
  BY <1>1, <1>2, <1>3, <1>4, <1>5, <1>6, <1>7, <1>8, <1>9, <1>10, <1>11, <1>12, <1>13, <1>14,
     <1>15 DEF Next, RunStep

LEMMA TypesStep == TypeInv /\ [Next]_vars => TypeInv'
<1> SUFFICES ASSUME TypeInv, [Next]_vars PROVE TypeInv'
  OBVIOUS
<1>1. ASSUME UNCHANGED vars
      PROVE  WireTypes'
  BY <1>1 DEF vars, clientVars, dialVars, readVars, TypeInv, WireTypes
<1>2. WireTypes'
  BY <1>1, WireTypesOutside, WireTypesRun DEF Next, TypeInv
<1> QED
  BY <1>2, LifeStep, NetTypesStep, InboxTypesStep, ListTypesStep, RunTypesStep, CallTypesStep
  DEF TypeInv

\* Every variable keeps its type: the channels stay within their capacity, the
\* list that prefer builds is a list of endpoints, and run watches a client
\* that it dialled.
THEOREM TypeCorrect == Spec => []TypeOK
  BY TypesInit, TypesStep, TypesSplit, PTL DEF Spec

-----------------------------------------------------------------------------
(* The list of endpoints *)

\* Only run changes the list, when a redirect makes it leave a client.
LEMMA ListChanges ==
    ASSUME TypeInv, [Next]_vars
    PROVE  \/ UNCHANGED endpoints
           \/ Leave /\ run.redirect \in Endpoints /\ endpoints' = prefer(run.redirect)
<1> USE DEF netVars, dialVars, inboxVars, readVars, clientVars, chanVars, listVars, mgrVars,
            callVars, closeVars, appVars
<1>1. CASE Leave
  BY <1>1 DEF Leave, TypeInv, RunTypes
<1>2. ASSUME RunStep, ~Leave
      PROVE  UNCHANGED endpoints
  BY <1>2 DEF RunStep, Connect, Dial, DialFails, DialedAll, Install, Resubscribe,
              ResubscribeFails, Uninstall, Connected, connectUntilAvailable, Backoff, Check,
              WatchEvent, Forward, WatchEnds, WatchShutdown, WatchClosed, Clear, CloseOld
<1>3. ASSUME Environment \/ Receive \/ Close \/ CloseStep \/ UNCHANGED vars
      PROVE  UNCHANGED endpoints
  BY <1>3 DEF Environment, Crash, Silence, Fails, Drain, Restart, SendEvent, Notify,
              Receive, Close, CloseStep, CloseTakes, CloseTaken, vars
<1>4. ASSUME NEW c \in Clients, ReadStep(c)
      PROVE  UNCHANGED endpoints
  BY <1>4
  DEF ReadStep, ReadsOn, ReadEvent, PutEvent, ReadAck, PutAck, ReadShutdown, ReadReturns,
      ReadCloses
<1>5. ASSUME NEW t \in Topics, Subscribe(t) \/ SubscribeSends(t)
      PROVE  UNCHANGED endpoints
  BY <1>5 DEF Subscribe, SubscribeSends
<1> QED
  BY <1>1, <1>2, <1>3, <1>4, <1>5 DEF Next

\* A list of endpoints has every endpoint that the manager was configured with.
EndpointsKept ==
    \A i \in 1 .. Len(Configured) :
        \E j \in 1 .. Len(endpoints) : endpoints[j] = Configured[i]

LEMMA KeptStep == TypeInv /\ EndpointsKept /\ [Next]_vars => EndpointsKept'
<1> SUFFICES ASSUME TypeInv, EndpointsKept, [Next]_vars PROVE EndpointsKept'
  OBVIOUS
<1>1. CASE UNCHANGED endpoints
  BY <1>1 DEF EndpointsKept
<1>2. ASSUME NEW e \in Endpoints, endpoints' = prefer(e)
      PROVE  EndpointsKept'
  <2>1. endpoints \in Seq(Endpoints)
    BY DEF TypeInv, ListTypes
  <2>2. \A i \in 1 .. Len(endpoints) :
            \E j \in 1 .. Len(endpoints') : endpoints'[j] = endpoints[i]
    BY <1>2, <2>1, PreferFacts
  <2> QED
    BY <2>2, Zenon DEF EndpointsKept
<1> QED
  BY <1>1, <1>2, ListChanges

\* Faults, redirects and reconnections never make the manager forget a broker:
\* every endpoint that NewConnectionManager was given stays in the list that
\* connect tries, however often prefer puts another one in front.
THEOREM EndpointsKeptHolds == Spec => []EndpointsKept
<1>1. Init => EndpointsKept
  <2>1. ASSUME endpoints = Configured
        PROVE  EndpointsKept
    BY <2>1 DEF EndpointsKept
  <2> QED
    BY <2>1 DEF Init
<1>2. TypeInv /\ EndpointsKept /\ [Next]_vars => TypeInv' /\ EndpointsKept'
  BY TypesStep, KeptStep
<1> QED
  BY <1>1, <1>2, TypesInit, PTL DEF Spec

-----------------------------------------------------------------------------
(* Redirects *)

Gone == {"return", "close", "ended"}

\* What readLoop hands over stays in Shutdowns until run takes it, and run takes
\* it before it leaves the client: a client that run has not left yet has lost
\* nothing, and where it has, the redirect is in run's hands or heads the list.
HandedInv ==
    /\ \A c \in Clients : reader[c] \notin Gone => notice[c] = <<>> /\ redirected[c] = NoRedirect
    /\ \A c \in Clients : notice[c] # <<>> => notice[c] = <<redirected[c]>>

LeaveInv ==
    /\ run.at \in {"install", "resubscribe", "check", "watch", "forward", "await"}
         /\ count # 0 /\ notice[count] = <<>> => redirected[count] = NoRedirect
    /\ run.at = "leave" /\ ~closed =>
         reader[run.client] \in Gone /\ run.redirect = redirected[run.client]
    /\ run.at \in {"clear", "close"} /\ ~closed =>
         reader[run.client] \in Gone
           /\ (redirected[run.client] # NoRedirect => endpoints[1] = redirected[run.client])

LEMMA HandedInit == Init => HandedInv /\ LeaveInv
  BY DEF Init, HandedInv, LeaveInv

\* What the goroutine of each client may do to the three.
ReaderMoves(c) ==
    /\ \A d \in Clients : d # c => UNCHANGED <<reader[d], notice[d], redirected[d]>>
    /\ reader[c] # "absent"
    /\ \/ UNCHANGED <<notice[c], redirected[c]>> /\ (reader[c] \in Gone => reader'[c] \in Gone)
       \/ /\ reader[c] \notin Gone /\ reader'[c] \in Gone
          /\ notice'[c] = <<redirected'[c]>>

LEMMA ReaderEffect == ASSUME TypeInv, NEW c \in Clients, ReadStep(c) PROVE ReaderMoves(c)
<1>s. InboxTypes
  BY DEF TypeInv
<1>1. CASE ReadEvent(c) \/ PutEvent(c) \/ ReadAck(c) \/ PutAck(c) \/ ReadReturns(c)
           \/ ReadCloses(c)
  <2>1. /\ UNCHANGED <<notice, redirected>> /\ reader[c] # "absent"
        /\ \E p \in {"read", "put", "ack", "close", "ended"} :
              reader' = [reader EXCEPT ![c] = p] /\ (reader[c] \in Gone => p \in Gone)
    BY <1>1 DEF ReadEvent, PutEvent, ReadAck, PutAck, ReadReturns, ReadCloses, Reads,
                ReadGoes, Gone
  <2> QED
    BY <1>s, <2>1 DEF ReaderMoves, InboxTypes
<1>2. CASE ReadShutdown(c)
  <2>1. /\ reader[c] = "read" /\ reader' = [reader EXCEPT ![c] = "return"]
        /\ \E r : /\ notice' = [notice EXCEPT ![c] = <<r>>]
                  /\ redirected' = [redirected EXCEPT ![c] = r]
    BY <1>2 DEF ReadShutdown, Reads, ReadGoes
  <2> QED
    BY <1>s, <2>1 DEF ReaderMoves, InboxTypes, Gone
<1> QED
  BY <1>1, <1>2 DEF ReadStep, ReadsOn

LEMMA HandedReads ==
    ASSUME TypeInv, HandedInv, LeaveInv, NEW c \in Clients, ReadStep(c)
    PROVE  HandedInv' /\ LeaveInv'
<1>1. ReaderMoves(c)
  BY ReaderEffect
<1>2. UNCHANGED <<run, count, closed, endpoints>>
  BY DEF ReadStep, ReadsOn, ReadEvent, PutEvent, ReadAck, PutAck, ReadShutdown, ReadReturns,
         ReadCloses, netVars, dialVars, mgrVars, listVars, appVars
<1>3. HandedInv'
  BY <1>1 DEF HandedInv, ReaderMoves
<1>4. /\ count # 0 => count \in Clients
      /\ run.at \in {"leave", "clear", "close"} => run.client \in Clients
  BY ClientNumbers DEF TypeInv, LifeInv, RunInv, Shape
<1>5. \A d \in Clients : notice'[d] = <<>> /\ notice[d] # <<>> => FALSE
  BY <1>1 DEF HandedInv, ReaderMoves
<1>6. \A d \in Clients : /\ reader[d] \in Gone => reader'[d] \in Gone /\ redirected'[d] = redirected[d]
                         /\ notice'[d] = <<>> => redirected'[d] = redirected[d]
  BY <1>1 DEF ReaderMoves
<1> QED
  BY <1>2, <1>3, <1>4, <1>5, <1>6 DEF LeaveInv

\* The others leave the three alone.
LEMMA HandedOutside ==
    ASSUME TypeInv, HandedInv, LeaveInv,
           Environment \/ Receive \/ Close \/ CloseStep \/ UNCHANGED vars
           \/ \E t \in Topics : Subscribe(t) \/ SubscribeSends(t)
    PROVE  HandedInv' /\ LeaveInv'
<1> USE DEF netVars, dialVars, inboxVars, readVars, clientVars, chanVars, listVars, mgrVars,
            callVars, closeVars, appVars
<1>1. UNCHANGED <<run, count, reader, notice, redirected, endpoints>> /\ (closed => closed')
  <2>1. ASSUME Environment
        PROVE  UNCHANGED <<run, count, reader, notice, redirected, endpoints, closed>>
    BY <2>1 DEF Environment, Crash, Silence, Fails, Drain, Restart, SendEvent, Notify
  <2>2. CASE Receive \/ Close \/ CloseStep \/ UNCHANGED vars
    BY <2>2 DEF Receive, Close, CloseStep, CloseTakes, CloseTaken, vars
  <2>3. ASSUME NEW t \in Topics, Subscribe(t) \/ SubscribeSends(t)
        PROVE  UNCHANGED <<run, count, reader, notice, redirected, endpoints, closed>>
    BY <2>3 DEF Subscribe, SubscribeSends
  <2> QED
    BY <2>1, <2>2, <2>3
<1> QED
  BY <1>1 DEF HandedInv, LeaveInv

LEMMA HandedRun == ASSUME TypeInv, HandedInv, LeaveInv, RunStep PROVE HandedInv' /\ LeaveInv'
<1> USE DEF netVars, dialVars, inboxVars, readVars, clientVars, chanVars, listVars, mgrVars,
            callVars, closeVars, appVars
<1>s. LifeInv /\ InboxTypes /\ ListTypes /\ RunTypes
  BY DEF TypeInv
<1>r. DOMAIN run = {"at", "client", "list", "todo", "redirect", "new"}
  BY <1>s DEF LifeInv, Shape
<1>n. /\ count # 0 => count \in Clients
      /\ run.at \in {"watch", "forward", "await", "leave", "clear", "close"} =>
             run.client = count /\ run.client \in Clients
  BY <1>s, ClientNumbers DEF LifeInv, RunInv, Shape
<1>h. ASSUME UNCHANGED <<reader, notice, redirected>>
      PROVE  HandedInv'
  BY <1>h DEF HandedInv
<1>1. CASE Connect \/ DialFails \/ DialedAll \/ ResubscribeFails \/ Uninstall
           \/ connectUntilAvailable \/ Backoff
  <2>1. /\ UNCHANGED <<reader, notice, redirected>>
        /\ run'.at \in {"connect", "dial", "backoff", "uninstall", "ended"}
    BY <1>r, <1>1 DEF Connect, DialFails, DialedAll, ResubscribeFails, Uninstall,
                      connectUntilAvailable, Backoff, RunGoes
  <2> QED
    BY <1>h, <2>1 DEF LeaveInv
<1>2. CASE Dial
  <2> DEFINE n == count + 1
  <2>1. /\ count' = n /\ run'.at = "install" /\ reader' = [reader EXCEPT ![n] = "read"]
        /\ UNCHANGED <<notice, redirected>> /\ count < MaxClients
    BY <1>r, <1>2 DEF Dial
  <2>2. n \in Clients /\ n > count
    BY <1>s, <2>1, ClientNumbers DEF LifeInv, Shape
  <2> HIDE DEF n
  <2>3. reader[n] = "absent"
    BY <1>s, <2>2 DEF LifeInv, ClientInv
  <2>4. notice[n] = <<>> /\ redirected[n] = NoRedirect
    BY <2>2, <2>3 DEF HandedInv, Gone
  <2>5. \A c \in Clients : c # n => reader'[c] = reader[c]
    BY <1>s, <2>1 DEF InboxTypes
  <2>6. HandedInv'
    BY <2>1, <2>4, <2>5 DEF HandedInv
  <2> QED
    BY <2>1, <2>4, <2>6 DEF LeaveInv
<1>3. CASE Install \/ (\E t \in Topics : Resubscribe(t)) \/ Connected \/ Check
           \/ WatchEvent \/ WatchEnds
  <2>1. /\ UNCHANGED <<reader, notice, redirected, count>>
        /\ run.at \in {"install", "resubscribe", "check", "watch"}
        /\ run'.at \in {"connect", "resubscribe", "check", "watch", "forward", "await"}
    BY <1>r, <1>3 DEF Install, Resubscribe, Connected, Check, WatchEvent, WatchEnds, OnEnd,
                      RunGoes
  <2> QED
    BY <1>h, <2>1 DEF LeaveInv
<1>4. CASE Forward \/ WatchClosed
  <2>1. /\ UNCHANGED <<reader, notice, redirected, count, closed>>
        /\ run.at \in {"watch", "forward"}
        /\ run'.at = "watch" \/ (run'.at = "leave" /\ closed)
    BY <1>r, <1>4 DEF Forward, WatchClosed, RunGoes, Released
  <2> QED
    BY <1>h, <2>1 DEF LeaveInv
<1>5. CASE WatchShutdown
  <2> DEFINE c == run.client
  <2>1. /\ run.at \in {"watch", "await"} /\ (notice[c] # <<>> \/ reader[c] = "ended")
        /\ notice' = [notice EXCEPT ![c] = <<>>]
        /\ run'.at = "leave" /\ run'.client = c
        /\ run'.redirect = IF notice[c] # <<>> THEN notice[c][1] ELSE NoRedirect
        /\ UNCHANGED <<reader, redirected, count>>
    BY <1>r, <1>5 DEF WatchShutdown
  <2>2. c \in Clients /\ c = count /\ count # 0
    BY <1>n, <1>s, <2>1, ClientNumbers DEF LifeInv, RunInv
  <2>3. run'.redirect = redirected[c]
    BY <2>1, <2>2 DEF HandedInv, LeaveInv
  <2>4. reader[c] \in Gone
    BY <2>1, <2>2 DEF HandedInv, Gone
  <2> HIDE DEF c
  <2>5. \A d \in Clients : notice'[d] = <<>> \/ notice'[d] = notice[d]
    BY <1>s, <2>1 DEF InboxTypes
  <2>6. HandedInv'
    BY <2>1, <2>5 DEF HandedInv
  <2> QED
    BY <2>1, <2>3, <2>4, <2>6 DEF LeaveInv
<1>6. CASE Leave
  <2>1. /\ run.at = "leave" /\ run'.at = "clear" /\ run'.client = run.client
        /\ UNCHANGED <<reader, notice, redirected, closed>>
        /\ run.redirect # NoRedirect => endpoints' = prefer(run.redirect)
    BY <1>r, <1>6 DEF Leave
  <2>2. run.redirect # NoRedirect => endpoints'[1] = run.redirect
    <3>1. run.redirect # NoRedirect => run.redirect \in Endpoints
      BY <1>s DEF RunTypes
    <3> QED
      BY <1>s, <2>1, <3>1, PreferFacts DEF ListTypes
  <2> QED
    BY <1>h, <2>1, <2>2 DEF LeaveInv
<1>7. CASE Clear
  <2>1. /\ run.at = "clear" /\ run'.at = "close" /\ run'.client = run.client
        /\ UNCHANGED <<reader, notice, redirected, closed, endpoints>>
    BY <1>r, <1>7 DEF Clear, RunGoes
  <2> QED
    BY <1>h, <2>1 DEF LeaveInv
<1>8. CASE CloseOld
  <2>1. run'.at = "connect" /\ UNCHANGED <<reader, notice, redirected>>
    BY <1>r, <1>8 DEF CloseOld
  <2> QED
    BY <1>h, <2>1 DEF LeaveInv
<1> QED
  BY <1>1, <1>2, <1>3, <1>4, <1>5, <1>6, <1>7, <1>8 DEF RunStep

\* A redirect that a broker sent and readLoop read is never lost between the
\* two goroutines: whichever of Done, Events and Shutdowns watch sees first, run
\* has put the replacement at the head of the list by the time it drops the
\* client, unless the manager is being closed.
THEOREM RedirectHonouredHolds == Spec => []RedirectHonoured
<1>1. LeaveInv => RedirectHonoured
  BY DEF LeaveInv, RedirectHonoured
<1>2. TypeInv /\ HandedInv /\ LeaveInv /\ [Next]_vars => TypeInv' /\ HandedInv' /\ LeaveInv'
  BY TypesStep, HandedReads, HandedOutside, HandedRun DEF Next
<1> QED
  BY <1>1, <1>2, TypesInit, HandedInit, PTL DEF Spec

=============================================================================
