--------------------------- MODULE DeliveryProofs ---------------------------
(***************************************************************************)
(* Proofs about Delivery, for any number of subscriptions, events, attempts*)
(* and timeouts and for every size of queue, channel and wire: the table   *)
(* of pending acknowledgements belongs to deliver calls in progress, and   *)
(* deliver returns true only for what the application acknowledged.        *)
(***************************************************************************)
EXTENDS Delivery, SequenceTheorems, TLAPS

\* Most leaves are first-order steps, the others need arithmetic or sequences.
USE ZenonT(4), SMTT(60), ZenonT(60)

-----------------------------------------------------------------------------
(* Type correctness *)

\* TypeOK, one part for each group of variables that change together.
SubsT  == subs \in [Topics -> Subs \cup {NoSub}]
PendT  == pendingAck \in [Ids -> (Subs \cup {NoSub}) \X Nat]
ReadT  == reader \in [at : {"read", "stopped"}] \cup [at : {"subscribed"}, sub : Subs]
                     \cup [at : {"ack"}, id : Ids, channel : (Subs \cup {NoSub}) \X Nat]
                     \cup [at : {"publish"}, event : Events]
SrvT   == serverOpen \in BOOLEAN
CliT   == clientOpen \in BOOLEAN
StateT == state \in [Subs -> {"absent", "open", "closed"}]
TopicT == topicOf \in [Subs -> Topics]
QueueT == queue \in [Subs -> Seq(Events)] /\ \A s \in Subs : Len(queue[s]) <= QueueSize
CacheT == cache \in [Topics -> Seq(Events)]
FlowT  == stream \in [Subs -> Seq(Events)]
PubT   == published \subseteq Events /\ todo \in [Events -> SUBSET Subs]
PcT    == pc \in [Subs -> Places]
EventT == event \in [Subs -> Events] /\ serial \in [Subs -> Nat]
TryT   == attempt \in [Subs -> 0 .. MaxAttempts]
FlagT  == acknowledged \in [Subs -> BOOLEAN] /\ heard \in [Subs -> BOOLEAN]
BackT  == toClient \in Seq(ToClientFrames) /\ Len(toClient) <= WireSize
SendT  == toServer \in Seq(ToServerFrames) /\ Len(toServer) <= WireSize
LoopT  == loop \in [at : {"read", "stopped"}] \cup [at : {"remember"}, event : Events]
                   \cup [at : {"push", "ack"}, event : Events, sub : Subs]
BuffT  == events \in Seq(Buffered) /\ Len(events) <= EventsSize
AckT   == acked \subseteq Ids /\ ackedIDs \in Seq(Ids)
AppT   == app \in [at : {"idle"}] \cup [at : {"ack", "remember"}, event : Events]
CallT  == asked \in 0 .. MaxSubs /\ ownSent \subseteq OwnEvents
TimeT  == timeouts \in 0 .. MaxTimeouts
GotT   == received \in Seq(Buffered)
ConfT  == confirmed \subseteq Ids
DoneT  == delivered \subseteq Subs \X Events

Parts ==
    /\ SubsT /\ PendT /\ ReadT /\ SrvT /\ CliT /\ StateT /\ TopicT /\ QueueT /\ CacheT
    /\ FlowT /\ PubT /\ PcT /\ EventT /\ TryT /\ FlagT /\ BackT /\ SendT /\ LoopT
    /\ BuffT /\ AckT /\ AppT /\ CallT /\ TimeT /\ GotT /\ ConfT /\ DoneT

LEMMA TypeParts == TypeOK <=> Parts
BY Zenon DEF TypeOK, Parts, SubsT, PendT, ReadT, SrvT, CliT, StateT, TopicT, QueueT, CacheT,
       FlowT, PubT, PcT, EventT, TryT, FlagT, BackT, SendT, LoopT, BuffT, AckT, AppT, CallT,
       TimeT, GotT, ConfT, DoneT

LEMMA Sizes ==
    /\ {QueueSize, EventsSize, MaxAttempts, MaxRemembered, WireSize} \subseteq Nat \ {0}
    /\ MaxSubs \in Nat /\ MaxTimeouts \in Nat
BY DeliveryAssumption

LEMMA TypeInit == Init => Parts
<1> SUFFICES ASSUME Init PROVE Parts
  OBVIOUS
<1> USE DeliveryAssumption DEF Init
<1>1. (CHOOSE e \in Events : TRUE) \in Events /\ (CHOOSE t \in Topics : TRUE) \in Topics
  OBVIOUS
<1>2. SubsT /\ PendT /\ ReadT /\ SrvT /\ CliT /\ StateT
  BY DEF SubsT, PendT, ReadT, SrvT, CliT, StateT, NoChannel, At
<1>3. TopicT /\ EventT
  BY <1>1 DEF TopicT, EventT
<1>4. QueueT /\ CacheT /\ FlowT /\ PubT
  BY DEF QueueT, CacheT, FlowT, PubT
<1>5. PcT /\ TryT /\ FlagT
  BY DEF PcT, TryT, FlagT, Places
<1>6. BackT /\ SendT /\ BuffT /\ GotT
  BY DEF BackT, SendT, BuffT, GotT
<1>7. LoopT /\ AppT
  BY DEF LoopT, AppT, At
<1>8. AckT /\ CallT /\ TimeT /\ ConfT /\ DoneT
  BY DEF AckT, CallT, TimeT, ConfT, DoneT
<1> QED
  BY <1>2, <1>3, <1>4, <1>5, <1>6, <1>7, <1>8 DEF Parts

\* A part is kept by a step that leaves its variables alone.
LEMMA Kept ==
    ASSUME Parts
    PROVE  /\ UNCHANGED subs => SubsT'
           /\ UNCHANGED pendingAck => PendT'
           /\ UNCHANGED serverOpen => SrvT'
           /\ UNCHANGED serverVars => SubsT' /\ PendT' /\ SrvT'
           /\ UNCHANGED reader => ReadT'
           /\ UNCHANGED state => StateT'
           /\ UNCHANGED topicOf => TopicT'
           /\ UNCHANGED queue => QueueT'
           /\ UNCHANGED cache => CacheT'
           /\ UNCHANGED stream => FlowT'
           /\ UNCHANGED published /\ UNCHANGED todo => PubT'
           /\ UNCHANGED brokerVars => /\ StateT' /\ TopicT' /\ QueueT' /\ CacheT'
                                      /\ FlowT' /\ PubT'
           /\ UNCHANGED pc => PcT'
           /\ UNCHANGED event /\ UNCHANGED serial => EventT'
           /\ UNCHANGED attempt => TryT'
           /\ UNCHANGED acknowledged /\ UNCHANGED heard => FlagT'
           /\ UNCHANGED delivered => DoneT'
           /\ UNCHANGED deliveryVars => PcT' /\ EventT' /\ TryT' /\ FlagT' /\ DoneT'
           /\ UNCHANGED toClient => BackT'
           /\ UNCHANGED toServer => SendT'
           /\ UNCHANGED wireVars => BackT' /\ SendT'
           /\ UNCHANGED clientOpen => CliT'
           /\ UNCHANGED events => BuffT'
           /\ UNCHANGED acked /\ UNCHANGED ackedIDs => AckT'
           /\ UNCHANGED clientVars => CliT' /\ BuffT' /\ AckT'
           /\ UNCHANGED loop => LoopT'
           /\ UNCHANGED app => AppT'
           /\ UNCHANGED received => GotT'
           /\ UNCHANGED confirmed => ConfT'
           /\ UNCHANGED appVars => AppT' /\ GotT' /\ ConfT'
           /\ UNCHANGED asked /\ UNCHANGED ownSent => CallT'
           /\ UNCHANGED timeouts => TimeT'
           /\ UNCHANGED boundVars => CallT' /\ TimeT'
<1>1. /\ UNCHANGED subs => SubsT'
      /\ UNCHANGED pendingAck => PendT'
      /\ UNCHANGED serverOpen => SrvT'
      /\ UNCHANGED reader => ReadT'
  BY DEF Parts, SubsT, PendT, SrvT, ReadT
<1>2. /\ UNCHANGED state => StateT'
      /\ UNCHANGED topicOf => TopicT'
      /\ UNCHANGED queue => QueueT'
      /\ UNCHANGED cache => CacheT'
      /\ UNCHANGED stream => FlowT'
      /\ UNCHANGED published /\ UNCHANGED todo => PubT'
  BY DEF Parts, StateT, TopicT, QueueT, CacheT, FlowT, PubT
<1>3. /\ UNCHANGED pc => PcT'
      /\ UNCHANGED event /\ UNCHANGED serial => EventT'
      /\ UNCHANGED attempt => TryT'
      /\ UNCHANGED acknowledged /\ UNCHANGED heard => FlagT'
      /\ UNCHANGED delivered => DoneT'
  BY DEF Parts, PcT, EventT, TryT, FlagT, DoneT
<1>4. /\ UNCHANGED toClient => BackT'
      /\ UNCHANGED toServer => SendT'
      /\ UNCHANGED clientOpen => CliT'
      /\ UNCHANGED events => BuffT'
      /\ UNCHANGED acked /\ UNCHANGED ackedIDs => AckT'
      /\ UNCHANGED loop => LoopT'
  BY DEF Parts, BackT, SendT, CliT, BuffT, AckT, LoopT
<1>5. /\ UNCHANGED app => AppT'
      /\ UNCHANGED received => GotT'
      /\ UNCHANGED confirmed => ConfT'
      /\ UNCHANGED asked /\ UNCHANGED ownSent => CallT'
      /\ UNCHANGED timeouts => TimeT'
  BY DEF Parts, AppT, GotT, ConfT, CallT, TimeT
<1> QED
  BY <1>1, <1>2, <1>3, <1>4, <1>5
     DEF serverVars, brokerVars, deliveryVars, wireVars, clientVars, appVars, boundVars

LEMMA SendsToClient ==
    ASSUME BackT, NEW f \in ToClientFrames, SendToClient(f)
    PROVE  BackT'
<1>1. /\ Append(toClient, f) \in Seq(ToClientFrames)
      /\ Len(Append(toClient, f)) = Len(toClient) + 1 /\ Len(toClient) \in Nat
  BY DEF BackT
<1>2. WireSize \in Nat
  BY Sizes
<1> QED
  BY <1>1, <1>2 DEF BackT, SendToClient

LEMMA SendsToServer ==
    ASSUME SendT, NEW f \in ToServerFrames, SendToServer(f)
    PROVE  SendT'
<1>1. /\ Append(toServer, f) \in Seq(ToServerFrames)
      /\ Len(Append(toServer, f)) = Len(toServer) + 1 /\ Len(toServer) \in Nat
  BY DEF SendT
<1>2. WireSize \in Nat
  BY Sizes
<1> QED
  BY <1>1, <1>2 DEF SendT, SendToServer

LEMMA TakesFromServer ==
    ASSUME SendT, toServer # <<>>, toServer' = Tail(toServer)
    PROVE  SendT' /\ Head(toServer) \in ToServerFrames
BY Sizes, HeadTailProperties DEF SendT

LEMMA TakesFromClient ==
    ASSUME BackT, toClient # <<>>, toClient' = Tail(toClient)
    PROVE  BackT' /\ Head(toClient) \in ToClientFrames
BY Sizes, HeadTailProperties DEF BackT

LEMMA FrameFields ==
    /\ \A f \in ToServerFrames :
          /\ f.type = "ACK" => f.id \in Ids
          /\ f.type = "PUBLISH" => f.event \in Events
          /\ f.type \in {"SUBSCRIBE", "UNSUBSCRIBE"} => f.topic \in Topics
    /\ \A f \in ToClientFrames : f.event \in Events /\ (f.type = "EVENT" => f.sub \in Subs)
    /\ \A e \in Events, s \in Subs : EventFrame(e, s) \in ToClientFrames
    /\ \A e \in Events : /\ PublishedFrame(e) \in ToClientFrames
                         /\ PublishFrame(e) \in ToServerFrames
                         /\ e.id \in Ids /\ AckFrame(e.id) \in ToServerFrames
    /\ \A t \in Topics : /\ TopicFrame("SUBSCRIBE", t) \in ToServerFrames
                         /\ TopicFrame("UNSUBSCRIBE", t) \in ToServerFrames
BY DEF ToServerFrames, ToClientFrames, EventFrame, PublishedFrame, PublishFrame, AckFrame,
       TopicFrame, Ids

LEMMA RouteType ==
    ASSUME PubT, CacheT, NEW e \in Events, Route(e)
    PROVE  PubT' /\ CacheT'
<1>1. OpenSubs(e.topic) \in SUBSET Subs
  BY DEF OpenSubs
<1>2. PubT'
  BY <1>1 DEF PubT, Route
<1>3. CacheT'
  BY DeliveryAssumption DEF CacheT, Route
<1> QED
  BY <1>2, <1>3

LEMMA RememberType ==
    ASSUME AckT, NEW id \in Ids, rememberDelivery(id)
    PROVE  AckT' /\ acked' \subseteq acked \cup {id}
<1>1. Append(ackedIDs, id) \in Seq(Ids) /\ Append(ackedIDs, id) # <<>>
  BY DEF AckT
<1>2. Tail(Append(ackedIDs, id)) \in Seq(Ids)
  BY <1>1
<1> QED
  BY <1>1, <1>2 DEF AckT, rememberDelivery

LEMMA ServerType == ASSUME Parts, ServerStep PROVE Parts'
<1>1. ASSUME NEW s \in Subs, ReadSubscribe(s)
      PROVE  Parts'
  <2>3. SendT' /\ Head(toServer).topic \in Topics
    BY <1>1, TakesFromServer, FrameFields DEF ReadSubscribe, Reads, Parts
  <2>4. PICK t \in Topics, n \in Nat :
          /\ n <= QueueSize /\ n <= Len(cache[t])
          /\ topicOf' = [topicOf EXCEPT ![s] = t]
          /\ queue' = [queue EXCEPT ![s] = SubSeq(cache[t], 1, n)]
          /\ stream' = [stream EXCEPT ![s] = SubSeq(cache[t], 1, n)]
          /\ cache' = [cache EXCEPT ![t] = SubSeq(@, n + 1, Len(@))]
    <3> DEFINE t == Head(toServer).topic
               n == IF Len(cache[t]) > QueueSize THEN QueueSize ELSE Len(cache[t])
    <3>1. n \in Nat /\ n <= QueueSize /\ n <= Len(cache[t])
      BY <2>3, Sizes DEF Parts, CacheT
    <3> QED
      BY <1>1, <2>3, <3>1 DEF ReadSubscribe
  <2>5. /\ SubSeq(cache[t], 1, n) \in Seq(Events) /\ Len(SubSeq(cache[t], 1, n)) = n
        /\ SubSeq(cache[t], n + 1, Len(cache[t])) \in Seq(Events)
    BY <2>4, SubSeqProperties DEF Parts, CacheT
  <2>6. QueueT' /\ FlowT'
    BY <2>4, <2>5 DEF Parts, QueueT, FlowT
  <2>7. CacheT' /\ TopicT'
    BY <2>4, <2>5 DEF Parts, CacheT, TopicT
  <2>8. StateT' /\ ReadT'
    BY <1>1 DEF ReadSubscribe, Parts, StateT, ReadT
  <2>1. SendT' /\ QueueT' /\ FlowT' /\ CacheT' /\ TopicT' /\ StateT' /\ ReadT'
    BY <2>3, <2>6, <2>7, <2>8
  <2>2. /\ UNCHANGED serverVars /\ UNCHANGED published /\ UNCHANGED todo
        /\ UNCHANGED deliveryVars /\ UNCHANGED toClient /\ UNCHANGED clientVars
        /\ UNCHANGED loop /\ UNCHANGED appVars /\ UNCHANGED boundVars
    BY <1>1 DEF ReadSubscribe
  <2> QED
    BY <2>1, <2>2, Kept, Zenon DEF Parts
<1>2. CASE InstallSubscription
  <2>3. reader.sub \in Subs
    BY <1>2 DEF InstallSubscription, Parts, ReadT
  <2>4. StateT' /\ SubsT'
    BY <1>2, <2>3 DEF InstallSubscription, CloseSubs, Parts, StateT, SubsT, TopicT
  <2>5. PcT' /\ ReadT'
    BY <1>2, <2>3 DEF InstallSubscription, Parts, PcT, ReadT, Places, At
  <2>1. StateT' /\ SubsT' /\ PcT' /\ ReadT'
    BY <2>4, <2>5
  <2>2. /\ UNCHANGED pendingAck /\ UNCHANGED serverOpen /\ UNCHANGED topicOf
        /\ UNCHANGED queue /\ UNCHANGED cache /\ UNCHANGED published /\ UNCHANGED todo
        /\ UNCHANGED stream /\ UNCHANGED event /\ UNCHANGED attempt /\ UNCHANGED serial
        /\ UNCHANGED acknowledged /\ UNCHANGED delivered /\ UNCHANGED heard
        /\ UNCHANGED wireVars /\ UNCHANGED clientVars /\ UNCHANGED loop
        /\ UNCHANGED appVars /\ UNCHANGED boundVars
    BY <1>2 DEF InstallSubscription
  <2> QED
    BY <2>1, <2>2, Kept, Zenon DEF Parts
<1>3. CASE ReadUnsubscribe
  <2>3. SendT'
    BY <1>3, TakesFromServer DEF ReadUnsubscribe, Reads, Parts
  <2>4. StateT' /\ SubsT'
    BY <1>3 DEF ReadUnsubscribe, CloseSubs, Parts, StateT, SubsT
  <2>1. SendT' /\ StateT' /\ SubsT'
    BY <2>3, <2>4
  <2>2. /\ UNCHANGED pendingAck /\ UNCHANGED reader /\ UNCHANGED serverOpen
        /\ UNCHANGED topicOf /\ UNCHANGED queue /\ UNCHANGED cache
        /\ UNCHANGED published /\ UNCHANGED todo /\ UNCHANGED stream
        /\ UNCHANGED deliveryVars /\ UNCHANGED toClient /\ UNCHANGED clientVars
        /\ UNCHANGED loop /\ UNCHANGED appVars /\ UNCHANGED boundVars
    BY <1>3 DEF ReadUnsubscribe
  <2> QED
    BY <2>1, <2>2, Kept, Zenon DEF Parts
<1>4. CASE ReadAck
  <2>3. SendT' /\ Head(toServer).id \in Ids
    BY <1>4, TakesFromServer, FrameFields DEF ReadAck, Reads, Parts
  <2>4. ReadT'
    BY <1>4, <2>3 DEF ReadAck, Waiting, Parts, PendT, ReadT
  <2>1. SendT' /\ ReadT'
    BY <2>3, <2>4
  <2>2. /\ UNCHANGED serverVars /\ UNCHANGED brokerVars /\ UNCHANGED deliveryVars
        /\ UNCHANGED toClient /\ UNCHANGED clientVars /\ UNCHANGED loop
        /\ UNCHANGED appVars /\ UNCHANGED boundVars
    BY <1>4 DEF ReadAck
  <2> QED
    BY <2>1, <2>2, Kept, Zenon DEF Parts
<1>5. CASE Acknowledged
  <2>1. FlagT' /\ ReadT'
    BY <1>5 DEF Acknowledged, Parts, FlagT, ReadT, At
  <2>2. /\ UNCHANGED serverVars /\ UNCHANGED brokerVars /\ UNCHANGED pc
        /\ UNCHANGED event /\ UNCHANGED attempt /\ UNCHANGED serial
        /\ UNCHANGED delivered /\ UNCHANGED wireVars /\ UNCHANGED clientVars
        /\ UNCHANGED loop /\ UNCHANGED appVars /\ UNCHANGED boundVars
    BY <1>5 DEF Acknowledged
  <2> QED
    BY <2>1, <2>2, Kept, Zenon DEF Parts
<1>6. CASE ReadPublish
  <2>3. SendT' /\ Head(toServer).event \in Events
    BY <1>6, TakesFromServer, FrameFields DEF ReadPublish, Reads, Parts
  <2>4. PICK e \in Events : Route(e) /\ reader' = AtEvent("publish", e)
    BY <1>6, <2>3 DEF ReadPublish
  <2>5. PubT' /\ CacheT'
    BY <2>4, RouteType DEF Parts
  <2>6. ReadT'
    BY <2>4 DEF ReadT, AtEvent
  <2>1. SendT' /\ PubT' /\ CacheT' /\ ReadT'
    BY <2>3, <2>5, <2>6
  <2>2. /\ UNCHANGED serverVars /\ UNCHANGED state /\ UNCHANGED topicOf
        /\ UNCHANGED queue /\ UNCHANGED stream /\ UNCHANGED deliveryVars
        /\ UNCHANGED toClient /\ UNCHANGED clientVars /\ UNCHANGED loop
        /\ UNCHANGED appVars /\ UNCHANGED boundVars
    BY <1>6 DEF ReadPublish
  <2> QED
    BY <2>1, <2>2, Kept, Zenon DEF Parts
<1>7. CASE PublishDone
  <2>3. reader.event \in Events
    BY <1>7 DEF PublishDone, Parts, ReadT
  <2>4. BackT'
    <3>1. CASE UNCHANGED toClient
      BY <3>1 DEF Parts, BackT
    <3>2. CASE SendToClient(PublishedFrame(reader.event))
      <4>1. PICK f \in ToClientFrames : SendToClient(f)
        BY <2>3, <3>2, FrameFields
      <4> QED
        BY <4>1, SendsToClient DEF Parts
    <3> QED
      BY <1>7, <3>1, <3>2 DEF PublishDone
  <2>5. ReadT'
    BY <1>7 DEF PublishDone, ReadT, At
  <2>1. BackT' /\ ReadT'
    BY <2>4, <2>5
  <2>2. /\ UNCHANGED serverVars /\ UNCHANGED brokerVars /\ UNCHANGED deliveryVars
        /\ UNCHANGED toServer /\ UNCHANGED clientVars /\ UNCHANGED loop
        /\ UNCHANGED appVars /\ UNCHANGED boundVars
    BY <1>7 DEF PublishDone
  <2> QED
    BY <2>1, <2>2, Kept, Zenon DEF Parts
<1>8. CASE ReadFails
  <2>3. StateT' /\ SubsT'
    BY <1>8 DEF ReadFails, CloseSubs, Parts, StateT, SubsT
  <2>4. ReadT' /\ SrvT'
    BY <1>8 DEF ReadFails, Parts, ReadT, SrvT, At
  <2>1. StateT' /\ SubsT' /\ ReadT' /\ SrvT'
    BY <2>3, <2>4
  <2>2. /\ UNCHANGED pendingAck /\ UNCHANGED topicOf /\ UNCHANGED queue
        /\ UNCHANGED cache /\ UNCHANGED published /\ UNCHANGED todo /\ UNCHANGED stream
        /\ UNCHANGED deliveryVars /\ UNCHANGED wireVars /\ UNCHANGED clientVars
        /\ UNCHANGED loop /\ UNCHANGED appVars /\ UNCHANGED boundVars
    BY <1>8 DEF ReadFails
  <2> QED
    BY <2>1, <2>2, Kept, Zenon DEF Parts
<1> QED
  BY <1>1, <1>2, <1>3, <1>4, <1>5, <1>6, <1>7, <1>8 DEF ServerStep

LEMMA DeliverType ==
    ASSUME Parts, NEW s \in Subs, DeliveryStep(s) \/ AckTimeout(s)
    PROVE  Parts'
<1>1. CASE Deliver(s)
  <2>0. queue[s] \in Seq(Events) /\ queue[s] # <<>> /\ Len(queue[s]) <= QueueSize
    BY <1>1 DEF Deliver, Parts, QueueT
  <2>3. /\ Head(queue[s]) \in Events /\ Tail(queue[s]) \in Seq(Events)
        /\ Len(Tail(queue[s])) <= QueueSize /\ Head(queue[s]).id \in Ids
    BY <2>0, Sizes, HeadTailProperties DEF Ids
  <2>4. QueueT' /\ EventT'
    BY <1>1, <2>3 DEF Deliver, Parts, QueueT, EventT
  <2>5. PendT'
    BY <1>1, <2>3 DEF Deliver, Parts, PendT, EventT, Channel
  <2>6. FlagT' /\ TryT' /\ PcT'
    BY <1>1, Sizes DEF Deliver, Goes, Parts, FlagT, TryT, PcT, Places
  <2>1. QueueT' /\ EventT' /\ PendT' /\ FlagT' /\ TryT' /\ PcT'
    BY <2>4, <2>5, <2>6
  <2>2. /\ UNCHANGED subs /\ UNCHANGED reader /\ UNCHANGED serverOpen /\ UNCHANGED state
        /\ UNCHANGED topicOf /\ UNCHANGED cache /\ UNCHANGED published /\ UNCHANGED todo
        /\ UNCHANGED stream /\ UNCHANGED delivered /\ UNCHANGED wireVars
        /\ UNCHANGED clientVars /\ UNCHANGED loop /\ UNCHANGED appVars
        /\ UNCHANGED boundVars
    BY <1>1 DEF Deliver
  <2> QED
    BY <2>1, <2>2, Kept, Zenon DEF Parts
<1>2. CASE RangeEnds(s)
  <2>1. PcT'
    BY <1>2 DEF RangeEnds, Goes, Parts, PcT, Places
  <2>2. /\ UNCHANGED serverVars /\ UNCHANGED reader /\ UNCHANGED brokerVars
        /\ UNCHANGED event /\ UNCHANGED attempt /\ UNCHANGED serial
        /\ UNCHANGED acknowledged /\ UNCHANGED delivered /\ UNCHANGED heard
        /\ UNCHANGED wireVars /\ UNCHANGED clientVars /\ UNCHANGED loop
        /\ UNCHANGED appVars /\ UNCHANGED boundVars
    BY <1>2 DEF RangeEnds
  <2> QED
    BY <2>1, <2>2, Kept, Zenon DEF Parts
<1>3. CASE DeliverSend(s)
  <2>3. BackT'
    <3>1. CASE UNCHANGED toClient
      BY <3>1 DEF Parts, BackT
    <3>2. CASE SendToClient(EventFrame(event[s], s))
      <4>1. PICK f \in ToClientFrames : SendToClient(f)
        BY <3>2, FrameFields DEF Parts, EventT
      <4> QED
        BY <4>1, SendsToClient DEF Parts
    <3> QED
      BY <1>3, <3>1, <3>2 DEF DeliverSend
  <2>4. PcT'
    BY <1>3 DEF DeliverSend, Goes, Parts, PcT, Places
  <2>1. BackT' /\ PcT'
    BY <2>3, <2>4
  <2>2. /\ UNCHANGED serverVars /\ UNCHANGED reader /\ UNCHANGED brokerVars
        /\ UNCHANGED event /\ UNCHANGED attempt /\ UNCHANGED serial
        /\ UNCHANGED acknowledged /\ UNCHANGED delivered /\ UNCHANGED heard
        /\ UNCHANGED toServer /\ UNCHANGED clientVars /\ UNCHANGED loop
        /\ UNCHANGED appVars /\ UNCHANGED boundVars
    BY <1>3 DEF DeliverSend
  <2> QED
    BY <2>1, <2>2, Kept, Zenon DEF Parts
<1>4. CASE DeliverAcknowledged(s)
  <2>1. PcT' /\ DoneT'
    BY <1>4 DEF DeliverAcknowledged, Goes, Parts, PcT, DoneT, EventT, Places
  <2>2. /\ UNCHANGED serverVars /\ UNCHANGED reader /\ UNCHANGED brokerVars
        /\ UNCHANGED event /\ UNCHANGED attempt /\ UNCHANGED serial
        /\ UNCHANGED acknowledged /\ UNCHANGED heard /\ UNCHANGED wireVars
        /\ UNCHANGED clientVars /\ UNCHANGED loop /\ UNCHANGED appVars
        /\ UNCHANGED boundVars
    BY <1>4 DEF DeliverAcknowledged
  <2> QED
    BY <2>1, <2>2, Kept, Zenon DEF Parts
<1>5. CASE DeliverReturn(s)
  <2>3. PcT'
    BY <1>5 DEF DeliverReturn, Goes, Parts, PcT, Places
  <2>4. PendT'
    BY <1>5 DEF DeliverReturn, Unregister, NoChannel, Parts, PendT
  <2>1. PcT' /\ PendT'
    BY <2>3, <2>4
  <2>2. /\ UNCHANGED subs /\ UNCHANGED reader /\ UNCHANGED serverOpen
        /\ UNCHANGED brokerVars /\ UNCHANGED event /\ UNCHANGED attempt
        /\ UNCHANGED serial /\ UNCHANGED acknowledged /\ UNCHANGED delivered
        /\ UNCHANGED heard /\ UNCHANGED wireVars /\ UNCHANGED clientVars
        /\ UNCHANGED loop /\ UNCHANGED appVars /\ UNCHANGED boundVars
    BY <1>5 DEF DeliverReturn
  <2> QED
    BY <2>1, <2>2, Kept, Zenon DEF Parts
<1>6. CASE AckTimeout(s)
  <2>3. PcT'
    BY <1>6 DEF AckTimeout, Goes, Parts, PcT, Places
  <2>4. TryT' /\ TimeT'
    BY <1>6, Sizes DEF AckTimeout, Retries, Parts, TryT, TimeT
  <2>1. PcT' /\ TryT' /\ TimeT'
    BY <2>3, <2>4
  <2>2. /\ UNCHANGED serverVars /\ UNCHANGED reader /\ UNCHANGED brokerVars
        /\ UNCHANGED event /\ UNCHANGED serial /\ UNCHANGED acknowledged
        /\ UNCHANGED delivered /\ UNCHANGED heard /\ UNCHANGED wireVars
        /\ UNCHANGED clientVars /\ UNCHANGED loop /\ UNCHANGED appVars
        /\ UNCHANGED asked /\ UNCHANGED ownSent
    BY <1>6 DEF AckTimeout
  <2> QED
    BY <2>1, <2>2, Kept, Zenon DEF Parts
<1> QED
  BY <1>1, <1>2, <1>3, <1>4, <1>5, <1>6 DEF DeliveryStep

LEMMA LoopType == ASSUME Parts, LoopStep PROVE Parts'
<1>1. CASE LoopEvent
  <2>3. /\ BackT' /\ Head(toClient).event \in Events
        /\ Head(toClient).sub \in Subs
    BY <1>1, TakesFromClient, FrameFields DEF LoopEvent, LoopReads, Parts
  <2>4. LoopT'
    BY <1>1, <2>3 DEF LoopEvent, LoopT
  <2>1. BackT' /\ LoopT'
    BY <2>3, <2>4
  <2>2. /\ UNCHANGED serverVars /\ UNCHANGED reader /\ UNCHANGED brokerVars
        /\ UNCHANGED deliveryVars /\ UNCHANGED toServer /\ UNCHANGED clientVars
        /\ UNCHANGED appVars /\ UNCHANGED boundVars
    BY <1>1 DEF LoopEvent
  <2> QED
    BY <2>1, <2>2, Kept, Zenon DEF Parts
<1>2. CASE LoopPush
  <2>3. [event |-> loop.event, sub |-> loop.sub] \in Buffered
    BY <1>2 DEF LoopPush, Parts, LoopT, Buffered
  <2>4. BuffT'
    <3> DEFINE m == [event |-> loop.event, sub |-> loop.sub]
    <3> HIDE DEF m
    <3>1. \/ Len(events) < EventsSize /\ events' = Append(events, m)
          \/ UNCHANGED events
      BY <1>2 DEF LoopPush, m
    <3>2. EventsSize \in Nat /\ m \in Buffered
      BY <2>3, Sizes DEF m
    <3> QED
      BY <3>1, <3>2 DEF Parts, BuffT
  <2>5. LoopT'
    BY <1>2 DEF LoopPush, LoopT, At
  <2>1. BuffT' /\ LoopT'
    BY <2>4, <2>5
  <2>2. /\ UNCHANGED serverVars /\ UNCHANGED reader /\ UNCHANGED brokerVars
        /\ UNCHANGED deliveryVars /\ UNCHANGED wireVars /\ UNCHANGED clientOpen
        /\ UNCHANGED acked /\ UNCHANGED ackedIDs /\ UNCHANGED appVars
        /\ UNCHANGED boundVars
    BY <1>2 DEF LoopPush
  <2> QED
    BY <2>1, <2>2, Kept, Zenon DEF Parts
<1>3. CASE LoopAcknowledge
  <2>3. loop.event \in Events
    BY <1>3 DEF LoopAcknowledge, Parts, LoopT
  <2>4. SendT'
    <3>1. CASE UNCHANGED toServer
      BY <3>1 DEF Parts, SendT
    <3>2. CASE SendToServer(AckFrame(loop.event.id))
      <4>1. PICK f \in ToServerFrames : SendToServer(f)
        BY <2>3, <3>2, FrameFields
      <4> QED
        BY <4>1, SendsToServer DEF Parts
    <3> QED
      BY <1>3, <3>1, <3>2 DEF LoopAcknowledge
  <2>5. LoopT'
    BY <1>3, <2>3 DEF LoopAcknowledge, LoopT, At, AtEvent
  <2>1. SendT' /\ LoopT'
    BY <2>4, <2>5
  <2>2. /\ UNCHANGED serverVars /\ UNCHANGED reader /\ UNCHANGED brokerVars
        /\ UNCHANGED deliveryVars /\ UNCHANGED toClient /\ UNCHANGED clientVars
        /\ UNCHANGED appVars /\ UNCHANGED boundVars
    BY <1>3 DEF LoopAcknowledge
  <2> QED
    BY <2>1, <2>2, Kept, Zenon DEF Parts
<1>4. CASE LoopRemember
  <2>3. PICK id \in Ids : rememberDelivery(id)
    BY <1>4, FrameFields DEF LoopRemember, Parts, LoopT
  <2>4. AckT'
    BY <2>3, RememberType DEF Parts
  <2>5. LoopT'
    BY <1>4 DEF LoopRemember, LoopT, At
  <2>1. AckT' /\ LoopT'
    BY <2>4, <2>5
  <2>2. /\ UNCHANGED serverVars /\ UNCHANGED reader /\ UNCHANGED brokerVars
        /\ UNCHANGED deliveryVars /\ UNCHANGED wireVars /\ UNCHANGED clientOpen
        /\ UNCHANGED events /\ UNCHANGED appVars /\ UNCHANGED boundVars
    BY <1>4 DEF LoopRemember
  <2> QED
    BY <2>1, <2>2, Kept, Zenon DEF Parts
<1>5. CASE LoopPublished
  <2>1. BackT'
    BY <1>5, TakesFromClient DEF LoopPublished, LoopReads, Parts
  <2>2. /\ UNCHANGED serverVars /\ UNCHANGED reader /\ UNCHANGED brokerVars
        /\ UNCHANGED deliveryVars /\ UNCHANGED toServer /\ UNCHANGED clientVars
        /\ UNCHANGED loop /\ UNCHANGED appVars /\ UNCHANGED boundVars
    BY <1>5 DEF LoopPublished
  <2> QED
    BY <2>1, <2>2, Kept, Zenon DEF Parts
<1>6. CASE LoopStops
  <2>1. LoopT'
    BY <1>6 DEF LoopStops, LoopT, At
  <2>2. /\ UNCHANGED serverVars /\ UNCHANGED reader /\ UNCHANGED brokerVars
        /\ UNCHANGED deliveryVars /\ UNCHANGED wireVars /\ UNCHANGED clientVars
        /\ UNCHANGED appVars /\ UNCHANGED boundVars
    BY <1>6 DEF LoopStops
  <2> QED
    BY <2>1, <2>2, Kept, Zenon DEF Parts
<1> QED
  BY <1>1, <1>2, <1>3, <1>4, <1>5, <1>6 DEF LoopStep

LEMMA AppType == ASSUME Parts, AppStep PROVE Parts'
<1>1. CASE Receive
  <2>3. Head(events) \in Buffered /\ BuffT' /\ GotT'
    <3>1. events \in Seq(Buffered) /\ Len(events) <= EventsSize /\ received \in Seq(Buffered)
      BY DEF Parts, BuffT, GotT
    <3>2. /\ events # <<>> /\ events' = Tail(events)
          /\ received' = Append(received, Head(events))
      BY <1>1 DEF Receive
    <3>3. /\ Head(events) \in Buffered /\ Tail(events) \in Seq(Buffered)
          /\ Len(Tail(events)) <= EventsSize
      BY <3>1, <3>2, Sizes, HeadTailProperties
    <3>4. events' \in Seq(Buffered) /\ Len(events') <= EventsSize /\ received' \in Seq(Buffered)
      BY <3>1, <3>2, <3>3
    <3> QED
      BY <3>3, <3>4 DEF BuffT, GotT
  <2>5. AppT'
    BY <1>1, <2>3 DEF Receive, AppT, AtEvent, Buffered
  <2>1. BuffT' /\ GotT' /\ AppT'
    BY <2>3, <2>5
  <2>2. /\ UNCHANGED serverVars /\ UNCHANGED reader /\ UNCHANGED brokerVars
        /\ UNCHANGED deliveryVars /\ UNCHANGED wireVars /\ UNCHANGED clientOpen
        /\ UNCHANGED acked /\ UNCHANGED ackedIDs /\ UNCHANGED loop
        /\ UNCHANGED confirmed /\ UNCHANGED boundVars
    BY <1>1 DEF Receive
  <2> QED
    BY <2>1, <2>2, Kept, Zenon DEF Parts
<1>2. CASE Acknowledge
  <2>3. app.event \in Events /\ app.event.id \in Ids
    BY <1>2, FrameFields DEF Acknowledge, Parts, AppT
  <2>4. SendT'
    <3>1. CASE UNCHANGED toServer
      BY <3>1 DEF Parts, SendT
    <3>2. CASE SendToServer(AckFrame(app.event.id))
      <4>1. PICK f \in ToServerFrames : SendToServer(f)
        BY <2>3, <3>2, FrameFields
      <4> QED
        BY <4>1, SendsToServer DEF Parts
    <3> QED
      BY <1>2, <3>1, <3>2 DEF Acknowledge
  <2>5. AppT' /\ ConfT'
    <3>1. app' = AtEvent("remember", app.event) \/ app' = At("idle")
      BY <1>2 DEF Acknowledge
    <3>2. confirmed' \subseteq confirmed \cup {app.event.id}
      BY <1>2 DEF Acknowledge
    <3>3. AppT'
      BY <2>3, <3>1 DEF AppT, At, AtEvent
    <3> QED
      BY <2>3, <3>2, <3>3 DEF Parts, ConfT
  <2>1. SendT' /\ AppT' /\ ConfT'
    BY <2>4, <2>5
  <2>2. /\ UNCHANGED serverVars /\ UNCHANGED reader /\ UNCHANGED brokerVars
        /\ UNCHANGED deliveryVars /\ UNCHANGED toClient /\ UNCHANGED clientVars
        /\ UNCHANGED loop /\ UNCHANGED received /\ UNCHANGED boundVars
    BY <1>2 DEF Acknowledge
  <2> QED
    BY <2>1, <2>2, Kept, Zenon DEF Parts
<1>3. CASE Remember
  <2>3. PICK id \in Ids : rememberDelivery(id)
    BY <1>3, FrameFields DEF Remember, Parts, AppT
  <2>4. AckT'
    BY <2>3, RememberType DEF Parts
  <2>5. AppT'
    BY <1>3 DEF Remember, AppT, At
  <2>1. AckT' /\ AppT'
    BY <2>4, <2>5
  <2>2. /\ UNCHANGED serverVars /\ UNCHANGED reader /\ UNCHANGED brokerVars
        /\ UNCHANGED deliveryVars /\ UNCHANGED wireVars /\ UNCHANGED clientOpen
        /\ UNCHANGED events /\ UNCHANGED loop /\ UNCHANGED received
        /\ UNCHANGED confirmed /\ UNCHANGED boundVars
    BY <1>3 DEF Remember
  <2> QED
    BY <2>1, <2>2, Kept, Zenon DEF Parts
<1> QED
  BY <1>1, <1>2, <1>3 DEF AppStep

\* The publishers of other connections, and the calls that send one frame.
Call ==
    \/ \E e \in Events : PublishElsewhere(e) \/ Publish(e)
    \/ \E e \in Events, s \in Subs : Enqueue(e, s)
    \/ \E t \in Topics : Subscribe(t) \/ Unsubscribe(t)
    \/ Close

LEMMA CallType == ASSUME Parts, Call PROVE Parts'
<1>1. ASSUME NEW e \in Events, PublishElsewhere(e)
      PROVE  Parts'
  <2>1. PubT' /\ CacheT'
    BY <1>1, RouteType DEF PublishElsewhere, Parts
  <2>2. /\ UNCHANGED serverVars /\ UNCHANGED reader /\ UNCHANGED state
        /\ UNCHANGED topicOf /\ UNCHANGED queue /\ UNCHANGED stream
        /\ UNCHANGED deliveryVars /\ UNCHANGED wireVars /\ UNCHANGED clientVars
        /\ UNCHANGED loop /\ UNCHANGED appVars /\ UNCHANGED boundVars
    BY <1>1 DEF PublishElsewhere
  <2> QED
    BY <2>1, <2>2, Kept, Zenon DEF Parts
<1>2. ASSUME NEW e \in Events, Publish(e)
      PROVE  Parts'
  <2>3. SendT'
    BY <1>2, SendsToServer, FrameFields DEF Publish, Parts
  <2>4. CallT'
    BY <1>2 DEF Publish, Parts, CallT
  <2>1. SendT' /\ CallT'
    BY <2>3, <2>4
  <2>2. /\ UNCHANGED serverVars /\ UNCHANGED reader /\ UNCHANGED brokerVars
        /\ UNCHANGED deliveryVars /\ UNCHANGED toClient /\ UNCHANGED clientVars
        /\ UNCHANGED loop /\ UNCHANGED appVars /\ UNCHANGED asked /\ UNCHANGED timeouts
    BY <1>2 DEF Publish
  <2> QED
    BY <2>1, <2>2, Kept, Zenon DEF Parts
<1>3. ASSUME NEW e \in Events, NEW s \in Subs, Enqueue(e, s)
      PROVE  Parts'
  <2>3. PubT'
    BY <1>3 DEF Enqueue, Parts, PubT
  <2>4. /\ Append(queue[s], e) \in Seq(Events) /\ Append(stream[s], e) \in Seq(Events)
        /\ Len(queue[s]) < QueueSize => Len(Append(queue[s], e)) <= QueueSize
    <3>1. queue[s] \in Seq(Events) /\ stream[s] \in Seq(Events) /\ QueueSize \in Nat
      BY Sizes DEF Parts, QueueT, FlowT
    <3> QED
      BY <3>1
  <2>5. QueueT' /\ FlowT'
    BY <1>3, <2>4 DEF Enqueue, Parts, QueueT, FlowT
  <2>1. PubT' /\ QueueT' /\ FlowT'
    BY <2>3, <2>5
  <2>2. /\ UNCHANGED serverVars /\ UNCHANGED reader /\ UNCHANGED state
        /\ UNCHANGED topicOf /\ UNCHANGED cache /\ UNCHANGED published
        /\ UNCHANGED deliveryVars /\ UNCHANGED wireVars /\ UNCHANGED clientVars
        /\ UNCHANGED loop /\ UNCHANGED appVars /\ UNCHANGED boundVars
    BY <1>3 DEF Enqueue
  <2> QED
    BY <2>1, <2>2, Kept, Zenon DEF Parts
<1>4. ASSUME NEW t \in Topics, Subscribe(t)
      PROVE  Parts'
  <2>3. SendT'
    BY <1>4, SendsToServer, FrameFields DEF Subscribe, Parts
  <2>4. CallT'
    BY <1>4, Sizes DEF Subscribe, Parts, CallT
  <2>1. SendT' /\ CallT'
    BY <2>3, <2>4
  <2>2. /\ UNCHANGED serverVars /\ UNCHANGED reader /\ UNCHANGED brokerVars
        /\ UNCHANGED deliveryVars /\ UNCHANGED toClient /\ UNCHANGED clientVars
        /\ UNCHANGED loop /\ UNCHANGED appVars /\ UNCHANGED ownSent
        /\ UNCHANGED timeouts
    BY <1>4 DEF Subscribe
  <2> QED
    BY <2>1, <2>2, Kept, Zenon DEF Parts
<1>5. ASSUME NEW t \in Topics, Unsubscribe(t)
      PROVE  Parts'
  <2>1. SendT'
    BY <1>5, SendsToServer, FrameFields DEF Unsubscribe, Parts
  <2>2. /\ UNCHANGED serverVars /\ UNCHANGED reader /\ UNCHANGED brokerVars
        /\ UNCHANGED deliveryVars /\ UNCHANGED toClient /\ UNCHANGED clientVars
        /\ UNCHANGED loop /\ UNCHANGED appVars /\ UNCHANGED boundVars
    BY <1>5 DEF Unsubscribe
  <2> QED
    BY <2>1, <2>2, Kept, Zenon DEF Parts
<1>6. CASE Close
  <2>1. CliT'
    BY <1>6 DEF Close, Parts, CliT
  <2>2. /\ UNCHANGED serverVars /\ UNCHANGED reader /\ UNCHANGED brokerVars
        /\ UNCHANGED deliveryVars /\ UNCHANGED wireVars /\ UNCHANGED events
        /\ UNCHANGED acked /\ UNCHANGED ackedIDs /\ UNCHANGED loop /\ UNCHANGED appVars
        /\ UNCHANGED boundVars
    BY <1>6 DEF Close
  <2> QED
    BY <2>1, <2>2, Kept, Zenon DEF Parts
<1> QED
  BY <1>1, <1>2, <1>3, <1>4, <1>5, <1>6 DEF Call

LEMMA TypeStep == Parts /\ [Next]_vars => Parts'
<1> SUFFICES ASSUME Parts, [Next]_vars PROVE Parts'
  OBVIOUS
<1>1. CASE UNCHANGED vars
  <2>1. /\ UNCHANGED serverVars /\ UNCHANGED reader /\ UNCHANGED brokerVars
        /\ UNCHANGED deliveryVars /\ UNCHANGED wireVars /\ UNCHANGED clientVars
        /\ UNCHANGED loop /\ UNCHANGED appVars /\ UNCHANGED boundVars
    BY <1>1 DEF vars
  <2> QED
    BY <2>1, Kept, Zenon DEF Parts
<1> QED
  BY <1>1, ServerType, DeliverType, LoopType, AppType, CallType DEF Next, Call

\* Every variable keeps its type: the queues, Client.events and the wires stay
\* within their capacities, and a delivery makes no more than MaxAttempts
\* attempts.
THEOREM TypeCorrect == Spec => []TypeOK
<1>1. Parts => TypeOK
  BY TypeParts
<1> QED
  BY <1>1, TypeInit, TypeStep, PTL DEF Spec

-----------------------------------------------------------------------------
(* Who changes what *)

LEMMA ServerFrame ==
    ASSUME ServerStep
    PROVE  /\ UNCHANGED pendingAck /\ UNCHANGED event /\ UNCHANGED serial
           /\ UNCHANGED delivered /\ UNCHANGED clientVars /\ UNCHANGED loop
           /\ UNCHANGED appVars
BY DEF ServerStep, ReadSubscribe, InstallSubscription, ReadUnsubscribe, ReadAck, Acknowledged,
       ReadPublish, PublishDone, ReadFails, serverVars, deliveryVars

LEMMA DeliverFrame ==
    ASSUME NEW s \in Subs, DeliveryStep(s) \/ AckTimeout(s)
    PROVE  /\ UNCHANGED reader /\ UNCHANGED toServer /\ UNCHANGED clientVars
           /\ UNCHANGED loop /\ UNCHANGED appVars /\ UNCHANGED state
BY DEF DeliveryStep, Deliver, RangeEnds, DeliverSend, DeliverAcknowledged, DeliverReturn,
       AckTimeout, wireVars, brokerVars

LEMMA LoopFrame ==
    ASSUME LoopStep
    PROVE  /\ UNCHANGED serverVars /\ UNCHANGED reader /\ UNCHANGED brokerVars
           /\ UNCHANGED deliveryVars /\ UNCHANGED appVars
BY DEF LoopStep, LoopEvent, LoopPush, LoopAcknowledge, LoopRemember, LoopPublished, LoopStops

LEMMA AppFrame ==
    ASSUME AppStep
    PROVE  /\ UNCHANGED serverVars /\ UNCHANGED reader /\ UNCHANGED brokerVars
           /\ UNCHANGED deliveryVars /\ UNCHANGED loop
BY DEF AppStep, Receive, Acknowledge, Remember

LEMMA CallFrame ==
    ASSUME Call
    PROVE  /\ UNCHANGED serverVars /\ UNCHANGED reader /\ UNCHANGED state
           /\ UNCHANGED deliveryVars /\ UNCHANGED acked /\ UNCHANGED loop
           /\ UNCHANGED appVars
BY DEF Call, PublishElsewhere, Publish, Enqueue, Subscribe, Unsubscribe, Close, brokerVars,
       clientVars

-----------------------------------------------------------------------------
(* The table of pending acknowledgements *)

\* A delivery goroutine is started once, for a subscription that has none.
FreshInv ==
    /\ \A s \in Subs : state[s] = "absent" => pc[s] = "absent"
    /\ reader.at = "subscribed" => pc[reader.sub] = "absent" /\ state[reader.sub] # "absent"

LEMMA FreshInit == Init => FreshInv
BY DEF Init, FreshInv, At

LEMMA FreshStep == Parts /\ FreshInv /\ [Next]_vars => FreshInv'
<1> SUFFICES ASSUME Parts, FreshInv, [Next]_vars PROVE FreshInv'
  OBVIOUS
<1>k. ASSUME UNCHANGED state, UNCHANGED pc, UNCHANGED reader
      PROVE  FreshInv'
  BY <1>k DEF FreshInv
<1>1. CASE ServerStep
  <2>1. ASSUME NEW s \in Subs, ReadSubscribe(s)
        PROVE  FreshInv'
    BY <2>1 DEF ReadSubscribe, deliveryVars, FreshInv, Parts, StateT
  <2>2. CASE InstallSubscription
    <3>1. reader.sub \in Subs /\ reader.at = "subscribed"
      BY <2>2 DEF InstallSubscription, Parts, ReadT
    <3>2. /\ reader' = At("read") /\ pc' = [pc EXCEPT ![reader.sub] = "range"]
          /\ \A s \in Subs : state'[s] = "absent" => state[s] = "absent"
      BY <2>2 DEF InstallSubscription, CloseSubs
    <3> QED
      BY <3>1, <3>2 DEF FreshInv, Parts, PcT, At
  <2>3. CASE ReadUnsubscribe \/ ReadFails
    <3>1. /\ UNCHANGED pc /\ \A s \in Subs : state'[s] = "absent" => state[s] = "absent"
          /\ reader' = reader \/ reader' = At("stopped")
          /\ reader.at = "read"
      BY <2>3 DEF ReadUnsubscribe, ReadFails, Reads, CloseSubs, deliveryVars
    <3> QED
      BY <3>1 DEF FreshInv, At
  <2>4. CASE ReadAck \/ Acknowledged \/ ReadPublish \/ PublishDone
    <3>1. UNCHANGED pc /\ UNCHANGED state /\ reader'.at # "subscribed"
      BY <2>4 DEF ReadAck, Acknowledged, ReadPublish, PublishDone, At, AtEvent, deliveryVars,
                  brokerVars
    <3> QED
      BY <3>1 DEF FreshInv
  <2> QED
    BY <1>1, <2>1, <2>2, <2>3, <2>4 DEF ServerStep
<1>2. ASSUME NEW s \in Subs, DeliveryStep(s) \/ AckTimeout(s)
      PROVE  FreshInv'
  <2>1. UNCHANGED state /\ UNCHANGED reader
    BY <1>2, DeliverFrame
  <2>2. pc[s] # "absent" /\ \A r \in Subs : r # s => pc'[r] = pc[r]
    BY <1>2 DEF Parts, PcT, DeliveryStep, Deliver, RangeEnds, DeliverSend,
                DeliverAcknowledged, DeliverReturn, AckTimeout, Goes
  <2> QED
    BY <2>1, <2>2 DEF FreshInv, Parts, ReadT
<1>3. CASE LoopStep \/ AppStep \/ Call
  <2>1. UNCHANGED state /\ UNCHANGED reader /\ UNCHANGED pc
    BY <1>3, LoopFrame, AppFrame, CallFrame DEF brokerVars, deliveryVars
  <2> QED
    BY <1>k, <2>1
<1>4. CASE UNCHANGED vars
  BY <1>k, <1>4 DEF vars, brokerVars, deliveryVars
<1> QED
  BY <1>1, <1>2, <1>3, <1>4 DEF Next, Call

LEMMA PendingInit == Init => PendingAckLive
BY DEF Init, PendingAckLive

LEMMA PendingStep == Parts /\ FreshInv /\ PendingAckLive /\ [Next]_vars => PendingAckLive'
<1> SUFFICES ASSUME Parts, FreshInv, PendingAckLive, [Next]_vars PROVE PendingAckLive'
  OBVIOUS
\* It is enough that a delivery that owns an entry goes on.
<1>k. ASSUME UNCHANGED pendingAck, UNCHANGED event, UNCHANGED serial,
             \A s \in Subs : Delivering(s) => Delivering(s)'
      PROVE  PendingAckLive'
  BY <1>k DEF PendingAckLive, Channel
<1>1. CASE ServerStep
  <2>1. UNCHANGED pendingAck /\ UNCHANGED event /\ UNCHANGED serial
    BY <1>1, ServerFrame
  <2>2. CASE UNCHANGED pc
    BY <1>k, <2>1, <2>2 DEF Delivering
  <2>3. CASE InstallSubscription
    <3>1. reader.sub \in Subs /\ pc[reader.sub] = "absent"
      BY <2>3 DEF InstallSubscription, Parts, ReadT, FreshInv
    <3>2. \A s \in Subs : s # reader.sub => pc'[s] = pc[s]
      BY <2>3 DEF InstallSubscription, Parts, PcT
    <3> QED
      BY <1>k, <2>1, <3>1, <3>2 DEF Delivering
  <2> QED
    BY <1>1, <2>2, <2>3 DEF ServerStep, ReadSubscribe, ReadUnsubscribe, ReadAck,
                            Acknowledged, ReadPublish, PublishDone, ReadFails, deliveryVars
<1>2. ASSUME NEW s \in Subs, DeliveryStep(s) \/ AckTimeout(s)
      PROVE  PendingAckLive'
  <2>1. CASE Deliver(s)
    <3>1. /\ pc[s] = "range" /\ pc' = [pc EXCEPT ![s] = "send"]
          /\ event' = [event EXCEPT ![s] = Head(queue[s])]
          /\ serial' = [serial EXCEPT ![s] = @ + 1]
          /\ pendingAck' = [pendingAck EXCEPT ![Head(queue[s]).id] = <<s, serial[s] + 1>>]
      BY <2>1 DEF Deliver, Goes, Channel
    <3>2. /\ Delivering(s)' /\ event'[s] = Head(queue[s]) /\ serial'[s] = serial[s] + 1
          /\ \A r \in Subs : Delivering(r) => /\ Delivering(r)' /\ event'[r] = event[r]
                                              /\ serial'[r] = serial[r]
      BY <3>1 DEF Delivering, Parts, PcT, EventT
    <3>3. \A id \in Ids : \/ pendingAck'[id] = pendingAck[id]
                          \/ /\ id = Head(queue[s]).id
                             /\ pendingAck'[id] = <<s, serial[s] + 1>>
      BY <3>1 DEF Parts, PendT
    <3> QED
      BY <3>2, <3>3 DEF PendingAckLive, Channel
  <2>2. CASE DeliverReturn(s)
    <3>1. \A id \in Ids : \/ pendingAck'[id] = NoChannel
                          \/ pendingAck'[id] = pendingAck[id] /\ id # event[s].id
      BY <2>2 DEF DeliverReturn, Unregister, Parts, PendT
    <3>2. /\ UNCHANGED event /\ UNCHANGED serial
          /\ \A r \in Subs : r # s /\ Delivering(r) => Delivering(r)'
      BY <2>2 DEF DeliverReturn, Goes, Delivering, Parts, PcT
    <3> QED
      BY <3>1, <3>2 DEF PendingAckLive, Channel
  <2>3. CASE RangeEnds(s) \/ DeliverSend(s) \/ DeliverAcknowledged(s) \/ AckTimeout(s)
    <3>1. UNCHANGED pendingAck /\ UNCHANGED event /\ UNCHANGED serial
      BY <2>3 DEF RangeEnds, DeliverSend, DeliverAcknowledged, AckTimeout, serverVars
    <3>2. \A r \in Subs : Delivering(r) => Delivering(r)'
      BY <2>3 DEF RangeEnds, DeliverSend, DeliverAcknowledged, AckTimeout, Goes, Delivering,
                  Parts, PcT
    <3> QED
      BY <1>k, <3>1, <3>2
  <2> QED
    BY <1>2, <2>1, <2>2, <2>3 DEF DeliveryStep
<1>3. CASE LoopStep \/ AppStep \/ Call
  <2>1. /\ UNCHANGED pendingAck /\ UNCHANGED event /\ UNCHANGED serial /\ UNCHANGED pc
    BY <1>3, LoopFrame, AppFrame, CallFrame DEF serverVars, deliveryVars
  <2> QED
    BY <1>k, <2>1 DEF Delivering
<1>4. CASE UNCHANGED vars
  BY <1>k, <1>4 DEF vars, serverVars, deliveryVars, Delivering
<1> QED
  BY <1>1, <1>2, <1>3, <1>4 DEF Next, Call

\* Every entry of pendingAck belongs to a deliver call that is in progress,
\* although a second subscription to the topic may deliver the same event and
\* overwrite or remove the entry of the first.
THEOREM PendingAckLiveHolds == Spec => []PendingAckLive
<1>1. Parts /\ FreshInv /\ PendingAckLive /\ [Next]_vars => (Parts /\ FreshInv /\ PendingAckLive)'
  BY TypeStep, FreshStep, PendingStep
<1> QED
  BY <1>1, TypeInit, FreshInit, PendingInit, PTL DEF Spec

-----------------------------------------------------------------------------
(* An acknowledgement comes from the application *)

\* An ACK that readLoop or Acknowledge sends is for an event that the
\* application has acknowledged, wherever it is on its way.
SureInv ==
    /\ acked \subseteq confirmed
    /\ \A i \in 1 .. Len(toServer) : toServer[i].type = "ACK" => toServer[i].id \in confirmed
    /\ reader.at = "ack" => reader.id \in confirmed
    /\ loop.at \in {"ack", "remember"} => loop.event.id \in confirmed
    /\ app.at = "remember" => app.event.id \in confirmed

\* A channel that the read loop looked up may be of an earlier deliver call;
\* if it is of the present one, the event is the same.
ClaimInv ==
    reader.at = "ack" =>
        \A s \in Subs :
            /\ reader.channel[1] = s => reader.channel[2] <= serial[s]
            /\ reader.channel = Channel(s, serial[s]) => event[s].id = reader.id

\* The status in a deliver call's channel stands for an acknowledgement.
TrustInv ==
    /\ \A s \in Subs : acknowledged[s] => event[s].id \in confirmed
    /\ DeliveredMeansAcknowledged

LEMMA SureInit == Init => SureInv /\ ClaimInv /\ TrustInv
BY DEF Init, At, SureInv, ClaimInv, TrustInv, DeliveredMeansAcknowledged

LEMMA SureSend ==
    ASSUME Parts, SureInv, NEW f, SendToServer(f), f.type = "ACK" => f.id \in confirmed',
           confirmed \subseteq confirmed'
    PROVE  \A i \in 1 .. Len(toServer') : toServer'[i].type = "ACK" => toServer'[i].id \in confirmed'
BY DEF SendToServer, SureInv, Parts, SendT

LEMMA SureTake ==
    ASSUME Parts, SureInv, toServer # <<>>, toServer' = Tail(toServer), UNCHANGED confirmed
    PROVE  /\ Head(toServer).type = "ACK" => Head(toServer).id \in confirmed
           /\ \A i \in 1 .. Len(toServer') :
                  toServer'[i].type = "ACK" => toServer'[i].id \in confirmed'
BY DEF SureInv, Parts, SendT

\* Only an ACK frame takes the read loop to acknowledge.
LEMMA ReaderGoes == ASSUME ServerStep PROVE ReadAck \/ reader'.at # "ack"
<1>1. ASSUME NEW s \in Subs, ReadSubscribe(s) PROVE reader'.at # "ack"
  BY <1>1 DEF ReadSubscribe
<1>2. CASE InstallSubscription \/ Acknowledged
  BY <1>2 DEF InstallSubscription, Acknowledged, At
<1>3. CASE ReadUnsubscribe
  BY <1>3 DEF ReadUnsubscribe, Reads
<1>4. CASE ReadPublish
  BY <1>4 DEF ReadPublish, AtEvent
<1>5. CASE PublishDone \/ ReadFails
  BY <1>5 DEF PublishDone, ReadFails, At
<1> QED
  BY <1>1, <1>2, <1>3, <1>4, <1>5 DEF ServerStep

LEMMA SureServer == ASSUME Parts, SureInv, ServerStep PROVE SureInv'
<1>1. UNCHANGED acked /\ UNCHANGED confirmed /\ UNCHANGED loop /\ UNCHANGED app
  BY ServerFrame DEF clientVars, appVars
<1>2. CASE \E type \in {"SUBSCRIBE", "UNSUBSCRIBE", "ACK", "PUBLISH"} : Reads(type)
  <2>1. /\ Head(toServer).type = "ACK" => Head(toServer).id \in confirmed
        /\ \A i \in 1 .. Len(toServer') :
               toServer'[i].type = "ACK" => toServer'[i].id \in confirmed'
    BY <1>1, <1>2, SureTake DEF Reads
  <2>2. reader'.at = "ack" => reader'.id = Head(toServer).id /\ Head(toServer).type = "ACK"
    BY ReaderGoes DEF ReadAck, Reads
  <2> QED
    BY <1>1, <2>1, <2>2 DEF SureInv
<1>3. CASE InstallSubscription \/ Acknowledged \/ PublishDone \/ ReadFails
  <2>1. UNCHANGED toServer /\ reader'.at # "ack"
    BY <1>3 DEF InstallSubscription, Acknowledged, PublishDone, ReadFails, At, wireVars
  <2> QED
    BY <1>1, <2>1 DEF SureInv
<1> QED
  BY <1>2, <1>3 DEF ServerStep, ReadSubscribe, ReadUnsubscribe, ReadAck, ReadPublish

LEMMA SureLoop == ASSUME Parts, SureInv, LoopStep PROVE SureInv'
<1>1. UNCHANGED reader /\ UNCHANGED confirmed /\ UNCHANGED app
  BY LoopFrame DEF appVars
<1>2. CASE LoopEvent \/ LoopPush \/ LoopPublished \/ LoopStops
  <2>1. UNCHANGED toServer /\ UNCHANGED acked
    BY <1>2 DEF LoopEvent, LoopPush, LoopPublished, LoopStops, wireVars, clientVars
  <2>2. loop'.at \in {"ack", "remember"} => loop'.event.id \in acked \/ UNCHANGED loop
    BY <1>2 DEF LoopEvent, LoopPush, LoopPublished, LoopStops, At
  <2> QED
    BY <1>1, <2>1, <2>2 DEF SureInv
<1>3. CASE LoopAcknowledge
  <2>1. /\ loop.event.id \in confirmed /\ UNCHANGED acked
        /\ loop' = AtEvent("remember", loop.event) \/ loop' = At("read")
    BY <1>3 DEF LoopAcknowledge, SureInv, clientVars
  <2>2. \A i \in 1 .. Len(toServer') : toServer'[i].type = "ACK" => toServer'[i].id \in confirmed'
    <3>1. CASE SendToServer(AckFrame(loop.event.id))
      <4>1. PICK f : SendToServer(f) /\ f = AckFrame(loop.event.id)
        BY <3>1
      <4> QED
        BY <1>1, <2>1, <4>1, SureSend DEF AckFrame
    <3>2. CASE UNCHANGED toServer
      BY <1>1, <3>2 DEF SureInv
    <3> QED
      BY <1>3, <3>1, <3>2 DEF LoopAcknowledge
  <2> QED
    BY <1>1, <2>1, <2>2 DEF SureInv, At, AtEvent
<1>4. CASE LoopRemember
  <2>1. PICK id \in Ids : rememberDelivery(id) /\ id = loop.event.id
    BY <1>4, FrameFields DEF LoopRemember, Parts, LoopT
  <2>2. acked' \subseteq acked \cup {id} /\ id \in confirmed
    BY <1>4, <2>1, RememberType DEF Parts, LoopRemember, SureInv
  <2>3. UNCHANGED toServer /\ loop' = At("read")
    BY <1>4 DEF LoopRemember, wireVars
  <2> QED
    BY <1>1, <2>2, <2>3 DEF SureInv, At
<1> QED
  BY <1>2, <1>3, <1>4 DEF LoopStep

LEMMA SureApp == ASSUME Parts, SureInv, AppStep PROVE SureInv' /\ confirmed \subseteq confirmed'
<1>1. UNCHANGED reader /\ UNCHANGED loop
  BY AppFrame
<1>2. CASE Receive
  <2>1. /\ UNCHANGED toServer /\ UNCHANGED acked /\ UNCHANGED confirmed
        /\ app'.at = "ack"
    BY <1>2 DEF Receive, wireVars, AtEvent
  <2> QED
    BY <1>1, <2>1 DEF SureInv
<1>3. CASE Acknowledge
  <2>1. /\ UNCHANGED acked /\ confirmed \subseteq confirmed'
        /\ \/ SendToServer(AckFrame(app.event.id)) /\ app.event.id \in confirmed'
              /\ app' = AtEvent("remember", app.event)
           \/ UNCHANGED toServer /\ app' = At("idle")
    BY <1>3 DEF Acknowledge, clientVars
  <2>2. \A i \in 1 .. Len(toServer') : toServer'[i].type = "ACK" => toServer'[i].id \in confirmed'
    <3>1. CASE SendToServer(AckFrame(app.event.id)) /\ app.event.id \in confirmed'
      <4>1. PICK f : SendToServer(f) /\ f = AckFrame(app.event.id)
        BY <3>1
      <4> QED
        BY <2>1, <3>1, <4>1, SureSend DEF AckFrame
    <3>2. CASE UNCHANGED toServer
      BY <2>1, <3>2 DEF SureInv
    <3> QED
      BY <2>1, <3>1, <3>2
  <2> QED
    BY <1>1, <2>1, <2>2 DEF SureInv, At, AtEvent
<1>4. CASE Remember
  <2>1. PICK id \in Ids : rememberDelivery(id) /\ id = app.event.id
    BY <1>4, FrameFields DEF Remember, Parts, AppT
  <2>2. acked' \subseteq acked \cup {id} /\ id \in confirmed
    BY <1>4, <2>1, RememberType DEF Parts, Remember, SureInv
  <2>3. UNCHANGED toServer /\ UNCHANGED confirmed /\ app' = At("idle")
    BY <1>4 DEF Remember, wireVars
  <2> QED
    BY <1>1, <2>2, <2>3 DEF SureInv, At
<1> QED
  BY <1>2, <1>3, <1>4 DEF AppStep

LEMMA SureCall == ASSUME Parts, SureInv, Call PROVE SureInv'
<1>1. UNCHANGED acked /\ UNCHANGED reader /\ UNCHANGED loop /\ UNCHANGED app /\ UNCHANGED confirmed
  BY CallFrame DEF appVars
<1>2. \/ UNCHANGED toServer
      \/ \E f : SendToServer(f) /\ f.type # "ACK"
  <2>1. ASSUME NEW e \in Events, PublishElsewhere(e) PROVE UNCHANGED toServer
    BY <2>1 DEF PublishElsewhere, wireVars
  <2>2. ASSUME NEW e \in Events, NEW s \in Subs, Enqueue(e, s) PROVE UNCHANGED toServer
    BY <2>2 DEF Enqueue, wireVars
  <2>3. ASSUME NEW e \in Events, Publish(e) PROVE \E f : SendToServer(f) /\ f.type # "ACK"
    <3>1. SendToServer(PublishFrame(e)) /\ PublishFrame(e).type # "ACK"
      BY <2>3 DEF Publish, PublishFrame
    <3> QED
      BY <3>1
  <2>4. ASSUME NEW t \in Topics, Subscribe(t) PROVE \E f : SendToServer(f) /\ f.type # "ACK"
    <3>1. SendToServer(TopicFrame("SUBSCRIBE", t)) /\ TopicFrame("SUBSCRIBE", t).type # "ACK"
      BY <2>4 DEF Subscribe, TopicFrame
    <3> QED
      BY <3>1
  <2>5. ASSUME NEW t \in Topics, Unsubscribe(t) PROVE \E f : SendToServer(f) /\ f.type # "ACK"
    <3>1. SendToServer(TopicFrame("UNSUBSCRIBE", t)) /\ TopicFrame("UNSUBSCRIBE", t).type # "ACK"
      BY <2>5 DEF Unsubscribe, TopicFrame
    <3> QED
      BY <3>1
  <2>6. CASE Close
    BY <2>6 DEF Close, wireVars
  <2> QED
    BY <2>1, <2>2, <2>3, <2>4, <2>5, <2>6 DEF Call
<1>3. \A i \in 1 .. Len(toServer') : toServer'[i].type = "ACK" => toServer'[i].id \in confirmed'
  BY <1>1, <1>2, SureSend DEF SureInv
<1> QED
  BY <1>1, <1>3 DEF SureInv

LEMMA SureStep == Parts /\ SureInv /\ [Next]_vars => SureInv' /\ confirmed \subseteq confirmed'
<1> SUFFICES ASSUME Parts, SureInv, [Next]_vars PROVE SureInv' /\ confirmed \subseteq confirmed'
  OBVIOUS
<1>1. CASE UNCHANGED vars
  BY <1>1 DEF vars, wireVars, clientVars, appVars, SureInv
<1>2. ASSUME NEW s \in Subs, DeliveryStep(s) \/ AckTimeout(s)
      PROVE  SureInv' /\ confirmed \subseteq confirmed'
  BY <1>2, DeliverFrame DEF clientVars, appVars, SureInv
<1>3. CASE ServerStep
  BY <1>3, SureServer, ServerFrame DEF appVars
<1>4. CASE LoopStep
  BY <1>4, SureLoop, LoopFrame DEF appVars
<1>5. CASE Call
  BY <1>5, SureCall, CallFrame DEF appVars
<1> QED
  BY <1>1, <1>2, <1>3, <1>4, <1>5, SureApp DEF Next, Call

LEMMA ClaimStep ==
    Parts /\ PendingAckLive /\ ClaimInv /\ [Next]_vars => ClaimInv'
<1> SUFFICES ASSUME Parts, PendingAckLive, ClaimInv, [Next]_vars PROVE ClaimInv'
  OBVIOUS
<1>k. ASSUME UNCHANGED event, UNCHANGED serial, reader' = reader \/ reader'.at # "ack"
      PROVE  ClaimInv'
  BY <1>k DEF ClaimInv, Channel
<1>1. CASE ServerStep
  <2>1. UNCHANGED event /\ UNCHANGED serial
    BY <1>1, ServerFrame
  <2>2. CASE ReadAck
    <3>1. /\ Head(toServer).id \in Ids
          /\ reader' = [at |-> "ack", id |-> Head(toServer).id,
                        channel |-> pendingAck[Head(toServer).id]]
      BY <2>2, TakesFromServer, FrameFields DEF ReadAck, Reads, Waiting, Parts
    <3>2. PICK id \in Ids : reader' = [at |-> "ack", id |-> id, channel |-> pendingAck[id]]
      BY <3>1
    <3>3. ASSUME NEW s \in Subs
          PROVE  /\ pendingAck[id][1] = s => pendingAck[id][2] <= serial[s]
                 /\ pendingAck[id] = Channel(s, serial[s]) => event[s].id = id
      <4>1. CASE pendingAck[id] = NoChannel
        BY <4>1 DEF NoChannel, NoSub, Subs, Channel
      <4>2. CASE pendingAck[id] # NoChannel
        <5>1. PICK r \in Subs : event[r].id = id /\ pendingAck[id] = <<r, serial[r]>>
          BY <4>2 DEF PendingAckLive, Channel
        <5> QED
          BY <5>1 DEF Channel, Parts, EventT
      <4> QED
        BY <4>1, <4>2
    <3> QED
      BY <2>1, <3>2, <3>3 DEF ClaimInv, Channel
  <2>3. CASE ~ReadAck
    BY <1>1, <1>k, <2>1, <2>3, ReaderGoes
  <2> QED
    BY <2>2, <2>3
<1>2. ASSUME NEW s \in Subs, DeliveryStep(s) \/ AckTimeout(s)
      PROVE  ClaimInv'
  <2>1. UNCHANGED reader
    BY <1>2, DeliverFrame
  <2>2. CASE Deliver(s)
    <3>1. /\ serial'[s] = serial[s] + 1 /\ serial[s] \in Nat
          /\ \A r \in Subs : r # s => serial'[r] = serial[r] /\ event'[r] = event[r]
      BY <2>2 DEF Deliver, Parts, EventT
    <3>2. ASSUME reader.at = "ack", NEW r \in Subs
          PROVE  /\ reader.channel[1] = r => reader.channel[2] <= serial'[r]
                 /\ reader.channel = <<r, serial'[r]>> => event'[r].id = reader.id
      <4>1. reader.channel \in (Subs \cup {NoSub}) \X Nat
        BY <3>2 DEF Parts, ReadT
      <4>2. CASE r = s
        BY <3>1, <3>2, <4>1, <4>2 DEF ClaimInv
      <4>3. CASE r # s
        BY <3>1, <3>2, <4>3 DEF ClaimInv, Channel
      <4> QED
        BY <4>2, <4>3
    <3> QED
      BY <2>1, <3>2 DEF ClaimInv, Channel
  <2>3. CASE ~Deliver(s)
    <3>1. UNCHANGED event /\ UNCHANGED serial
      BY <1>2, <2>3 DEF DeliveryStep, RangeEnds, DeliverSend, DeliverAcknowledged,
                        DeliverReturn, AckTimeout
    <3> QED
      BY <1>k, <2>1, <3>1
  <2> QED
    BY <2>2, <2>3
<1>3. CASE LoopStep \/ AppStep \/ Call
  <2>1. UNCHANGED event /\ UNCHANGED serial /\ UNCHANGED reader
    BY <1>3, LoopFrame, AppFrame, CallFrame DEF deliveryVars
  <2> QED
    BY <1>k, <2>1
<1>4. CASE UNCHANGED vars
  BY <1>k, <1>4 DEF vars, deliveryVars
<1> QED
  BY <1>1, <1>2, <1>3, <1>4 DEF Next, Call

LEMMA TrustStep ==
    Parts /\ SureInv /\ ClaimInv /\ TrustInv /\ [Next]_vars => TrustInv'
<1> SUFFICES ASSUME Parts, SureInv, ClaimInv, TrustInv, [Next]_vars PROVE TrustInv'
  OBVIOUS
<1>c. confirmed \subseteq confirmed'
  BY SureStep
<1>k. ASSUME UNCHANGED event, UNCHANGED acknowledged, UNCHANGED delivered
      PROVE  TrustInv'
  BY <1>c, <1>k DEF TrustInv, DeliveredMeansAcknowledged
<1>1. CASE ServerStep
  <2>1. UNCHANGED event /\ UNCHANGED delivered /\ UNCHANGED confirmed
    BY <1>1, ServerFrame DEF appVars
  <2>2. CASE Acknowledged
    <3>1. /\ reader.at = "ack"
          /\ \A s \in Subs : acknowledged'[s] =>
                 acknowledged[s] \/ reader.channel = Channel(s, serial[s])
      BY <2>2 DEF Acknowledged
    <3>2. \A s \in Subs : acknowledged'[s] => event[s].id \in confirmed
      BY <3>1 DEF TrustInv, SureInv, ClaimInv
    <3> QED
      BY <2>1, <3>2 DEF TrustInv, DeliveredMeansAcknowledged
  <2>3. CASE ~Acknowledged
    <3>1. UNCHANGED acknowledged
      BY <1>1, <2>3 DEF ServerStep, ReadSubscribe, InstallSubscription, ReadUnsubscribe,
                        ReadAck, ReadPublish, PublishDone, ReadFails, deliveryVars
    <3> QED
      BY <1>k, <2>1, <3>1
  <2> QED
    BY <2>2, <2>3
<1>2. ASSUME NEW s \in Subs, DeliveryStep(s) \/ AckTimeout(s)
      PROVE  TrustInv'
  <2>1. UNCHANGED confirmed
    BY <1>2, DeliverFrame DEF appVars
  <2>2. CASE Deliver(s)
    <3>1. /\ ~acknowledged'[s] /\ UNCHANGED delivered
          /\ \A r \in Subs : r # s => acknowledged'[r] = acknowledged[r] /\ event'[r] = event[r]
      BY <2>2 DEF Deliver, Parts, EventT, FlagT
    <3> QED
      BY <2>1, <3>1 DEF TrustInv, DeliveredMeansAcknowledged
  <2>3. CASE DeliverAcknowledged(s)
    <3>1. /\ UNCHANGED event /\ UNCHANGED acknowledged /\ acknowledged[s]
          /\ delivered' = delivered \cup {<<s, event[s]>>}
      BY <2>3 DEF DeliverAcknowledged
    <3> QED
      BY <2>1, <3>1 DEF TrustInv, DeliveredMeansAcknowledged
  <2>4. CASE RangeEnds(s) \/ DeliverSend(s) \/ DeliverReturn(s) \/ AckTimeout(s)
    <3>1. UNCHANGED event /\ UNCHANGED acknowledged /\ UNCHANGED delivered
      BY <2>4 DEF RangeEnds, DeliverSend, DeliverReturn, AckTimeout
    <3> QED
      BY <1>k, <3>1
  <2> QED
    BY <1>2, <2>2, <2>3, <2>4 DEF DeliveryStep
<1>3. CASE LoopStep \/ AppStep \/ Call
  <2>1. UNCHANGED event /\ UNCHANGED acknowledged /\ UNCHANGED delivered
    BY <1>3, LoopFrame, AppFrame, CallFrame DEF deliveryVars
  <2> QED
    BY <1>k, <2>1
<1>4. CASE UNCHANGED vars
  BY <1>k, <1>4 DEF vars, deliveryVars
<1> QED
  BY <1>1, <1>2, <1>3, <1>4 DEF Next, Call

\* deliver returns true only for an event that the application received and
\* acknowledged: neither a late ACK, nor one of another event or of another
\* subscription's delivery, nor the client's own repeated ACK can stand in.
THEOREM DeliveredMeansAcknowledgedHolds == Spec => []DeliveredMeansAcknowledged
<1> DEFINE Inv == Parts /\ FreshInv /\ PendingAckLive /\ SureInv /\ ClaimInv /\ TrustInv
<1>1. Init => Inv
  BY TypeInit, FreshInit, PendingInit, SureInit
<1>2. Inv /\ [Next]_vars => Inv'
  BY TypeStep, FreshStep, PendingStep, SureStep, ClaimStep, TrustStep
<1>3. Inv => DeliveredMeansAcknowledged
  BY DEF TrustInv
<1> QED
  BY <1>1, <1>2, <1>3, PTL DEF Spec

-----------------------------------------------------------------------------
(* An event enters a queue at most once *)

Distinct(q) == \A i, j \in 1 .. Len(q) : q[i] = q[j] => i = j
In(e, q)    == \E i \in 1 .. Len(q) : q[i] = e

LEMMA AppendOnce ==
    ASSUME NEW q \in Seq(Events), NEW e \in Events
    PROVE  /\ \A x : In(x, Append(q, e)) <=> In(x, q) \/ x = e
           /\ Distinct(q) /\ ~In(e, q) => Distinct(Append(q, e))
<1> DEFINE a == Append(q, e)
<1>1. /\ Len(q) \in Nat /\ Len(a) = Len(q) + 1 /\ a[Len(q) + 1] = e
      /\ \A i \in 1 .. Len(q) : a[i] = q[i]
  OBVIOUS
<1> HIDE DEF a
<1>2. /\ \A i \in 1 .. Len(a) : i \in 1 .. Len(q) \/ i = Len(q) + 1
      /\ \A i \in 1 .. Len(q) : i \in 1 .. Len(a)
      /\ Len(q) + 1 \in 1 .. Len(a)
  BY <1>1
<1>3. \A x : In(x, a) <=> In(x, q) \/ x = e
  BY <1>1, <1>2 DEF In
<1>4. Distinct(q) /\ ~In(e, q) => Distinct(a)
  BY <1>1, <1>2 DEF Distinct, In
<1> QED
  BY <1>3, <1>4 DEF a

\* The events that are replayed leave the cache.
LEMMA SplitOnce ==
    ASSUME NEW q \in Seq(Events), Distinct(q), NEW n \in Nat, n <= Len(q)
    PROVE  /\ Distinct(SubSeq(q, 1, n)) /\ Distinct(SubSeq(q, n + 1, Len(q)))
           /\ \A x : In(x, SubSeq(q, 1, n)) => In(x, q)
           /\ \A x : In(x, SubSeq(q, n + 1, Len(q))) => In(x, q)
           /\ \A x : ~(In(x, SubSeq(q, 1, n)) /\ In(x, SubSeq(q, n + 1, Len(q))))
<1> DEFINE a == SubSeq(q, 1, n)
           b == SubSeq(q, n + 1, Len(q))
<1>1. /\ Len(q) \in Nat /\ Len(a) = n /\ Len(b) = Len(q) - n
      /\ \A i \in 1 .. n : a[i] = q[i]
      /\ \A i \in 1 .. Len(q) - n : b[i] = q[n + i]
  BY SubSeqProperties
<1> HIDE DEF a, b
<1>2. /\ \A i \in 1 .. n : i \in 1 .. Len(q)
      /\ \A i \in 1 .. Len(q) - n : n + i \in 1 .. Len(q)
      /\ \A i \in 1 .. n, j \in 1 .. Len(q) - n : i # n + j
      /\ \A i, j \in 1 .. Len(q) - n : n + i = n + j => i = j
  BY <1>1
<1>3. Distinct(a) /\ \A x : In(x, a) => In(x, q)
  BY <1>1, <1>2 DEF Distinct, In
<1>4. Distinct(b) /\ \A x : In(x, b) => In(x, q)
  BY <1>1, <1>2 DEF Distinct, In
<1>5. \A x : ~(In(x, a) /\ In(x, b))
  BY <1>1, <1>2 DEF Distinct, In
<1> QED
  BY <1>3, <1>4, <1>5 DEF a, b

\* A PUBLISH frame is sent once, and an event is published when it is read.
FrameInv ==
    /\ \A e \in OwnEvents \ ownSent : e \notin published
    /\ \A i \in 1 .. Len(toServer) : toServer[i].type = "PUBLISH" =>
           toServer[i].event \in ownSent /\ toServer[i].event \notin published
    /\ \A i, j \in 1 .. Len(toServer) :
           toServer[i].type = "PUBLISH" /\ toServer[j].type = "PUBLISH"
             /\ toServer[i].event = toServer[j].event => i = j

LEMMA FrameInit == Init => FrameInv
BY DEF Init, FrameInv

LEMMA FrameSend ==
    ASSUME Parts, FrameInv, NEW f, SendToServer(f), UNCHANGED published,
           \/ f.type # "PUBLISH" /\ UNCHANGED ownSent
           \/ f.event \in OwnEvents \ ownSent /\ ownSent' = ownSent \cup {f.event}
    PROVE  FrameInv'
<1>1. \A e \in OwnEvents \ ownSent' : e \notin published'
  BY DEF FrameInv
<1>2. CASE UNCHANGED toServer
  BY <1>1, <1>2 DEF FrameInv
<1>3. CASE toServer' = Append(toServer, f)
  <2> DEFINE n == Len(toServer) + 1
  <2>1. /\ Len(toServer) \in Nat /\ Len(toServer') = n /\ toServer'[n] = f
        /\ \A i \in 1 .. Len(toServer) : toServer'[i] = toServer[i]
    BY <1>3 DEF Parts, SendT
  <2>2. \A i \in 1 .. n : i \in 1 .. Len(toServer) \/ i = n
    BY <2>1
  <2>3. f.type = "PUBLISH" => \A i \in 1 .. Len(toServer) :
            toServer[i].type = "PUBLISH" => toServer[i].event # f.event
    BY DEF FrameInv
  <2> HIDE DEF n
  <2>4. \A i \in 1 .. n : toServer'[i].type = "PUBLISH" =>
            toServer'[i].event \in ownSent' /\ toServer'[i].event \notin published'
    BY <2>1, <2>2 DEF FrameInv
  <2>5. \A i, j \in 1 .. n :
            toServer'[i].type = "PUBLISH" /\ toServer'[j].type = "PUBLISH"
              /\ toServer'[i].event = toServer'[j].event => i = j
    BY <2>1, <2>2, <2>3 DEF FrameInv
  <2> QED
    BY <1>1, <2>1, <2>4, <2>5 DEF FrameInv
<1> QED
  BY <1>2, <1>3 DEF SendToServer

LEMMA FrameTake ==
    ASSUME Parts, FrameInv, toServer # <<>>, toServer' = Tail(toServer), UNCHANGED ownSent,
           \/ UNCHANGED published
           \/ /\ Head(toServer).type = "PUBLISH"
              /\ published' = published \cup {Head(toServer).event}
    PROVE  FrameInv'
<1>1. /\ Len(toServer) \in Nat /\ Len(toServer) > 0 /\ Head(toServer) = toServer[1]
      /\ Len(toServer') = Len(toServer) - 1
      /\ \A i \in 1 .. Len(toServer') : toServer'[i] = toServer[i + 1]
  BY DEF Parts, SendT
<1>2. /\ \A i \in 1 .. Len(toServer') : i + 1 \in 1 .. Len(toServer) /\ i + 1 # 1
      /\ \A i, j \in 1 .. Len(toServer') : i + 1 = j + 1 => i = j
      /\ 1 \in 1 .. Len(toServer)
  BY <1>1
<1>3. \A i, j \in 1 .. Len(toServer') :
          toServer'[i].type = "PUBLISH" /\ toServer'[j].type = "PUBLISH"
            /\ toServer'[i].event = toServer'[j].event => i = j
  BY <1>1, <1>2 DEF FrameInv
<1>4. \A i \in 1 .. Len(toServer') : toServer'[i].type = "PUBLISH" =>
          toServer'[i].event \in ownSent /\ toServer'[i].event \notin published
  BY <1>1, <1>2 DEF FrameInv
<1>5. CASE UNCHANGED published
  BY <1>3, <1>4, <1>5 DEF FrameInv
<1>6. ASSUME Head(toServer).type = "PUBLISH",
             published' = published \cup {Head(toServer).event}
      PROVE  FrameInv'
  <2>1. \A i \in 1 .. Len(toServer') :
            toServer'[i].type = "PUBLISH" => toServer'[i].event # Head(toServer).event
    BY <1>1, <1>2, <1>6 DEF FrameInv
  <2>2. Head(toServer).event \in ownSent
    BY <1>1, <1>2, <1>6 DEF FrameInv
  <2> QED
    BY <1>3, <1>4, <1>6, <2>1, <2>2 DEF FrameInv
<1> QED
  BY <1>5, <1>6

LEMMA FrameStep == Parts /\ FrameInv /\ [Next]_vars => FrameInv'
<1> SUFFICES ASSUME Parts, FrameInv, [Next]_vars PROVE FrameInv'
  OBVIOUS
<1>k. ASSUME UNCHANGED <<published, ownSent, toServer>>
      PROVE  FrameInv'
  BY <1>k DEF FrameInv
<1>1. CASE ServerStep
  <2>1. UNCHANGED ownSent
    BY <1>1 DEF ServerStep, ReadSubscribe, InstallSubscription, ReadUnsubscribe, ReadAck,
                Acknowledged, ReadPublish, PublishDone, ReadFails, boundVars
  <2>2. ASSUME (\E s \in Subs : ReadSubscribe(s)) \/ ReadUnsubscribe \/ ReadAck
        PROVE  toServer # <<>> /\ toServer' = Tail(toServer) /\ UNCHANGED published
    BY <2>2 DEF ReadSubscribe, ReadUnsubscribe, ReadAck, Reads, brokerVars
  <2>3. CASE ReadPublish
    <3>1. /\ toServer # <<>> /\ toServer' = Tail(toServer) /\ Head(toServer).type = "PUBLISH"
          /\ published' = published \cup {Head(toServer).event}
      BY <2>3 DEF ReadPublish, Reads, Route
    <3> QED
      BY <2>1, <3>1, FrameTake
  <2>4. ASSUME InstallSubscription \/ Acknowledged \/ PublishDone \/ ReadFails
        PROVE  UNCHANGED <<published, toServer>>
    BY <2>4 DEF InstallSubscription, Acknowledged, PublishDone, ReadFails, brokerVars, wireVars
  <2> QED
    BY <1>1, <1>k, <2>1, <2>2, <2>3, <2>4, FrameTake DEF ServerStep
<1>2. ASSUME NEW s \in Subs, DeliveryStep(s) \/ AckTimeout(s)
      PROVE  FrameInv'
  BY <1>2, <1>k DEF DeliveryStep, Deliver, RangeEnds, DeliverSend, DeliverAcknowledged,
                    DeliverReturn, AckTimeout, wireVars, brokerVars, boundVars
<1>3. CASE LoopStep \/ AppStep
  <2>1. UNCHANGED <<published, ownSent>>
    BY <1>3 DEF LoopStep, LoopEvent, LoopPush, LoopAcknowledge, LoopRemember, LoopPublished,
                LoopStops, AppStep, Receive, Acknowledge, Remember, brokerVars, boundVars
  <2>2. \/ UNCHANGED toServer
        \/ \E id \in {loop.event.id, app.event.id} : SendToServer(AckFrame(id))
    BY <1>3 DEF LoopStep, LoopEvent, LoopPush, LoopAcknowledge, LoopRemember, LoopPublished,
                LoopStops, AppStep, Receive, Acknowledge, Remember, wireVars
  <2>3. ASSUME NEW id, SendToServer(AckFrame(id))
        PROVE  FrameInv'
    <3>1. PICK f : SendToServer(f) /\ f.type # "PUBLISH"
      BY <2>3 DEF AckFrame
    <3> QED
      BY <2>1, <3>1, FrameSend
  <2> QED
    BY <1>k, <2>1, <2>2, <2>3
<1>4. ASSUME NEW e \in Events, PublishElsewhere(e)
      PROVE  FrameInv'
  <2>1. /\ e \notin OwnEvents /\ published' = published \cup {e}
        /\ UNCHANGED <<ownSent, toServer>>
    BY <1>4 DEF PublishElsewhere, Route, wireVars, boundVars
  <2>2. ownSent \subseteq OwnEvents
    BY DEF Parts, CallT
  <2> QED
    BY <2>1, <2>2 DEF FrameInv
<1>5. ASSUME NEW e \in Events, Publish(e)
      PROVE  FrameInv'
  <2>1. PICK f : SendToServer(f) /\ f = PublishFrame(e)
    BY <1>5 DEF Publish
  <2>2. f.event \in OwnEvents \ ownSent /\ ownSent' = ownSent \cup {f.event} /\ UNCHANGED published
    BY <1>5, <2>1 DEF Publish, PublishFrame, brokerVars
  <2> QED
    BY <2>1, <2>2, FrameSend
<1>6. ASSUME NEW t \in Topics, Subscribe(t) \/ Unsubscribe(t)
      PROVE  FrameInv'
  <2>1. PICK f : SendToServer(f) /\ f.type # "PUBLISH"
    BY <1>6 DEF Subscribe, Unsubscribe, TopicFrame
  <2>2. UNCHANGED <<published, ownSent>>
    BY <1>6 DEF Subscribe, Unsubscribe, brokerVars, boundVars
  <2> QED
    BY <2>1, <2>2, FrameSend
<1>7. ASSUME Close \/ \E e \in Events, s \in Subs : Enqueue(e, s)
      PROVE  FrameInv'
  BY <1>7, <1>k DEF Close, Enqueue, brokerVars, wireVars, boundVars
<1>8. CASE UNCHANGED vars
  BY <1>8, <1>k DEF vars, brokerVars, wireVars, boundVars
<1> QED
  BY <1>1, <1>2, <1>3, <1>4, <1>5, <1>6, <1>7, <1>8 DEF Next

OnceInv ==
    /\ \A e \in Events : e \notin published =>
          /\ todo[e] = {} /\ \A t \in Topics : ~In(e, cache[t])
          /\ \A s \in Subs : ~In(e, stream[s])
    /\ \A e \in Events, s \in Subs : s \in todo[e] => ~In(e, stream[s]) /\ state[s] # "absent"
    /\ \A t \in Topics, e \in Events : In(e, cache[t]) =>
          e.topic = t /\ todo[e] = {} /\ \A s \in Subs : ~In(e, stream[s])
    /\ \A t \in Topics : Distinct(cache[t])
    /\ \A s \in Subs : Distinct(stream[s]) /\ (state[s] = "absent" => stream[s] = <<>>)

LEMMA EmptyOnce == Distinct(<<>>) /\ \A x : ~In(x, <<>>)
BY DEF Distinct, In

LEMMA OnceInit == Init => OnceInv
<1> SUFFICES ASSUME Init PROVE OnceInv
  OBVIOUS
<1>1. /\ published = {} /\ \A e \in Events : todo[e] = {}
      /\ \A t \in Topics : cache[t] = <<>>
      /\ \A s \in Subs : stream[s] = <<>>
  BY DEF Init
<1> QED
  BY <1>1, EmptyOnce DEF OnceInv

\* Closing subscriptions does not matter.
LEMMA OnceKept ==
    ASSUME OnceInv, UNCHANGED <<published, todo, cache, stream>>,
           \A s \in Subs : state'[s] = state[s] \/ state'[s] = "closed"
    PROVE  OnceInv'
<1>1. \A s \in Subs : state'[s] = "absent" <=> state[s] = "absent" /\ state'[s] = state[s]
  OBVIOUS
<1>2. \A s \in Subs : state[s] # "absent" => state'[s] # "absent"
  OBVIOUS
<1> QED
  BY <1>1, <1>2 DEF OnceInv

LEMMA OnceRoute ==
    ASSUME Parts, OnceInv, NEW e \in Events, e \notin published, Route(e),
           UNCHANGED <<state, stream>>
    PROVE  OnceInv'
<1>1. e.topic \in Topics /\ cache[e.topic] \in Seq(Events)
  BY DeliveryAssumption DEF Parts, CacheT
<1>2. /\ published' = published \cup {e}
      /\ \A x \in Events : x # e => todo'[x] = todo[x]
      /\ todo'[e] = OpenSubs(e.topic)
      /\ \A s \in OpenSubs(e.topic) : state[s] # "absent"
  BY DEF Route, Parts, PubT, OpenSubs
<1>3. \A t \in Topics :
         \/ cache'[t] = cache[t]
         \/ t = e.topic /\ OpenSubs(e.topic) = {} /\ cache'[t] = Append(cache[t], e)
  BY <1>1 DEF Route, Parts, CacheT
<1>a. /\ \A x : In(x, Append(cache[e.topic], e)) <=> In(x, cache[e.topic]) \/ x = e
      /\ Distinct(cache[e.topic]) /\ ~In(e, cache[e.topic])
           => Distinct(Append(cache[e.topic], e))
  BY <1>1, AppendOnce
<1>4. \A t \in Topics, x \in Events : In(x, cache'[t]) =>
         In(x, cache[t]) \/ (x = e /\ t = e.topic /\ todo'[e] = {})
  <2> SUFFICES ASSUME NEW t \in Topics, NEW x \in Events, In(x, cache'[t]), ~In(x, cache[t])
               PROVE  x = e /\ t = e.topic /\ todo'[e] = {}
    OBVIOUS
  <2>1. t = e.topic /\ OpenSubs(e.topic) = {} /\ cache'[t] = Append(cache[e.topic], e)
    BY <1>3
  <2> QED
    BY <1>2, <1>a, <2>1
<1>5. ASSUME NEW t \in Topics PROVE Distinct(cache'[t])
  <2>1. CASE cache'[t] = cache[t]
    BY <2>1 DEF OnceInv
  <2>2. CASE t = e.topic /\ cache'[t] = Append(cache[e.topic], e)
    <3>1. Distinct(cache[e.topic]) /\ ~In(e, cache[e.topic])
      BY <1>1 DEF OnceInv
    <3> QED
      BY <1>a, <2>2, <3>1
  <2> QED
    BY <1>3, <2>1, <2>2
<1>6. \A x \in Events : x \notin published' =>
          /\ todo'[x] = {} /\ \A t \in Topics : ~In(x, cache'[t])
          /\ \A s \in Subs : ~In(x, stream'[s])
  BY <1>2, <1>4 DEF OnceInv
<1>7. \A x \in Events, s \in Subs : s \in todo'[x] => ~In(x, stream'[s]) /\ state'[s] # "absent"
  BY <1>2 DEF OnceInv
<1>8. \A t \in Topics, x \in Events : In(x, cache'[t]) =>
          x.topic = t /\ todo'[x] = {} /\ \A s \in Subs : ~In(x, stream'[s])
  <2> SUFFICES ASSUME NEW t \in Topics, NEW x \in Events, In(x, cache'[t])
               PROVE  x.topic = t /\ todo'[x] = {} /\ \A s \in Subs : ~In(x, stream'[s])
    OBVIOUS
  <2>1. CASE x = e /\ t = e.topic /\ todo'[e] = {}
    BY <2>1 DEF OnceInv
  <2>2. CASE In(x, cache[t])
    <3>1. x # e
      BY <2>2 DEF OnceInv
    <3> QED
      BY <1>2, <2>2, <3>1 DEF OnceInv
  <2> QED
    BY <1>4, <2>1, <2>2
<1> QED
  BY <1>5, <1>6, <1>7, <1>8 DEF OnceInv

LEMMA OnceEnqueue ==
    ASSUME Parts, OnceInv, NEW e \in Events, NEW s \in Subs, Enqueue(e, s)
    PROVE  OnceInv'
<1>0. s \in todo[e] /\ UNCHANGED <<state, cache, published>>
  BY DEF Enqueue
<1>1. /\ \A x \in Events : x # e => todo'[x] = todo[x]
      /\ todo'[e] \subseteq todo[e]
  BY DEF Enqueue, Parts, PubT
<1>2. CASE UNCHANGED stream
  BY <1>0, <1>1, <1>2 DEF OnceInv
<1>3. CASE stream' = [stream EXCEPT ![s] = Append(@, e)] /\ todo' = [todo EXCEPT ![e] = @ \ {s}]
  <2>1. /\ stream[s] \in Seq(Events) /\ stream'[s] = Append(stream[s], e)
        /\ \A r \in Subs : r # s => stream'[r] = stream[r]
        /\ s \notin todo'[e]
    BY <1>3 DEF Parts, FlowT, PubT
  <2>a. /\ \A x : In(x, stream'[s]) <=> In(x, stream[s]) \/ x = e
        /\ Distinct(stream[s]) /\ ~In(e, stream[s]) => Distinct(stream'[s])
    BY <2>1, AppendOnce
  <2>2. \A x \in Events, r \in Subs : In(x, stream'[r]) => In(x, stream[r]) \/ (x = e /\ r = s)
    BY <2>1, <2>a
  <2>b. Distinct(stream[s]) /\ ~In(e, stream[s]) /\ state[s] # "absent"
    BY <1>0 DEF OnceInv
  <2>3. ASSUME NEW r \in Subs
        PROVE  Distinct(stream'[r]) /\ (state'[r] = "absent" => stream'[r] = <<>>)
    <3>1. CASE r = s
      BY <1>0, <2>a, <2>b, <3>1
    <3>2. CASE r # s
      BY <1>0, <2>1, <3>2 DEF OnceInv
    <3> QED
      BY <3>1, <3>2
  <2>4. \A x \in Events, r \in Subs : r \in todo'[x] => ~In(x, stream'[r]) /\ state'[r] # "absent"
    BY <1>0, <1>1, <2>1, <2>2 DEF OnceInv
  <2>5. e \in published /\ \A t \in Topics : ~In(e, cache[t])
    BY <1>0 DEF OnceInv
  <2>6. \A x \in Events : x \notin published' =>
            /\ todo'[x] = {} /\ \A t \in Topics : ~In(x, cache'[t])
            /\ \A r \in Subs : ~In(x, stream'[r])
    BY <1>0, <1>1, <2>2, <2>5 DEF OnceInv
  <2>7. \A t \in Topics, x \in Events : In(x, cache'[t]) =>
            x.topic = t /\ todo'[x] = {} /\ \A r \in Subs : ~In(x, stream'[r])
    BY <1>0, <1>1, <2>2, <2>5 DEF OnceInv
  <2> QED
    BY <1>0, <2>3, <2>4, <2>6, <2>7 DEF OnceInv
<1> QED
  BY <1>2, <1>3 DEF Enqueue

\* What ReadSubscribe replays.
LEMMA Replay ==
    ASSUME Parts, NEW s \in Subs, ReadSubscribe(s)
    PROVE  \E t \in Topics, n \in Nat :
              /\ cache[t] \in Seq(Events) /\ n <= Len(cache[t])
              /\ stream'[s] = SubSeq(cache[t], 1, n) /\ queue'[s] = stream'[s]
              /\ cache'[t] = SubSeq(cache[t], n + 1, Len(cache[t]))
              /\ \A r \in Topics : r # t => cache'[r] = cache[r]
              /\ \A r \in Subs : r # s => stream'[r] = stream[r] /\ queue'[r] = queue[r]
<1> DEFINE t == Head(toServer).topic
           n == IF Len(cache[t]) > QueueSize THEN QueueSize ELSE Len(cache[t])
<1>1. t \in Topics
  BY TakesFromServer, FrameFields DEF ReadSubscribe, Reads, Parts
<1>2. cache[t] \in Seq(Events) /\ Len(cache[t]) \in Nat
  BY <1>1 DEF Parts, CacheT
<1>3. n \in Nat /\ n <= Len(cache[t])
  BY <1>2, Sizes
<1>4. /\ stream' = [stream EXCEPT ![s] = SubSeq(cache[t], 1, n)]
      /\ queue' = [queue EXCEPT ![s] = SubSeq(cache[t], 1, n)]
      /\ cache' = [cache EXCEPT ![t] = SubSeq(cache[t], n + 1, Len(cache[t]))]
  BY DEF ReadSubscribe
<1> HIDE DEF n, t
<1>5. /\ stream'[s] = SubSeq(cache[t], 1, n) /\ queue'[s] = stream'[s]
      /\ cache'[t] = SubSeq(cache[t], n + 1, Len(cache[t]))
      /\ \A r \in Topics : r # t => cache'[r] = cache[r]
      /\ \A r \in Subs : r # s => stream'[r] = stream[r] /\ queue'[r] = queue[r]
  BY <1>1, <1>4 DEF Parts, FlowT, QueueT, CacheT
<1> QED
  BY <1>1, <1>2, <1>3, <1>5

LEMMA OnceSubscribe ==
    ASSUME Parts, OnceInv, NEW s \in Subs, ReadSubscribe(s)
    PROVE  OnceInv'
<1>1. PICK t \in Topics, n \in Nat :
         /\ cache[t] \in Seq(Events) /\ n <= Len(cache[t])
         /\ stream'[s] = SubSeq(cache[t], 1, n) /\ queue'[s] = stream'[s]
         /\ cache'[t] = SubSeq(cache[t], n + 1, Len(cache[t]))
         /\ \A r \in Topics : r # t => cache'[r] = cache[r]
         /\ \A r \in Subs : r # s => stream'[r] = stream[r] /\ queue'[r] = queue[r]
  BY Replay
<1>2. /\ UNCHANGED <<published, todo>> /\ state[s] = "absent" /\ state'[s] = "open"
      /\ \A r \in Subs : r # s => state'[r] = state[r]
  BY DEF ReadSubscribe, Parts, StateT
<1>3. /\ Distinct(stream'[s]) /\ Distinct(cache'[t])
      /\ \A x : In(x, stream'[s]) => In(x, cache[t])
      /\ \A x : In(x, cache'[t]) => In(x, cache[t]) /\ ~In(x, stream'[s])
  BY <1>1, SplitOnce DEF OnceInv
<1>4. \A x \in Events : In(x, stream'[s]) => x \in published /\ todo[x] = {} /\ x.topic = t
  BY <1>3 DEF OnceInv
<1>5. \A r \in Topics, x \in Events : In(x, cache'[r]) => In(x, cache[r]) /\ ~In(x, stream'[s])
  <2> SUFFICES ASSUME NEW r \in Topics, NEW x \in Events, In(x, cache'[r])
               PROVE  In(x, cache[r]) /\ ~In(x, stream'[s])
    OBVIOUS
  <2>1. CASE r = t
    BY <1>3, <2>1
  <2>2. CASE r # t
    <3>1. In(x, cache[r])
      BY <1>1, <2>2
    <3>2. x.topic = r
      BY <3>1 DEF OnceInv
    <3> QED
      BY <1>4, <2>2, <3>1, <3>2
  <2> QED
    BY <2>1, <2>2
<1>6. \A r \in Topics : Distinct(cache'[r])
  BY <1>1, <1>3 DEF OnceInv
<1>7. \A r \in Subs : Distinct(stream'[r]) /\ (state'[r] = "absent" => stream'[r] = <<>>)
  BY <1>1, <1>2, <1>3 DEF OnceInv
<1>8. \A x \in Events : x \notin published' =>
          /\ todo'[x] = {} /\ \A r \in Topics : ~In(x, cache'[r])
          /\ \A r \in Subs : ~In(x, stream'[r])
  BY <1>1, <1>2, <1>4, <1>5 DEF OnceInv
<1>9. ASSUME NEW x \in Events, NEW r \in Subs, r \in todo'[x]
      PROVE  ~In(x, stream'[r]) /\ state'[r] # "absent"
  <2>1. r \in todo[x] /\ ~In(x, stream[r]) /\ state[r] # "absent"
    BY <1>2, <1>9 DEF OnceInv
  <2>2. r # s
    BY <1>2, <2>1
  <2>3. stream'[r] = stream[r] /\ state'[r] = state[r]
    BY <1>1, <1>2, <2>2
  <2> QED
    BY <2>1, <2>3
<1>10. \A r \in Topics, x \in Events : In(x, cache'[r]) =>
          x.topic = r /\ todo'[x] = {} /\ \A q \in Subs : ~In(x, stream'[q])
  BY <1>1, <1>2, <1>5 DEF OnceInv
<1> QED
  BY <1>6, <1>7, <1>8, <1>9, <1>10 DEF OnceInv

\* Which steps touch the queues, the caches and the states of subscriptions.
LEMMA QueueMoves ==
    ASSUME [Next]_vars
    PROVE  \/ \E e \in Events : PublishElsewhere(e)
           \/ \E e \in Events, s \in Subs : Enqueue(e, s)
           \/ \E s \in Subs : ReadSubscribe(s)
           \/ ReadPublish
           \/ /\ UNCHANGED <<published, todo, cache, stream>>
              /\ \/ UNCHANGED state
                 \/ \E S : CloseSubs(S)
<1>1. CASE ServerStep
  BY <1>1 DEF ServerStep, InstallSubscription, ReadUnsubscribe, ReadAck, Acknowledged,
              PublishDone, ReadFails, brokerVars
<1>2. ASSUME NEW s \in Subs, DeliveryStep(s) \/ AckTimeout(s)
      PROVE  UNCHANGED <<published, todo, cache, stream, state>>
  BY <1>2 DEF DeliveryStep, Deliver, RangeEnds, DeliverSend, DeliverAcknowledged,
              DeliverReturn, AckTimeout, brokerVars
<1>3. ASSUME LoopStep \/ AppStep
      PROVE  UNCHANGED <<published, todo, cache, stream, state>>
  BY <1>3, LoopFrame, AppFrame DEF brokerVars
<1>4. ASSUME Close \/ (\E e \in Events : Publish(e))
                \/ (\E t \in Topics : Subscribe(t) \/ Unsubscribe(t))
      PROVE  UNCHANGED <<published, todo, cache, stream, state>>
  BY <1>4 DEF Close, Publish, Subscribe, Unsubscribe, brokerVars
<1>5. CASE UNCHANGED vars
  BY <1>5 DEF vars, brokerVars
<1> QED
  BY <1>1, <1>2, <1>3, <1>4, <1>5 DEF Next

LEMMA OnceStep == Parts /\ FrameInv /\ OnceInv /\ [Next]_vars => OnceInv'
<1> SUFFICES ASSUME Parts, FrameInv, OnceInv, [Next]_vars PROVE OnceInv'
  OBVIOUS
<1>1. ASSUME NEW e \in Events, PublishElsewhere(e)
      PROVE  OnceInv'
  BY <1>1, OnceRoute DEF PublishElsewhere
<1>2. CASE ReadPublish
  <2>1. /\ toServer # <<>> /\ Head(toServer).type = "PUBLISH" /\ Route(Head(toServer).event)
        /\ UNCHANGED <<state, stream>>
    BY <1>2 DEF ReadPublish, Reads
  <2>2. Head(toServer).event \in Events
    <3>1. toServer' = Tail(toServer)
      BY <1>2 DEF ReadPublish, Reads
    <3> QED
      BY <2>1, <3>1, TakesFromServer, FrameFields DEF Parts
  <2>3. Head(toServer) = toServer[1] /\ 1 \in 1 .. Len(toServer)
    BY <2>1 DEF Parts, SendT
  <2>4. Head(toServer).event \notin published
    BY <2>1, <2>3 DEF FrameInv
  <2> QED
    BY <2>1, <2>2, <2>4, OnceRoute
<1>3. ASSUME UNCHANGED <<published, todo, cache, stream>>,
             UNCHANGED state \/ \E S : CloseSubs(S)
      PROVE  OnceInv'
  <2>1. \A s \in Subs : state'[s] = state[s] \/ state'[s] = "closed"
    BY <1>3 DEF CloseSubs
  <2> QED
    BY <1>3, <2>1, OnceKept
<1> QED
  BY <1>1, <1>2, <1>3, OnceEnqueue, OnceSubscribe, QueueMoves

-----------------------------------------------------------------------------
(* What a goroutine has taken from its queue, and what it left behind *)

\* The queue is the rest of the stream, from the event after the one that the
\* goroutine took last.
Taken(s) ==
    /\ serial[s] + Len(queue[s]) = Len(stream[s])
    /\ \A i \in 1 .. Len(queue[s]) : queue[s][i] = stream[s][serial[s] + i]
    /\ serial[s] > 0 => event[s] = stream[s][serial[s]]
    /\ pc[s] = "absent" => serial[s] = 0
    /\ Delivering(s) => serial[s] > 0

TakenInv == \A s \in Subs : Taken(s)

\* A goroutine moves on only when the event it took is acknowledged.
Passed(s) ==
    /\ Delivering(s) => \A k \in 1 .. serial[s] - 1 : stream[s][k].id \in confirmed
    /\ pc[s] \in {"range", "true"} => \A k \in 1 .. serial[s] : stream[s][k].id \in confirmed

PassedInv == \A s \in Subs : Passed(s)

LEMMA TakenInit == Init => TakenInv /\ PassedInv
<1> SUFFICES ASSUME Init PROVE TakenInv /\ PassedInv
  OBVIOUS
<1>1. \A s \in Subs : /\ serial[s] = 0 /\ queue[s] = <<>> /\ stream[s] = <<>>
                      /\ pc[s] = "absent"
  BY DEF Init
<1> QED
  BY <1>1 DEF TakenInv, Taken, PassedInv, Passed, Delivering

\* Where a step takes the goroutine of s.
LEMMA GoMoves ==
    ASSUME Parts, FreshInv, [Next]_vars, NEW s \in Subs
    PROVE  \/ Deliver(s)
           \/ /\ serial'[s] = serial[s] /\ event'[s] = event[s]
              /\ \/ DeliverAcknowledged(s)
                 \/ pc[s] = "absent" /\ pc'[s] = "range"
                 \/ /\ Delivering(s)' => Delivering(s)
                    /\ pc'[s] \in {"range", "true"} => pc[s] \in {"range", "true"}
                    /\ pc'[s] = "absent" => pc[s] = "absent"
<1>k. ASSUME UNCHANGED <<serial, event, pc>>
      PROVE  /\ serial'[s] = serial[s] /\ event'[s] = event[s]
             /\ Delivering(s)' => Delivering(s)
             /\ pc'[s] \in {"range", "true"} => pc[s] \in {"range", "true"}
             /\ pc'[s] = "absent" => pc[s] = "absent"
  BY <1>k DEF Delivering
<1>1. CASE ServerStep
  <2>1. CASE InstallSubscription
    <3>1. /\ reader.sub \in Subs /\ pc[reader.sub] = "absent"
          /\ pc' = [pc EXCEPT ![reader.sub] = "range"] /\ UNCHANGED <<serial, event>>
      BY <2>1 DEF InstallSubscription, FreshInv, Parts, ReadT
    <3>2. CASE s = reader.sub
      BY <3>1, <3>2 DEF Parts, PcT
    <3>3. CASE s # reader.sub
      <4>1. pc'[s] = pc[s] /\ serial'[s] = serial[s] /\ event'[s] = event[s]
        BY <3>1, <3>3 DEF Parts, PcT
      <4> QED
        BY <4>1 DEF Delivering
    <3> QED
      BY <3>2, <3>3
  <2>2. ASSUME ~InstallSubscription PROVE UNCHANGED <<serial, event, pc>>
    BY <1>1, <2>2 DEF ServerStep, ReadSubscribe, ReadUnsubscribe, ReadAck, Acknowledged,
                      ReadPublish, PublishDone, ReadFails, deliveryVars
  <2> QED
    BY <2>1, <2>2, <1>k
<1>2. ASSUME NEW r \in Subs, r # s, DeliveryStep(r) \/ AckTimeout(r)
      PROVE  pc'[s] = pc[s] /\ serial'[s] = serial[s] /\ event'[s] = event[s]
  BY <1>2 DEF Parts, PcT, EventT, DeliveryStep, Deliver, RangeEnds, DeliverSend,
              DeliverAcknowledged, DeliverReturn, AckTimeout, Goes
<1>3. ASSUME DeliveryStep(s) \/ AckTimeout(s), ~Deliver(s), ~DeliverAcknowledged(s)
      PROVE  /\ serial'[s] = serial[s] /\ event'[s] = event[s]
             /\ Delivering(s)' => Delivering(s)
             /\ pc'[s] \in {"range", "true"} => pc[s] \in {"range", "true"}
             /\ pc'[s] = "absent" => pc[s] = "absent"
  <2>1. UNCHANGED <<serial, event>>
    BY <1>3 DEF DeliveryStep, RangeEnds, DeliverSend, DeliverReturn, AckTimeout
  <2>2. \/ pc'[s] \in {"select", "false", "send"} /\ pc[s] \in {"send", "select"}
        \/ pc'[s] = "returned"
        \/ pc'[s] = "range" /\ pc[s] = "true"
    BY <1>3 DEF DeliveryStep, RangeEnds, DeliverSend, DeliverReturn, AckTimeout, Goes, GoesOn,
                Parts, PcT
  <2> QED
    BY <2>1, <2>2 DEF Delivering
<1>4. ASSUME DeliverAcknowledged(s)
      PROVE  serial'[s] = serial[s] /\ event'[s] = event[s]
  BY <1>4 DEF DeliverAcknowledged
<1>5. ASSUME LoopStep \/ AppStep \/ Call \/ UNCHANGED vars
      PROVE  UNCHANGED <<serial, event, pc>>
  BY <1>5, LoopFrame, AppFrame, CallFrame DEF deliveryVars, vars
<1>6. ASSUME NEW r \in Subs, r # s, DeliveryStep(r) \/ AckTimeout(r)
      PROVE  /\ Delivering(s)' => Delivering(s)
             /\ pc'[s] \in {"range", "true"} => pc[s] \in {"range", "true"}
             /\ pc'[s] = "absent" => pc[s] = "absent"
  BY <1>6, <1>2 DEF Delivering
<1> QED
  BY <1>k, <1>1, <1>2, <1>3, <1>4, <1>5, <1>6 DEF Next, Call

\* What a step does to the queue and to the stream of s.
LEMMA FlowMoves ==
    ASSUME Parts, [Next]_vars, NEW s \in Subs
    PROVE  \/ Deliver(s)
           \/ ReadSubscribe(s)
           \/ \E e \in Events : /\ queue'[s] = Append(queue[s], e)
                                /\ stream'[s] = Append(stream[s], e)
                                /\ Enqueue(e, s)
           \/ queue'[s] = queue[s] /\ stream'[s] = stream[s]
<1>1. CASE ServerStep
  <2>1. ASSUME NEW r \in Subs, r # s, ReadSubscribe(r)
        PROVE  queue'[s] = queue[s] /\ stream'[s] = stream[s]
    BY <2>1, Replay
  <2>2. CASE ~\E r \in Subs : ReadSubscribe(r)
    BY <1>1, <2>2 DEF ServerStep, InstallSubscription, ReadUnsubscribe, ReadAck, Acknowledged,
                      ReadPublish, PublishDone, ReadFails, brokerVars
  <2> QED
    BY <2>1, <2>2
<1>2. ASSUME NEW r \in Subs, DeliveryStep(r) \/ AckTimeout(r), ~Deliver(s)
      PROVE  queue'[s] = queue[s] /\ stream'[s] = stream[s]
  <2>1. CASE Deliver(r)
    BY <1>2, <2>1 DEF Deliver, Parts, QueueT
  <2>2. CASE ~Deliver(r)
    BY <1>2, <2>2 DEF DeliveryStep, RangeEnds, DeliverSend, DeliverAcknowledged, DeliverReturn,
                      AckTimeout, brokerVars
  <2> QED
    BY <2>1, <2>2
<1>3. CASE LoopStep \/ AppStep \/ UNCHANGED vars
  BY <1>3, LoopFrame, AppFrame DEF brokerVars, vars
<1>4. ASSUME NEW e \in Events, NEW r \in Subs, Enqueue(e, r)
      PROVE  \/ \E x \in Events : /\ queue'[s] = Append(queue[s], x)
                                  /\ stream'[s] = Append(stream[s], x)
                                  /\ Enqueue(x, s)
             \/ queue'[s] = queue[s] /\ stream'[s] = stream[s]
  <2>1. \/ UNCHANGED <<queue, stream>>
        \/ /\ queue' = [queue EXCEPT ![r] = Append(@, e)]
           /\ stream' = [stream EXCEPT ![r] = Append(@, e)]
    BY <1>4 DEF Enqueue
  <2>2. CASE r = s
    <3>1. \/ queue'[s] = queue[s] /\ stream'[s] = stream[s]
          \/ queue'[s] = Append(queue[s], e) /\ stream'[s] = Append(stream[s], e)
      BY <2>1, <2>2 DEF Parts, QueueT, FlowT
    <3> QED
      BY <1>4, <2>2, <3>1
  <2>3. CASE r # s
    BY <2>1, <2>3 DEF Parts, QueueT, FlowT
  <2> QED
    BY <2>2, <2>3
<1>5. ASSUME Call, ~\E e \in Events, r \in Subs : Enqueue(e, r)
      PROVE  queue'[s] = queue[s] /\ stream'[s] = stream[s]
  BY <1>5 DEF Call, PublishElsewhere, Publish, Subscribe, Unsubscribe, Close, brokerVars
<1> QED
  BY <1>1, <1>2, <1>3, <1>4, <1>5 DEF Next, Call

LEMMA TakenStep == Parts /\ FreshInv /\ TakenInv /\ [Next]_vars => TakenInv'
<1> SUFFICES ASSUME Parts, FreshInv, TakenInv, [Next]_vars, NEW s \in Subs PROVE Taken(s)'
  BY DEF TakenInv
<1>1. Taken(s)
  BY DEF TakenInv
<1>2. /\ queue[s] \in Seq(Events) /\ stream[s] \in Seq(Events) /\ serial[s] \in Nat
      /\ Len(queue[s]) \in Nat /\ Len(stream[s]) \in Nat
  BY DEF Parts, QueueT, FlowT, EventT
<1>n. serial[s] + Len(queue[s]) = Len(stream[s])
  BY <1>1 DEF Taken
<1>3. CASE Deliver(s)
  <2>1. /\ event'[s] = Head(queue[s]) /\ queue'[s] = Tail(queue[s]) /\ queue[s] # <<>>
        /\ serial'[s] = serial[s] + 1 /\ pc'[s] = "send" /\ stream'[s] = stream[s]
    BY <1>3 DEF Deliver, Goes, Parts, QueueT, EventT, PcT
  <2>2. /\ Len(queue[s]) > 0 /\ Len(queue'[s]) = Len(queue[s]) - 1
        /\ \A i \in 1 .. Len(queue'[s]) : queue'[s][i] = queue[s][i + 1]
        /\ event'[s] = queue[s][1]
    BY <1>2, <2>1
  <2>3. event'[s] = stream'[s][serial'[s]]
    <3>1. 1 \in 1 .. Len(queue[s])
      BY <1>2, <2>2
    <3>2. queue[s][1] = stream[s][serial[s] + 1]
      BY <1>1, <3>1 DEF Taken
    <3> QED
      BY <2>1, <2>2, <3>2
  <2>n. Len(queue'[s]) = Len(queue[s]) - 1
    BY <2>2
  <2>4. \A i \in 1 .. Len(queue'[s]) : queue'[s][i] = stream'[s][serial'[s] + i]
    <3> SUFFICES ASSUME NEW i \in 1 .. Len(queue'[s])
                 PROVE  queue'[s][i] = stream'[s][serial'[s] + i]
      OBVIOUS
    <3>1. i + 1 \in 1 .. Len(queue[s]) /\ serial[s] + (i + 1) = (serial[s] + 1) + i
      BY <1>2, <2>n
    <3>2. queue[s][i + 1] = stream[s][serial[s] + (i + 1)]
      BY <1>1, <3>1 DEF Taken
    <3> QED
      BY <2>1, <2>2, <3>1, <3>2
  <2>5. serial'[s] + Len(queue'[s]) = Len(stream'[s]) /\ serial'[s] > 0
    BY <1>2, <1>n, <2>1, <2>n
  <2> QED
    BY <2>1, <2>3, <2>4, <2>5 DEF Taken
<1>4. CASE ~Deliver(s)
  <2>1. /\ serial'[s] = serial[s] /\ event'[s] = event[s]
        /\ pc'[s] = "absent" => pc[s] = "absent"
        /\ Delivering(s)' => Delivering(s)
    <3>1. ASSUME DeliverAcknowledged(s)
          PROVE  /\ pc'[s] = "true" /\ Delivering(s)
      BY <3>1 DEF DeliverAcknowledged, Delivering, Goes, Parts, PcT
    <3>2. ASSUME pc'[s] = "range"
          PROVE  ~Delivering(s)' /\ pc'[s] # "absent"
      BY <3>2 DEF Delivering
    <3> QED
      BY <1>4, <3>1, <3>2, GoMoves
  <2>2. CASE ReadSubscribe(s)
    <3>1. queue'[s] = stream'[s] /\ stream'[s] \in Seq(Events)
      <4>1. Parts'
        BY TypeStep
      <4> QED
        BY <2>2, <4>1, Replay DEF Parts, FlowT
    <3>2. pc[s] = "absent"
      BY <2>2 DEF ReadSubscribe, FreshInv
    <3>3. serial'[s] = 0
      BY <1>1, <2>1, <3>2 DEF Taken
    <3>4. pc' = pc
      BY <2>2 DEF ReadSubscribe, deliveryVars
    <3>5. Len(stream'[s]) \in Nat
      BY <3>1
    <3> QED
      BY <3>1, <3>2, <3>3, <3>4, <3>5 DEF Taken, Delivering
  <2>3. ASSUME NEW e \in Events, queue'[s] = Append(queue[s], e),
               stream'[s] = Append(stream[s], e)
        PROVE  Taken(s)'
    <3>1. /\ Len(queue'[s]) = Len(queue[s]) + 1 /\ Len(stream'[s]) = Len(stream[s]) + 1
          /\ \A i \in 1 .. Len(queue[s]) : queue'[s][i] = queue[s][i]
          /\ \A i \in 1 .. Len(stream[s]) : stream'[s][i] = stream[s][i]
          /\ queue'[s][Len(queue[s]) + 1] = e /\ stream'[s][Len(stream[s]) + 1] = e
      BY <1>2, <2>3
    <3>n. Len(queue'[s]) = Len(queue[s]) + 1 /\ Len(stream'[s]) = Len(stream[s]) + 1
      BY <3>1
    <3>m. \A a, b, c \in Nat : a + b = c => a + (b + 1) = c + 1
      OBVIOUS
    <3>2. serial'[s] + Len(queue'[s]) = Len(stream'[s])
      BY <1>2, <1>n, <2>1, <3>n, <3>m
    <3>3. ASSUME NEW i \in 1 .. Len(queue'[s])
          PROVE  queue'[s][i] = stream'[s][serial'[s] + i]
      <4>1. CASE i = Len(queue[s]) + 1
        <5>1. serial'[s] + i = Len(stream[s]) + 1
          BY <1>2, <1>n, <2>1, <4>1
        <5> QED
          BY <3>1, <4>1, <5>1
      <4>2. CASE i # Len(queue[s]) + 1
        <5>1. i \in 1 .. Len(queue[s])
          BY <1>2, <3>1, <4>2
        <5>2. serial[s] + i \in 1 .. Len(stream[s])
          BY <1>1, <1>2, <5>1 DEF Taken
        <5>3. queue[s][i] = stream[s][serial[s] + i]
          BY <1>1, <5>1 DEF Taken
        <5> QED
          BY <2>1, <3>1, <5>1, <5>2, <5>3
      <4> QED
        BY <4>1, <4>2
    <3>4. serial[s] > 0 => serial[s] \in 1 .. Len(stream[s])
      BY <1>1, <1>2 DEF Taken
    <3>5. serial'[s] > 0 => event'[s] = stream'[s][serial'[s]]
      BY <1>1, <2>1, <3>1, <3>4 DEF Taken
    <3> QED
      BY <1>1, <2>1, <3>2, <3>3, <3>5 DEF Taken
  <2>4. CASE queue'[s] = queue[s] /\ stream'[s] = stream[s]
    BY <1>1, <2>1, <2>4 DEF Taken
  <2> QED
    BY <1>4, <2>2, <2>3, <2>4, FlowMoves
<1> QED
  BY <1>3, <1>4

\* What a goroutine took stays where it is in the stream.
LEMMA Grows ==
    ASSUME Parts, FreshInv, TakenInv, [Next]_vars, NEW s \in Subs
    PROVE  /\ serial[s] \in Nat /\ serial'[s] \in Nat /\ serial[s] <= serial'[s]
           /\ \A i \in 1 .. serial[s] : stream'[s][i] = stream[s][i]
<1>1. /\ serial[s] \in Nat /\ stream[s] \in Seq(Events)
      /\ Len(queue[s]) \in Nat /\ Len(stream[s]) \in Nat
  BY DEF Parts, QueueT, FlowT, EventT
<1>2. serial'[s] = serial[s] \/ serial'[s] = serial[s] + 1
  BY GoMoves DEF Deliver, Parts, EventT
<1>3. \A i \in 1 .. serial[s] : i \in 1 .. Len(stream[s])
  BY <1>1 DEF TakenInv, Taken
<1>4. ASSUME ReadSubscribe(s) PROVE serial[s] = 0
  BY <1>4 DEF ReadSubscribe, FreshInv, TakenInv, Taken
<1>5. ASSUME Deliver(s) PROVE UNCHANGED stream
  BY <1>5 DEF Deliver
<1>6. \A i \in 1 .. serial[s] : stream'[s][i] = stream[s][i]
  <2>1. CASE ReadSubscribe(s)
    BY <2>1, <1>4
  <2>2. CASE \E e \in Events : stream'[s] = Append(stream[s], e)
    BY <1>1, <1>3, <2>2
  <2>3. CASE stream'[s] = stream[s]
    BY <2>3
  <2> QED
    BY <1>5, <2>1, <2>2, <2>3, FlowMoves
<1> QED
  BY <1>1, <1>2, <1>6

LEMMA PassedStep ==
    Parts /\ FreshInv /\ SureInv /\ TrustInv /\ TakenInv /\ PassedInv /\ [Next]_vars => PassedInv'
<1> SUFFICES ASSUME Parts, FreshInv, SureInv, TrustInv, TakenInv, PassedInv, [Next]_vars,
                    NEW s \in Subs
             PROVE  Passed(s)'
  BY DEF PassedInv
<1>1. Taken(s) /\ Passed(s)
  BY DEF TakenInv, PassedInv
<1>2. /\ serial[s] \in Nat /\ serial'[s] \in Nat
      /\ \A i \in 1 .. serial[s] : stream'[s][i] = stream[s][i]
  BY Grows
<1>3. confirmed \subseteq confirmed'
  BY SureStep
<1>4. CASE Deliver(s)
  <2>1. pc[s] = "range" /\ serial'[s] - 1 = serial[s] /\ pc'[s] = "send"
    BY <1>2, <1>4 DEF Deliver, Goes, Parts, EventT, PcT
  <2>2. \A k \in 1 .. serial[s] : stream[s][k].id \in confirmed
    BY <1>1, <2>1 DEF Passed
  <2> QED
    BY <1>2, <1>3, <2>1, <2>2 DEF Passed
<1>5. CASE DeliverAcknowledged(s) /\ serial'[s] = serial[s]
  <2>1. pc[s] = "select" /\ acknowledged[s] /\ pc'[s] = "true"
    BY <1>5 DEF DeliverAcknowledged, Goes, Parts, PcT
  <2>2. event[s].id \in confirmed
    BY <2>1 DEF TrustInv
  <2>3. Delivering(s)
    BY <2>1 DEF Delivering
  <2>4. event[s] = stream[s][serial[s]]
    BY <1>1, <2>3 DEF Taken
  <2>5. \A k \in 1 .. serial[s] - 1 : stream[s][k].id \in confirmed
    BY <1>1, <2>3 DEF Passed
  <2>6. \A k \in 1 .. serial[s] : stream[s][k].id \in confirmed
    <3>1. \A k \in 1 .. serial[s] : k \in 1 .. serial[s] - 1 \/ k = serial[s]
      BY <1>2
    <3> QED
      BY <2>2, <2>4, <2>5, <3>1
  <2>7. \A k \in 1 .. serial[s] - 1 : k \in 1 .. serial[s]
    BY <1>2
  <2> QED
    BY <1>2, <1>3, <1>5, <2>6, <2>7 DEF Passed
<1>6. CASE pc[s] = "absent" /\ pc'[s] = "range" /\ serial'[s] = serial[s]
  <2>1. serial'[s] = 0
    BY <1>1, <1>6 DEF Taken
  <2> QED
    BY <2>1 DEF Passed
<1>7. ASSUME serial'[s] = serial[s], Delivering(s)' => Delivering(s),
             pc'[s] \in {"range", "true"} => pc[s] \in {"range", "true"}
      PROVE  Passed(s)'
  <2>1. \A k \in 1 .. serial[s] - 1 : k \in 1 .. serial[s]
    BY <1>2
  <2> QED
    BY <1>1, <1>2, <1>3, <1>7, <2>1 DEF Passed
<1> QED
  BY <1>4, <1>5, <1>6, <1>7, GoMoves

\* The position of an event that has been taken.
LEMMA PlaceOf ==
    ASSUME Parts, OnceInv, NEW s \in Subs, NEW i \in 1 .. Len(stream[s]), NEW e,
           stream[s][i] = e
    PROVE  Position(s, e) = i
<1>1. \A j \in 1 .. Len(stream[s]) : stream[s][j] = e => j = i
  BY DEF OnceInv, Distinct
<1> QED
  BY <1>1 DEF Position

\* The invariant that the theorems below rest on.
Core ==
    /\ Parts /\ FreshInv /\ PendingAckLive /\ SureInv /\ ClaimInv /\ TrustInv
    /\ FrameInv /\ OnceInv /\ TakenInv /\ PassedInv

LEMMA CoreInit == Init => Core
BY TypeInit, FreshInit, PendingInit, SureInit, FrameInit, OnceInit, TakenInit DEF Core

LEMMA CoreStep == Core /\ [Next]_vars => Core'
BY TypeStep, FreshStep, PendingStep, SureStep, ClaimStep, TrustStep, FrameStep, OnceStep,
   TakenStep, PassedStep DEF Core

\* No event of a subscription is passed over: whatever the number of topics,
\* events, subscriptions, retries and timeouts, an event is delivered only
\* after the application acknowledged everything that was queued before it.
THEOREM PredecessorsAcknowledgedHolds == Spec => []PredecessorsAcknowledged
<1>1. ASSUME Core PROVE PredecessorsAcknowledged
  <2> SUFFICES ASSUME NEW s \in Subs, Delivering(s),
                      NEW k \in 1 .. Position(s, event[s]) - 1
               PROVE  stream[s][k].id \in confirmed
    BY DEF PredecessorsAcknowledged
  <2>1. Taken(s) /\ Passed(s)
    BY <1>1 DEF Core, TakenInv, PassedInv
  <2>2. serial[s] \in Nat /\ Len(queue[s]) \in Nat /\ Len(stream[s]) \in Nat
    BY <1>1 DEF Core, Parts, QueueT, FlowT, EventT
  <2>3. serial[s] \in 1 .. Len(stream[s]) /\ stream[s][serial[s]] = event[s]
    BY <2>1, <2>2 DEF Taken
  <2>4. Position(s, event[s]) = serial[s]
    BY <1>1, <2>3, PlaceOf DEF Core
  <2> QED
    BY <2>1, <2>4 DEF Passed
<1> QED
  BY <1>1, CoreInit, CoreStep, PTL DEF Spec

-----------------------------------------------------------------------------
(* The order in which the application receives events *)

\* Copies of events on their way to the application, as pairs <<s, e>>:
\* received, in Client.events, in the hands of readLoop, and on the wire.
Pairs == Subs \X Events
Got   == {<<received[i].sub, received[i].event>> : i \in 1 .. Len(received)}
Held  == {<<events[i].sub, events[i].event>> : i \in 1 .. Len(events)}
Hand  == {p \in Pairs : loop.at = "push" /\ p = <<loop.sub, loop.event>>}
Sent  == {p \in Pairs : \E i \in 1 .. Len(toClient) :
             toClient[i].type = "EVENT" /\ p = <<toClient[i].sub, toClient[i].event>>}

\* The events that goroutines have taken, and where they are in the streams.
Seen  == {p \in Pairs : \E i \in 1 .. serial[p[1]] : stream[p[1]][i] = p[2]}
Place == [p \in Pairs |-> Position(p[1], p[2])]

Precede(A, B) == \A p \in A, q \in B : p[1] = q[1] => Place[p] <= Place[q]

Sorted(q) ==
    \A i, j \in 1 .. Len(q) : i < j /\ q[i].sub = q[j].sub =>
        Place[<<q[i].sub, q[i].event>>] <= Place[<<q[j].sub, q[j].event>>]

SentSorted ==
    \A i, j \in 1 .. Len(toClient) :
        i < j /\ toClient[i].type = "EVENT" /\ toClient[j].type = "EVENT"
          /\ toClient[i].sub = toClient[j].sub =>
            Place[<<toClient[i].sub, toClient[i].event>>]
              <= Place[<<toClient[j].sub, toClient[j].event>>]

\* No copy overtakes another one of a later event of the same subscription.
PipeInv ==
    /\ Got \subseteq Seen /\ Held \subseteq Seen /\ Hand \subseteq Seen /\ Sent \subseteq Seen
    /\ Precede(Got, Held) /\ Precede(Got, Hand) /\ Precede(Got, Sent)
    /\ Precede(Held, Hand) /\ Precede(Held, Sent) /\ Precede(Hand, Sent)
    /\ Sorted(received) /\ Sorted(events) /\ SentSorted

LEMMA PipeInit == Init => PipeInv
<1> SUFFICES ASSUME Init PROVE PipeInv
  OBVIOUS
<1>1. received = <<>> /\ events = <<>> /\ toClient = <<>> /\ loop.at = "read"
  BY DEF Init, At
<1>2. Got = {} /\ Held = {} /\ Hand = {} /\ Sent = {}
  BY <1>1 DEF Got, Held, Hand, Sent
<1> QED
  BY <1>1, <1>2 DEF PipeInv, Precede, Sorted, SentSorted

\* The position of an element of a sequence without duplicates.
LEMMA PlaceIn ==
    ASSUME NEW q, Distinct(q), NEW i \in 1 .. Len(q)
    PROVE  (CHOOSE j \in 1 .. Len(q) : q[j] = q[i]) = i
<1>1. \A j \in 1 .. Len(q) : q[j] = q[i] => j = i
  BY DEF Distinct
<1> QED
  BY <1>1

\* What has been taken is taken for good, and keeps its position.
LEMMA SeenStays ==
    ASSUME Core, [Next]_vars
    PROVE  /\ Seen \subseteq Seen'
           /\ \A p \in Seen : p \in Pairs /\ Place[p] \in Nat /\ Place'[p] = Place[p]
<1> SUFFICES ASSUME NEW p \in Seen
             PROVE  p \in Seen' /\ p \in Pairs /\ Place[p] \in Nat /\ Place'[p] = Place[p]
  OBVIOUS
<1>1. PICK s \in Subs, e \in Events : p = <<s, e>>
  BY DEF Seen, Pairs
<1>2. PICK i \in 1 .. serial[s] : stream[s][i] = e
  BY <1>1 DEF Seen
<1>3. /\ serial[s] \in Nat /\ serial'[s] \in Nat /\ serial[s] <= serial'[s]
      /\ stream'[s][i] = e
  BY <1>2, Grows DEF Core
<1>4. Core'
  BY CoreStep
<1>5. /\ Len(queue[s]) \in Nat /\ Len(stream[s]) \in Nat
      /\ Len(queue'[s]) \in Nat /\ Len(stream'[s]) \in Nat
  BY <1>4 DEF Core, Parts, QueueT, FlowT
<1>6. serial[s] + Len(queue[s]) = Len(stream[s]) /\ serial'[s] + Len(queue'[s]) = Len(stream'[s])
  BY <1>4 DEF Core, TakenInv, Taken
<1>7. i \in 1 .. serial'[s] /\ i \in 1 .. Len(stream[s]) /\ i \in 1 .. Len(stream'[s])
  BY <1>3, <1>5, <1>6
<1>8. Distinct(stream[s]) /\ Distinct(stream'[s])
  BY <1>4 DEF Core, OnceInv
<1>9. /\ (CHOOSE j \in 1 .. Len(stream[s]) : stream[s][j] = e) = i
      /\ (CHOOSE j \in 1 .. Len(stream'[s]) : stream'[s][j] = e) = i
  BY <1>2, <1>3, <1>7, <1>8, PlaceIn
<1>10. p \in Pairs /\ p[1] = s /\ p[2] = e
  BY <1>1 DEF Pairs
<1>11. Place[p] = i /\ Place'[p] = i
  BY <1>9, <1>10 DEF Place, Position
<1>12. p \in Seen'
  BY <1>3, <1>7, <1>10 DEF Seen
<1> QED
  BY <1>7, <1>10, <1>11, <1>12

\* The event that a goroutine delivers is the last one that it took.
LEMMA LastTaken ==
    ASSUME Core, NEW s \in Subs, Delivering(s)
    PROVE  /\ <<s, event[s]>> \in Seen
           /\ \A p \in Seen : p[1] = s => Place[p] <= Place[<<s, event[s]>>]
<1>1. /\ serial[s] \in Nat /\ Len(queue[s]) \in Nat /\ Len(stream[s]) \in Nat
      /\ event[s] \in Events
  BY DEF Core, Parts, QueueT, FlowT, EventT
<1>2. /\ serial[s] + Len(queue[s]) = Len(stream[s]) /\ serial[s] > 0
      /\ event[s] = stream[s][serial[s]]
  BY DEF Core, TakenInv, Taken
<1>3. /\ \A i \in 1 .. serial[s] : i \in 1 .. Len(stream[s])
      /\ serial[s] \in 1 .. serial[s]
  BY <1>1, <1>2
<1>4. Distinct(stream[s])
  BY DEF Core, OnceInv
<1>5. \A i \in 1 .. serial[s] : (CHOOSE j \in 1 .. Len(stream[s]) : stream[s][j] = stream[s][i]) = i
  BY <1>3, <1>4, PlaceIn
<1>6. <<s, event[s]>> \in Seen
  BY <1>1, <1>2, <1>3 DEF Seen, Pairs
<1>7. Place[<<s, event[s]>>] = serial[s]
  <2>1. <<s, event[s]>> \in Pairs
    BY <1>1 DEF Pairs
  <2>2. Place[<<s, event[s]>>] = Position(s, event[s])
    BY <2>1 DEF Place
  <2> QED
    BY <1>2, <1>3, <1>5, <2>2 DEF Position
<1>8. ASSUME NEW p \in Seen, p[1] = s
      PROVE  Place[p] <= serial[s]
  <2>1. p \in Pairs /\ Place[p] = Position(s, p[2])
    BY <1>8 DEF Place, Seen
  <2>2. PICK i \in 1 .. serial[s] : stream[s][i] = p[2]
    BY <1>8 DEF Seen
  <2>3. Place[p] = i
    BY <1>5, <2>1, <2>2 DEF Position
  <2> QED
    BY <1>1, <2>3
<1> QED
  BY <1>6, <1>7, <1>8

\* The steps that move events towards the application leave the streams alone.
LEMMA PipeMoves ==
    ASSUME [Next]_vars
    PROVE  \/ UNCHANGED <<received, events, loop, toClient>>
           \/ /\ UNCHANGED <<stream, serial>>
              /\ \/ Receive \/ LoopEvent \/ LoopPush \/ LoopPublished \/ PublishDone
                 \/ UNCHANGED <<received, events, toClient>> /\ loop'.at # "push"
                 \/ \E s \in Subs : DeliverSend(s)
<1>1. CASE ServerStep
  BY <1>1 DEF ServerStep, ReadSubscribe, InstallSubscription, ReadUnsubscribe, ReadAck,
              Acknowledged, ReadPublish, PublishDone, ReadFails, wireVars, clientVars, appVars,
              brokerVars, deliveryVars
<1>2. ASSUME NEW s \in Subs, DeliveryStep(s) \/ AckTimeout(s)
      PROVE  \/ UNCHANGED <<received, events, loop, toClient>>
             \/ UNCHANGED <<stream, serial>> /\ DeliverSend(s)
  BY <1>2 DEF DeliveryStep, Deliver, RangeEnds, DeliverSend, DeliverAcknowledged, DeliverReturn,
              AckTimeout, wireVars, clientVars, appVars, brokerVars
<1>3. CASE LoopStep
  <2>1. UNCHANGED <<stream, serial, received>>
    BY <1>3, LoopFrame DEF brokerVars, deliveryVars, appVars
  <2>2. ASSUME LoopAcknowledge \/ LoopRemember \/ LoopStops
        PROVE  UNCHANGED <<received, events, toClient>> /\ loop'.at # "push"
    BY <2>1, <2>2 DEF LoopAcknowledge, LoopRemember, LoopStops, wireVars, clientVars, At, AtEvent
  <2> QED
    BY <1>3, <2>1, <2>2 DEF LoopStep
<1>4. CASE AppStep
  BY <1>4 DEF AppStep, Receive, Acknowledge, Remember, wireVars, clientVars, brokerVars,
              deliveryVars
<1>5. CASE Call
  BY <1>5 DEF Call, PublishElsewhere, Publish, Enqueue, Subscribe, Unsubscribe, Close, wireVars,
              clientVars, appVars
<1>6. CASE UNCHANGED vars
  BY <1>6 DEF vars, wireVars, clientVars, appVars
<1> QED
  BY <1>1, <1>2, <1>3, <1>4, <1>5, <1>6 DEF Next, Call

LEMMA PipeTypes ==
    ASSUME Parts
    PROVE  /\ received \in Seq(Buffered) /\ events \in Seq(Buffered)
           /\ toClient \in Seq(ToClientFrames)
           /\ Len(received) \in Nat /\ Len(events) \in Nat /\ Len(toClient) \in Nat
           /\ loop.at = "push" => loop.sub \in Subs /\ loop.event \in Events
BY DEF Parts, GotT, BuffT, BackT, LoopT

LEMMA PipeKept ==
    ASSUME Core, PipeInv, [Next]_vars, UNCHANGED <<received, events, loop, toClient>>
    PROVE  PipeInv'
<1>1. Got' = Got /\ Held' = Held /\ Hand' = Hand /\ Sent' = Sent
  BY DEF Got, Held, Hand, Sent
<1>2. /\ Seen \subseteq Seen'
      /\ \A p \in Seen : Place'[p] = Place[p]
  BY SeenStays
<1>3. /\ \A i \in 1 .. Len(received) : <<received[i].sub, received[i].event>> \in Got
      /\ \A i \in 1 .. Len(events) : <<events[i].sub, events[i].event>> \in Held
      /\ \A i \in 1 .. Len(toClient) :
             toClient[i].type = "EVENT" => <<toClient[i].sub, toClient[i].event>> \in Sent
  <2>1. \A i \in 1 .. Len(toClient) :
            toClient[i].type = "EVENT" => <<toClient[i].sub, toClient[i].event>> \in Pairs
    BY PipeTypes, FrameFields DEF Core, Pairs
  <2> QED
    BY <2>1 DEF Got, Held, Sent
<1>4. /\ Precede(Got, Held)' /\ Precede(Got, Hand)' /\ Precede(Got, Sent)'
      /\ Precede(Held, Hand)' /\ Precede(Held, Sent)' /\ Precede(Hand, Sent)'
  BY <1>1, <1>2 DEF PipeInv, Precede
<1>5. Sorted(received)' /\ Sorted(events)'
  BY <1>2, <1>3 DEF PipeInv, Sorted
<1>6. SentSorted'
  BY <1>2, <1>3 DEF PipeInv, SentSorted
<1> QED
  BY <1>1, <1>2, <1>4, <1>5, <1>6 DEF PipeInv

LEMMA PlacesStay == ASSUME UNCHANGED <<stream, serial>> PROVE Seen' = Seen /\ Place' = Place
BY DEF Seen, Place, Position

\* The head of Client.events is received.
LEMMA PipeReceive ==
    ASSUME Core, PipeInv, Receive
    PROVE  PipeInv'
<1>1. /\ events # <<>> /\ events' = Tail(events) /\ received' = Append(received, Head(events))
      /\ UNCHANGED <<loop, toClient, stream, serial>>
  BY DEF Receive, wireVars, brokerVars, deliveryVars
<1>2. Seen' = Seen /\ Place' = Place /\ Hand' = Hand /\ Sent' = Sent
  BY <1>1, PlacesStay DEF Hand, Sent
<1>3. Parts
  BY DEF Core
<1> DEFINE n == Len(received) + 1
           h == <<events[1].sub, events[1].event>>
<1>4. /\ Len(received) \in Nat /\ Len(events) \in Nat /\ Len(events) > 0
      /\ Len(received') = n /\ received'[n] = events[1]
      /\ \A i \in 1 .. Len(received) : received'[i] = received[i]
      /\ Len(events') = Len(events) - 1
      /\ \A i \in 1 .. Len(events') : events'[i] = events[i + 1]
  BY <1>1, <1>3, PipeTypes
<1>5. /\ \A i \in 1 .. n : i \in 1 .. Len(received) \/ i = n
      /\ \A i \in 1 .. Len(events') : i + 1 \in 1 .. Len(events) /\ 1 < i + 1
      /\ \A i, j \in 1 .. Len(events') : i < j => i + 1 < j + 1
      /\ 1 \in 1 .. Len(events) /\ n \notin 1 .. Len(received)
      /\ \A i \in 1 .. n : i < n => i \in 1 .. Len(received)
      /\ \A i \in 1 .. n : ~(n < i)
  BY <1>4
<1> HIDE DEF n
<1>6. Got' \subseteq Got \cup {h}
  <2> SUFFICES ASSUME NEW i \in 1 .. n
               PROVE  <<received'[i].sub, received'[i].event>> \in Got \cup {h}
    BY <1>4 DEF Got
  <2> QED
    BY <1>4, <1>5 DEF Got
<1>7. Held' \subseteq Held /\ h \in Held
  BY <1>4, <1>5 DEF Held
<1>8. \A i \in 1 .. Len(received) : <<received[i].sub, received[i].event>> \in Got
  BY DEF Got
<1>9. \A q \in Held' : h[1] = q[1] => Place[h] <= Place[q]
  BY <1>4, <1>5 DEF Held, PipeInv, Sorted
<1>10. Sorted(events)'
  BY <1>2, <1>4, <1>5 DEF PipeInv, Sorted
<1>11. Sorted(received)'
  <2> SUFFICES ASSUME NEW i \in 1 .. n, NEW j \in 1 .. n, i < j, received'[i].sub = received'[j].sub
               PROVE  Place[<<received'[i].sub, received'[i].event>>]
                        <= Place[<<received'[j].sub, received'[j].event>>]
    BY <1>2, <1>4 DEF Sorted
  <2>1. CASE j = n
    <3>1. i \in 1 .. Len(received) /\ received'[i] = received[i] /\ received'[j] = events[1]
      BY <1>4, <1>5, <2>1
    <3>2. <<received[i].sub, received[i].event>> \in Got
      BY <1>8, <3>1
    <3> QED
      BY <1>7, <3>1, <3>2 DEF PipeInv, Precede
  <2>2. CASE j # n
    BY <1>4, <1>5, <2>2 DEF PipeInv, Sorted
  <2> QED
    BY <2>1, <2>2
<1>12. SentSorted'
  BY <1>1, <1>2 DEF PipeInv, SentSorted
<1> HIDE DEF h
<1>13. Got' \subseteq Seen' /\ Held' \subseteq Seen' /\ Hand' \subseteq Seen' /\ Sent' \subseteq Seen'
  BY <1>2, <1>6, <1>7 DEF PipeInv
<1>14. Precede(Held, Hand)' /\ Precede(Held, Sent)' /\ Precede(Hand, Sent)'
  BY <1>2, <1>7 DEF PipeInv, Precede
<1>15. Precede(Got, Held)'
  BY <1>2, <1>6, <1>7, <1>9 DEF PipeInv, Precede
<1>16. Precede(Got, Hand)' /\ Precede(Got, Sent)'
  BY <1>2, <1>6, <1>7 DEF PipeInv, Precede
<1> QED
  BY <1>10, <1>11, <1>12, <1>13, <1>14, <1>15, <1>16 DEF PipeInv

\* readLoop takes a frame from the wire.
LEMMA PipeTake ==
    ASSUME Core, PipeInv, LoopEvent \/ LoopPublished
    PROVE  PipeInv'
<1>1. /\ toClient # <<>> /\ toClient' = Tail(toClient) /\ loop.at = "read"
      /\ UNCHANGED <<received, events, stream, serial>>
  BY DEF LoopEvent, LoopPublished, LoopReads, clientVars, appVars, brokerVars, deliveryVars
<1>2. Seen' = Seen /\ Place' = Place /\ Got' = Got /\ Held' = Held
  BY <1>1, PlacesStay DEF Got, Held
<1>3. Parts
  BY DEF Core
<1> DEFINE h == <<toClient[1].sub, toClient[1].event>>
<1>4. /\ Len(toClient) \in Nat /\ Len(toClient) > 0 /\ Head(toClient) = toClient[1]
      /\ Len(toClient') = Len(toClient) - 1
      /\ \A i \in 1 .. Len(toClient') : toClient'[i] = toClient[i + 1]
  BY <1>1, <1>3, PipeTypes
<1>5. /\ \A i \in 1 .. Len(toClient') : i + 1 \in 1 .. Len(toClient) /\ 1 < i + 1
      /\ \A i, j \in 1 .. Len(toClient') : i < j => i + 1 < j + 1
      /\ 1 \in 1 .. Len(toClient)
  BY <1>4
<1>6. /\ Sent' \subseteq Sent
      /\ \A q \in Sent' : \E i \in 1 .. Len(toClient') :
            toClient[i + 1].type = "EVENT" /\ q = <<toClient[i + 1].sub, toClient[i + 1].event>>
  BY <1>4, <1>5 DEF Sent
<1>7. SentSorted'
  BY <1>2, <1>4, <1>5 DEF PipeInv, SentSorted
<1>8. Hand' \subseteq Sent /\ Precede(Hand, Sent)'
  <2>1. CASE LoopPublished
    BY <1>1, <2>1 DEF LoopPublished, Hand, Precede
  <2>2. CASE LoopEvent
    <3>1. toClient[1].type = "EVENT" /\ loop'.sub = toClient[1].sub /\ loop'.event = toClient[1].event
      BY <1>4, <2>2 DEF LoopEvent, LoopReads
    <3>2. Hand' \subseteq Sent /\ \A p \in Hand' : p = h
      BY <1>5, <3>1 DEF Hand, Sent
    <3>3. \A q \in Sent' : h[1] = q[1] => Place[h] <= Place[q]
      BY <1>5, <1>6, <3>1 DEF PipeInv, SentSorted
    <3> QED
      BY <1>2, <3>2, <3>3 DEF Precede
  <2> QED
    BY <2>1, <2>2
<1>9. Got' \subseteq Seen' /\ Held' \subseteq Seen' /\ Hand' \subseteq Seen' /\ Sent' \subseteq Seen'
  BY <1>2, <1>6, <1>8 DEF PipeInv
<1>10. /\ Precede(Got, Held)' /\ Precede(Got, Hand)' /\ Precede(Got, Sent)'
       /\ Precede(Held, Hand)' /\ Precede(Held, Sent)'
  BY <1>2, <1>6, <1>8 DEF PipeInv, Precede
<1>11. Sorted(received)' /\ Sorted(events)'
  BY <1>1, <1>2 DEF PipeInv, Sorted
<1> QED
  BY <1>7, <1>8, <1>9, <1>10, <1>11 DEF PipeInv

\* readLoop pushes the event that it holds, or drops it.
LEMMA PipePush ==
    ASSUME Core, PipeInv, UNCHANGED <<stream, serial>>,
           LoopPush \/ (UNCHANGED <<received, events, toClient>> /\ loop'.at # "push")
    PROVE  PipeInv'
<1>1. UNCHANGED <<received, toClient>> /\ loop'.at # "push"
  BY DEF LoopPush, wireVars, appVars, At
<1>2. Seen' = Seen /\ Place' = Place /\ Got' = Got /\ Sent' = Sent /\ Hand' = {}
  BY <1>1, PlacesStay DEF Got, Sent, Hand
<1>3. Parts
  BY DEF Core
<1>4. Held' \subseteq Held \cup Hand /\ Sorted(events)'
  <2>1. CASE UNCHANGED events
    BY <1>2, <2>1 DEF Held, PipeInv, Sorted
  <2>2. CASE loop.at = "push" /\ events' = Append(events, [event |-> loop.event, sub |-> loop.sub])
    <3> DEFINE n == Len(events) + 1
    <3>1. /\ Len(events) \in Nat /\ Len(events') = n
          /\ events'[n] = [event |-> loop.event, sub |-> loop.sub]
          /\ \A i \in 1 .. Len(events) : events'[i] = events[i]
      BY <1>3, <2>2, PipeTypes
    <3>2. /\ \A i \in 1 .. n : i \in 1 .. Len(events) \/ i = n
          /\ \A i, j \in 1 .. n : i < j => i \in 1 .. Len(events)
      BY <3>1
    <3> HIDE DEF n
    <3>3. <<loop.sub, loop.event>> \in Hand
      BY <1>3, <2>2, PipeTypes DEF Hand, Pairs
    <3>4. \A i \in 1 .. n : \/ i \in 1 .. Len(events) /\ events'[i] = events[i]
                            \/ i = n /\ events'[i].sub = loop.sub /\ events'[i].event = loop.event
      BY <3>1, <3>2
    <3>5. Held' \subseteq Held \cup Hand
      <4> SUFFICES ASSUME NEW i \in 1 .. n
                   PROVE  <<events'[i].sub, events'[i].event>> \in Held \cup Hand
        BY <3>1 DEF Held
      <4> QED
        BY <3>3, <3>4 DEF Held
    <3>6. Sorted(events)'
      <4> SUFFICES ASSUME NEW i \in 1 .. n, NEW j \in 1 .. n, i < j, events'[i].sub = events'[j].sub
                   PROVE  Place[<<events'[i].sub, events'[i].event>>]
                            <= Place[<<events'[j].sub, events'[j].event>>]
        BY <1>2, <3>1 DEF Sorted
      <4>1. i \in 1 .. Len(events) /\ events'[i] = events[i]
        BY <3>1, <3>2
      <4>2. <<events[i].sub, events[i].event>> \in Held
        BY <4>1 DEF Held
      <4>3. CASE j = n
        <5>1. <<events'[j].sub, events'[j].event>> \in Hand
          BY <3>1, <3>3, <4>3
        <5>2. Precede(Held, Hand)
          BY DEF PipeInv
        <5> QED
          BY <4>1, <4>2, <5>1, <5>2 DEF Precede
      <4>4. CASE j # n
        <5>1. j \in 1 .. Len(events) /\ events'[j] = events[j]
          BY <3>4, <4>4
        <5>2. events[i].sub = events[j].sub
          BY <4>1, <5>1
        <5>3. Sorted(events)
          BY DEF PipeInv
        <5>4. Place[<<events[i].sub, events[i].event>>] <= Place[<<events[j].sub, events[j].event>>]
          BY <4>1, <5>1, <5>2, <5>3 DEF Sorted
        <5> QED
          BY <4>1, <5>1, <5>4
      <4> QED
        BY <4>3, <4>4
    <3> QED
      BY <3>5, <3>6
  <2> QED
    BY <2>1, <2>2 DEF LoopPush
<1>5. Got' \subseteq Seen' /\ Held' \subseteq Seen' /\ Hand' \subseteq Seen' /\ Sent' \subseteq Seen'
  BY <1>2, <1>4 DEF PipeInv
<1>6. /\ Precede(Got, Held)' /\ Precede(Got, Hand)' /\ Precede(Got, Sent)'
      /\ Precede(Held, Hand)' /\ Precede(Held, Sent)' /\ Precede(Hand, Sent)'
  BY <1>2, <1>4 DEF PipeInv, Precede
<1>7. Sorted(received)' /\ SentSorted'
  BY <1>1, <1>2 DEF PipeInv, Sorted, SentSorted
<1> QED
  BY <1>4, <1>5, <1>6, <1>7 DEF PipeInv

\* A frame is put on the wire.
LEMMA PipeSend ==
    ASSUME Core, PipeInv, UNCHANGED <<stream, serial>>, UNCHANGED <<received, events, loop>>,
           NEW f \in ToClientFrames, toClient' = Append(toClient, f),
           f.type = "EVENT" => /\ <<f.sub, f.event>> \in Seen
                               /\ \A p \in Seen : p[1] = f.sub =>
                                     Place[p] <= Place[<<f.sub, f.event>>]
    PROVE  PipeInv'
<1>1. Parts
  BY DEF Core
<1>2. Seen' = Seen /\ Place' = Place /\ Got' = Got /\ Held' = Held /\ Hand' = Hand
  BY PlacesStay DEF Got, Held, Hand
<1> DEFINE n == Len(toClient) + 1
<1>3. /\ Len(toClient) \in Nat /\ Len(toClient') = n /\ toClient'[n] = f
      /\ \A i \in 1 .. Len(toClient) : toClient'[i] = toClient[i]
  BY <1>1, PipeTypes
<1>4. /\ \A i \in 1 .. n : i \in 1 .. Len(toClient) \/ i = n
      /\ \A i, j \in 1 .. n : i < j => i \in 1 .. Len(toClient)
  BY <1>3
<1> HIDE DEF n
<1>5. \A i \in 1 .. Len(toClient) :
          toClient[i].type = "EVENT" => <<toClient[i].sub, toClient[i].event>> \in Sent
  <2>1. \A i \in 1 .. Len(toClient) :
            toClient[i].type = "EVENT" => <<toClient[i].sub, toClient[i].event>> \in Pairs
    BY <1>1, PipeTypes, FrameFields DEF Pairs
  <2> QED
    BY <2>1 DEF Sent
<1>6. \A p \in Sent' : p \in Sent \/ (f.type = "EVENT" /\ p = <<f.sub, f.event>>)
  <2> SUFFICES ASSUME NEW p \in Sent' PROVE p \in Sent \/ (f.type = "EVENT" /\ p = <<f.sub, f.event>>)
    OBVIOUS
  <2>1. PICK i \in 1 .. n : toClient'[i].type = "EVENT" /\ p = <<toClient'[i].sub, toClient'[i].event>>
    BY <1>3 DEF Sent
  <2> QED
    BY <1>3, <1>4, <1>5, <2>1
<1>7. SentSorted'
  <2> SUFFICES ASSUME NEW i \in 1 .. n, NEW j \in 1 .. n, i < j,
                      toClient'[i].type = "EVENT", toClient'[j].type = "EVENT",
                      toClient'[i].sub = toClient'[j].sub
               PROVE  Place[<<toClient'[i].sub, toClient'[i].event>>]
                        <= Place[<<toClient'[j].sub, toClient'[j].event>>]
    BY <1>2, <1>3 DEF SentSorted
  <2>1. i \in 1 .. Len(toClient) /\ toClient'[i] = toClient[i]
    BY <1>3, <1>4
  <2>2. CASE j = n
    <3>1. <<toClient[i].sub, toClient[i].event>> \in Seen
      BY <1>5, <2>1 DEF PipeInv
    <3> QED
      BY <1>3, <2>1, <2>2, <3>1
  <2>3. CASE j # n
    BY <1>3, <1>4, <2>1, <2>3 DEF PipeInv, SentSorted
  <2> QED
    BY <2>2, <2>3
<1>8. Got' \subseteq Seen' /\ Held' \subseteq Seen' /\ Hand' \subseteq Seen' /\ Sent' \subseteq Seen'
  BY <1>2, <1>6 DEF PipeInv
<1>9. \A p \in Seen, q \in Sent' : q \in Sent \/ (p[1] = q[1] => Place[p] <= Place[q])
  BY <1>6
<1>10. /\ Precede(Got, Held)' /\ Precede(Got, Hand)' /\ Precede(Got, Sent)'
       /\ Precede(Held, Hand)' /\ Precede(Held, Sent)' /\ Precede(Hand, Sent)'
  BY <1>2, <1>9 DEF PipeInv, Precede
<1>11. Sorted(received)' /\ Sorted(events)'
  BY <1>2 DEF PipeInv, Sorted
<1> QED
  BY <1>7, <1>8, <1>10, <1>11 DEF PipeInv

LEMMA PipeStep == Core /\ PipeInv /\ [Next]_vars => PipeInv'
<1> SUFFICES ASSUME Core, PipeInv, [Next]_vars PROVE PipeInv'
  OBVIOUS
<1>1. ASSUME PublishDone, UNCHANGED <<stream, serial>>
      PROVE  PipeInv'
  <2>1. reader.event \in Events /\ UNCHANGED <<received, events, loop>>
    BY <1>1 DEF PublishDone, Core, Parts, ReadT, appVars, clientVars
  <2>2. UNCHANGED toClient \/ toClient' = Append(toClient, PublishedFrame(reader.event))
    BY <1>1 DEF PublishDone, SendToClient
  <2>3. PublishedFrame(reader.event) \in ToClientFrames /\ PublishedFrame(reader.event).type # "EVENT"
    BY <2>1, FrameFields DEF PublishedFrame
  <2> QED
    BY <1>1, <2>1, <2>2, <2>3, PipeKept, PipeSend
<1>2. ASSUME NEW s \in Subs, DeliverSend(s), UNCHANGED <<stream, serial>>
      PROVE  PipeInv'
  <2>1. Delivering(s) /\ UNCHANGED <<received, events, loop>> /\ event[s] \in Events
    BY <1>2 DEF DeliverSend, Delivering, Core, Parts, EventT, appVars, clientVars
  <2>2. UNCHANGED toClient \/ toClient' = Append(toClient, EventFrame(event[s], s))
    BY <1>2 DEF DeliverSend, SendToClient
  <2>3. /\ EventFrame(event[s], s) \in ToClientFrames
        /\ EventFrame(event[s], s).sub = s /\ EventFrame(event[s], s).event = event[s]
    BY <2>1, FrameFields DEF EventFrame
  <2> QED
    BY <1>2, <2>1, <2>2, <2>3, LastTaken, PipeKept, PipeSend
<1> QED
  BY <1>1, <1>2, PipeMoves, PipeKept, PipeReceive, PipeTake, PipePush

\* The application receives the events of a subscription in the order of its
\* queue, whatever the number of subscriptions, retries, timeouts and frames
\* in flight: a copy that a retry sent never arrives after a later event.
THEOREM OrderedDeliveryHolds == Spec => []OrderedDelivery
<1>1. ASSUME Core, PipeInv PROVE OrderedDelivery
  <2> SUFFICES ASSUME NEW i \in 1 .. Len(received), NEW j \in 1 .. Len(received), i < j,
                      received[i].sub = received[j].sub
               PROVE  Position(received[i].sub, received[i].event)
                        <= Position(received[j].sub, received[j].event)
    BY DEF OrderedDelivery
  <2>1. received[i] \in Buffered /\ received[j] \in Buffered
    BY <1>1, PipeTypes DEF Core
  <2>2. \A x \in Buffered : /\ <<x.sub, x.event>> \in Pairs
                            /\ Place[<<x.sub, x.event>>] = Position(x.sub, x.event)
    BY DEF Buffered, Pairs, Place
  <2>3. Place[<<received[i].sub, received[i].event>>] <= Place[<<received[j].sub, received[j].event>>]
    BY <1>1 DEF PipeInv, Sorted
  <2> QED
    BY <2>1, <2>2, <2>3
<1> QED
  BY <1>1, CoreInit, CoreStep, PipeInit, PipeStep, PTL DEF Spec

-----------------------------------------------------------------------------
(* An ACK finds the delivery that waits for it *)

UniqueIds == \A e, f \in Events : e.id = f.id => e = f

\* Only events that goroutines have taken reach the application.
SeenIds == {p[2].id : p \in Seen}
AppInv ==
    /\ confirmed \subseteq SeenIds
    /\ app.at \in {"ack", "remember"} => app.event.id \in SeenIds

\* No other subscription of the connection was given the event of s.
Alone(s) ==
    \A r \in Subs : r # s => \A i \in 1 .. Len(stream[r]) : stream[r][i].id # event[s].id

Reach(s) ==
    Delivering(s) /\ Alone(s) =>
        /\ pendingAck[event[s].id] = Channel(s, serial[s])
        /\ reader.at = "ack" /\ reader.id = event[s].id => reader.channel = Channel(s, serial[s])
        /\ heard[s] => acknowledged[s]

ReachInv == \A s \in Subs : Reach(s)

LEMMA AppInit == Init => AppInv /\ ReachInv
BY DEF Init, AppInv, At, ReachInv, Reach, Delivering

LEMMA AppInvStep == Core /\ PipeInv /\ AppInv /\ [Next]_vars => AppInv'
<1> SUFFICES ASSUME Core, PipeInv, AppInv, [Next]_vars PROVE AppInv'
  OBVIOUS
<1>1. SeenIds \subseteq SeenIds'
  BY SeenStays DEF SeenIds
<1>k. ASSUME UNCHANGED <<confirmed, app>>
      PROVE  AppInv'
  BY <1>k, <1>1 DEF AppInv
<1>2. CASE Receive
  <2>1. /\ events # <<>> /\ UNCHANGED confirmed
        /\ app' = AtEvent("ack", Head(events).event)
    BY <1>2 DEF Receive
  <2>2. 1 \in 1 .. Len(events) /\ Head(events) = events[1]
    BY <2>1, PipeTypes DEF Core
  <2>3. <<events[1].sub, events[1].event>> \in Seen
    BY <2>2 DEF PipeInv, Held
  <2>4. events[1].event.id \in SeenIds
    BY <2>3 DEF SeenIds
  <2> QED
    BY <1>1, <2>1, <2>2, <2>4 DEF AppInv, AtEvent
<1>3. CASE Acknowledge
  BY <1>1, <1>3 DEF Acknowledge, AppInv, At, AtEvent
<1>4. CASE Remember
  BY <1>1, <1>4 DEF Remember, AppInv, At
<1>5. ASSUME ~AppStep PROVE UNCHANGED <<confirmed, app>>
  <2>1. ASSUME ServerStep \/ LoopStep \/ Call
        PROVE  UNCHANGED <<confirmed, app>>
    BY <2>1, ServerFrame, LoopFrame, CallFrame DEF appVars
  <2>2. ASSUME NEW s \in Subs, DeliveryStep(s) \/ AckTimeout(s)
        PROVE  UNCHANGED <<confirmed, app>>
    BY <2>2, DeliverFrame DEF appVars
  <2>3. ASSUME UNCHANGED vars PROVE UNCHANGED <<confirmed, app>>
    BY <2>3 DEF vars, appVars
  <2> QED
    BY <1>5, <2>1, <2>2, <2>3 DEF Next, Call
<1> QED
  BY <1>k, <1>2, <1>3, <1>4, <1>5 DEF AppStep

\* Streams only grow.
LEMMA StreamGrows ==
    ASSUME Core, [Next]_vars, NEW s \in Subs
    PROVE  \A i \in 1 .. Len(stream[s]) :
               i \in 1 .. Len(stream'[s]) /\ stream'[s][i] = stream[s][i]
<1>1. stream[s] \in Seq(Events) /\ Len(stream[s]) \in Nat
  BY DEF Core, Parts, FlowT
<1>2. CASE ReadSubscribe(s)
  <2>1. stream[s] = <<>>
    BY <1>2 DEF ReadSubscribe, Core, OnceInv
  <2> QED
    BY <2>1
<1>3. CASE \E e \in Events : stream'[s] = Append(stream[s], e)
  BY <1>1, <1>3
<1>4. CASE stream'[s] = stream[s]
  BY <1>4
<1>5. ASSUME Deliver(s) PROVE stream'[s] = stream[s]
  BY <1>5 DEF Deliver
<1>6. Parts
  BY DEF Core
<1> QED
  BY <1>2, <1>3, <1>4, <1>5, <1>6, FlowMoves

\* The event that another goroutine delivers, or takes next, has another ID.
LEMMA Others ==
    ASSUME Core, NEW s \in Subs, Alone(s), NEW r \in Subs, r # s
    PROVE  /\ Delivering(r) => event[r].id # event[s].id
           /\ queue[r] # <<>> => Head(queue[r]).id # event[s].id
<1>1. /\ serial[r] \in Nat /\ queue[r] \in Seq(Events) /\ Len(queue[r]) \in Nat
      /\ Len(stream[r]) \in Nat
  BY DEF Core, Parts, QueueT, FlowT, EventT
<1>2. Taken(r)
  BY DEF Core, TakenInv
<1>3. serial[r] + Len(queue[r]) = Len(stream[r])
  BY <1>2 DEF Taken
<1>4. ASSUME Delivering(r) PROVE event[r].id # event[s].id
  <2>1. serial[r] > 0 /\ event[r] = stream[r][serial[r]]
    BY <1>2, <1>4 DEF Taken
  <2>2. serial[r] \in 1 .. Len(stream[r])
    BY <1>1, <1>3, <2>1
  <2> QED
    BY <2>1, <2>2 DEF Alone
<1>5. ASSUME queue[r] # <<>> PROVE Head(queue[r]).id # event[s].id
  <2>1. Head(queue[r]) = queue[r][1] /\ Len(queue[r]) > 0
    BY <1>1, <1>5
  <2>2. 1 \in 1 .. Len(queue[r]) /\ serial[r] + 1 \in 1 .. Len(stream[r])
    BY <1>1, <1>3, <2>1
  <2>3. queue[r][1] = stream[r][serial[r] + 1]
    BY <1>2, <2>2 DEF Taken
  <2> QED
    BY <2>1, <2>2, <2>3 DEF Alone
<1> QED
  BY <1>4, <1>5

\* A goroutine takes an event: no ACK for it can be on its way yet.
LEMMA ReachDeliver ==
    ASSUME UniqueIds, Core, AppInv, NEW s \in Subs, Deliver(s), Alone(s)'
    PROVE  Reach(s)'
<1>1. /\ serial[s] \in Nat /\ queue[s] \in Seq(Events) /\ Len(queue[s]) \in Nat
      /\ Len(stream[s]) \in Nat /\ queue[s] # <<>>
  BY DEF Deliver, Core, Parts, QueueT, FlowT, EventT
<1> DEFINE h == Head(queue[s])
<1>2. h = queue[s][1] /\ Len(queue[s]) > 0 /\ h \in Events
  BY <1>1
<1>3. serial[s] + Len(queue[s]) = Len(stream[s])
  BY DEF Core, TakenInv, Taken
<1>4. 1 \in 1 .. Len(queue[s]) /\ serial[s] + 1 \in 1 .. Len(stream[s])
  BY <1>1, <1>2, <1>3
<1>5. h = stream[s][serial[s] + 1]
  BY <1>2, <1>4 DEF Core, TakenInv, Taken
<1>6. /\ event'[s] = h /\ serial'[s] = serial[s] + 1 /\ heard'[s] = FALSE
      /\ UNCHANGED <<reader, stream>>
  BY DEF Deliver, Core, Parts, EventT, FlagT
<1>7. pendingAck'[h.id] = Channel(s, serial[s] + 1)
  <2>1. h.id \in Ids
    BY <1>2, FrameFields
  <2> QED
    BY <2>1 DEF Deliver, Core, Parts, PendT
<1>8. ASSUME reader.at = "ack", reader.id = h.id PROVE FALSE
  <2>1. h.id \in SeenIds
    BY <1>8 DEF Core, SureInv, AppInv
  <2>2. PICK p \in Seen : p[2].id = h.id
    BY <2>1 DEF SeenIds
  <2>3. PICK r \in Subs, e \in Events : p = <<r, e>>
    BY DEF Seen, Pairs
  <2>4. PICK i \in 1 .. serial[r] : stream[r][i] = e
    BY <2>3 DEF Seen
  <2>5. e = h
    BY <1>2, <2>2, <2>3 DEF UniqueIds
  <2>6. i \in 1 .. Len(stream[r])
    <3>1. serial[r] \in Nat /\ Len(queue[r]) \in Nat /\ Len(stream[r]) \in Nat
      BY DEF Core, Parts, QueueT, FlowT, EventT
    <3>2. serial[r] + Len(queue[r]) = Len(stream[r])
      BY DEF Core, TakenInv, Taken
    <3> QED
      BY <3>1, <3>2
  <2>7. CASE r = s
    <3>1. Distinct(stream[s])
      BY DEF Core, OnceInv
    <3>2. i = serial[s] + 1
      BY <1>4, <1>5, <2>4, <2>5, <2>6, <2>7, <3>1 DEF Distinct
    <3> QED
      BY <1>1, <2>7, <3>2
  <2>8. CASE r # s
    BY <1>6, <2>4, <2>5, <2>6, <2>8 DEF Alone
  <2> QED
    BY <2>7, <2>8
<1> QED
  BY <1>6, <1>7, <1>8 DEF Reach

LEMMA ReachStep == UniqueIds /\ Core /\ AppInv /\ ReachInv /\ [Next]_vars => ReachInv'
<1> SUFFICES ASSUME UniqueIds, Core, AppInv, ReachInv, [Next]_vars, NEW s \in Subs,
                    Delivering(s)', Alone(s)'
             PROVE  Reach(s)'
  BY DEF ReachInv, Reach
<1>1. CASE Deliver(s)
  BY <1>1, ReachDeliver
<1>2. CASE ~Deliver(s)
  <2>p. Parts /\ FreshInv /\ event[s] \in Events
    BY DEF Core, Parts, EventT
  <2>1. serial'[s] = serial[s] /\ event'[s] = event[s] /\ Delivering(s)
    <3>1. ASSUME DeliverAcknowledged(s) PROVE Delivering(s)
      BY <3>1 DEF DeliverAcknowledged, Delivering
    <3>2. ASSUME pc'[s] = "range" PROVE FALSE
      BY <3>2 DEF Delivering
    <3> QED
      BY <1>2, <2>p, <3>1, <3>2, GoMoves
  <2>2. Alone(s)
    BY <2>1, StreamGrows DEF Alone
  <2>3. /\ pendingAck[event[s].id] = Channel(s, serial[s])
        /\ reader.at = "ack" /\ reader.id = event[s].id => reader.channel = Channel(s, serial[s])
        /\ heard[s] => acknowledged[s]
    BY <2>1, <2>2 DEF ReachInv, Reach
  <2>4. event[s].id \in Ids
    BY <2>p, FrameFields
  <2>5. pendingAck'[event[s].id] = pendingAck[event[s].id]
    <3>1. ASSUME NEW r \in Subs, DeliveryStep(r) \/ AckTimeout(r), r # s
          PROVE  pendingAck'[event[s].id] = pendingAck[event[s].id]
      <4>1. CASE Deliver(r)
        <5>1. Head(queue[r]).id # event[s].id
          BY <2>2, <3>1, <4>1, Others DEF Deliver
        <5> QED
          BY <2>4, <4>1, <5>1 DEF Deliver, Core, Parts, PendT
      <4>2. CASE DeliverReturn(r)
        <5>1. event[r].id # event[s].id
          BY <2>2, <3>1, <4>2, Others DEF DeliverReturn, Delivering
        <5> QED
          BY <2>4, <4>2, <5>1 DEF DeliverReturn, Unregister, Core, Parts, PendT
      <4>3. ASSUME ~Deliver(r), ~DeliverReturn(r) PROVE UNCHANGED pendingAck
        BY <3>1, <4>3 DEF DeliveryStep, RangeEnds, DeliverSend, DeliverAcknowledged, AckTimeout,
                          serverVars
      <4> QED
        BY <4>1, <4>2, <4>3
    <3>2. ASSUME DeliveryStep(s) \/ AckTimeout(s) PROVE UNCHANGED pendingAck
      <4>1. ~DeliverReturn(s)
        BY <2>p DEF DeliverReturn, Goes, Delivering, Parts, PcT
      <4> QED
        BY <1>2, <3>2, <4>1 DEF DeliveryStep, RangeEnds, DeliverSend, DeliverAcknowledged,
                                AckTimeout, serverVars
    <3>3. ASSUME ServerStep \/ LoopStep \/ AppStep \/ Call \/ UNCHANGED vars
          PROVE  UNCHANGED pendingAck
      BY <3>3, ServerFrame, LoopFrame, AppFrame, CallFrame DEF serverVars, vars
    <3> QED
      BY <3>1, <3>2, <3>3 DEF Next, Call
  <2>6. \/ UNCHANGED reader
        \/ reader'.at # "ack"
        \/ reader'.channel = pendingAck[reader'.id]
    <3>1. ASSUME ReadAck PROVE reader'.channel = pendingAck[reader'.id]
      BY <3>1 DEF ReadAck, Waiting
    <3>2. ASSUME NEW r \in Subs, DeliveryStep(r) \/ AckTimeout(r) PROVE UNCHANGED reader
      BY <3>2, DeliverFrame
    <3>3. ASSUME LoopStep \/ AppStep \/ Call \/ UNCHANGED vars PROVE UNCHANGED reader
      BY <3>3, LoopFrame, AppFrame, CallFrame DEF vars
    <3> QED
      BY <3>1, <3>2, <3>3, ReaderGoes DEF Next, Call
  <2>7. heard'[s] => acknowledged'[s]
    <3>1. CASE Acknowledged
      <4>1. /\ reader.at = "ack"
            /\ heard'[s] => heard[s] \/ reader.id = event[s].id
            /\ acknowledged[s] \/ reader.channel = Channel(s, serial[s]) => acknowledged'[s]
        BY <3>1 DEF Acknowledged
      <4> QED
        BY <2>3, <4>1
    <3>2. ASSUME NEW r \in Subs, DeliveryStep(r) \/ AckTimeout(r)
          PROVE  heard'[s] = heard[s] /\ acknowledged'[s] = acknowledged[s]
      <4>1. CASE Deliver(r)
        BY <1>2, <4>1, <2>p DEF Deliver, Parts, FlagT
      <4>2. CASE ~Deliver(r)
        BY <3>2, <4>2 DEF DeliveryStep, RangeEnds, DeliverSend, DeliverAcknowledged,
                          DeliverReturn, AckTimeout
      <4> QED
        BY <4>1, <4>2
    <3>3. ASSUME ServerStep, ~Acknowledged PROVE UNCHANGED <<heard, acknowledged>>
      BY <3>3 DEF ServerStep, ReadSubscribe, InstallSubscription, ReadUnsubscribe, ReadAck,
                  ReadPublish, PublishDone, ReadFails, deliveryVars
    <3>4. ASSUME LoopStep \/ AppStep \/ Call \/ UNCHANGED vars
          PROVE  UNCHANGED <<heard, acknowledged>>
      BY <3>4, LoopFrame, AppFrame, CallFrame DEF deliveryVars, vars
    <3> QED
      BY <2>3, <3>1, <3>2, <3>3, <3>4 DEF Next, Call
  <2> QED
    BY <2>1, <2>3, <2>5, <2>6, <2>7 DEF Reach
<1> QED
  BY <1>1, <1>2

\* No event is given to two subscriptions of the connection.
NoOverlap ==
    \A s, r \in Subs : s # r =>
        \A i \in 1 .. Len(stream[s]), j \in 1 .. Len(stream[r]) :
            stream[s][i].id # stream[r][j].id

LEMMA AckReaches ==
    ASSUME UniqueIds
    PROVE  Spec /\ []NoOverlap => []AckReachesDelivery
<1> DEFINE Inv == Core /\ PipeInv /\ AppInv /\ ReachInv
<1>1. Init => Inv
  BY CoreInit, PipeInit, AppInit
<1>2. Inv /\ [Next]_vars => Inv'
  BY CoreStep, PipeStep, AppInvStep, ReachStep
<1>3. Inv /\ NoOverlap => AckReachesDelivery
  <2> SUFFICES ASSUME Inv, NoOverlap, NEW s \in Subs, pc[s] = "select", heard[s]
               PROVE  acknowledged[s]
    BY DEF AckReachesDelivery
  <2>1. Delivering(s)
    BY DEF Delivering
  <2>2. /\ serial[s] \in Nat /\ Len(queue[s]) \in Nat /\ Len(stream[s]) \in Nat
    BY DEF Core, Parts, QueueT, FlowT, EventT
  <2>3. /\ serial[s] + Len(queue[s]) = Len(stream[s]) /\ serial[s] > 0
        /\ event[s] = stream[s][serial[s]]
    BY <2>1 DEF Core, TakenInv, Taken
  <2>4. serial[s] \in 1 .. Len(stream[s])
    BY <2>2, <2>3
  <2>5. Alone(s)
    BY <2>3, <2>4 DEF NoOverlap, Alone
  <2> QED
    BY <2>1, <2>5 DEF ReachInv, Reach
<1> QED
  BY <1>1, <1>2, <1>3, PTL DEF Spec

\* The client does not subscribe to a topic that it is subscribed to.
OneOpenPerTopic ==
    \A s, r \in Subs : state[s] = "open" /\ state[r] = "open" /\ topicOf[s] = topicOf[r] => s = r

\* An event is meant for one subscription of the connection.
Meant(e, s) == s \in todo[e] \/ In(e, stream[s])
SingleInv == \A e \in Events, s, r \in Subs : Meant(e, s) /\ Meant(e, r) => s = r

LEMMA SingleInit == Init => SingleInv
<1> SUFFICES ASSUME Init PROVE SingleInv
  OBVIOUS
<1>1. (\A e \in Events : todo[e] = {}) /\ \A s \in Subs : stream[s] = <<>>
  BY DEF Init
<1> QED
  BY <1>1, EmptyOnce DEF SingleInv, Meant

LEMMA SingleRoute ==
    ASSUME Core, OneOpenPerTopic, SingleInv, NEW e \in Events, e \notin published, Route(e),
           UNCHANGED stream
    PROVE  SingleInv'
<1>1. /\ \A x \in Events : x # e => todo'[x] = todo[x]
      /\ todo'[e] = OpenSubs(e.topic)
  BY DEF Route, Core, Parts, PubT
<1>2. \A s \in Subs : ~In(e, stream[s])
  BY DEF Core, OnceInv
<1>3. \A s, r \in OpenSubs(e.topic) : s = r
  BY DEF OpenSubs, OneOpenPerTopic
<1> QED
  BY <1>1, <1>2, <1>3 DEF SingleInv, Meant

LEMMA SingleStep == Core /\ OneOpenPerTopic /\ SingleInv /\ [Next]_vars => SingleInv'
<1> SUFFICES ASSUME Core, OneOpenPerTopic, SingleInv, [Next]_vars PROVE SingleInv'
  OBVIOUS
<1>p. Parts
  BY DEF Core
<1>1. ASSUME NEW e \in Events, PublishElsewhere(e)
      PROVE  SingleInv'
  BY <1>1, SingleRoute DEF PublishElsewhere
<1>2. CASE ReadPublish
  <2>1. /\ toServer # <<>> /\ Head(toServer).type = "PUBLISH" /\ Route(Head(toServer).event)
        /\ toServer' = Tail(toServer) /\ UNCHANGED stream
    BY <1>2 DEF ReadPublish, Reads
  <2>2. Head(toServer).event \in Events
    BY <1>p, <2>1, TakesFromServer, FrameFields DEF Parts
  <2>3. Head(toServer) = toServer[1] /\ 1 \in 1 .. Len(toServer)
    BY <1>p, <2>1 DEF Parts, SendT
  <2>4. Head(toServer).event \notin published
    BY <2>1, <2>3 DEF Core, FrameInv
  <2> QED
    BY <2>1, <2>2, <2>4, SingleRoute
<1>3. ASSUME NEW e \in Events, NEW s \in Subs, Enqueue(e, s)
      PROVE  SingleInv'
  <2>1. /\ s \in todo[e] /\ \A x \in Events : todo'[x] \subseteq todo[x]
    BY <1>3, <1>p DEF Enqueue, Parts, PubT
  <2>2. \A x \in Events, r \in Subs : In(x, stream'[r]) => In(x, stream[r]) \/ (x = e /\ r = s)
    <3>1. CASE UNCHANGED stream
      BY <3>1
    <3>2. CASE stream' = [stream EXCEPT ![s] = Append(@, e)]
      <4>1. /\ stream[s] \in Seq(Events) /\ stream'[s] = Append(stream[s], e)
            /\ \A r \in Subs : r # s => stream'[r] = stream[r]
        BY <1>p, <3>2 DEF Parts, FlowT
      <4>2. \A x : In(x, stream'[s]) <=> In(x, stream[s]) \/ x = e
        BY <4>1, AppendOnce
      <4> QED
        BY <4>1, <4>2
    <3> QED
      BY <1>3, <3>1, <3>2 DEF Enqueue
  <2>3. \A x \in Events, r \in Subs : Meant(x, r)' => Meant(x, r)
    BY <2>1, <2>2 DEF Meant
  <2> QED
    BY <2>3 DEF SingleInv
<1>4. ASSUME NEW s \in Subs, ReadSubscribe(s)
      PROVE  SingleInv'
  <2>1. PICK t \in Topics, n \in Nat :
           /\ cache[t] \in Seq(Events) /\ n <= Len(cache[t])
           /\ stream'[s] = SubSeq(cache[t], 1, n)
           /\ \A r \in Subs : r # s => stream'[r] = stream[r]
    BY <1>4, <1>p, Replay
  <2>2. \A x : In(x, stream'[s]) => In(x, cache[t])
    <3>1. Distinct(cache[t])
      BY DEF Core, OnceInv
    <3>2. \A x : In(x, SubSeq(cache[t], 1, n)) => In(x, cache[t])
      BY <2>1, <3>1, SplitOnce
    <3> QED
      BY <2>1, <3>2
  <2>3. UNCHANGED todo
    BY <1>4 DEF ReadSubscribe
  <2>4. \A x \in Events, r \in Subs : In(x, cache[t]) => ~Meant(x, r)
    BY DEF Meant, Core, OnceInv
  <2>5. \A x \in Events, r \in Subs : Meant(x, r)' => Meant(x, r) \/ (r = s /\ In(x, cache[t]))
    BY <2>1, <2>2, <2>3 DEF Meant
  <2> QED
    BY <2>4, <2>5 DEF SingleInv
<1>5. ASSUME UNCHANGED <<todo, stream>>
      PROVE  SingleInv'
  BY <1>5 DEF SingleInv, Meant
<1> QED
  BY <1>1, <1>2, <1>3, <1>4, <1>5, QueueMoves

\* An ACK that the read loop handles while deliver waits for it reaches that
\* deliver call, however many subscriptions, retries and late ACKs there are,
\* as long as event IDs are unique and the client does not subscribe to a topic
\* that it is subscribed to: two subscriptions of a topic are given the same
\* event, and as pendingAck is keyed by the event's ID, the second delivery
\* takes over the entry of the first.
THEOREM AckReachesDeliveryHolds ==
    ASSUME UniqueIds
    PROVE  Spec /\ []OneOpenPerTopic => []AckReachesDelivery
<1>1. ASSUME Core, SingleInv PROVE NoOverlap
  <2> SUFFICES ASSUME NEW s \in Subs, NEW r \in Subs, s # r,
                      NEW i \in 1 .. Len(stream[s]), NEW j \in 1 .. Len(stream[r]),
                      stream[s][i].id = stream[r][j].id
               PROVE  FALSE
    BY DEF NoOverlap
  <2>1. stream[s][i] \in Events /\ stream[r][j] \in Events
    <3>1. stream[s] \in Seq(Events) /\ stream[r] \in Seq(Events)
      BY <1>1 DEF Core, Parts, FlowT
    <3> QED
      BY <3>1
  <2>2. stream[s][i] = stream[r][j]
    BY <2>1 DEF UniqueIds
  <2>3. Meant(stream[s][i], s) /\ Meant(stream[s][i], r)
    BY <2>2 DEF Meant, In
  <2> QED
    BY <1>1, <2>1, <2>3 DEF SingleInv
<1>2. Spec /\ []NoOverlap => []AckReachesDelivery
  BY AckReaches
<1> QED
  BY <1>1, <1>2, CoreInit, CoreStep, SingleInit, SingleStep, PTL DEF Spec

=============================================================================
