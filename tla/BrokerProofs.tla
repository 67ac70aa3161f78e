---------------------------- MODULE BrokerProofs ----------------------------
(***************************************************************************)
(* Theorems about Broker, for every value of its constants: any number of  *)
(* subscriptions and calls, any sizes, either policy.  First the types and *)
(* the life of a subscription, then what a Publish call promises.          *)
(***************************************************************************)
EXTENDS Broker, SequenceTheorems, FiniteSetTheorems, TLAPS

\* Most leaves are first-order steps, the others need arithmetic or sequences.
USE ZenonT(4), SMTT(60), ZenonT(60)

USE DEF Subs, Calls, NoSub

-----------------------------------------------------------------------------
(* Types of the helpers *)

\* What an event carries has the types that topics, cache and dedup expect.
LEMMA EventType ==
    ASSUME NEW e \in Events
    PROVE  e.topic \in Topics /\ idempotencyKey(e) \in Keys
  BY BrokerAssumption DEF idempotencyKey

\* remember keeps the table a table of keys.
LEMMA RememberType ==
    ASSUME dedup \in [Topics -> SUBSET Keys],
           NEW t \in Topics, NEW key \in Keys, remember(t, key)
    PROVE  dedup' \in [Topics -> SUBSET Keys]
  BY DEF remember, evictions

\* cacheEvent keeps the cache a sequence of calls per topic.
LEMMA CacheEventType ==
    ASSUME cache \in [Topics -> Seq(Calls)],
           NEW t \in Topics, NEW p \in Calls, cacheEvent(t, p)
    PROVE  cache' \in [Topics -> Seq(Calls)]
<1>1. CASE cacheSize = 0
  BY <1>1 DEF cacheEvent
<1>2. CASE cacheSize # 0
  <2> DEFINE old == cache[t]
             kept == IF Len(old) >= cacheSize THEN Tail(old) ELSE old
  <2>1. cacheSize \in Nat
    BY BrokerAssumption DEF cacheSize
  <2>2. old \in Seq(Calls) /\ Len(old) \in Nat
    BY LenProperties
  <2>3. Len(old) >= cacheSize => old # <<>>
    BY <1>2, <2>1, <2>2
  <2>4. kept \in Seq(Calls)
    BY <2>2, <2>3, HeadTailProperties
  <2>5. Append(kept, p) \in Seq(Calls)
    BY <2>4, AppendProperties
  <2> QED
    BY <1>2, <2>5 DEF cacheEvent
<1> QED
  BY <1>1, <1>2

\* Subscribe, with the number of replayed events named.
Replayed(t) == IF Len(cache[t]) > queueSize THEN queueSize ELSE Len(cache[t])

SubscribeEffects(s, t) ==
    /\ ~closed /\ s = sequence + 1
    /\ Replayed(t) \in 0 .. Len(cache[t]) /\ Replayed(t) <= queueSize
    /\ sequence' = s
    /\ topicOf' = [topicOf EXCEPT ![s] = t]
    /\ state' = [state EXCEPT ![s] = "open"]
    /\ topics' = [topics EXCEPT ![t] = @ \cup {s}]
    /\ queue' = [queue EXCEPT ![s] = SubSeq(cache[t], 1, Replayed(t))]
    /\ sent' = [sent EXCEPT ![s] = SubSeq(cache[t], 1, Replayed(t))]
    /\ cache' = [cache EXCEPT ![t] =
                   SubSeq(cache[t], Replayed(t) + 1, Len(cache[t]))]
    /\ owner' = [owner EXCEPT ![s] = "using"]
    /\ UNCHANGED <<closed, draining, dedup, wg, discard, closerVars,
                   callVars, received>>

LEMMA SubscribeEffect ==
    ASSUME TypeOK, NEW s \in Subs, NEW t \in Topics, Subscribe(s, t)
    PROVE  SubscribeEffects(s, t)
<1>1. cache[t] \in Seq(Calls) /\ Len(cache[t]) \in Nat
  BY LenProperties DEF TypeOK
<1>2. Replayed(t) \in 0 .. Len(cache[t]) /\ Replayed(t) <= queueSize
  BY <1>1, BrokerAssumption DEF Replayed, queueSize
<1>3. cache' = [cache EXCEPT ![t] =
                  SubSeq(cache[t], Replayed(t) + 1, Len(cache[t]))]
  BY DEF Subscribe, Replayed, TypeOK
<1> QED
  BY <1>2, <1>3 DEF Subscribe, Replayed, SubscribeEffects

-----------------------------------------------------------------------------
(* Type correctness *)

LEMMA TypeInit == Init => TypeOK
<1> SUFFICES ASSUME Init PROVE TypeOK
  OBVIOUS
<1>1. <<>> \in Seq(Calls)
  BY EmptySeq
<1>2. (CHOOSE t \in Topics : TRUE) \in Topics
  BY BrokerAssumption
<1>3. (CHOOSE e \in Events : TRUE) \in Events
  BY BrokerAssumption
<1>4. /\ cache \in [Topics -> Seq(Calls)] /\ queue \in [Subs -> Seq(Calls)]
      /\ sent \in [Subs -> Seq(Calls)] /\ received \in [Subs -> Seq(Calls)]
  BY <1>1 DEF Init
<1>5. topicOf \in [Subs -> Topics] /\ event \in [Calls -> Events]
  BY <1>2, <1>3 DEF Init
<1>6. /\ sequence \in 0 .. MaxSubs /\ closerTodo \subseteq Subs
      /\ closerAt \in Subs \cup {NoSub}
  BY BrokerAssumption DEF Init
<1>9. closed \in BOOLEAN /\ draining \in BOOLEAN /\ discard \in [Subs -> BOOLEAN]
  BY DEF Init
<1>7. /\ topics \in [Topics -> SUBSET Subs] /\ dedup \in [Topics -> SUBSET Keys]
      /\ wg \in [Subs -> SUBSET Calls] /\ todo \in [Calls -> SUBSET Subs]
      /\ targets \in [Calls -> SUBSET Subs] /\ preds \in [Calls -> SUBSET Calls]
  BY DEF Init
<1>8. /\ state \in [Subs -> {"absent", "open", "closing", "closed"}]
      /\ owner \in [Subs -> {"none", "using", "draining", "drained", "closing"}]
      /\ pc \in [Calls -> {"idle", "routing", "select", "returned"}]
      /\ result \in [Calls -> Results]
  BY DEF Init, Results
<1> QED
  BY <1>4, <1>5, <1>6, <1>7, <1>8, <1>9 DEF TypeOK

LEMMA ReturnType ==
    ASSUME TypeOK, NEW p \in Calls, NEW r \in Results, Return(p, r)
    PROVE  /\ pc' \in [Calls -> {"idle", "routing", "select", "returned"}]
           /\ result' \in [Calls -> Results]
  BY DEF Return, TypeOK

LEMMA TypeStep == TypeOK /\ [Next]_vars => TypeOK'
<1> SUFFICES ASSUME TypeOK, [Next]_vars PROVE TypeOK'
  OBVIOUS
<1> USE DEF brokerVars, subVars, closerVars, callVars
<1>1. ASSUME NEW p \in Calls, PublishRefused(p)
      PROVE  TypeOK'
  BY <1>1 DEF PublishRefused, Enters, Return, TypeOK, Results
<1>2. ASSUME NEW p \in Calls, NEW e \in Events, PublishDuplicate(p, e)
      PROVE  TypeOK'
  BY <1>2 DEF PublishDuplicate, Enters, Return, TypeOK, Results
<1>3. ASSUME NEW p \in Calls, NEW e \in Events, PublishCached(p, e)
      PROVE  TypeOK'
  <2>1. cache' \in [Topics -> Seq(Calls)]
    BY <1>3, EventType, CacheEventType DEF PublishCached, TypeOK
  <2>2. dedup' \in [Topics -> SUBSET Keys]
    BY <1>3, EventType, RememberType DEF PublishCached, TypeOK
  <2> QED
    BY <1>3, <2>1, <2>2 DEF PublishCached, Enters, Return, TypeOK, Results
<1>4. ASSUME NEW p \in Calls, NEW e \in Events, PublishRoute(p, e)
      PROVE  TypeOK'
  <2>1. topics[e.topic] \in SUBSET Subs
    BY EventType DEF TypeOK
  <2> QED
    BY <1>4, <2>1 DEF PublishRoute, Enters, TypeOK
<1>5. ASSUME NEW p \in Calls, NEW s \in Subs, EnqueueBegin(p, s)
      PROVE  TypeOK'
  <2>1. CASE state[s] = "open"
    <3>1. wg' \in [Subs -> SUBSET Calls]
      <4>1. wg' = [wg EXCEPT ![s] = @ \cup {p}]
        BY <1>5, <2>1 DEF EnqueueBegin
      <4> QED
        BY <4>1 DEF TypeOK
    <3>2. pc' \in [Calls -> {"idle", "routing", "select", "returned"}]
      BY <1>5, <2>1, SMTT(30) DEF EnqueueBegin, TypeOK
    <3>3. UNCHANGED <<brokerVars, topicOf, state, queue, discard, owner,
                      closerVars, event, todo, result, targets, preds, sent, received>>
      BY <1>5, <2>1 DEF EnqueueBegin
    <3> QED
      BY <3>1, <3>2, <3>3 DEF TypeOK
  <2>2. CASE state[s] # "open"
    <3>1. Return(p, "ErrSubscription")
      BY <1>5, <2>2 DEF EnqueueBegin
    <3>2. UNCHANGED <<brokerVars, subVars, owner, closerVars, event, todo,
                      targets, preds, sent, received>>
      BY <1>5, <2>2 DEF EnqueueBegin
    <3> QED
      BY <3>1, <3>2, ReturnType DEF TypeOK, Results
  <2> QED
    BY <2>1, <2>2
<1>6. ASSUME NEW p \in Calls, NEW s \in Subs, EnqueueSend(p, s)
      PROVE  TypeOK'
  <2>1. /\ queue' \in [Subs -> Seq(Calls)]
        /\ sent' \in [Subs -> Seq(Calls)]
    BY <1>6, AppendProperties DEF EnqueueSend, TypeOK
  <2>2. wg' \in [Subs -> SUBSET Calls] /\ todo' \in [Calls -> SUBSET Subs]
    BY <1>6 DEF EnqueueSend, TypeOK
  <2>3. pc' \in [Calls -> {"idle", "routing", "select", "returned"}]
    BY <1>6 DEF EnqueueSend, TypeOK
  <2>4. UNCHANGED <<brokerVars, topicOf, state, discard, owner, closerVars,
                    event, result, targets, preds, received>>
    BY <1>6 DEF EnqueueSend
  <2> QED
    BY <2>1, <2>2, <2>3, <2>4 DEF TypeOK
<1>7. ASSUME NEW p \in Calls, NEW s \in Subs, EnqueueFail(p, s)
      PROVE  TypeOK'
  <2>1. SelectErrors(s) \subseteq Results
    BY DEF SelectErrors, Results
  <2>2. PICK err \in Results : Return(p, err)
    BY <1>7, <2>1 DEF EnqueueFail
  <2>3. wg' \in [Subs -> SUBSET Calls]
    BY <1>7 DEF EnqueueFail, TypeOK
  <2>4. UNCHANGED <<brokerVars, topicOf, state, queue, discard, owner,
                    closerVars, event, todo, targets, preds, sent, received>>
    BY <1>7 DEF EnqueueFail
  <2> QED
    BY <2>2, <2>3, <2>4, ReturnType DEF TypeOK
<1>8. ASSUME NEW p \in Calls, PublishFinish(p)
      PROVE  TypeOK'
  <2>1. dedup' \in [Topics -> SUBSET Keys]
    BY <1>8, EventType, RememberType DEF PublishFinish, TypeOK
  <2> QED
    BY <1>8, <2>1 DEF PublishFinish, Return, TypeOK, Results
<1>9. ASSUME NEW s \in Subs, NEW t \in Topics, Subscribe(s, t)
      PROVE  TypeOK'
  <2> DEFINE replay == SubSeq(cache[t], 1, Replayed(t))
             rest   == SubSeq(cache[t], Replayed(t) + 1, Len(cache[t]))
  <2>1. /\ cache[t] \in Seq(Calls) /\ Len(cache[t]) \in Nat
        /\ \A i \in 1 .. Len(cache[t]) : cache[t][i] \in Calls
    BY LenProperties, ElementOfSeq DEF TypeOK
  <2>2. SubscribeEffects(s, t)
    BY <1>9, SubscribeEffect
  <2>3. replay \in Seq(Calls) /\ rest \in Seq(Calls)
    <3>1. Replayed(t) \in 0 .. Len(cache[t])
      BY <2>2 DEF SubscribeEffects
    <3>2. replay \in Seq(Calls)
      BY <2>1, <3>1, SubSeqProperties
    <3>3. rest \in Seq(Calls)
      BY <2>1, <3>1, SubSeqProperties
    <3> QED
      BY <3>2, <3>3
  <2>4. /\ queue' = [queue EXCEPT ![s] = replay]
        /\ sent' = [sent EXCEPT ![s] = replay]
        /\ cache' = [cache EXCEPT ![t] = rest]
    BY <2>2 DEF SubscribeEffects
  <2> HIDE DEF replay, rest
  <2>5. /\ queue' \in [Subs -> Seq(Calls)]
        /\ sent' \in [Subs -> Seq(Calls)]
        /\ cache' \in [Topics -> Seq(Calls)]
    BY <2>3, <2>4 DEF TypeOK
  <2>6. topics' \in [Topics -> SUBSET Subs]
    BY <2>2 DEF SubscribeEffects, TypeOK
  <2>7. sequence' \in 0 .. MaxSubs
    BY <2>2, BrokerAssumption DEF SubscribeEffects
  <2>8. /\ topicOf' \in [Subs -> Topics]
        /\ state' \in [Subs -> {"absent", "open", "closing", "closed"}]
        /\ owner' \in [Subs -> {"none", "using", "draining", "drained", "closing"}]
    BY <2>2 DEF SubscribeEffects, TypeOK
  <2>9. UNCHANGED <<closed, draining, dedup, wg, discard, closerVars, callVars, received>>
    BY <2>2 DEF SubscribeEffects
  <2> QED
    BY <2>5, <2>6, <2>7, <2>8, <2>9 DEF TypeOK
<1>10. ASSUME NEW s \in Subs, Receive(s)
       PROVE  TypeOK'
  <2>1. Head(queue[s]) \in Calls /\ Tail(queue[s]) \in Seq(Calls)
    BY <1>10, HeadTailProperties DEF Receive, TypeOK
  <2>2. Append(received[s], Head(queue[s])) \in Seq(Calls)
    BY <2>1, AppendProperties DEF TypeOK
  <2> QED
    BY <1>10, <2>1, <2>2 DEF Receive, TypeOK
<1>11. ASSUME NEW s \in Subs,
              Drain(s) \/ DrainTick(s) \/ DrainTimeout(s) \/ CloseDeregister(s)
       PROVE  TypeOK'
  <2>1. CASE Drain(s)
    BY <2>1 DEF Drain, OwnerMoves, TypeOK
  <2>2. CASE DrainTick(s) \/ DrainTimeout(s)
    BY <2>2 DEF DrainTick, DrainTimeout, OwnerMoves, TypeOK
  <2>3. CASE CloseDeregister(s)
    <3>1. topics' \in [Topics -> SUBSET Subs]
      BY <2>3 DEF CloseDeregister, TypeOK
    <3> QED
      BY <2>3, <3>1 DEF CloseDeregister, OwnerMoves, TypeOK
  <2> QED
    BY <1>11, <2>1, <2>2, <2>3
<1>12. ASSUME NEW s \in Subs, CloseEnter(s) \/ CloseEvents(s)
       PROVE  TypeOK'
  BY <1>12 DEF CloseEnter, CloseEvents, TypeOK
<1>13. ASSUME NEW s \in Subs, CloseDiscard(s)
       PROVE  TypeOK'
  <2>1. Tail(queue[s]) \in Seq(Calls)
    BY <1>13, HeadTailProperties DEF CloseDiscard, TypeOK
  <2> QED
    BY <1>13, <2>1 DEF CloseDiscard, TypeOK
<1>14. ASSUME BeginShutdown \/ BrokerClose
       PROVE  TypeOK'
  <2>1. CASE BeginShutdown
    BY <2>1 DEF BeginShutdown, TypeOK
  <2>2. CASE BrokerClose
    <3>1. topics' \in [Topics -> SUBSET Subs] /\ closerTodo' \subseteq Subs
      BY <2>2, SMTT(60) DEF BrokerClose, TypeOK
    <3> QED
      BY <2>2, <3>1 DEF BrokerClose, TypeOK
  <2> QED
    BY <1>14, <2>1, <2>2
<1>15. ASSUME NEW s \in Subs, CloserEnter(s)
       PROVE  TypeOK'
  BY <1>15 DEF CloserEnter, TypeOK
<1>16. CASE CloserNext
  BY <1>16 DEF CloserNext, TypeOK
<1>17. CASE UNCHANGED vars
  BY <1>17 DEF vars, TypeOK
<1> QED
  BY <1>1, <1>2, <1>3, <1>4, <1>5, <1>6, <1>7, <1>8, <1>9, <1>10, <1>11, <1>12,
     <1>13, <1>14, <1>15, <1>16, <1>17
  DEF Next, PublishStart, PublishStep, OwnerStep, CloseBody, CloserStep

\* Every variable of the broker, its subscriptions and the calls on them keeps
\* its type, whatever the configuration given to New.
THEOREM TypeCorrect == Spec => []TypeOK
  BY TypeInit, TypeStep, PTL DEF Spec

-----------------------------------------------------------------------------
(* The life of a subscription *)

\* Not subscribed yet: the numbers above Broker.sequence.
Fresh(s) ==
    /\ state[s] = "absent" /\ owner[s] = "none" /\ wg[s] = {}
    /\ sent[s] = <<>> /\ received[s] = <<>> /\ queue[s] = <<>>

FreshInv == \A s \in Subs : s > sequence => Fresh(s)

LEMMA FreshInit == Init => FreshInv
  BY DEF Init, FreshInv, Fresh

LEMMA FreshNumber ==
    ASSUME TypeOK, FreshInv, NEW s \in Subs, s = sequence + 1
    PROVE  Fresh(s)
<1>1. sequence \in Nat
  BY DEF TypeOK
<1> QED
  BY <1>1 DEF FreshInv

LEMMA FreshStep == TypeOK /\ FreshInv /\ [Next]_vars => FreshInv'
<1> SUFFICES ASSUME TypeOK, FreshInv, [Next]_vars,
                    NEW r \in Subs, r > sequence'
             PROVE  Fresh(r)'
  BY DEF FreshInv
<1> USE DEF brokerVars, subVars, closerVars, callVars
<1>0. sequence \in Nat /\ (r > sequence => Fresh(r))
  BY SMTT(30) DEF FreshInv, TypeOK
<1>d. /\ DOMAIN state = Subs /\ DOMAIN owner = Subs /\ DOMAIN wg = Subs
      /\ DOMAIN sent = Subs /\ DOMAIN received = Subs /\ DOMAIN queue = Subs
  BY DEF TypeOK
<1>1. ASSUME NEW p \in Calls, NEW e \in Events,
             \/ PublishRefused(p) \/ PublishDuplicate(p, e) \/ PublishCached(p, e)
             \/ PublishRoute(p, e) \/ PublishFinish(p)
      PROVE  Fresh(r)'
  BY <1>0, <1>d, <1>1 DEF PublishRefused, PublishDuplicate, PublishCached, PublishRoute,
                    PublishFinish, Fresh
<1>2. ASSUME NEW p \in Calls, NEW s \in Subs,
             EnqueueBegin(p, s) \/ EnqueueSend(p, s) \/ EnqueueFail(p, s)
      PROVE  Fresh(r)'
  <2>1. Fresh(r)
    BY <1>0, <1>d, <1>2 DEF EnqueueBegin, EnqueueSend, EnqueueFail
  <2>2. CASE EnqueueBegin(p, s)
    BY <1>d, <2>1, <2>2 DEF EnqueueBegin, Fresh
  <2>3. CASE EnqueueSend(p, s) \/ EnqueueFail(p, s)
    BY <1>d, <2>1, <2>3 DEF EnqueueSend, EnqueueFail, Fresh
  <2> QED
    BY <1>2, <2>2, <2>3
<1>3. ASSUME NEW s \in Subs, NEW t \in Topics, Subscribe(s, t)
      PROVE  Fresh(r)'
  <2>1. SubscribeEffects(s, t)
    BY <1>3, SubscribeEffect
  <2>2. s = sequence + 1 /\ sequence' = s
    BY <2>1 DEF SubscribeEffects
  <2>3. Fresh(r) /\ r # s
    BY <1>0, <2>2
  <2>4. /\ state'[r] = state[r] /\ owner'[r] = owner[r] /\ wg' = wg
        /\ sent'[r] = sent[r] /\ received' = received /\ queue'[r] = queue[r]
    BY <1>d, <2>1, <2>3 DEF SubscribeEffects
  <2> QED
    BY <2>3, <2>4 DEF Fresh
<1>4. ASSUME NEW s \in Subs, Receive(s) \/ CloseDiscard(s)
      PROVE  Fresh(r)'
  BY <1>0, <1>d, <1>4 DEF Receive, CloseDiscard, Fresh
<1>5. ASSUME NEW s \in Subs,
             Drain(s) \/ DrainTick(s) \/ DrainTimeout(s) \/ CloseDeregister(s)
      PROVE  Fresh(r)'
  BY <1>0, <1>d, <1>5 DEF Drain, DrainTick, DrainTimeout, CloseDeregister, OwnerMoves, Fresh
<1>6. ASSUME NEW s \in Subs, CloseEnter(s) \/ CloseEvents(s) \/ CloserEnter(s)
      PROVE  Fresh(r)'
  BY <1>0, <1>d, <1>6 DEF CloseEnter, CloseEvents, CloserEnter, Fresh
<1>7. CASE BeginShutdown \/ BrokerClose \/ CloserNext \/ UNCHANGED vars
  BY <1>0, <1>d, <1>7 DEF BeginShutdown, BrokerClose, CloserNext, vars, Fresh
<1> QED
  BY <1>1, <1>2, <1>3, <1>4, <1>5, <1>6, <1>7, BrokerAssumption
  DEF Next, PublishStart, PublishStep, OwnerStep, CloseBody, CloserStep

\* RoutesOnlyToOpen is inductive with the reasons why a subscription that
\* begins to close is in no topic: its owner has taken it out, or Broker.Close
\* has taken out all of them and Subscribe is refused from then on.
LifeInv ==
    /\ RoutesOnlyToOpen
    /\ \A s \in Subs : owner[s] = "closing" => \A t \in Topics : s \notin topics[t]
    /\ closed => \A t \in Topics : topics[t] = {}
    /\ ~closed => closerTodo = {}

LEMMA LifeInit == Init => LifeInv
  BY DEF Init, LifeInv, RoutesOnlyToOpen

LEMMA LifeSame ==
    ASSUME LifeInv, UNCHANGED <<closed, topics, topicOf, state, owner, closerTodo>>
    PROVE  LifeInv'
  BY DEF LifeInv, RoutesOnlyToOpen

LEMMA LifeStep == TypeOK /\ FreshInv /\ LifeInv /\ [Next]_vars => LifeInv'
<1> SUFFICES ASSUME TypeOK, FreshInv, LifeInv, [Next]_vars PROVE LifeInv'
  OBVIOUS
<1> USE DEF brokerVars, subVars, closerVars, callVars
<1>d. /\ DOMAIN state = Subs /\ DOMAIN owner = Subs /\ DOMAIN topicOf = Subs
      /\ topics \in [Topics -> SUBSET Subs]
  BY DEF TypeOK
<1>1. ASSUME NEW p \in Calls, NEW e \in Events,
             \/ PublishRefused(p) \/ PublishDuplicate(p, e) \/ PublishCached(p, e)
             \/ PublishRoute(p, e) \/ PublishFinish(p)
      PROVE  LifeInv'
  <2>1. UNCHANGED <<closed, topics, topicOf, state, owner, closerTodo>>
    BY <1>1 DEF PublishRefused, PublishDuplicate, PublishCached, PublishRoute,
                PublishFinish
  <2> QED
    BY <2>1, LifeSame
<1>2. ASSUME NEW p \in Calls, NEW s \in Subs,
             EnqueueBegin(p, s) \/ EnqueueSend(p, s) \/ EnqueueFail(p, s)
      PROVE  LifeInv'
  <2>1. UNCHANGED <<closed, topics, topicOf, state, owner, closerTodo>>
    BY <1>2 DEF EnqueueBegin, EnqueueSend, EnqueueFail
  <2> QED
    BY <2>1, LifeSame
<1>3. ASSUME NEW s \in Subs, NEW t \in Topics, Subscribe(s, t)
      PROVE  LifeInv'
  <2>1. SubscribeEffects(s, t)
    BY <1>3, SubscribeEffect
  <2>2. Fresh(s)
    BY <2>1, FreshNumber DEF SubscribeEffects
  <2>3. \A u \in Topics : s \notin topics[u]
    BY <2>2 DEF LifeInv, RoutesOnlyToOpen, Fresh
  <2>4. RoutesOnlyToOpen'
    BY <1>d, <2>1, <2>3, SMTT(60) DEF SubscribeEffects, LifeInv, RoutesOnlyToOpen
  <2>5. \A r \in Subs : owner'[r] = "closing" => \A u \in Topics : r \notin topics'[u]
    BY <1>d, <2>1 DEF SubscribeEffects, LifeInv
  <2> QED
    BY <2>1, <2>4, <2>5 DEF SubscribeEffects, LifeInv
<1>4. ASSUME NEW s \in Subs, Receive(s) \/ CloseDiscard(s) \/ CloseEvents(s)
      PROVE  LifeInv'
  <2>1. CASE Receive(s) \/ CloseDiscard(s)
    <3>1. UNCHANGED <<closed, topics, topicOf, state, owner, closerTodo>>
      BY <2>1 DEF Receive, CloseDiscard
    <3> QED
      BY <3>1, LifeSame
  <2>2. CASE CloseEvents(s)
    BY <1>d, <2>2 DEF CloseEvents, LifeInv, RoutesOnlyToOpen
  <2> QED
    BY <1>4, <2>1, <2>2
<1>5. ASSUME NEW s \in Subs, Drain(s) \/ DrainTick(s) \/ DrainTimeout(s)
      PROVE  LifeInv'
  <2>1. \A r \in Subs : owner'[r] = "closing" => owner[r] = "closing"
    BY <1>d, <1>5 DEF Drain, DrainTick, DrainTimeout, OwnerMoves
  <2>2. UNCHANGED <<brokerVars, subVars, closerVars>>
    BY <1>5 DEF Drain, DrainTick, DrainTimeout
  <2> QED
    BY <2>1, <2>2 DEF LifeInv, RoutesOnlyToOpen
<1>6. ASSUME NEW s \in Subs, CloseDeregister(s)
      PROVE  LifeInv'
  <2>1. \A t \in Topics : topics'[t] \subseteq topics[t] /\ s \notin topics'[t]
    BY <1>d, <1>6 DEF CloseDeregister, LifeInv, RoutesOnlyToOpen
  <2> QED
    BY <1>d, <1>6, <2>1, SMTT(60) DEF CloseDeregister, OwnerMoves, LifeInv, RoutesOnlyToOpen
<1>7. ASSUME NEW s \in Subs, CloseEnter(s)
      PROVE  LifeInv'
  BY <1>d, <1>7 DEF CloseEnter, LifeInv, RoutesOnlyToOpen
<1>8. CASE BeginShutdown \/ BrokerClose \/ CloserNext \/ UNCHANGED vars
  <2>1. CASE BeginShutdown \/ UNCHANGED vars
    <3>1. UNCHANGED <<closed, topics, topicOf, state, owner, closerTodo>>
      BY <2>1 DEF BeginShutdown, vars
    <3> QED
      BY <3>1, LifeSame
  <2>2. CASE BrokerClose
    BY <2>2 DEF BrokerClose, LifeInv, RoutesOnlyToOpen
  <2>3. CASE CloserNext
    BY <2>3 DEF CloserNext, LifeInv, RoutesOnlyToOpen
  <2> QED
    BY <1>8, <2>1, <2>2, <2>3
<1>9. ASSUME NEW s \in Subs, CloserEnter(s)
      PROVE  LifeInv'
  <2>1. closed /\ \A t \in Topics : topics[t] = {}
    BY <1>9 DEF CloserEnter, LifeInv, TypeOK
  <2> QED
    BY <1>d, <1>9, <2>1 DEF CloserEnter, LifeInv, RoutesOnlyToOpen
<1> QED
  BY <1>1, <1>2, <1>3, <1>4, <1>5, <1>6, <1>7, <1>8, <1>9, BrokerAssumption
  DEF Next, PublishStart, PublishStep, OwnerStep, CloseBody, CloserStep

\* A Publish never finds a subscription that has begun to close, nor one of
\* another topic, although Subscription.Close, Broker.Close and Subscribe run
\* concurrently.
THEOREM RoutesOnlyToOpenHolds == Spec => []RoutesOnlyToOpen
<1>1. Init => TypeOK /\ FreshInv /\ LifeInv
  BY TypeInit, FreshInit, LifeInit
<1>2. TypeOK /\ FreshInv /\ LifeInv /\ [Next]_vars => (TypeOK /\ FreshInv /\ LifeInv)'
  BY TypeStep, FreshStep, LifeStep
<1>3. LifeInv => RoutesOnlyToOpen
  BY DEF LifeInv
<1> QED
  BY <1>1, <1>2, <1>3, PTL DEF Spec

-----------------------------------------------------------------------------
(* Closing a channel *)

LEMMA NoSendStep == TypeOK /\ NoSendOnClosedChannel /\ [Next]_vars
                      => NoSendOnClosedChannel'
<1> SUFFICES ASSUME TypeOK, [Next]_vars,
                    NEW r \in Subs, state[r] = "closed" => wg[r] = {},
                    state'[r] = "closed"
             PROVE  wg'[r] = {}
  BY DEF NoSendOnClosedChannel
<1> USE DEF brokerVars, subVars, closerVars, callVars
<1>d. DOMAIN state = Subs /\ DOMAIN wg = Subs
  BY DEF TypeOK
<1>1. ASSUME NEW p \in Calls, NEW e \in Events,
             \/ PublishRefused(p) \/ PublishDuplicate(p, e) \/ PublishCached(p, e)
             \/ PublishRoute(p, e) \/ PublishFinish(p)
      PROVE  wg'[r] = {}
  BY <1>1 DEF PublishRefused, PublishDuplicate, PublishCached, PublishRoute, PublishFinish
<1>2. ASSUME NEW p \in Calls, NEW s \in Subs,
             EnqueueBegin(p, s) \/ EnqueueSend(p, s) \/ EnqueueFail(p, s)
      PROVE  wg'[r] = {}
  BY <1>d, <1>2 DEF EnqueueBegin, EnqueueSend, EnqueueFail
<1>3. ASSUME NEW s \in Subs, NEW t \in Topics, Subscribe(s, t)
      PROVE  wg'[r] = {}
  BY <1>d, <1>3 DEF Subscribe
<1>4. ASSUME NEW s \in Subs,
             \/ Receive(s) \/ CloseDiscard(s) \/ CloseEnter(s) \/ CloserEnter(s)
             \/ CloseEvents(s)
      PROVE  wg'[r] = {}
  BY <1>d, <1>4 DEF Receive, CloseDiscard, CloseEnter, CloserEnter, CloseEvents
<1>5. ASSUME NEW s \in Subs,
             Drain(s) \/ DrainTick(s) \/ DrainTimeout(s) \/ CloseDeregister(s)
      PROVE  wg'[r] = {}
  BY <1>5 DEF Drain, DrainTick, DrainTimeout, CloseDeregister
<1>6. CASE BeginShutdown \/ BrokerClose \/ CloserNext \/ UNCHANGED vars
  BY <1>6 DEF BeginShutdown, BrokerClose, CloserNext, vars
<1> QED
  BY <1>1, <1>2, <1>3, <1>4, <1>5, <1>6, BrokerAssumption
  DEF Next, PublishStart, PublishStep, OwnerStep, CloseBody, CloserStep

\* No publisher ever sends on a closed events channel: when close reaches
\* close(s.events), every publisher that passed the closed test of enqueue has
\* left its select, and no later one passes it.
THEOREM NoSendOnClosedChannelHolds == Spec => []NoSendOnClosedChannel
<1>1. Init => TypeOK /\ NoSendOnClosedChannel
  BY TypeInit DEF Init, NoSendOnClosedChannel
<1>2. TypeOK /\ NoSendOnClosedChannel /\ [Next]_vars
        => (TypeOK /\ NoSendOnClosedChannel)'
  BY TypeStep, NoSendStep
<1> QED
  BY <1>1, <1>2, PTL DEF Spec

-----------------------------------------------------------------------------
(* What a subscription was sent, and what it can read *)

LEMMA MoveHead ==
    ASSUME NEW S, NEW r \in Seq(S), NEW q \in Seq(S), q # <<>>
    PROVE  Append(r, Head(q)) \o Tail(q) = r \o q
<1> DEFINE a == Append(r, Head(q))
<1>1. /\ Head(q) \in S /\ Head(q) = q[1] /\ Tail(q) \in Seq(S)
      /\ Len(q) \in Nat \ {0} /\ Len(r) \in Nat
      /\ Len(Tail(q)) = Len(q) - 1
      /\ \A i \in 1 .. Len(Tail(q)) : Tail(q)[i] = q[i + 1]
  BY HeadTailProperties, EmptySeq, LenProperties
<1>2. /\ a \in Seq(S) /\ Len(a) = Len(r) + 1
      /\ \A i \in 1 .. Len(r) : a[i] = r[i]
      /\ a[Len(r) + 1] = q[1]
  BY <1>1, AppendProperties
<1> HIDE DEF a
<1>3. r \o q \in Seq(S) /\ Len(r \o q) = Len(r) + Len(q)
  BY ConcatProperties
<1>6. a \o Tail(q) \in Seq(S) /\ Len(a \o Tail(q)) = Len(a) + Len(Tail(q))
  BY <1>1, <1>2, ConcatProperties
<1>7. Len(a \o Tail(q)) = Len(r \o q)
  BY <1>1, <1>2, <1>3, <1>6
<1>4. ASSUME NEW i \in 1 .. Len(r) + Len(q)
      PROVE  (a \o Tail(q))[i] = (r \o q)[i]
  <2>1. (r \o q)[i] = IF i <= Len(r) THEN r[i] ELSE q[i - Len(r)]
    BY ConcatProperties
  <2>2. (a \o Tail(q))[i] = IF i <= Len(r) + 1 THEN a[i] ELSE Tail(q)[i - (Len(r) + 1)]
    <3> DEFINE b == Tail(q)
    <3>1. b \in Seq(S) /\ i \in 1 .. Len(a) + Len(b)
      BY <1>1, <1>2
    <3> HIDE DEF b
    <3>2. (a \o b)[i] = IF i <= Len(a) THEN a[i] ELSE b[i - Len(a)]
      BY <1>2, <3>1, ConcatProperties, SMTT(30)
    <3> QED
      BY <1>2, <3>2 DEF b
  <2>3. CASE i <= Len(r)
    BY <1>1, <1>2, <2>1, <2>2, <2>3
  <2>4. CASE i = Len(r) + 1
    BY <1>1, <1>2, <2>1, <2>2, <2>4
  <2>5. CASE i > Len(r) + 1
    <3> DEFINE k == i - (Len(r) + 1)
    <3>1. /\ k \in 1 .. Len(Tail(q)) /\ k + 1 = i - Len(r)
          /\ ~(i <= Len(r) + 1) /\ ~(i <= Len(r))
      BY <1>1, <2>5
    <3>2. (a \o Tail(q))[i] = Tail(q)[k] /\ (r \o q)[i] = q[i - Len(r)]
      BY <2>1, <2>2, <3>1
    <3> HIDE DEF k
    <3>3. Tail(q)[k] = q[k + 1]
      BY <1>1, <3>1
    <3> QED
      BY <3>1, <3>2, <3>3
  <2>6. i \in Nat /\ Len(r) \in Nat
    BY <1>1
  <2>7. i <= Len(r) \/ i = Len(r) + 1 \/ i > Len(r) + 1
    BY <2>6
  <2> QED
    BY <2>3, <2>4, <2>5, <2>7
<1>5. a \o Tail(q) = r \o q
  BY <1>3, <1>4, <1>6, <1>7, SeqEqual
<1> QED
  BY <1>5 DEF a

LEMMA AppendRight ==
    ASSUME NEW r \in Seq(Calls), NEW q \in Seq(Calls), NEW x \in Calls,
           r \o q \in Seq(Calls)
    PROVE  Append(r \o q, x) = r \o Append(q, x)
<1> HIDE DEF Calls
<1>1. <<x>> \in Seq(Calls)
  OBVIOUS
<1>2. Append(r \o q, x) = (r \o q) \o <<x>> /\ Append(q, x) = q \o <<x>>
  BY AppendIsConcat
<1> QED
  BY <1>1, <1>2, ConcatAssociative

\* StreamIntact is inductive with the fact that a subscription not yet closed
\* by anyone is not one whose events Broker.Close throws away.
StreamInv ==
    /\ StreamIntact
    /\ \A s \in Subs : state[s] \in {"absent", "open"} => ~discard[s]

LEMMA StreamInit == Init => StreamInv
<1>1. <<>> \o <<>> = <<>>
  BY EmptySeq, ConcatEmptySeq
<1> SUFFICES ASSUME Init, NEW s \in Subs
             PROVE  /\ sent[s] = received[s] \o queue[s]
                    /\ ~discard[s]
  BY DEF StreamInv, StreamIntact
<1>2. sent[s] = <<>> /\ received[s] = <<>> /\ queue[s] = <<>>
  BY DEF Init
<1>3. ~discard[s]
  BY DEF Init
<1> QED
  BY <1>1, <1>2, <1>3

LEMMA StreamStep == TypeOK /\ FreshInv /\ StreamInv /\ [Next]_vars => StreamInv'
<1> SUFFICES ASSUME TypeOK, FreshInv, [Next]_vars, NEW r \in Subs,
                    ~discard[r] => sent[r] = received[r] \o queue[r],
                    state[r] \in {"absent", "open"} => ~discard[r]
             PROVE  /\ ~discard'[r] => sent'[r] = received'[r] \o queue'[r]
                    /\ state'[r] \in {"absent", "open"} => ~discard'[r]
  BY DEF StreamInv, StreamIntact
<1> USE DEF brokerVars, subVars, closerVars, callVars
<1> DEFINE Goal == /\ ~discard'[r] => sent'[r] = received'[r] \o queue'[r]
                   /\ state'[r] \in {"absent", "open"} => ~discard'[r]
<1>d. /\ DOMAIN state = Subs /\ DOMAIN discard = Subs
      /\ DOMAIN sent = Subs /\ DOMAIN received = Subs /\ DOMAIN queue = Subs
      /\ sent[r] \in Seq(Calls) /\ received[r] \in Seq(Calls)
      /\ queue[r] \in Seq(Calls)
  BY DEF TypeOK
<1>1. ASSUME NEW p \in Calls, NEW e \in Events,
             \/ PublishRefused(p) \/ PublishDuplicate(p, e) \/ PublishCached(p, e)
             \/ PublishRoute(p, e) \/ PublishFinish(p)
      PROVE  Goal
  BY <1>1 DEF PublishRefused, PublishDuplicate, PublishCached, PublishRoute, PublishFinish
<1>2. ASSUME NEW p \in Calls, NEW s \in Subs, EnqueueBegin(p, s) \/ EnqueueFail(p, s)
      PROVE  Goal
  BY <1>2 DEF EnqueueBegin, EnqueueFail
<1>3. ASSUME NEW p \in Calls, NEW s \in Subs, EnqueueSend(p, s)
      PROVE  Goal
  <2> HIDE DEF Calls
  <2>1. ~discard[r] => Append(sent[r], p) = received[r] \o Append(queue[r], p)
    <3> SUFFICES ASSUME ~discard[r]
                 PROVE  Append(sent[r], p) = received[r] \o Append(queue[r], p)
      OBVIOUS
    <3>1. sent[r] = received[r] \o queue[r]
      OBVIOUS
    <3>2. /\ sent[r] \in Seq(Calls) /\ received[r] \in Seq(Calls)
          /\ queue[r] \in Seq(Calls) /\ p \in Calls
      BY <1>d
    <3>3. Append(received[r] \o queue[r], p) = received[r] \o Append(queue[r], p)
      BY <3>1, <3>2, AppendRight
    <3> QED
      BY <3>1, <3>3
  <2> QED
    BY <1>d, <1>3, <2>1 DEF EnqueueSend
<1>4. ASSUME NEW s \in Subs, NEW t \in Topics, Subscribe(s, t)
      PROVE  Goal
  <2>1. SubscribeEffects(s, t)
    BY <1>4, SubscribeEffect
  <2>2. CASE r # s
    BY <1>d, <2>1, <2>2 DEF SubscribeEffects
  <2>3. CASE r = s
    <3>1. Fresh(s)
      BY <2>1, FreshNumber DEF SubscribeEffects
    <3>2. sent'[s] = queue'[s]
      BY <1>d, <2>1 DEF SubscribeEffects
    <3>4. queue'[s] \in Seq(Calls)
      <4>1. TypeOK'
        BY TypeStep
      <4> QED
        BY <4>1 DEF TypeOK
    <3>3. received'[s] \o queue'[s] = queue'[s]
      BY <2>1, <3>1, <3>4, ConcatEmptySeq DEF SubscribeEffects, Fresh
    <3> QED
      BY <2>1, <2>3, <3>1, <3>2, <3>3 DEF SubscribeEffects, Fresh
  <2> QED
    BY <2>2, <2>3
<1>5. ASSUME NEW s \in Subs, Receive(s)
      PROVE  Goal
  <2>1. queue[r] # <<>> =>
          Append(received[r], Head(queue[r])) \o Tail(queue[r]) = received[r] \o queue[r]
    BY <1>d, MoveHead
  <2> QED
    BY <1>d, <1>5, <2>1 DEF Receive
<1>6. ASSUME NEW s \in Subs, CloseDiscard(s)
      PROVE  Goal
  BY <1>d, <1>6 DEF CloseDiscard
<1>7. ASSUME NEW s \in Subs, CloseEnter(s) \/ CloserEnter(s) \/ CloseEvents(s)
      PROVE  Goal
  BY <1>d, <1>7 DEF CloseEnter, CloserEnter, CloseEvents
<1>8. ASSUME NEW s \in Subs,
             Drain(s) \/ DrainTick(s) \/ DrainTimeout(s) \/ CloseDeregister(s)
      PROVE  Goal
  BY <1>8 DEF Drain, DrainTick, DrainTimeout, CloseDeregister
<1>9. CASE BeginShutdown \/ BrokerClose \/ CloserNext \/ UNCHANGED vars
  BY <1>9 DEF BeginShutdown, BrokerClose, CloserNext, vars
<1> QED
  BY <1>1, <1>2, <1>3, <1>4, <1>5, <1>6, <1>7, <1>8, <1>9, BrokerAssumption
  DEF Next, PublishStart, PublishStep, OwnerStep, CloseBody, CloserStep

\* Unless Broker.Close throws its events away, whatever was put into the queue
\* of a subscription has been read or can still be read, in order: Drain and
\* Subscription.Close lose nothing, also when they race with publishers.
THEOREM StreamIntactHolds == Spec => []StreamIntact
<1>1. Init => TypeOK /\ FreshInv /\ StreamInv
  BY TypeInit, FreshInit, StreamInit
<1>2. TypeOK /\ FreshInv /\ StreamInv /\ [Next]_vars => (TypeOK /\ FreshInv /\ StreamInv)'
  BY TypeStep, FreshStep, StreamStep
<1>3. StreamInv => StreamIntact
  BY DEF StreamInv
<1> QED
  BY <1>1, <1>2, <1>3, PTL DEF Spec

-----------------------------------------------------------------------------
(* What a Publish call promises: who gets its event, in which order, and   *)
(* when it is and must be answered with Duplicate                          *)

HIDE DEF Subs, Calls, NoSub

-----------------------------------------------------------------------------
(* Occurrence in a sequence *)

LEMMA OccursEmpty == ASSUME NEW p PROVE ~Occurs(p, <<>>)
  BY DEF Occurs

LEMMA OccursAppend ==
    ASSUME NEW S, NEW seq \in Seq(S), NEW x \in S, NEW p
    PROVE  Occurs(p, Append(seq, x)) <=> Occurs(p, seq) \/ p = x
<1>1. /\ Len(seq) \in Nat /\ Len(Append(seq, x)) = Len(seq) + 1
      /\ \A i \in 1 .. Len(seq) : Append(seq, x)[i] = seq[i]
      /\ Append(seq, x)[Len(seq) + 1] = x
  BY AppendProperties, LenProperties
<1> QED
  BY <1>1 DEF Occurs

LEMMA OccursTail ==
    ASSUME NEW S, NEW seq \in Seq(S), seq # <<>>, NEW p, Occurs(p, Tail(seq))
    PROVE  Occurs(p, seq)
<1>1. /\ Len(seq) \in Nat /\ Len(Tail(seq)) = Len(seq) - 1
      /\ \A i \in 1 .. Len(Tail(seq)) : Tail(seq)[i] = seq[i + 1]
  BY HeadTailProperties, LenProperties
<1> QED
  BY <1>1 DEF Occurs

LEMMA SubSeqShift ==
    ASSUME NEW S, NEW seq \in Seq(S),
           NEW m \in 1 .. Len(seq) + 1, NEW n \in 0 .. Len(seq)
    PROVE  /\ SubSeq(seq, m, n) \in Seq(S)
           /\ Len(SubSeq(seq, m, n)) = IF m <= n THEN n - m + 1 ELSE 0
           /\ \A i \in 1 .. Len(SubSeq(seq, m, n)) :
                /\ SubSeq(seq, m, n)[i] = seq[m + i - 1]
                /\ m + i - 1 \in m .. n
<1>1. Len(seq) \in Nat /\ \A i \in m .. n : seq[i] \in S
  BY LenProperties, ElementOfSeq
<1>2. /\ SubSeq(seq, m, n) \in Seq(S)
      /\ Len(SubSeq(seq, m, n)) = IF m <= n THEN n - m + 1 ELSE 0
      /\ \A i \in 1 .. n - m + 1 : SubSeq(seq, m, n)[i] = seq[m + i - 1]
  BY <1>1, SubSeqProperties
<1> QED
  BY <1>1, <1>2

-----------------------------------------------------------------------------
(* The course of a call *)

CallInv ==
    \A p \in Calls :
        /\ pc[p] = "idle" => todo[p] = {} /\ targets[p] = {}
        /\ pc[p] # "returned" => result[p] = "none"
        /\ result[p] = "Published" => todo[p] = {}

LEMMA CallInit == Init => CallInv
  BY DEF Init, CallInv

LEMMA CallStep == TypeOK /\ CallInv /\ [Next]_vars => CallInv'
<1> SUFFICES ASSUME TypeOK, CallInv, [Next]_vars PROVE CallInv'
  OBVIOUS
<1> USE DEF brokerVars, subVars, closerVars, callVars
<1>d. /\ DOMAIN pc = Calls /\ DOMAIN todo = Calls
      /\ DOMAIN targets = Calls /\ DOMAIN result = Calls
  BY DEF TypeOK
<1>1. ASSUME NEW p \in Calls, NEW e \in Events,
             PublishRefused(p) \/ PublishDuplicate(p, e) \/ PublishCached(p, e)
      PROVE  CallInv'
  BY <1>d, <1>1 DEF PublishRefused, PublishDuplicate, PublishCached, Enters, Return,
                    CallInv
<1>2. ASSUME NEW p \in Calls, NEW e \in Events, PublishRoute(p, e)
      PROVE  CallInv'
  BY <1>d, <1>2 DEF PublishRoute, Enters, CallInv
<1>3. ASSUME NEW p \in Calls, NEW s \in Subs, EnqueueBegin(p, s)
      PROVE  CallInv'
  BY <1>d, <1>3 DEF EnqueueBegin, Return, CallInv
<1>4. ASSUME NEW p \in Calls, NEW s \in Subs, EnqueueSend(p, s)
      PROVE  CallInv'
  BY <1>d, <1>4 DEF EnqueueSend, CallInv
<1>5. ASSUME NEW p \in Calls, NEW s \in Subs, EnqueueFail(p, s)
      PROVE  CallInv'
  <2>1. "Published" \notin SelectErrors(s)
    BY DEF SelectErrors
  <2> QED
    BY <1>d, <1>5, <2>1 DEF EnqueueFail, Return, CallInv
<1>6. ASSUME NEW p \in Calls, PublishFinish(p)
      PROVE  CallInv'
  BY <1>d, <1>6 DEF PublishFinish, Return, CallInv
<1>7. ASSUME NEW s \in Subs, NEW t \in Topics, Subscribe(s, t)
      PROVE  CallInv'
  BY <1>7 DEF Subscribe, CallInv
<1>8. ASSUME NEW s \in Subs,
             \/ Receive(s) \/ Drain(s) \/ DrainTick(s) \/ DrainTimeout(s)
             \/ CloseDeregister(s) \/ CloseEnter(s) \/ CloseDiscard(s)
             \/ CloseEvents(s) \/ CloserEnter(s)
      PROVE  CallInv'
  BY <1>8 DEF Receive, Drain, DrainTick, DrainTimeout, CloseDeregister, CloseEnter,
              CloseDiscard, CloseEvents, CloserEnter, CallInv
<1>9. CASE BeginShutdown \/ BrokerClose \/ CloserNext \/ UNCHANGED vars
  BY <1>9 DEF BeginShutdown, BrokerClose, CloserNext, vars, CallInv
<1> QED
  BY <1>1, <1>2, <1>3, <1>4, <1>5, <1>6, <1>7, <1>8, <1>9, BrokerAssumption
  DEF Next, PublishStart, PublishStep, OwnerStep, CloseBody, CloserStep

-----------------------------------------------------------------------------
(* A successful Publish has reached every subscriber that it found *)

\* AcceptedReachesAll follows from what holds in the middle of a fan-out: the
\* subscribers that are done with have the event.
ReachInv ==
    \A p \in Calls, s \in Subs :
        s \in targets[p] /\ s \notin todo[p] => Occurs(p, sent[s])

LEMMA ReachInit == Init => ReachInv
  BY DEF Init, ReachInv

LEMMA ReachStep ==
    TypeOK /\ FreshInv /\ CallInv /\ ReachInv /\ [Next]_vars => ReachInv'
<1> SUFFICES ASSUME TypeOK, FreshInv, CallInv, ReachInv, [Next]_vars,
                    NEW q \in Calls, NEW r \in Subs,
                    r \in targets'[q], r \notin todo'[q]
             PROVE  Occurs(q, sent'[r])
  BY DEF ReachInv
<1> USE DEF brokerVars, subVars, closerVars, callVars
<1>0. r \in targets[q] /\ r \notin todo[q] => Occurs(q, sent[r])
  BY DEF ReachInv
<1>d. /\ DOMAIN todo = Calls /\ DOMAIN targets = Calls /\ DOMAIN sent = Subs
      /\ sent[r] \in Seq(Calls)
  BY DEF TypeOK
<1>1. ASSUME NEW p \in Calls, NEW e \in Events,
             \/ PublishRefused(p) \/ PublishDuplicate(p, e) \/ PublishCached(p, e)
             \/ PublishFinish(p)
      PROVE  Occurs(q, sent'[r])
  BY <1>0, <1>1 DEF PublishRefused, PublishDuplicate, PublishCached, PublishFinish
<1>2. ASSUME NEW p \in Calls, NEW e \in Events, PublishRoute(p, e)
      PROVE  Occurs(q, sent'[r])
  BY <1>0, <1>d, <1>2 DEF PublishRoute
<1>3. ASSUME NEW p \in Calls, NEW s \in Subs, EnqueueBegin(p, s) \/ EnqueueFail(p, s)
      PROVE  Occurs(q, sent'[r])
  BY <1>0, <1>3 DEF EnqueueBegin, EnqueueFail
<1>4. ASSUME NEW p \in Calls, NEW s \in Subs, EnqueueSend(p, s)
      PROVE  Occurs(q, sent'[r])
  <2>1. Occurs(q, Append(sent[r], p)) <=> Occurs(q, sent[r]) \/ q = p
    BY <1>d, OccursAppend
  <2>2. sent'[r] = IF r = s THEN Append(sent[r], p) ELSE sent[r]
    BY <1>d, <1>4 DEF EnqueueSend
  <2>3. r \in todo[q] => q = p /\ r = s
    BY <1>d, <1>4 DEF EnqueueSend
  <2>4. r \in targets[q]
    BY <1>4 DEF EnqueueSend
  <2> QED
    BY <1>0, <2>1, <2>2, <2>3, <2>4
<1>5. ASSUME NEW s \in Subs, NEW t \in Topics, Subscribe(s, t)
      PROVE  Occurs(q, sent'[r])
  <2>1. SubscribeEffects(s, t)
    BY <1>5, SubscribeEffect
  <2>2. Occurs(q, sent[r])
    BY <1>0, <2>1 DEF SubscribeEffects
  <2>3. Fresh(s)
    BY <2>1, SMTT(60) DEF SubscribeEffects, FreshInv, TypeOK
  <2>4. r # s
    BY <2>2, <2>3, OccursEmpty DEF Fresh
  <2> QED
    BY <1>d, <2>1, <2>2, <2>4 DEF SubscribeEffects
<1>6. ASSUME NEW s \in Subs,
             \/ Receive(s) \/ Drain(s) \/ DrainTick(s) \/ DrainTimeout(s)
             \/ CloseDeregister(s) \/ CloseEnter(s) \/ CloseDiscard(s)
             \/ CloseEvents(s) \/ CloserEnter(s)
      PROVE  Occurs(q, sent'[r])
  BY <1>0, <1>6 DEF Receive, Drain, DrainTick, DrainTimeout, CloseDeregister,
                    CloseEnter, CloseDiscard, CloseEvents, CloserEnter
<1>7. CASE BeginShutdown \/ BrokerClose \/ CloserNext \/ UNCHANGED vars
  BY <1>0, <1>7 DEF BeginShutdown, BrokerClose, CloserNext, vars
<1> QED
  BY <1>1, <1>2, <1>3, <1>4, <1>5, <1>6, <1>7, BrokerAssumption
  DEF Next, PublishStart, PublishStep, OwnerStep, CloseBody, CloserStep

\* A Publish that reported success has put its event into the queue of every
\* subscriber that it found, for any number of subscribers and however many of
\* them close while it runs.
THEOREM AcceptedReachesAllHolds == Spec => []AcceptedReachesAll
<1> DEFINE Inv == TypeOK /\ FreshInv /\ CallInv /\ ReachInv
<1>1. Init => Inv
  BY TypeInit, FreshInit, CallInit, ReachInit
<1>2. Inv /\ [Next]_vars => Inv'
  BY TypeStep, FreshStep, CallStep, ReachStep
<1>3. Inv => AcceptedReachesAll
  BY DEF CallInv, ReachInv, AcceptedReachesAll, TypeOK
<1> QED
  BY <1>1, <1>2, <1>3, PTL DEF Spec

-----------------------------------------------------------------------------
(* Publish order *)

\* A call keeps where it is, leaves "idle" for good, or returns for good.
LEMMA PcStep ==
    ASSUME TypeOK, [Next]_vars, NEW q \in Calls
    PROVE  /\ pc[q] = "returned" => pc'[q] = "returned"
           /\ pc[q] # "idle" => pc'[q] # "idle"
<1> USE DEF brokerVars, subVars, closerVars, callVars
<1> DEFINE Goal == /\ pc[q] = "returned" => pc'[q] = "returned"
                   /\ pc[q] # "idle" => pc'[q] # "idle"
<1>d. DOMAIN pc = Calls
  BY DEF TypeOK
<1>1. ASSUME NEW p \in Calls, NEW e \in Events,
             \/ PublishRefused(p) \/ PublishDuplicate(p, e) \/ PublishCached(p, e)
             \/ PublishRoute(p, e)
      PROVE  Goal
  BY <1>d, <1>1 DEF PublishRefused, PublishDuplicate, PublishCached, PublishRoute,
                    Enters, Return
<1>2. ASSUME NEW p \in Calls, NEW s \in Subs,
             \/ EnqueueBegin(p, s) \/ EnqueueSend(p, s) \/ EnqueueFail(p, s)
      PROVE  Goal
  BY <1>d, <1>2 DEF EnqueueBegin, EnqueueSend, EnqueueFail, Return
<1>3. ASSUME NEW p \in Calls, PublishFinish(p)
      PROVE  Goal
  BY <1>d, <1>3 DEF PublishFinish, Return
<1>4. ASSUME NEW s \in Subs, NEW t \in Topics, Subscribe(s, t)
      PROVE  Goal
  BY <1>4 DEF Subscribe
<1>5. ASSUME NEW s \in Subs,
             \/ Receive(s) \/ Drain(s) \/ DrainTick(s) \/ DrainTimeout(s)
             \/ CloseDeregister(s) \/ CloseEnter(s) \/ CloseDiscard(s)
             \/ CloseEvents(s) \/ CloserEnter(s)
      PROVE  Goal
  BY <1>5 DEF Receive, Drain, DrainTick, DrainTimeout, CloseDeregister, CloseEnter,
              CloseDiscard, CloseEvents, CloserEnter
<1>6. CASE BeginShutdown \/ BrokerClose \/ CloserNext \/ UNCHANGED vars
  BY <1>6 DEF BeginShutdown, BrokerClose, CloserNext, vars
<1> QED
  BY <1>1, <1>2, <1>3, <1>4, <1>5, <1>6, BrokerAssumption
  DEF Next, PublishStart, PublishStep, OwnerStep, CloseBody, CloserStep

\* preds changes only for a call that starts, and then holds returned calls.
LEMMA PredsChange ==
    ASSUME TypeOK, [Next]_vars
    PROVE  \/ UNCHANGED preds
           \/ \E p \in Calls :
                /\ pc[p] = "idle"
                /\ preds' = [preds EXCEPT ![p] = {q \in Calls : pc[q] = "returned"}]
                /\ UNCHANGED sent
<1> USE DEF brokerVars, subVars, closerVars, callVars
<1> DEFINE Goal == \/ UNCHANGED preds
                   \/ \E p \in Calls :
                        /\ pc[p] = "idle"
                        /\ preds' = [preds EXCEPT ![p] = {q \in Calls : pc[q] = "returned"}]
                        /\ UNCHANGED sent
<1>1. ASSUME NEW p \in Calls, NEW e \in Events,
             \/ PublishRefused(p) \/ PublishDuplicate(p, e) \/ PublishCached(p, e)
             \/ PublishRoute(p, e)
      PROVE  Goal
  <2>1. Enters(p) /\ UNCHANGED sent
    BY <1>1 DEF PublishRefused, PublishDuplicate, PublishCached, PublishRoute
  <2> QED
    BY <2>1 DEF Enters
<1>2. ASSUME NEW p \in Calls, NEW s \in Subs,
             \/ EnqueueBegin(p, s) \/ EnqueueSend(p, s) \/ EnqueueFail(p, s)
      PROVE  Goal
  BY <1>2 DEF EnqueueBegin, EnqueueSend, EnqueueFail
<1>3. ASSUME NEW p \in Calls, PublishFinish(p)
      PROVE  Goal
  BY <1>3 DEF PublishFinish
<1>4. ASSUME NEW s \in Subs, NEW t \in Topics, Subscribe(s, t)
      PROVE  Goal
  BY <1>4 DEF Subscribe
<1>5. ASSUME NEW s \in Subs,
             \/ Receive(s) \/ Drain(s) \/ DrainTick(s) \/ DrainTimeout(s)
             \/ CloseDeregister(s) \/ CloseEnter(s) \/ CloseDiscard(s)
             \/ CloseEvents(s) \/ CloserEnter(s)
      PROVE  Goal
  BY <1>5 DEF Receive, Drain, DrainTick, DrainTimeout, CloseDeregister, CloseEnter,
              CloseDiscard, CloseEvents, CloserEnter
<1>6. CASE BeginShutdown \/ BrokerClose \/ CloserNext \/ UNCHANGED vars
  BY <1>6 DEF BeginShutdown, BrokerClose, CloserNext, vars
<1> QED
  BY <1>1, <1>2, <1>3, <1>4, <1>5, <1>6, BrokerAssumption
  DEF Next, PublishStart, PublishStep, OwnerStep, CloseBody, CloserStep

\* The calls that a call comes after have returned.
PredsInv == \A p, q \in Calls : q \in preds[p] => pc[q] = "returned"

LEMMA PredsInit == Init => PredsInv
  BY DEF Init, PredsInv

LEMMA PredsStep == TypeOK /\ PredsInv /\ [Next]_vars => PredsInv'
<1> SUFFICES ASSUME TypeOK, PredsInv, [Next]_vars,
                    NEW p \in Calls, NEW q \in Calls, q \in preds'[p]
             PROVE  pc'[q] = "returned"
  BY DEF PredsInv
<1>1. DOMAIN preds = Calls
  BY DEF TypeOK
<1>2. q \in preds[p] \/ pc[q] = "returned"
  BY <1>1, PredsChange
<1>3. pc[q] = "returned"
  BY <1>2 DEF PredsInv
<1> QED
  BY <1>3, PcStep

\* A step puts into a queue: nothing, the event of a call that is in the
\* select of enqueue, or what Subscribe replays.
LEMMA SentChange ==
    ASSUME TypeOK, [Next]_vars, NEW r \in Subs
    PROVE  \/ sent'[r] = sent[r]
           \/ \E p \in Calls : /\ pc[p] = "select" /\ p \in wg[r]
                               /\ sent'[r] = Append(sent[r], p)
                               /\ UNCHANGED <<preds, cache, targets, event>>
           \/ \E t \in Topics : SubscribeEffects(r, t)
<1> USE DEF brokerVars, subVars, closerVars, callVars
<1> DEFINE Send == \E p \in Calls : /\ pc[p] = "select" /\ p \in wg[r]
                                    /\ sent'[r] = Append(sent[r], p)
                                    /\ UNCHANGED <<preds, cache, targets, event>>
           Goal == \/ sent'[r] = sent[r]
                   \/ Send
                   \/ \E t \in Topics : SubscribeEffects(r, t)
<1>d. DOMAIN sent = Subs
  BY DEF TypeOK
<1>1. ASSUME NEW p \in Calls, NEW e \in Events,
             \/ PublishRefused(p) \/ PublishDuplicate(p, e) \/ PublishCached(p, e)
             \/ PublishRoute(p, e) \/ PublishFinish(p)
      PROVE  Goal
  BY <1>1 DEF PublishRefused, PublishDuplicate, PublishCached, PublishRoute, PublishFinish
<1>2. ASSUME NEW p \in Calls, NEW s \in Subs, EnqueueBegin(p, s) \/ EnqueueFail(p, s)
      PROVE  Goal
  BY <1>2 DEF EnqueueBegin, EnqueueFail
<1>3. ASSUME NEW p \in Calls, NEW s \in Subs, EnqueueSend(p, s)
      PROVE  Goal
  <2>1. CASE r = s
    BY <1>d, <1>3, <2>1 DEF EnqueueSend
  <2>2. CASE r # s
    BY <1>d, <1>3, <2>2 DEF EnqueueSend
  <2> QED
    BY <2>1, <2>2
<1>4. ASSUME NEW s \in Subs, NEW t \in Topics, Subscribe(s, t)
      PROVE  Goal
  <2>1. SubscribeEffects(s, t)
    BY <1>4, SubscribeEffect
  <2>2. r # s => sent'[r] = sent[r]
    BY <1>d, <2>1 DEF SubscribeEffects
  <2> QED
    BY <2>1, <2>2
<1>5. ASSUME NEW s \in Subs,
             \/ Receive(s) \/ Drain(s) \/ DrainTick(s) \/ DrainTimeout(s)
             \/ CloseDeregister(s) \/ CloseEnter(s) \/ CloseDiscard(s)
             \/ CloseEvents(s) \/ CloserEnter(s)
      PROVE  Goal
  BY <1>5 DEF Receive, Drain, DrainTick, DrainTimeout, CloseDeregister, CloseEnter,
              CloseDiscard, CloseEvents, CloserEnter
<1>6. ASSUME BeginShutdown \/ BrokerClose \/ CloserNext \/ UNCHANGED vars
      PROVE  Goal
  BY <1>6 DEF BeginShutdown, BrokerClose, CloserNext, vars
<1> HIDE DEF Goal
<1>7. Goal
  BY <1>1, <1>2, <1>3, <1>4, <1>5, <1>6, BrokerAssumption
  DEF Next, PublishStart, PublishStep, OwnerStep, CloseBody, CloserStep
<1> QED
  BY <1>7 DEF Goal

\* A step puts into the cache of a topic: nothing, or the event of a call that
\* starts and returns in this step; and Subscribe takes out what it replays.
CacheAdds(t, p) ==
    /\ pc[p] = "idle" /\ pc'[p] = "returned"
    /\ event'[p].topic = t
    /\ UNCHANGED <<sent, targets>>
    /\ \/ cache'[t] = Append(cache[t], p)
       \/ cache[t] # <<>> /\ cache'[t] = Append(Tail(cache[t]), p)

LEMMA CacheChange ==
    ASSUME TypeOK, [Next]_vars, NEW t \in Topics
    PROVE  \/ cache'[t] = cache[t]
           \/ \E p \in Calls : CacheAdds(t, p)
           \/ \E s \in Subs : SubscribeEffects(s, t)
<1> USE DEF brokerVars, subVars, closerVars, callVars
<1> DEFINE Goal == \/ cache'[t] = cache[t]
                   \/ \E p \in Calls : CacheAdds(t, p)
                   \/ \E s \in Subs : SubscribeEffects(s, t)
<1>d. /\ DOMAIN cache = Topics /\ DOMAIN pc = Calls /\ DOMAIN event = Calls
      /\ cache[t] \in Seq(Calls) /\ Len(cache[t]) \in Nat /\ cacheSize \in Nat
  BY BrokerAssumption, LenProperties, SMTT(30) DEF TypeOK, cacheSize
<1>1. ASSUME NEW p \in Calls, NEW e \in Events,
             \/ PublishRefused(p) \/ PublishDuplicate(p, e)
             \/ PublishRoute(p, e) \/ PublishFinish(p)
      PROVE  Goal
  BY <1>1 DEF PublishRefused, PublishDuplicate, PublishRoute, PublishFinish
<1>2. ASSUME NEW p \in Calls, NEW e \in Events, PublishCached(p, e)
      PROVE  Goal
  <2>1. CASE e.topic # t \/ cacheSize = 0
    <3>1. cacheEvent(e.topic, p)
      BY <1>2 DEF PublishCached
    <3>2. cache'[t] = cache[t]
      BY <1>d, <2>1, <3>1 DEF cacheEvent
    <3> QED
      BY <3>2
  <2>2. CASE e.topic = t /\ cacheSize # 0
    <3>1. /\ pc[p] = "idle" /\ pc'[p] = "returned" /\ event'[p].topic = t
          /\ UNCHANGED <<sent, targets>>
      BY <1>d, <1>2, <2>2 DEF PublishCached, Enters, Return
    <3>2. cache'[t] = Append(IF Len(cache[t]) >= cacheSize THEN Tail(cache[t])
                             ELSE cache[t], p)
      BY <1>d, <1>2, <2>2 DEF PublishCached, cacheEvent
    <3>3. Len(cache[t]) >= cacheSize => cache[t] # <<>>
      BY <1>d, <2>2
    <3> QED
      BY <3>1, <3>2, <3>3 DEF CacheAdds
  <2> QED
    BY <2>1, <2>2
<1>3. ASSUME NEW p \in Calls, NEW s \in Subs,
             EnqueueBegin(p, s) \/ EnqueueSend(p, s) \/ EnqueueFail(p, s)
      PROVE  Goal
  BY <1>3 DEF EnqueueBegin, EnqueueSend, EnqueueFail
<1>4. ASSUME NEW s \in Subs, NEW u \in Topics, Subscribe(s, u)
      PROVE  Goal
  <2>1. SubscribeEffects(s, u)
    BY <1>4, SubscribeEffect
  <2>2. t # u => cache'[t] = cache[t]
    BY <1>d, <2>1 DEF SubscribeEffects
  <2> QED
    BY <2>1, <2>2
<1>5. ASSUME NEW s \in Subs,
             \/ Receive(s) \/ Drain(s) \/ DrainTick(s) \/ DrainTimeout(s)
             \/ CloseDeregister(s) \/ CloseEnter(s) \/ CloseDiscard(s)
             \/ CloseEvents(s) \/ CloserEnter(s)
      PROVE  Goal
  BY <1>5 DEF Receive, Drain, DrainTick, DrainTimeout, CloseDeregister, CloseEnter,
              CloseDiscard, CloseEvents, CloserEnter
<1>6. ASSUME BeginShutdown \/ BrokerClose \/ CloserNext \/ UNCHANGED vars
      PROVE  Goal
  BY <1>6 DEF BeginShutdown, BrokerClose, CloserNext, vars
<1> HIDE DEF Goal
<1>7. Goal
  BY <1>1, <1>2, <1>3, <1>4, <1>5, <1>6, BrokerAssumption
  DEF Next, PublishStart, PublishStep, OwnerStep, CloseBody, CloserStep
<1> QED
  BY <1>7 DEF Goal

\* What Subscribe replays and what it leaves are parts of the cache.
ReplaySplit(s, t) ==
    /\ cache[t] \in Seq(Calls) /\ Len(cache[t]) \in Nat
    /\ Replayed(t) \in 0 .. Len(cache[t])
    /\ sent'[s] \in Seq(Calls) /\ Len(sent'[s]) = Replayed(t)
    /\ \A i \in 1 .. Replayed(t) : sent'[s][i] = cache[t][i]
    /\ cache'[t] \in Seq(Calls) /\ Len(cache'[t]) = Len(cache[t]) - Replayed(t)
    /\ \A i \in 1 .. Len(cache[t]) - Replayed(t) :
         cache'[t][i] = cache[t][Replayed(t) + i]

LEMMA ReplayParts ==
    ASSUME TypeOK, NEW s \in Subs, NEW t \in Topics, SubscribeEffects(s, t)
    PROVE  ReplaySplit(s, t)
<1> DEFINE n == Replayed(t)
           L == Len(cache[t])
<1>1. cache[t] \in Seq(Calls) /\ L \in Nat
  BY LenProperties DEF TypeOK
<1>2. n \in 0 .. L
  BY DEF SubscribeEffects
<1>3. /\ sent'[s] = SubSeq(cache[t], 1, n)
      /\ cache'[t] = SubSeq(cache[t], n + 1, L)
  BY DEF SubscribeEffects, TypeOK
<1> HIDE DEF n
<1>4. /\ SubSeq(cache[t], 1, n) \in Seq(Calls) /\ Len(SubSeq(cache[t], 1, n)) = n
      /\ \A i \in 1 .. n : SubSeq(cache[t], 1, n)[i] = cache[t][i]
  <2>1. /\ SubSeq(cache[t], 1, n) \in Seq(Calls)
        /\ Len(SubSeq(cache[t], 1, n)) = IF 1 <= n THEN n - 1 + 1 ELSE 0
        /\ \A i \in 1 .. Len(SubSeq(cache[t], 1, n)) :
             SubSeq(cache[t], 1, n)[i] = cache[t][1 + i - 1]
    BY <1>1, <1>2, SubSeqShift
  <2> QED
    BY <1>1, <1>2, <2>1
<1>5. /\ SubSeq(cache[t], n + 1, L) \in Seq(Calls)
      /\ Len(SubSeq(cache[t], n + 1, L)) = L - n
      /\ \A i \in 1 .. L - n : SubSeq(cache[t], n + 1, L)[i] = cache[t][n + i]
  <2>1. /\ SubSeq(cache[t], n + 1, L) \in Seq(Calls)
        /\ Len(SubSeq(cache[t], n + 1, L)) = IF n + 1 <= L THEN L - (n + 1) + 1 ELSE 0
        /\ \A i \in 1 .. Len(SubSeq(cache[t], n + 1, L)) :
             SubSeq(cache[t], n + 1, L)[i] = cache[t][n + 1 + i - 1]
    BY <1>1, <1>2, SubSeqShift
  <2> HIDE DEF L
  <2>2. (IF n + 1 <= L THEN L - (n + 1) + 1 ELSE 0) = L - n
    BY <1>1, <1>2
  <2>3. ASSUME NEW i \in 1 .. L - n PROVE n + 1 + i - 1 = n + i
    BY <1>1, <1>2
  <2> QED
    BY <2>1, <2>2, <2>3
<1> QED
  BY <1>1, <1>2, <1>3, <1>4, <1>5 DEF n, ReplaySplit

\* Where an element of the replay, and of what stays in the cache, came from.
LEMMA ReplayIndex ==
    ASSUME NEW s \in Subs, NEW t \in Topics, ReplaySplit(s, t),
           NEW i \in 1 .. Len(sent'[s])
    PROVE  i \in 1 .. Len(cache[t]) /\ sent'[s][i] = cache[t][i]
  BY SMTT(30) DEF ReplaySplit

LEMMA RestIndex ==
    ASSUME NEW s \in Subs, NEW t \in Topics, ReplaySplit(s, t),
           NEW i \in 1 .. Len(cache'[t])
    PROVE  /\ Replayed(t) \in Nat /\ Replayed(t) + i \in 1 .. Len(cache[t])
           /\ cache'[t][i] = cache[t][Replayed(t) + i]
  BY SMTT(30) DEF ReplaySplit

\* An event in a queue or in the cache belongs to a call that has started.
StartedInv ==
    \A p \in Calls : pc[p] = "idle" =>
        /\ \A s \in Subs : ~Occurs(p, sent[s])
        /\ \A t \in Topics : ~Occurs(p, cache[t])

LEMMA StartedInit == Init => StartedInv
  BY OccursEmpty DEF Init, StartedInv

LEMMA StartedStep == TypeOK /\ StartedInv /\ [Next]_vars => StartedInv'
<1> SUFFICES ASSUME TypeOK, StartedInv, [Next]_vars,
                    NEW q \in Calls, pc'[q] = "idle"
             PROVE  /\ \A s \in Subs : ~Occurs(q, sent'[s])
                    /\ \A t \in Topics : ~Occurs(q, cache'[t])
  BY DEF StartedInv
<1>1. /\ pc[q] = "idle"
      /\ \A s \in Subs : ~Occurs(q, sent[s])
      /\ \A t \in Topics : ~Occurs(q, cache[t])
  BY PcStep DEF StartedInv
<1>2. ASSUME NEW r \in Subs PROVE ~Occurs(q, sent'[r])
  <2>1. ASSUME NEW p \in Calls, pc[p] = "select", sent'[r] = Append(sent[r], p)
        PROVE  ~Occurs(q, sent'[r])
    <3>1. sent[r] \in Seq(Calls)
      BY DEF TypeOK
    <3> QED
      BY <1>1, <2>1, <3>1, OccursAppend, SMTT(60)
  <2>2. ASSUME NEW t \in Topics, SubscribeEffects(r, t)
        PROVE  ~Occurs(q, sent'[r])
    <3>1. ~Occurs(q, cache[t])
      BY <1>1
    <3>2. ReplaySplit(r, t)
      BY <2>2, ReplayParts
    <3>3. ASSUME NEW i \in 1 .. Len(sent'[r]) PROVE sent'[r][i] # q
      <4>1. i \in 1 .. Len(cache[t]) /\ sent'[r][i] = cache[t][i]
        BY <3>2, ReplayIndex
      <4> QED
        BY <3>1, <4>1 DEF Occurs
    <3> QED
      BY <3>3 DEF Occurs
  <2> QED
    BY <1>1, <2>1, <2>2, SentChange
<1>3. ASSUME NEW t \in Topics PROVE ~Occurs(q, cache'[t])
  <2>0. cache[t] \in Seq(Calls)
    BY DEF TypeOK
  <2>1. ASSUME NEW p \in Calls, CacheAdds(t, p)
        PROVE  ~Occurs(q, cache'[t])
    <3>1. p # q
      BY <2>1 DEF CacheAdds
    <3>2. cache[t] # <<>> => Tail(cache[t]) \in Seq(Calls) /\ ~Occurs(q, Tail(cache[t]))
      BY <1>1, <2>0, HeadTailProperties, OccursTail
    <3>3. CASE cache'[t] = Append(cache[t], p)
      BY <1>1, <2>0, <3>1, <3>3, OccursAppend
    <3>4. CASE cache[t] # <<>> /\ cache'[t] = Append(Tail(cache[t]), p)
      <4> DEFINE kept == Tail(cache[t])
      <4>1. kept \in Seq(Calls) /\ ~Occurs(q, kept) /\ cache'[t] = Append(kept, p)
        BY <3>2, <3>4
      <4> HIDE DEF kept
      <4> QED
        BY <3>1, <4>1, OccursAppend
    <3> QED
      BY <2>1, <3>3, <3>4 DEF CacheAdds
  <2>2. ASSUME NEW s \in Subs, SubscribeEffects(s, t)
        PROVE  ~Occurs(q, cache'[t])
    <3>1. ~Occurs(q, cache[t])
      BY <1>1
    <3>2. ReplaySplit(s, t)
      BY <2>2, ReplayParts
    <3>3. ASSUME NEW i \in 1 .. Len(cache'[t])
          PROVE  cache'[t][i] # q
      <4>1. /\ Replayed(t) + i \in 1 .. Len(cache[t])
            /\ cache'[t][i] = cache[t][Replayed(t) + i]
        BY <3>2, RestIndex
      <4> QED
        BY <3>1, <4>1 DEF Occurs
    <3> QED
      BY <3>3 DEF Occurs
  <2> QED
    BY <1>1, <2>1, <2>2, CacheChange
<1> QED
  BY <1>2, <1>3

\* PublishOrder for one sequence, with the history variable as a parameter.
InOrder(seq, P) == \A i, j \in 1 .. Len(seq) : i < j => seq[j] \notin P[seq[i]]

LEMMA InOrderAppend ==
    ASSUME NEW seq \in Seq(Calls), NEW x \in Calls, NEW P, InOrder(seq, P),
           \A q \in Calls : x \notin P[q]
    PROVE  InOrder(Append(seq, x), P)
<1>1. /\ Len(seq) \in Nat /\ Len(Append(seq, x)) = Len(seq) + 1
      /\ \A i \in 1 .. Len(seq) : Append(seq, x)[i] = seq[i] /\ seq[i] \in Calls
      /\ Append(seq, x)[Len(seq) + 1] = x
  BY AppendProperties, LenProperties, ElementOfSeq
<1> SUFFICES ASSUME NEW i \in 1 .. Len(seq) + 1, NEW j \in 1 .. Len(seq) + 1, i < j
             PROVE  Append(seq, x)[j] \notin P[Append(seq, x)[i]]
  BY <1>1 DEF InOrder
<1>2. i \in 1 .. Len(seq) /\ Append(seq, x)[i] = seq[i] /\ seq[i] \in Calls
  BY <1>1
<1>3. CASE j \in 1 .. Len(seq)
  BY <1>1, <1>2, <1>3 DEF InOrder
<1>4. CASE j = Len(seq) + 1
  BY <1>1, <1>2, <1>4
<1> QED
  BY <1>1, <1>3, <1>4, SMTT(30)

LEMMA InOrderTail ==
    ASSUME NEW seq \in Seq(Calls), seq # <<>>, NEW P, InOrder(seq, P)
    PROVE  InOrder(Tail(seq), P)
<1>1. /\ Len(seq) \in Nat /\ Len(Tail(seq)) = Len(seq) - 1
      /\ \A i \in 1 .. Len(Tail(seq)) : Tail(seq)[i] = seq[i + 1]
  BY HeadTailProperties, LenProperties
<1> QED
  BY <1>1 DEF InOrder

\* A call in neither place may get its history entry.
LEMMA InOrderExcept ==
    ASSUME NEW seq \in Seq(Calls), NEW P, DOMAIN P = Calls, InOrder(seq, P),
           NEW p \in Calls, ~Occurs(p, seq), NEW X
    PROVE  InOrder(seq, [P EXCEPT ![p] = X])
<1>1. \A i \in 1 .. Len(seq) : seq[i] \in Calls /\ seq[i] # p
  BY ElementOfSeq DEF Occurs
<1> QED
  BY <1>1 DEF InOrder

\* PublishOrder is inductive together with the same order in the cache: a
\* replay takes over the order of the cache, and everything else is appended
\* by a call that has not returned, so that no call comes after it yet.
OrderInv ==
    /\ \A s \in Subs : InOrder(sent[s], preds)
    /\ \A t \in Topics : InOrder(cache[t], preds)

LEMMA OrderInit == Init => OrderInv
<1>1. ASSUME NEW P PROVE InOrder(<<>>, P)
  BY DEF InOrder
<1> QED
  BY <1>1 DEF Init, OrderInv

LEMMA OrderStep ==
    TypeOK /\ PredsInv /\ StartedInv /\ OrderInv /\ [Next]_vars => OrderInv'
<1> SUFFICES ASSUME TypeOK, PredsInv, StartedInv, OrderInv, [Next]_vars
             PROVE  OrderInv'
  OBVIOUS
<1>d. /\ DOMAIN preds = Calls
      /\ \A s \in Subs : sent[s] \in Seq(Calls)
      /\ \A t \in Topics : cache[t] \in Seq(Calls)
  BY DEF TypeOK
<1>1. /\ \A s \in Subs : InOrder(sent[s], preds')
      /\ \A t \in Topics : InOrder(cache[t], preds')
  <2>1. CASE UNCHANGED preds
    BY <2>1 DEF OrderInv
  <2>2. ASSUME NEW p \in Calls, pc[p] = "idle", NEW X,
               preds' = [preds EXCEPT ![p] = X]
        PROVE  /\ \A s \in Subs : InOrder(sent[s], preds')
               /\ \A t \in Topics : InOrder(cache[t], preds')
    <3>1. /\ \A s \in Subs : ~Occurs(p, sent[s])
          /\ \A t \in Topics : ~Occurs(p, cache[t])
      BY <2>2 DEF StartedInv
    <3> QED
      BY <1>d, <2>2, <3>1, InOrderExcept DEF OrderInv
  <2> QED
    BY <2>1, <2>2, PredsChange
<1>2. ASSUME NEW p \in Calls, pc[p] # "returned", NEW q \in Calls
      PROVE  p \notin preds'[q]
  <2>1. p \notin preds[q]
    BY <1>2 DEF PredsInv
  <2> QED
    BY <1>d, <1>2, <2>1, PredsChange, SMTT(30)
<1>3. ASSUME NEW r \in Subs PROVE InOrder(sent'[r], preds')
  <2>1. ASSUME NEW p \in Calls, pc[p] = "select", sent'[r] = Append(sent[r], p)
        PROVE  InOrder(sent'[r], preds')
    <3>1. \A q \in Calls : p \notin preds'[q]
      BY <1>2, <2>1
    <3>2. sent[r] \in Seq(Calls) /\ InOrder(sent[r], preds')
      BY <1>d, <1>1
    <3> QED
      BY <2>1, <3>1, <3>2, InOrderAppend
  <2>2. ASSUME NEW t \in Topics, SubscribeEffects(r, t)
        PROVE  InOrder(sent'[r], preds')
    <3>1. ReplaySplit(r, t) /\ InOrder(cache[t], preds')
      BY <1>1, <2>2, ReplayParts
    <3>2. ASSUME NEW i \in 1 .. Len(sent'[r]), NEW j \in 1 .. Len(sent'[r]), i < j
          PROVE  sent'[r][j] \notin preds'[sent'[r][i]]
      <4>1. /\ i \in 1 .. Len(cache[t]) /\ j \in 1 .. Len(cache[t])
            /\ sent'[r][i] = cache[t][i] /\ sent'[r][j] = cache[t][j]
        BY <3>1, ReplayIndex
      <4>2. cache[t][j] \notin preds'[cache[t][i]]
        BY <3>1, <3>2, <4>1 DEF InOrder
      <4> QED
        BY <4>1, <4>2
    <3> QED
      BY <3>2 DEF InOrder
  <2> QED
    BY <1>1, <2>1, <2>2, SentChange
<1>4. ASSUME NEW t \in Topics PROVE InOrder(cache'[t], preds')
  <2>1. ASSUME NEW p \in Calls, CacheAdds(t, p)
        PROVE  InOrder(cache'[t], preds')
    <3>1. \A q \in Calls : p \notin preds'[q]
      BY <1>2, <2>1 DEF CacheAdds
    <3>2. CASE cache'[t] = Append(cache[t], p)
      BY <1>d, <1>1, <3>1, <3>2, InOrderAppend
    <3>3. CASE cache[t] # <<>> /\ cache'[t] = Append(Tail(cache[t]), p)
      <4> DEFINE kept == Tail(cache[t])
      <4>1. kept \in Seq(Calls) /\ InOrder(kept, preds')
        BY <1>d, <1>1, <3>3, InOrderTail, HeadTailProperties
      <4>2. cache'[t] = Append(kept, p)
        BY <3>3
      <4> HIDE DEF kept
      <4> QED
        BY <3>1, <4>1, <4>2, InOrderAppend
    <3> QED
      BY <2>1, <3>2, <3>3 DEF CacheAdds
  <2>2. ASSUME NEW s \in Subs, SubscribeEffects(s, t)
        PROVE  InOrder(cache'[t], preds')
    <3>1. ReplaySplit(s, t) /\ InOrder(cache[t], preds')
      BY <1>1, <2>2, ReplayParts
    <3>2. ASSUME NEW i \in 1 .. Len(cache'[t]), NEW j \in 1 .. Len(cache'[t]), i < j
          PROVE  cache'[t][j] \notin preds'[cache'[t][i]]
      <4> DEFINE a == Replayed(t) + i
                 b == Replayed(t) + j
      <4>1. /\ a \in 1 .. Len(cache[t]) /\ b \in 1 .. Len(cache[t]) /\ a < b
            /\ cache'[t][i] = cache[t][a] /\ cache'[t][j] = cache[t][b]
        <5>1. /\ Replayed(t) \in Nat /\ a \in 1 .. Len(cache[t])
              /\ cache'[t][i] = cache[t][a]
          BY <3>1, RestIndex
        <5>2. b \in 1 .. Len(cache[t]) /\ cache'[t][j] = cache[t][b]
          BY <3>1, RestIndex
        <5>3. i \in Int /\ j \in Int
          OBVIOUS
        <5>4. a < b
          BY <3>2, <5>1, <5>3, SMTT(30)
        <5> QED
          BY <5>1, <5>2, <5>4
      <4> HIDE DEF a, b
      <4>2. cache[t][b] \notin preds'[cache[t][a]]
        BY <3>1, <4>1 DEF InOrder
      <4> QED
        BY <4>1, <4>2
    <3> QED
      BY <3>2 DEF InOrder
  <2> QED
    BY <1>1, <2>1, <2>2, CacheChange
<1> QED
  BY <1>3, <1>4 DEF OrderInv

\* "Events are delivered in publish order for this subscription": when one
\* Publish returned before another one started, no subscription gets the two
\* events the other way round, for any number of publishers, any cache and
\* queue size, and whatever mix of fan-out and cache replay they came by.
THEOREM PublishOrderHolds == Spec => []PublishOrder
<1> DEFINE Inv == TypeOK /\ PredsInv /\ StartedInv /\ OrderInv
<1>1. Init => Inv
  BY TypeInit, PredsInit, StartedInit, OrderInit
<1>2. Inv /\ [Next]_vars => Inv'
  BY TypeStep, PredsStep, StartedStep, OrderStep
<1>3. Inv => PublishOrder
  BY DEF OrderInv, InOrder, PublishOrder
<1> QED
  BY <1>1, <1>2, <1>3, PTL DEF Spec

-----------------------------------------------------------------------------
(* Duplicate answers *)

Accepted(q, t, k) ==
    /\ result[q] = "Published"
    /\ event[q].topic = t
    /\ idempotencyKey(event[q]) = k

\* A key in the table belongs to an accepted event of the topic.
DedupInv == \A t \in Topics : \A k \in dedup[t] : \E q \in Calls : Accepted(q, t, k)

LEMMA DedupInit == Init => DedupInv
  BY DEF Init, DedupInv

\* What a call has answered, and what it published, does not change again.
LEMMA AnswerStep ==
    ASSUME TypeOK, CallInv, [Next]_vars, NEW q \in Calls, result[q] # "none"
    PROVE  /\ result'[q] = result[q] /\ event'[q] = event[q]
           /\ preds'[q] = preds[q]
<1> USE DEF brokerVars, subVars, closerVars, callVars
<1> DEFINE Goal == result'[q] = result[q] /\ event'[q] = event[q] /\ preds'[q] = preds[q]
<1>d. /\ DOMAIN result = Calls /\ DOMAIN event = Calls /\ DOMAIN preds = Calls
      /\ pc[q] = "returned"
  BY DEF TypeOK, CallInv
<1>1. ASSUME NEW p \in Calls, NEW e \in Events,
             \/ PublishRefused(p) \/ PublishDuplicate(p, e) \/ PublishCached(p, e)
             \/ PublishRoute(p, e)
      PROVE  Goal
  BY <1>d, <1>1 DEF PublishRefused, PublishDuplicate, PublishCached, PublishRoute,
                    Enters, Return
<1>2. ASSUME NEW p \in Calls, NEW s \in Subs,
             EnqueueBegin(p, s) \/ EnqueueSend(p, s) \/ EnqueueFail(p, s)
      PROVE  Goal
  BY <1>d, <1>2 DEF EnqueueBegin, EnqueueSend, EnqueueFail, Return
<1>3. ASSUME NEW p \in Calls, PublishFinish(p)
      PROVE  Goal
  BY <1>d, <1>3 DEF PublishFinish, Return
<1>4. ASSUME NEW s \in Subs, NEW t \in Topics, Subscribe(s, t)
      PROVE  Goal
  BY <1>4 DEF Subscribe
<1>5. ASSUME NEW s \in Subs,
             \/ Receive(s) \/ Drain(s) \/ DrainTick(s) \/ DrainTimeout(s)
             \/ CloseDeregister(s) \/ CloseEnter(s) \/ CloseDiscard(s)
             \/ CloseEvents(s) \/ CloserEnter(s)
      PROVE  Goal
  BY <1>5 DEF Receive, Drain, DrainTick, DrainTimeout, CloseDeregister, CloseEnter,
              CloseDiscard, CloseEvents, CloserEnter
<1>6. ASSUME BeginShutdown \/ BrokerClose \/ CloserNext \/ UNCHANGED vars
      PROVE  Goal
  BY <1>6 DEF BeginShutdown, BrokerClose, CloserNext, vars
<1> HIDE DEF Goal
<1>7. Goal
  BY <1>1, <1>2, <1>3, <1>4, <1>5, <1>6, BrokerAssumption
  DEF Next, PublishStart, PublishStep, OwnerStep, CloseBody, CloserStep
<1> QED
  BY <1>7 DEF Goal

\* remember adds the key to the table of the topic, and nothing else.
LEMMA RememberAdds ==
    ASSUME TypeOK, NEW u \in Topics, NEW key, remember(u, key),
           NEW t \in Topics, NEW k \in dedup'[t]
    PROVE  k \in dedup[t] \/ (t = u /\ k = key)
<1>1. DOMAIN dedup = Topics
  BY DEF TypeOK
<1>2. CASE dedup' = dedup
  BY <1>2
<1>3. CASE \E out \in evictions(u) :
             dedup' = [dedup EXCEPT ![u] = (@ \ out) \cup {key}]
  <2>1. PICK out : dedup' = [dedup EXCEPT ![u] = (@ \ out) \cup {key}]
    BY <1>3
  <2>2. CASE t = u
    <3>1. dedup'[t] = (dedup[t] \ out) \cup {key}
      BY <1>1, <2>1, <2>2
    <3> QED
      BY <2>2, <3>1
  <2>3. CASE t # u
    BY <1>1, <2>1, <2>3
  <2> QED
    BY <2>2, <2>3
<1> QED
  BY <1>2, <1>3 DEF remember

LEMMA DedupStep == TypeOK /\ CallInv /\ DedupInv /\ [Next]_vars => DedupInv'
<1> SUFFICES ASSUME TypeOK, CallInv, DedupInv, [Next]_vars,
                    NEW t \in Topics, NEW k \in dedup'[t]
             PROVE  \E q \in Calls : Accepted(q, t, k)'
  BY DEF DedupInv
<1> USE DEF brokerVars, subVars, closerVars, callVars
<1>0. ASSUME k \in dedup[t]
      PROVE  \E q \in Calls : Accepted(q, t, k)'
  <2>1. PICK q \in Calls : Accepted(q, t, k)
    BY <1>0 DEF DedupInv
  <2>2. result'[q] = result[q] /\ event'[q] = event[q]
    BY <2>1, AnswerStep DEF Accepted
  <2> QED
    BY <2>1, <2>2 DEF Accepted, idempotencyKey
<1>d. DOMAIN result = Calls /\ DOMAIN event = Calls /\ event \in [Calls -> Events]
  BY DEF TypeOK
<1> DEFINE Goal == \E q \in Calls : Accepted(q, t, k)'
<1>1. ASSUME NEW p \in Calls, NEW e \in Events, PublishCached(p, e)
      PROVE  Goal
  <2>1. k \in dedup[t] \/ (t = e.topic /\ k = idempotencyKey(e))
    BY <1>1, EventType, RememberAdds DEF PublishCached
  <2>2. event'[p] = e /\ result'[p] = "Published"
    BY <1>d, <1>1 DEF PublishCached, Return
  <2> QED
    BY <1>0, <2>1, <2>2 DEF Accepted, idempotencyKey
<1>2. ASSUME NEW p \in Calls, PublishFinish(p)
      PROVE  Goal
  <2>1. k \in dedup[t] \/ (t = event[p].topic /\ k = idempotencyKey(event[p]))
    BY <1>d, <1>2, EventType, RememberAdds DEF PublishFinish
  <2>2. event'[p] = event[p] /\ result'[p] = "Published"
    BY <1>d, <1>2 DEF PublishFinish, Return
  <2> QED
    BY <1>0, <2>1, <2>2 DEF Accepted, idempotencyKey
<1>3. ASSUME NEW p \in Calls, NEW e \in Events,
             PublishRefused(p) \/ PublishDuplicate(p, e) \/ PublishRoute(p, e)
      PROVE  Goal
  BY <1>0, <1>3 DEF PublishRefused, PublishDuplicate, PublishRoute
<1>4. ASSUME NEW p \in Calls, NEW s \in Subs,
             EnqueueBegin(p, s) \/ EnqueueSend(p, s) \/ EnqueueFail(p, s)
      PROVE  Goal
  BY <1>0, <1>4 DEF EnqueueBegin, EnqueueSend, EnqueueFail
<1>5. ASSUME NEW s \in Subs, NEW u \in Topics, Subscribe(s, u)
      PROVE  Goal
  BY <1>0, <1>5 DEF Subscribe
<1>6. ASSUME NEW s \in Subs,
             \/ Receive(s) \/ Drain(s) \/ DrainTick(s) \/ DrainTimeout(s)
             \/ CloseDeregister(s) \/ CloseEnter(s) \/ CloseDiscard(s)
             \/ CloseEvents(s) \/ CloserEnter(s)
      PROVE  Goal
  BY <1>0, <1>6 DEF Receive, Drain, DrainTick, DrainTimeout, CloseDeregister,
                    CloseEnter, CloseDiscard, CloseEvents, CloserEnter
<1>7. ASSUME BeginShutdown \/ BrokerClose \/ CloserNext \/ UNCHANGED vars
      PROVE  Goal
  BY <1>0, <1>7 DEF BeginShutdown, BrokerClose, CloserNext, vars
<1> HIDE DEF Goal
<1>8. Goal
  BY <1>1, <1>2, <1>3, <1>4, <1>5, <1>6, <1>7, BrokerAssumption
  DEF Next, PublishStart, PublishStep, OwnerStep, CloseBody, CloserStep
<1> QED
  BY <1>8 DEF Goal

LEMMA DuplicateInit == Init => DuplicateJustified
  BY DEF Init, DuplicateJustified

LEMMA DuplicateStep ==
    TypeOK /\ CallInv /\ DedupInv /\ DuplicateJustified /\ [Next]_vars
    => DuplicateJustified'
<1> SUFFICES ASSUME TypeOK, CallInv, DedupInv, DuplicateJustified, [Next]_vars,
                    NEW p \in Calls, result'[p] = "Duplicate"
             PROVE  \E q \in preds'[p] :
                        /\ result'[q] = "Published"
                        /\ event'[q].topic = event'[p].topic
                        /\ idempotencyKey(event'[q]) = idempotencyKey(event'[p])
  BY DEF DuplicateJustified, idempotencyKey
<1> USE DEF brokerVars, subVars, closerVars, callVars
<1> DEFINE Goal == \E q \in preds'[p] :
                        /\ result'[q] = "Published"
                        /\ event'[q].topic = event'[p].topic
                        /\ idempotencyKey(event'[q]) = idempotencyKey(event'[p])
<1>d. /\ DOMAIN result = Calls /\ DOMAIN event = Calls /\ DOMAIN preds = Calls
      /\ preds \in [Calls -> SUBSET Calls]
  BY DEF TypeOK
<1>0. ASSUME result[p] = "Duplicate"
      PROVE  Goal
  <2>1. event'[p] = event[p] /\ preds'[p] = preds[p]
    BY <1>0, AnswerStep
  <2>2. PICK q \in preds[p] :
            /\ result[q] = "Published"
            /\ event[q].topic = event[p].topic
            /\ idempotencyKey(event[q]) = idempotencyKey(event[p])
    BY <1>0 DEF DuplicateJustified
  <2>3. q \in Calls
    BY <1>d
  <2>4. result'[q] = result[q] /\ event'[q] = event[q]
    BY <2>2, <2>3, AnswerStep
  <2> QED
    BY <2>1, <2>2, <2>4
<1>1. ASSUME NEW c \in Calls, NEW e \in Events, PublishDuplicate(c, e)
      PROVE  Goal
  <2>1. CASE c # p
    BY <1>0, <1>d, <1>1, <2>1 DEF PublishDuplicate, Return
  <2>2. CASE c = p
    <3>1. idempotencyKey(e) \in dedup[e.topic] /\ e.topic \in Topics
      BY <1>1, EventType DEF PublishDuplicate, seen
    <3>2. PICK q \in Calls : Accepted(q, e.topic, idempotencyKey(e))
      BY <3>1 DEF DedupInv
    <3>3. pc[q] = "returned"
      BY <3>2 DEF CallInv, Accepted
    <3>4. event'[p] = e /\ q \in preds'[p]
      BY <1>d, <1>1, <2>2, <3>3 DEF PublishDuplicate, Enters
    <3>5. result'[q] = result[q] /\ event'[q] = event[q]
      BY <3>2, AnswerStep DEF Accepted
    <3> QED
      BY <3>2, <3>4, <3>5 DEF Accepted
  <2> QED
    BY <2>1, <2>2
<1>2. ASSUME NEW c \in Calls, NEW e \in Events,
             PublishRefused(c) \/ PublishCached(c, e) \/ PublishRoute(c, e)
      PROVE  Goal
  <2>1. result[p] = "Duplicate"
    BY <1>d, <1>2 DEF PublishRefused, PublishCached, PublishRoute, Return
  <2> QED
    BY <1>0, <2>1
<1>3. ASSUME NEW c \in Calls, NEW s \in Subs,
             EnqueueBegin(c, s) \/ EnqueueSend(c, s) \/ EnqueueFail(c, s)
      PROVE  Goal
  <2>1. result[p] = "Duplicate"
    BY <1>d, <1>3 DEF EnqueueBegin, EnqueueSend, EnqueueFail, Return, SelectErrors
  <2> QED
    BY <1>0, <2>1
<1>4. ASSUME NEW c \in Calls, PublishFinish(c)
      PROVE  Goal
  <2>1. result[p] = "Duplicate"
    BY <1>d, <1>4 DEF PublishFinish, Return
  <2> QED
    BY <1>0, <2>1
<1>5. ASSUME NEW s \in Subs, NEW u \in Topics, Subscribe(s, u)
      PROVE  Goal
  BY <1>0, <1>5 DEF Subscribe
<1>6. ASSUME NEW s \in Subs,
             \/ Receive(s) \/ Drain(s) \/ DrainTick(s) \/ DrainTimeout(s)
             \/ CloseDeregister(s) \/ CloseEnter(s) \/ CloseDiscard(s)
             \/ CloseEvents(s) \/ CloserEnter(s)
      PROVE  Goal
  BY <1>0, <1>6 DEF Receive, Drain, DrainTick, DrainTimeout, CloseDeregister,
                    CloseEnter, CloseDiscard, CloseEvents, CloserEnter
<1>7. ASSUME BeginShutdown \/ BrokerClose \/ CloserNext \/ UNCHANGED vars
      PROVE  Goal
  BY <1>0, <1>7 DEF BeginShutdown, BrokerClose, CloserNext, vars
<1> HIDE DEF Goal
<1>8. Goal
  BY <1>1, <1>2, <1>3, <1>4, <1>5, <1>6, <1>7, BrokerAssumption
  DEF Next, PublishStart, PublishStep, OwnerStep, CloseBody, CloserStep
<1> QED
  BY <1>8 DEF Goal

\* DuplicateJustified holds in every reachable state, for any number of calls,
\* events and topics and any size of the deduplication table: Publish answers
\* Duplicate only because of an event that was accepted earlier.
THEOREM DuplicateJustifiedHolds == Spec => []DuplicateJustified
<1>1. Init => TypeOK /\ CallInv /\ DedupInv /\ DuplicateJustified
  BY TypeInit, CallInit, DedupInit, DuplicateInit
<1>2. TypeOK /\ CallInv /\ DedupInv /\ DuplicateJustified /\ [Next]_vars
      => TypeOK' /\ CallInv' /\ DedupInv' /\ DuplicateJustified'
  BY TypeStep, CallStep, DedupStep, DuplicateStep
<1> QED
  BY <1>1, <1>2, PTL DEF Spec

-----------------------------------------------------------------------------
(* What the deduplication table is good for *)

\* The accepted calls that had their key entered into the table of a topic.
Entered(t) ==
    {q \in Calls : /\ result[q] = "Published" /\ event[q].topic = t
                   /\ idempotencyKey(event[q]) # NoKey}

\* The table holds no more keys than calls entered; and as long as it was
\* large enough for all of them, it has given none up.
KeptInv ==
    \A t \in Topics :
        /\ IsFiniteSet(dedup[t]) /\ Cardinality(dedup[t]) <= Cardinality(Entered(t))
        /\ Cardinality(Entered(t)) <= deduplicationSize =>
              \A q \in Entered(t) : idempotencyKey(event[q]) \in dedup[t]

LEMMA CallsFinite == ASSUME NEW S \in SUBSET Calls PROVE IsFiniteSet(S) /\ Cardinality(S) \in Nat
<1>1. IsFiniteSet(Calls)
  BY FS_Interval, BrokerAssumption DEF Calls
<1>2. IsFiniteSet(S)
  BY <1>1, FS_Subset
<1> QED
  BY <1>2, FS_CardinalityType

LEMMA KeptInit == Init => KeptInv
<1> SUFFICES ASSUME Init, NEW t \in Topics
             PROVE  /\ IsFiniteSet(dedup[t]) /\ Cardinality(dedup[t]) <= Cardinality(Entered(t))
                    /\ \A q \in Entered(t) : idempotencyKey(event[q]) \in dedup[t]
  BY DEF KeptInv
<1>1. dedup[t] = {} /\ Entered(t) = {}
  BY DEF Init, Entered
<1> QED
  BY <1>1, FS_EmptySet

\* A call is accepted in the step that enters its key.
LEMMA AcceptMoves ==
    ASSUME TypeOK, CallInv, [Next]_vars
    PROVE  \/ /\ UNCHANGED dedup
              /\ \A q \in Calls : result'[q] = "Published" => result[q] = "Published"
           \/ \E p \in Calls, e \in Events :
                /\ pc[p] # "returned" /\ result'[p] = "Published" /\ event'[p] = e
                /\ remember(e.topic, idempotencyKey(e))
                /\ \A q \in Calls : q # p /\ result'[q] = "Published" => result[q] = "Published"
<1> USE DEF brokerVars, subVars, closerVars, callVars
<1>d. /\ DOMAIN result = Calls /\ DOMAIN event = Calls /\ event \in [Calls -> Events]
  BY DEF TypeOK
<1> DEFINE Same == /\ UNCHANGED dedup
                   /\ \A q \in Calls : result'[q] = "Published" => result[q] = "Published"
           New  == \E p \in Calls, e \in Events :
                /\ pc[p] # "returned" /\ result'[p] = "Published" /\ event'[p] = e
                /\ remember(e.topic, idempotencyKey(e))
                /\ \A q \in Calls : q # p /\ result'[q] = "Published" => result[q] = "Published"
<1>1. ASSUME NEW p \in Calls, NEW e \in Events, PublishCached(p, e)
      PROVE  New
  <2>1. /\ pc[p] # "returned" /\ result'[p] = "Published" /\ event'[p] = e
        /\ remember(e.topic, idempotencyKey(e))
        /\ \A q \in Calls : q # p => result'[q] = result[q]
    BY <1>d, <1>1 DEF PublishCached, Enters, Return
  <2> QED
    BY <2>1
<1>2. ASSUME NEW p \in Calls, PublishFinish(p)
      PROVE  New
  <2>1. /\ pc[p] # "returned" /\ result'[p] = "Published" /\ event'[p] = event[p]
        /\ remember(event[p].topic, idempotencyKey(event[p])) /\ event[p] \in Events
        /\ \A q \in Calls : q # p => result'[q] = result[q]
    BY <1>d, <1>2 DEF PublishFinish, Return
  <2> QED
    BY <2>1
<1>3. ASSUME NEW p \in Calls, NEW e \in Events,
             PublishRefused(p) \/ PublishDuplicate(p, e) \/ PublishRoute(p, e)
      PROVE  Same
  BY <1>d, <1>3 DEF PublishRefused, PublishDuplicate, PublishRoute, Return
<1>4. ASSUME NEW p \in Calls, NEW s \in Subs,
             EnqueueBegin(p, s) \/ EnqueueSend(p, s) \/ EnqueueFail(p, s)
      PROVE  Same
  BY <1>d, <1>4 DEF EnqueueBegin, EnqueueSend, EnqueueFail, Return, SelectErrors
<1>5. ASSUME NEW s \in Subs, NEW u \in Topics, Subscribe(s, u)
      PROVE  Same
  BY <1>5 DEF Subscribe
<1>6. ASSUME NEW s \in Subs,
             \/ Receive(s) \/ Drain(s) \/ DrainTick(s) \/ DrainTimeout(s)
             \/ CloseDeregister(s) \/ CloseEnter(s) \/ CloseDiscard(s)
             \/ CloseEvents(s) \/ CloserEnter(s)
      PROVE  Same
  BY <1>6 DEF Receive, Drain, DrainTick, DrainTimeout, CloseDeregister, CloseEnter,
              CloseDiscard, CloseEvents, CloserEnter
<1>7. ASSUME BeginShutdown \/ BrokerClose \/ CloserNext \/ UNCHANGED vars
      PROVE  Same
  BY <1>7 DEF BeginShutdown, BrokerClose, CloserNext, vars
<1> HIDE DEF Same, New
<1>8. Same \/ New
  BY <1>1, <1>2, <1>3, <1>4, <1>5, <1>6, <1>7, BrokerAssumption
  DEF Next, PublishStart, PublishStep, OwnerStep, CloseBody, CloserStep
<1> QED
  BY <1>8 DEF Same, New

\* A key is entered into a table of a topic.
LEMMA KeptEnter ==
    ASSUME TypeOK, NEW t \in Topics, NEW key \in Keys, key # NoKey, remember(t, key),
           NEW n \in Nat, IsFiniteSet(dedup[t]), Cardinality(dedup[t]) <= n
    PROVE  /\ IsFiniteSet(dedup'[t]) /\ Cardinality(dedup'[t]) <= n + 1
           /\ n + 1 <= deduplicationSize => dedup'[t] = dedup[t] \cup {key}
<1>1. deduplicationSize \in Nat /\ Cardinality(dedup[t]) \in Nat
  BY BrokerAssumption, FS_CardinalityType DEF deduplicationSize
<1>2. CASE deduplicationSize = 0
  BY <1>1, <1>2 DEF remember
<1>3. CASE deduplicationSize # 0
  <2>1. PICK out \in evictions(t) : dedup'[t] = (dedup[t] \ out) \cup {key}
    BY <1>3 DEF remember, TypeOK
  <2> DEFINE kept == dedup[t] \ out
  <2>2. IsFiniteSet(kept) /\ Cardinality(kept) <= Cardinality(dedup[t])
    BY FS_Subset
  <2>3. Cardinality(kept) \in Nat
    BY <2>2, FS_CardinalityType
  <2>4. /\ IsFiniteSet(kept \cup {key})
        /\ \/ Cardinality(kept \cup {key}) = Cardinality(kept)
           \/ Cardinality(kept \cup {key}) = Cardinality(kept) + 1
    BY <2>2, FS_AddElement
  <2>5. ASSUME n + 1 <= deduplicationSize PROVE out = {}
    <3>1. Cardinality(dedup[t]) < deduplicationSize
      BY <1>1, <2>5
    <3> QED
      BY <3>1 DEF evictions
  <2>6. n + 1 <= deduplicationSize => dedup'[t] = dedup[t] \cup {key}
    BY <2>1, <2>5
  <2>7. dedup'[t] = kept \cup {key}
    BY <2>1
  <2> HIDE DEF kept
  <2>8. IsFiniteSet(dedup'[t]) /\ Cardinality(dedup'[t]) <= n + 1
    BY <1>1, <2>2, <2>3, <2>4, <2>7
  <2> QED
    BY <2>6, <2>8
<1> QED
  BY <1>2, <1>3

LEMMA KeptStep == TypeOK /\ CallInv /\ KeptInv /\ [Next]_vars => KeptInv'
<1> SUFFICES ASSUME TypeOK, CallInv, KeptInv, [Next]_vars, NEW t \in Topics
             PROVE  /\ IsFiniteSet(dedup'[t]) /\ Cardinality(dedup'[t]) <= Cardinality(Entered(t)')
                    /\ Cardinality(Entered(t)') <= deduplicationSize =>
                          \A q \in Entered(t)' : idempotencyKey(event'[q]) \in dedup'[t]
  BY DEF KeptInv
<1> DEFINE A == Entered(t)
           B == Entered(t)'
<1>1. /\ IsFiniteSet(dedup[t]) /\ Cardinality(dedup[t]) <= Cardinality(A)
      /\ Cardinality(A) <= deduplicationSize =>
            \A q \in A : idempotencyKey(event[q]) \in dedup[t]
  BY DEF KeptInv
<1>2. A \in SUBSET Calls /\ B \in SUBSET Calls
  BY DEF Entered
<1>3. IsFiniteSet(A) /\ Cardinality(A) \in Nat
  BY <1>2, CallsFinite
<1>4. \A q \in Calls : result[q] = "Published" =>
          result'[q] = "Published" /\ event'[q] = event[q]
  BY AnswerStep
<1>5. A \subseteq B /\ \A q \in A : event'[q] = event[q]
  BY <1>4 DEF Entered
<1>6. ASSUME B \subseteq A, dedup'[t] = dedup[t]
      PROVE  /\ IsFiniteSet(dedup'[t]) /\ Cardinality(dedup'[t]) <= Cardinality(B)
             /\ Cardinality(B) <= deduplicationSize =>
                   \A q \in B : idempotencyKey(event'[q]) \in dedup'[t]
  <2>1. B = A
    BY <1>5, <1>6
  <2> HIDE DEF A, B
  <2> QED
    BY <1>1, <1>5, <1>6, <2>1
<1>7. ASSUME UNCHANGED dedup,
             \A q \in Calls : result'[q] = "Published" => result[q] = "Published"
      PROVE  B \subseteq A /\ dedup'[t] = dedup[t]
  BY <1>4, <1>7 DEF Entered
<1>8. ASSUME NEW p \in Calls, NEW e \in Events, pc[p] # "returned", result'[p] = "Published",
             event'[p] = e, remember(e.topic, idempotencyKey(e)),
             \A q \in Calls : q # p /\ result'[q] = "Published" => result[q] = "Published"
      PROVE  /\ IsFiniteSet(dedup'[t]) /\ Cardinality(dedup'[t]) <= Cardinality(B)
             /\ Cardinality(B) <= deduplicationSize =>
                   \A q \in B : idempotencyKey(event'[q]) \in dedup'[t]
  <2>1. e.topic \in Topics /\ idempotencyKey(e) \in Keys
    BY EventType
  <2>2. p \notin A
    BY <1>8 DEF CallInv, Entered
  <2>3. \A q \in B : q \in A \/ (q = p /\ e.topic = t /\ idempotencyKey(e) # NoKey)
    BY <1>4, <1>8 DEF Entered
  <2>4. CASE e.topic = t /\ idempotencyKey(e) # NoKey
    <3>1. B = A \cup {p}
      <4>1. p \in B
        BY <1>8, <2>4 DEF Entered
      <4> HIDE DEF A, B
      <4> QED
        BY <1>5, <2>3, <4>1
    <3>2. Cardinality(B) = Cardinality(A) + 1
      <4> HIDE DEF A, B
      <4> QED
        BY <1>3, <2>2, <3>1, FS_AddElement
    <3>3. /\ IsFiniteSet(dedup'[t]) /\ Cardinality(dedup'[t]) <= Cardinality(A) + 1
          /\ Cardinality(A) + 1 <= deduplicationSize =>
                dedup'[t] = dedup[t] \cup {idempotencyKey(e)}
      <4> HIDE DEF A, B
      <4> QED
        BY <1>1, <1>3, <1>8, <2>1, <2>4, KeptEnter
    <3>4. ASSUME Cardinality(B) <= deduplicationSize, NEW q \in B
          PROVE  idempotencyKey(event'[q]) \in dedup'[t]
      <4> HIDE DEF A, B
      <4>1. dedup'[t] = dedup[t] \cup {idempotencyKey(e)}
        BY <3>2, <3>3, <3>4
      <4>2. Cardinality(A) <= deduplicationSize
        <5>1. deduplicationSize \in Nat
          BY BrokerAssumption DEF deduplicationSize
        <5> QED
          BY <1>3, <3>2, <3>4, <5>1
      <4>3. CASE q = p
        BY <1>8, <4>1, <4>3
      <4>4. CASE q \in A
        BY <1>1, <1>5, <4>1, <4>2, <4>4
      <4> QED
        BY <3>1, <4>3, <4>4
    <3> HIDE DEF A, B
    <3> QED
      BY <3>2, <3>3, <3>4
  <2>5. CASE ~(e.topic = t /\ idempotencyKey(e) # NoKey)
    <3>1. B \subseteq A
      BY <2>3, <2>5
    <3>2. dedup'[t] = dedup[t]
      BY <1>8, <2>1, <2>5 DEF remember, TypeOK
    <3> QED
      BY <1>6, <3>1, <3>2
  <2> QED
    BY <2>4, <2>5
<1> HIDE DEF A, B
<1>9. /\ IsFiniteSet(dedup'[t]) /\ Cardinality(dedup'[t]) <= Cardinality(B)
      /\ Cardinality(B) <= deduplicationSize =>
            \A q \in B : idempotencyKey(event'[q]) \in dedup'[t]
  BY <1>6, <1>7, <1>8, AcceptMoves
<1> QED
  BY <1>9 DEF B

\* A call starts, or what it publishes and what came before it is settled.
LEMMA StartMoves ==
    ASSUME TypeOK, [Next]_vars, NEW p \in Calls
    PROVE  \/ PublishRefused(p)
           \/ \E e \in Events : PublishDuplicate(p, e) \/ PublishCached(p, e) \/ PublishRoute(p, e)
           \/ preds'[p] = preds[p] /\ event'[p] = event[p]
<1> USE DEF brokerVars, subVars, closerVars, callVars
<1>d. DOMAIN preds = Calls /\ DOMAIN event = Calls
  BY DEF TypeOK
<1> DEFINE Same == preds'[p] = preds[p] /\ event'[p] = event[p]
<1>1. ASSUME NEW c \in Calls, c # p, NEW e \in Events,
             \/ PublishRefused(c) \/ PublishDuplicate(c, e) \/ PublishCached(c, e)
             \/ PublishRoute(c, e)
      PROVE  Same
  BY <1>d, <1>1 DEF PublishRefused, PublishDuplicate, PublishCached, PublishRoute, Enters
<1>2. ASSUME NEW c \in Calls, NEW s \in Subs,
             EnqueueBegin(c, s) \/ EnqueueSend(c, s) \/ EnqueueFail(c, s)
      PROVE  Same
  BY <1>2 DEF EnqueueBegin, EnqueueSend, EnqueueFail
<1>3. ASSUME NEW c \in Calls, PublishFinish(c)
      PROVE  Same
  BY <1>3 DEF PublishFinish
<1>4. ASSUME NEW s \in Subs, NEW t \in Topics, Subscribe(s, t)
      PROVE  Same
  BY <1>4 DEF Subscribe
<1>5. ASSUME NEW s \in Subs,
             \/ Receive(s) \/ Drain(s) \/ DrainTick(s) \/ DrainTimeout(s)
             \/ CloseDeregister(s) \/ CloseEnter(s) \/ CloseDiscard(s)
             \/ CloseEvents(s) \/ CloserEnter(s)
      PROVE  Same
  BY <1>5 DEF Receive, Drain, DrainTick, DrainTimeout, CloseDeregister, CloseEnter,
              CloseDiscard, CloseEvents, CloserEnter
<1>6. ASSUME BeginShutdown \/ BrokerClose \/ CloserNext \/ UNCHANGED vars
      PROVE  Same
  BY <1>6 DEF BeginShutdown, BrokerClose, CloserNext, vars
<1> HIDE DEF Same
<1>7. \/ PublishRefused(p)
      \/ \E e \in Events : PublishDuplicate(p, e) \/ PublishCached(p, e) \/ PublishRoute(p, e)
      \/ Same
  BY <1>1, <1>2, <1>3, <1>4, <1>5, <1>6, BrokerAssumption
  DEF Next, PublishStart, PublishStep, OwnerStep, CloseBody, CloserStep
<1> QED
  BY <1>7 DEF Same

\* The calls that RetrySuppressed looks at.
Before(p) ==
    {q \in preds[p] : /\ result[q] = "Published"
                      /\ event[q].topic = event[p].topic
                      /\ idempotencyKey(event[q]) # NoKey}

Suppressed(p) ==
    /\ Cardinality(Before(p)) <= deduplicationSize
    /\ \E q \in Before(p) : idempotencyKey(event[q]) = idempotencyKey(event[p])
    => result[p] \in {"Duplicate", "ErrClosed", "ErrDraining"}

LEMMA RetryInit == Init => \A p \in Calls : Suppressed(p)
<1> SUFFICES ASSUME Init, NEW p \in Calls PROVE Suppressed(p)
  OBVIOUS
<1>1. Before(p) = {}
  BY DEF Init, Before
<1> QED
  BY <1>1 DEF Suppressed

LEMMA RetryStep ==
    /\ TypeOK /\ CallInv /\ PredsInv /\ KeptInv /\ (\A p \in Calls : Suppressed(p))
    /\ [Next]_vars
    => \A p \in Calls : Suppressed(p)'
<1> SUFFICES ASSUME TypeOK, CallInv, PredsInv, KeptInv, \A p \in Calls : Suppressed(p),
                    [Next]_vars, NEW p \in Calls
             PROVE  Suppressed(p)'
  OBVIOUS
<1>d. /\ DOMAIN result = Calls /\ DOMAIN event = Calls /\ DOMAIN preds = Calls
      /\ preds[p] \subseteq Calls
  BY DEF TypeOK
<1>1. CASE PublishRefused(p)
  BY <1>d, <1>1 DEF PublishRefused, Return, Suppressed
<1>2. ASSUME NEW e \in Events, PublishDuplicate(p, e) PROVE Suppressed(p)'
  BY <1>d, <1>2 DEF PublishDuplicate, Return, Suppressed
<1>r. \A q \in Calls : pc[q] = "returned" /\ result'[q] = "Published" => result[q] = "Published"
  BY AcceptMoves
<1>a. \A q \in Calls : result[q] = "Published" =>
          result'[q] = "Published" /\ event'[q] = event[q]
  BY AnswerStep
<1>3. ASSUME NEW e \in Events, PublishCached(p, e) \/ PublishRoute(p, e) PROVE Suppressed(p)'
  <2>1. /\ event'[p] = e /\ preds'[p] = {q \in Calls : pc[q] = "returned"}
        /\ ~seen(e.topic, idempotencyKey(e))
    BY <1>d, <1>3 DEF PublishCached, PublishRoute, Enters
  <2>2. \A q \in Calls : result[q] = "Published" => pc[q] = "returned"
    BY DEF CallInv
  <2>3. Before(p)' = Entered(e.topic)
    <3>1. ASSUME NEW q PROVE q \in Before(p)' <=> q \in Entered(e.topic)
      BY <1>a, <1>r, <2>1, <2>2 DEF Before, Entered
    <3> QED
      BY <3>1
  <2>4. \A q \in Entered(e.topic) : event'[q] = event[q]
    BY <1>a DEF Entered
  <2>5. ASSUME Cardinality(Entered(e.topic)) <= deduplicationSize,
               NEW q \in Entered(e.topic), idempotencyKey(event[q]) = idempotencyKey(e)
        PROVE  FALSE
    <3>1. e.topic \in Topics
      BY EventType
    <3>2. idempotencyKey(e) \in dedup[e.topic] /\ idempotencyKey(e) # NoKey
      BY <2>5, <3>1 DEF KeptInv, Entered
    <3>3. IsFiniteSet(Entered(e.topic)) /\ Cardinality(Entered(e.topic)) \in Nat
      BY CallsFinite DEF Entered
    <3>4. Cardinality(Entered(e.topic)) # 0
      BY <2>5, <3>3, FS_EmptySet
    <3>5. deduplicationSize # 0
      BY <2>5, <3>3, <3>4
    <3> QED
      BY <2>1, <3>2, <3>5 DEF seen
  <2> QED
    BY <2>1, <2>3, <2>4, <2>5 DEF Suppressed
<1>4. CASE preds'[p] = preds[p] /\ event'[p] = event[p]
  <2>1. \A q \in preds[p] : q \in Calls /\ pc[q] = "returned"
    BY <1>d DEF PredsInv
  <2>2. Before(p)' = Before(p)
    <3>1. ASSUME NEW q PROVE q \in Before(p)' <=> q \in Before(p)
      BY <1>a, <1>r, <1>4, <2>1 DEF Before
    <3> QED
      BY <3>1
  <2>3. \A q \in Before(p) : event'[q] = event[q]
    BY <1>a, <2>1 DEF Before
  <2>4. result[p] \in {"Duplicate", "ErrClosed", "ErrDraining"} => result'[p] = result[p]
    BY AnswerStep
  <2> QED
    BY <1>4, <2>2, <2>3, <2>4 DEF Suppressed
<1> QED
  BY <1>1, <1>2, <1>3, <1>4, StartMoves

\* RetrySuppressed holds in every reachable state, for any number of calls,
\* events and topics, any size of the table and any choice of the key that a
\* full table gives up: a retry of an accepted event is not delivered again
\* while no more events were accepted for the topic than the table holds.
THEOREM RetrySuppressedHolds == Spec => []RetrySuppressed
<1> DEFINE Inv == /\ TypeOK /\ CallInv /\ PredsInv /\ KeptInv
                  /\ \A p \in Calls : Suppressed(p)
<1>1. Init => Inv
  BY TypeInit, CallInit, PredsInit, KeptInit, RetryInit
<1>2. Inv /\ [Next]_vars => Inv'
  BY TypeStep, CallStep, PredsStep, KeptStep, RetryStep
<1>3. Inv => RetrySuppressed
  BY DEF RetrySuppressed, Suppressed, Before
<1> QED
  BY <1>1, <1>2, <1>3, PTL DEF Spec

=============================================================================
