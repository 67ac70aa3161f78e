------------------------- MODULE BrokerStreamProofs -------------------------
(***************************************************************************)
(* That the broker implements Stream, for every value of its constants,    *)
(* and the two properties on which that rests: an event is put into a      *)
(* queue once, and queues, cache and table stay within their sizes.        *)
(***************************************************************************)
EXTENDS BrokerProofs

\* Most leaves are first-order steps, the others need arithmetic or sequences.
USE ZenonT(4), SMTT(60), ZenonT(60)

-----------------------------------------------------------------------------
(* Where a fan-out is *)

\* A call is counted by at most one subscription, one that it has yet to
\* serve; and it serves only subscribers that it found.
RouteInv ==
    /\ \A p \in Calls : todo[p] \subseteq targets[p]
    /\ \A p \in Calls, s \in Subs : p \in wg[s] =>
          pc[p] = "select" /\ s \in todo[p] /\ \A r \in Subs : p \in wg[r] => r = s

LEMMA RouteInit == Init => RouteInv
  BY DEF Init, RouteInv

LEMMA RouteSame ==
    ASSUME RouteInv, UNCHANGED <<todo, targets, wg>>,
           \A p \in Calls : pc[p] = "select" => pc'[p] = "select"
    PROVE  RouteInv'
  BY DEF RouteInv

LEMMA RouteStep == TypeOK /\ RouteInv /\ [Next]_vars => RouteInv'
<1> SUFFICES ASSUME TypeOK, RouteInv, [Next]_vars PROVE RouteInv'
  OBVIOUS
<1> USE DEF brokerVars, subVars, closerVars, callVars
<1>d. /\ DOMAIN pc = Calls /\ DOMAIN todo = Calls /\ DOMAIN targets = Calls
      /\ DOMAIN wg = Subs
  BY DEF TypeOK
<1>1. ASSUME NEW p \in Calls, NEW e \in Events,
             PublishRefused(p) \/ PublishDuplicate(p, e) \/ PublishCached(p, e)
      PROVE  RouteInv'
  <2>1. /\ UNCHANGED <<todo, targets, wg>>
        /\ \A q \in Calls : pc[q] = "select" => pc'[q] = "select"
    BY <1>d, <1>1 DEF PublishRefused, PublishDuplicate, PublishCached, Enters, Return
  <2> QED
    BY <2>1, RouteSame
<1>2. ASSUME NEW p \in Calls, NEW e \in Events, PublishRoute(p, e)
      PROVE  RouteInv'
  <2>1. /\ pc[p] = "idle" /\ UNCHANGED wg
        /\ \A q \in Calls : q # p => /\ pc'[q] = pc[q] /\ todo'[q] = todo[q]
                                     /\ targets'[q] = targets[q]
        /\ todo'[p] = targets'[p]
    BY <1>d, <1>2 DEF PublishRoute, Enters
  <2> QED
    BY <2>1 DEF RouteInv
<1>3. ASSUME NEW p \in Calls, NEW s \in Subs, EnqueueBegin(p, s)
      PROVE  RouteInv'
  <2>1. /\ pc[p] = "routing" /\ s \in todo[p] /\ UNCHANGED <<todo, targets>>
        /\ \A q \in Calls : q # p => pc'[q] = pc[q]
    BY <1>d, <1>3 DEF EnqueueBegin, Return
  <2>2. \A r \in Subs : p \notin wg[r]
    BY <2>1 DEF RouteInv
  <2>3. CASE UNCHANGED wg
    BY <2>1, <2>2, <2>3 DEF RouteInv
  <2>4. CASE wg' = [wg EXCEPT ![s] = @ \cup {p}] /\ pc'[p] = "select"
    <3>1. \A r \in Subs, q \in Calls : q \in wg'[r] =>
             (q # p /\ q \in wg[r]) \/ (q = p /\ r = s)
      BY <1>d, <2>2, <2>4
    <3> QED
      BY <2>1, <2>4, <3>1 DEF RouteInv
  <2> QED
    BY <1>d, <1>3, <2>3, <2>4 DEF EnqueueBegin
<1>4. ASSUME NEW p \in Calls, NEW s \in Subs, EnqueueSend(p, s) \/ EnqueueFail(p, s)
      PROVE  RouteInv'
  <2>1. /\ p \in wg[s] /\ UNCHANGED targets
        /\ wg' = [wg EXCEPT ![s] = @ \ {p}]
        /\ \A q \in Calls : q # p => pc'[q] = pc[q] /\ todo'[q] = todo[q]
        /\ todo'[p] \subseteq todo[p]
    BY <1>d, <1>4 DEF EnqueueSend, EnqueueFail, Return
  <2>2. \A r \in Subs : p \in wg[r] => r = s
    BY <2>1 DEF RouteInv
  <2>3. \A r \in Subs, q \in Calls : q \in wg'[r] => q # p /\ q \in wg[r]
    BY <1>d, <2>1, <2>2
  <2> QED
    BY <2>1, <2>3 DEF RouteInv
<1>5. ASSUME NEW p \in Calls, PublishFinish(p)
      PROVE  RouteInv'
  <2>1. /\ UNCHANGED <<todo, targets, wg>>
        /\ \A q \in Calls : pc[q] = "select" => pc'[q] = "select"
    BY <1>d, <1>5 DEF PublishFinish, Return
  <2> QED
    BY <2>1, RouteSame
<1>6. ASSUME NEW s \in Subs, NEW t \in Topics, Subscribe(s, t)
      PROVE  RouteInv'
  <2>1. UNCHANGED <<pc, todo, targets, wg>>
    BY <1>6 DEF Subscribe
  <2> QED
    BY <2>1, RouteSame
<1>7. ASSUME NEW s \in Subs,
             \/ Receive(s) \/ Drain(s) \/ DrainTick(s) \/ DrainTimeout(s)
             \/ CloseDeregister(s) \/ CloseEnter(s) \/ CloseDiscard(s)
             \/ CloseEvents(s) \/ CloserEnter(s)
      PROVE  RouteInv'
  <2>1. UNCHANGED <<pc, todo, targets, wg>>
    BY <1>7 DEF Receive, Drain, DrainTick, DrainTimeout, CloseDeregister, CloseEnter,
                CloseDiscard, CloseEvents, CloserEnter
  <2> QED
    BY <2>1, RouteSame
<1>8. CASE BeginShutdown \/ BrokerClose \/ CloserNext \/ UNCHANGED vars
  <2>1. UNCHANGED <<pc, todo, targets, wg>>
    BY <1>8 DEF BeginShutdown, BrokerClose, CloserNext, vars
  <2> QED
    BY <2>1, RouteSame
<1> QED
  BY <1>1, <1>2, <1>3, <1>4, <1>5, <1>6, <1>7, <1>8, BrokerAssumption
  DEF Next, PublishStart, PublishStep, OwnerStep, CloseBody, CloserStep

-----------------------------------------------------------------------------
(* An event is put into a queue at most once *)

Once(seq) == \A i, j \in 1 .. Len(seq) : seq[i] = seq[j] => i = j

LEMMA OnceAppend ==
    ASSUME NEW seq \in Seq(Calls), NEW x \in Calls, Once(seq), ~Occurs(x, seq)
    PROVE  Once(Append(seq, x))
<1>1. /\ Len(seq) \in Nat /\ Len(Append(seq, x)) = Len(seq) + 1
      /\ \A i \in 1 .. Len(seq) : Append(seq, x)[i] = seq[i] /\ seq[i] # x
      /\ Append(seq, x)[Len(seq) + 1] = x
  BY AppendProperties, LenProperties DEF Occurs
<1> SUFFICES ASSUME NEW i \in 1 .. Len(seq) + 1, NEW j \in 1 .. Len(seq) + 1,
                    Append(seq, x)[i] = Append(seq, x)[j]
             PROVE  i = j
  BY <1>1 DEF Once
<1>2. CASE i \in 1 .. Len(seq) /\ j \in 1 .. Len(seq)
  BY <1>1, <1>2 DEF Once
<1>3. CASE i = Len(seq) + 1 \/ j = Len(seq) + 1
  BY <1>1, <1>3
<1> QED
  BY <1>1, <1>2, <1>3

LEMMA OnceTail ==
    ASSUME NEW seq \in Seq(Calls), seq # <<>>, Once(seq)
    PROVE  Once(Tail(seq))
<1>1. /\ Len(seq) \in Nat /\ Len(Tail(seq)) = Len(seq) - 1
      /\ \A i \in 1 .. Len(Tail(seq)) : Tail(seq)[i] = seq[i + 1]
  BY HeadTailProperties, LenProperties
<1> SUFFICES ASSUME NEW i \in 1 .. Len(seq) - 1, NEW j \in 1 .. Len(seq) - 1,
                    seq[i + 1] = seq[j + 1]
             PROVE  i = j
  BY <1>1 DEF Once
<1>2. i + 1 \in 1 .. Len(seq) /\ j + 1 \in 1 .. Len(seq)
  BY <1>1
<1>3. i + 1 = j + 1
  BY <1>2 DEF Once
<1> QED
  BY <1>3

\* What is in the cache belongs to calls that found no subscriber, and is in
\* no queue; what a call has yet to serve has not got its event.
OnceInv ==
    /\ \A s \in Subs : Once(sent[s])
    /\ \A t \in Topics : Once(cache[t])
    /\ \A p \in Calls, t \in Topics : Occurs(p, cache[t]) =>
          /\ targets[p] = {}
          /\ \A s \in Subs : ~Occurs(p, sent[s])
          /\ \A u \in Topics : Occurs(p, cache[u]) => u = t
    /\ \A p \in Calls, s \in Subs : s \in todo[p] => ~Occurs(p, sent[s])
    /\ \A p \in Calls, s, r \in Subs :
          Occurs(p, sent[s]) /\ Occurs(p, sent[r]) /\ s # r => targets[p] # {}

LEMMA OnceInit == Init => OnceInv
<1>1. Once(<<>>)
  BY DEF Once
<1> QED
  BY <1>1, OccursEmpty DEF Init, OnceInv

LEMMA OnceSame ==
    ASSUME OnceInv, UNCHANGED <<sent, cache, todo, targets>>
    PROVE  OnceInv'
  BY DEF OnceInv

\* A call that starts has its event nowhere.
LEMMA OnceRoute ==
    ASSUME TypeOK, StartedInv, OnceInv, NEW p \in Calls, NEW e \in Events,
           PublishRoute(p, e)
    PROVE  OnceInv'
<1> USE DEF brokerVars, subVars, closerVars, callVars
<1>1. /\ pc[p] = "idle" /\ UNCHANGED <<sent, cache>>
      /\ \A q \in Calls : q # p => todo'[q] = todo[q] /\ targets'[q] = targets[q]
  BY DEF PublishRoute, Enters, TypeOK
<1>2. /\ \A s \in Subs : ~Occurs(p, sent[s])
      /\ \A t \in Topics : ~Occurs(p, cache[t])
  BY <1>1 DEF StartedInv
<1> QED
  BY <1>1, <1>2 DEF OnceInv

LEMMA OnceCached ==
    ASSUME TypeOK, CallInv, StartedInv, OnceInv, NEW p \in Calls, NEW e \in Events,
           PublishCached(p, e)
    PROVE  OnceInv'
<1> USE DEF brokerVars, subVars, closerVars, callVars
<1>1. pc[p] = "idle" /\ UNCHANGED <<sent, todo, targets>>
  BY DEF PublishCached, Enters
<1>2. /\ \A s \in Subs : ~Occurs(p, sent[s])
      /\ \A t \in Topics : ~Occurs(p, cache[t])
      /\ targets[p] = {}
  BY <1>1 DEF StartedInv, CallInv
<1>t. e.topic \in Topics
  BY EventType
<1> DEFINE t == e.topic
           kept == IF Len(cache[t]) >= cacheSize THEN Tail(cache[t]) ELSE cache[t]
<1>3. CASE UNCHANGED cache
  BY <1>1, <1>3, OnceSame
<1>4. CASE cacheSize # 0
  <2>1. /\ cache[t] \in Seq(Calls) /\ Len(cache[t]) \in Nat /\ cacheSize \in Nat
    BY <1>t, LenProperties, BrokerAssumption DEF TypeOK, cacheSize
  <2>2. /\ cache'[t] = Append(kept, p)
        /\ \A u \in Topics : u # t => cache'[u] = cache[u]
    BY <1>4, <1>t DEF PublishCached, cacheEvent, TypeOK
  <2>3. /\ kept \in Seq(Calls) /\ Once(kept)
        /\ \A q \in Calls : Occurs(q, kept) => Occurs(q, cache[t])
    <3>1. Once(cache[t])
      BY <1>t DEF OnceInv
    <3>2. CASE Len(cache[t]) >= cacheSize
      <4>1. cache[t] # <<>>
        BY <1>4, <2>1, <3>2
      <4> QED
        BY <2>1, <3>1, <3>2, <4>1, OnceTail, OccursTail, HeadTailProperties
    <3>3. CASE ~(Len(cache[t]) >= cacheSize)
      BY <2>1, <3>1, <3>3
    <3> QED
      BY <3>2, <3>3
  <2> HIDE DEF kept
  <2>4. ~Occurs(p, kept)
    BY <1>2, <1>t, <2>3
  <2>5. Once(cache'[t])
    BY <2>2, <2>3, <2>4, OnceAppend
  <2>6. \A q \in Calls : Occurs(q, cache'[t]) => Occurs(q, cache[t]) \/ q = p
    BY <2>2, <2>3, OccursAppend
  <2> HIDE DEF t
  <2>7. \A q \in Calls, u \in Topics :
           Occurs(q, cache'[u]) => Occurs(q, cache[u]) \/ (q = p /\ u = t)
    BY <2>2, <2>6
  <2>8. \A u \in Topics : Once(cache'[u])
    BY <2>2, <2>5 DEF OnceInv
  <2> QED
    BY <1>1, <1>2, <2>7, <2>8 DEF OnceInv
<1> QED
  BY <1>3, <1>4 DEF PublishCached, cacheEvent

LEMMA OnceSend ==
    ASSUME TypeOK, RouteInv, OnceInv, NEW p \in Calls, NEW s \in Subs, EnqueueSend(p, s)
    PROVE  OnceInv'
<1> USE DEF brokerVars, subVars, closerVars, callVars
<1>1. /\ p \in wg[s] /\ UNCHANGED <<cache, targets>>
      /\ sent'[s] = Append(sent[s], p) /\ sent[s] \in Seq(Calls)
      /\ \A r \in Subs : r # s => sent'[r] = sent[r]
      /\ \A q \in Calls : q # p => todo'[q] = todo[q]
      /\ todo'[p] = todo[p] \ {s}
  BY DEF EnqueueSend, TypeOK
<1>2. s \in todo[p] /\ targets[p] # {}
  BY <1>1 DEF RouteInv
<1>3. /\ ~Occurs(p, sent[s]) /\ \A t \in Topics : ~Occurs(p, cache[t])
      /\ Once(sent[s])
  BY <1>2 DEF OnceInv
<1>4. Once(sent'[s])
  BY <1>1, <1>3, OnceAppend
<1>5. \A q \in Calls : Occurs(q, sent'[s]) <=> Occurs(q, sent[s]) \/ q = p
  BY <1>1, OccursAppend
<1>6. \A q \in Calls, r \in Subs :
         Occurs(q, sent'[r]) => Occurs(q, sent[r]) \/ (q = p /\ r = s)
  BY <1>1, <1>5
<1>7. \A r \in Subs : Once(sent'[r])
  BY <1>1, <1>4 DEF OnceInv
<1> QED
  BY <1>1, <1>2, <1>3, <1>6, <1>7 DEF OnceInv

\* The replay and what stays in the cache share nothing.
LEMMA ReplayDisjoint ==
    ASSUME NEW s \in Subs, NEW t \in Topics, ReplaySplit(s, t), Once(cache[t])
    PROVE  /\ Once(sent'[s]) /\ Once(cache'[t])
           /\ \A q \in Calls : /\ Occurs(q, sent'[s]) => Occurs(q, cache[t])
                               /\ Occurs(q, cache'[t]) => Occurs(q, cache[t])
                               /\ ~(Occurs(q, sent'[s]) /\ Occurs(q, cache'[t]))
<1> DEFINE n == Replayed(t)
<1>1. \A i \in 1 .. Len(sent'[s]) :
         i \in 1 .. Len(cache[t]) /\ sent'[s][i] = cache[t][i]
  BY ReplayIndex
<1>2. \A i \in 1 .. Len(cache'[t]) :
         n + i \in 1 .. Len(cache[t]) /\ cache'[t][i] = cache[t][n + i]
  BY RestIndex
<1>3. n \in Nat /\ Len(sent'[s]) = n
  BY SMTT(30) DEF ReplaySplit
<1> HIDE DEF n
<1>4. Once(sent'[s])
  BY <1>1 DEF Once
<1>5. Once(cache'[t])
  <2> SUFFICES ASSUME NEW i \in 1 .. Len(cache'[t]), NEW j \in 1 .. Len(cache'[t]),
                      cache'[t][i] = cache'[t][j]
               PROVE  i = j
    BY DEF Once
  <2>1. n + i = n + j
    BY <1>2 DEF Once
  <2>2. i \in Int /\ j \in Int
    OBVIOUS
  <2> QED
    BY <1>3, <2>1, <2>2
<1>6. ASSUME NEW q \in Calls
      PROVE  /\ Occurs(q, sent'[s]) => Occurs(q, cache[t])
             /\ Occurs(q, cache'[t]) => Occurs(q, cache[t])
  BY <1>1, <1>2 DEF Occurs
<1>7. ASSUME NEW q \in Calls, Occurs(q, sent'[s]), Occurs(q, cache'[t])
      PROVE  FALSE
  <2>1. PICK i \in 1 .. Len(sent'[s]) : sent'[s][i] = q
    BY <1>7 DEF Occurs
  <2>2. PICK j \in 1 .. Len(cache'[t]) : cache'[t][j] = q
    BY <1>7 DEF Occurs
  <2>3. i = n + j
    BY <1>1, <1>2, <2>1, <2>2 DEF Once
  <2>4. i \in 1 .. n /\ j \in Int /\ j >= 1
    BY <1>3
  <2> QED
    BY <1>3, <2>3, <2>4
<1> QED
  BY <1>4, <1>5, <1>6, <1>7

LEMMA OnceSubscribe ==
    ASSUME TypeOK, RouteInv, OnceInv, NEW s \in Subs, NEW t \in Topics, Subscribe(s, t)
    PROVE  OnceInv'
<1> USE DEF callVars
<1>1. SubscribeEffects(s, t)
  BY SubscribeEffect
<1>2. /\ UNCHANGED <<todo, targets>>
      /\ \A r \in Subs : r # s => sent'[r] = sent[r]
      /\ \A u \in Topics : u # t => cache'[u] = cache[u]
  BY <1>1 DEF SubscribeEffects, TypeOK
<1>3. /\ Once(sent'[s]) /\ Once(cache'[t])
      /\ \A q \in Calls : /\ Occurs(q, sent'[s]) => Occurs(q, cache[t])
                          /\ Occurs(q, cache'[t]) => Occurs(q, cache[t])
                          /\ ~(Occurs(q, sent'[s]) /\ Occurs(q, cache'[t]))
  <2>1. ReplaySplit(s, t) /\ Once(cache[t])
    BY <1>1, ReplayParts DEF OnceInv
  <2> QED
    BY <2>1, ReplayDisjoint
<1>4. /\ \A r \in Subs : Once(sent'[r])
      /\ \A u \in Topics : Once(cache'[u])
  BY <1>2, <1>3 DEF OnceInv
<1>5. \A q \in Calls, u \in Topics : Occurs(q, cache'[u]) => Occurs(q, cache[u])
  BY <1>2, <1>3
<1>6. \A q \in Calls, r \in Subs :
         Occurs(q, sent'[r]) => Occurs(q, sent[r]) \/ (r = s /\ Occurs(q, cache[t]))
  BY <1>2, <1>3
<1>7. \A q \in Calls, u \in Topics : Occurs(q, cache'[u]) =>
         /\ targets'[q] = {}
         /\ \A r \in Subs : ~Occurs(q, sent'[r])
         /\ \A v \in Topics : Occurs(q, cache'[v]) => v = u
  <2> SUFFICES ASSUME NEW q \in Calls, NEW u \in Topics, Occurs(q, cache'[u])
               PROVE  /\ targets'[q] = {}
                      /\ \A r \in Subs : ~Occurs(q, sent'[r])
                      /\ \A v \in Topics : Occurs(q, cache'[v]) => v = u
    OBVIOUS
  <2>1. /\ targets[q] = {} /\ \A r \in Subs : ~Occurs(q, sent[r])
        /\ \A v \in Topics : Occurs(q, cache[v]) => v = u
    BY <1>5 DEF OnceInv
  <2>2. ~Occurs(q, sent'[s])
    BY <1>3, <2>1
  <2> QED
    BY <1>2, <1>5, <2>1, <2>2
<1>8. \A q \in Calls, r \in Subs : r \in todo'[q] => ~Occurs(q, sent'[r])
  <2>1. \A q \in Calls : s \in todo[q] => ~Occurs(q, cache[t])
    BY DEF RouteInv, OnceInv
  <2> QED
    BY <1>2, <1>6, <2>1 DEF OnceInv
<1>9. \A q \in Calls, r, v \in Subs :
         Occurs(q, sent'[r]) /\ Occurs(q, sent'[v]) /\ r # v => targets'[q] # {}
  <2>1. \A q \in Calls : Occurs(q, cache[t]) => \A r \in Subs : ~Occurs(q, sent[r])
    BY DEF OnceInv
  <2> QED
    BY <1>2, <1>6, <2>1 DEF OnceInv
<1> QED
  BY <1>4, <1>7, <1>8, <1>9 DEF OnceInv

LEMMA OnceStep ==
    TypeOK /\ CallInv /\ StartedInv /\ RouteInv /\ OnceInv /\ [Next]_vars => OnceInv'
<1> SUFFICES ASSUME TypeOK, CallInv, StartedInv, RouteInv, OnceInv, [Next]_vars
             PROVE  OnceInv'
  OBVIOUS
<1> USE DEF brokerVars, subVars, closerVars, callVars
<1>1. ASSUME NEW p \in Calls, NEW e \in Events, PublishCached(p, e) \/ PublishRoute(p, e)
      PROVE  OnceInv'
  BY <1>1, OnceCached, OnceRoute
<1>2. ASSUME NEW p \in Calls, NEW e \in Events,
             PublishRefused(p) \/ PublishDuplicate(p, e) \/ PublishFinish(p)
      PROVE  OnceInv'
  <2>1. UNCHANGED <<sent, cache, todo, targets>>
    BY <1>2 DEF PublishRefused, PublishDuplicate, PublishFinish
  <2> QED
    BY <2>1, OnceSame
<1>3. ASSUME NEW p \in Calls, NEW s \in Subs, EnqueueBegin(p, s) \/ EnqueueFail(p, s)
      PROVE  OnceInv'
  <2>1. UNCHANGED <<sent, cache, todo, targets>>
    BY <1>3 DEF EnqueueBegin, EnqueueFail
  <2> QED
    BY <2>1, OnceSame
<1>4. ASSUME NEW p \in Calls, NEW s \in Subs, EnqueueSend(p, s)
      PROVE  OnceInv'
  BY <1>4, OnceSend
<1>5. ASSUME NEW s \in Subs, NEW t \in Topics, Subscribe(s, t)
      PROVE  OnceInv'
  BY <1>5, OnceSubscribe
<1>6. ASSUME NEW s \in Subs,
             \/ Receive(s) \/ Drain(s) \/ DrainTick(s) \/ DrainTimeout(s)
             \/ CloseDeregister(s) \/ CloseEnter(s) \/ CloseDiscard(s)
             \/ CloseEvents(s) \/ CloserEnter(s)
      PROVE  OnceInv'
  <2>1. UNCHANGED <<sent, cache, todo, targets>>
    BY <1>6 DEF Receive, Drain, DrainTick, DrainTimeout, CloseDeregister, CloseEnter,
                CloseDiscard, CloseEvents, CloserEnter
  <2> QED
    BY <2>1, OnceSame
<1>7. CASE BeginShutdown \/ BrokerClose \/ CloserNext \/ UNCHANGED vars
  <2>1. UNCHANGED <<sent, cache, todo, targets>>
    BY <1>7 DEF BeginShutdown, BrokerClose, CloserNext, vars
  <2> QED
    BY <2>1, OnceSame
<1> QED
  BY <1>1, <1>2, <1>3, <1>4, <1>5, <1>6, <1>7, BrokerAssumption
  DEF Next, PublishStart, PublishStep, OwnerStep, CloseBody, CloserStep

\* An event enters a queue at most once, and a cached event is replayed to one
\* subscription only, for any number of publishers and subscriptions.
THEOREM EventOnceHolds == Spec => []EventOnce
<1> DEFINE Inv == TypeOK /\ CallInv /\ StartedInv /\ RouteInv /\ OnceInv
<1>1. Init => Inv
  BY TypeInit, CallInit, StartedInit, RouteInit, OnceInit
<1>2. Inv /\ [Next]_vars => Inv'
  BY TypeStep, CallStep, StartedStep, RouteStep, OnceStep
<1>3. Inv => EventOnce
  <2> SUFFICES ASSUME TypeOK, OnceInv, NEW s \in Subs, NEW r \in Subs,
                      NEW i \in 1 .. Len(sent[s]), NEW j \in 1 .. Len(sent[r]),
                      sent[s][i] = sent[r][j]
               PROVE  IF s = r THEN i = j ELSE targets[sent[s][i]] # {}
    BY DEF EventOnce
  <2>1. CASE s = r
    BY <2>1 DEF OnceInv, Once
  <2>2. CASE s # r
    <3> DEFINE p == sent[s][i]
    <3>1. p \in Calls
      BY ElementOfSeq DEF TypeOK
    <3>2. Occurs(p, sent[s]) /\ Occurs(p, sent[r])
      BY DEF Occurs
    <3> HIDE DEF p
    <3>3. targets[p] # {}
      BY <2>2, <3>1, <3>2 DEF OnceInv
    <3> QED
      BY <2>2, <3>3 DEF p
  <2> QED
    BY <2>1, <2>2
<1> QED
  BY <1>1, <1>2, <1>3, PTL DEF Spec

-----------------------------------------------------------------------------
(* Bounds *)

\* The table stays within its size: a full one gives a key up first.
LEMMA RememberBound ==
    ASSUME TypeOK, NEW t \in Topics, NEW key \in Keys, remember(t, key), NEW u \in Topics,
           IsFiniteSet(dedup[u]), Cardinality(dedup[u]) <= deduplicationSize
    PROVE  IsFiniteSet(dedup'[u]) /\ Cardinality(dedup'[u]) <= deduplicationSize
<1>1. deduplicationSize \in Nat /\ Cardinality(dedup[u]) \in Nat
  BY BrokerAssumption, FS_CardinalityType DEF deduplicationSize
<1>2. CASE key = NoKey \/ deduplicationSize = 0 \/ u # t
  BY <1>2 DEF remember, TypeOK
<1>3. CASE key # NoKey /\ deduplicationSize # 0 /\ u = t
  <2>1. PICK out \in evictions(t) : dedup'[u] = (dedup[u] \ out) \cup {key}
    BY <1>3 DEF remember, TypeOK
  <2> DEFINE kept == dedup[u] \ out
  <2>2. IsFiniteSet(kept) /\ Cardinality(kept) \in Nat /\ Cardinality(kept) < deduplicationSize
    <3>1. CASE Cardinality(dedup[u]) < deduplicationSize
      <4>1. out = {}
        BY <1>3, <3>1 DEF evictions
      <4>2. kept = dedup[u]
        BY <4>1
      <4> QED
        BY <1>1, <3>1, <4>2
    <3>2. CASE ~(Cardinality(dedup[u]) < deduplicationSize)
      <4>1. PICK oldest \in dedup[u] : out = {oldest}
        BY <1>3, <3>2 DEF evictions
      <4>2. IsFiniteSet(kept) /\ Cardinality(kept) = Cardinality(dedup[u]) - 1
        BY <4>1, FS_RemoveElement
      <4>3. Cardinality(kept) \in Nat
        BY <4>2, FS_CardinalityType
      <4> QED
        BY <1>1, <4>2, <4>3
    <3> QED
      BY <3>1, <3>2
  <2> HIDE DEF kept
  <2>3. /\ IsFiniteSet(kept \cup {key})
        /\ \/ Cardinality(kept \cup {key}) = Cardinality(kept)
           \/ Cardinality(kept \cup {key}) = Cardinality(kept) + 1
    BY <2>2, FS_AddElement
  <2>4. dedup'[u] = kept \cup {key}
    BY <2>1 DEF kept
  <2> QED
    BY <1>1, <2>2, <2>3, <2>4
<1> QED
  BY <1>2, <1>3

BoundsInv == ResourceBounds /\ \A t \in Topics : IsFiniteSet(dedup[t])

LEMMA BoundsInit == Init => BoundsInv
<1> SUFFICES ASSUME Init PROVE BoundsInv
  OBVIOUS
<1>1. /\ \A s \in Subs : queue[s] = <<>>
      /\ \A t \in Topics : cache[t] = <<>> /\ dedup[t] = {}
  BY DEF Init
<1>2. queueSize \in Nat /\ cacheSize \in Nat /\ deduplicationSize \in Nat
  BY BrokerAssumption DEF queueSize, cacheSize, deduplicationSize
<1>3. Len(<<>>) = 0 /\ IsFiniteSet({}) /\ Cardinality({}) = 0
  BY FS_EmptySet
<1>4. ASSUME NEW t \in Topics
      PROVE  IsFiniteSet(dedup[t]) /\ Cardinality(dedup[t]) <= deduplicationSize
  <2>1. dedup[t] = {}
    BY <1>1
  <2>2. IsFiniteSet(dedup[t]) /\ Cardinality(dedup[t]) = 0
    BY <1>3, <2>1, Zenon
  <2> QED
    BY <1>2, <2>2
<1>5. \A s \in Subs : Len(queue[s]) <= queueSize
  BY <1>1, <1>2, <1>3
<1>6. \A t \in Topics : Len(cache[t]) <= cacheSize
  BY <1>1, <1>2, <1>3
<1> QED
  BY <1>4, <1>5, <1>6 DEF BoundsInv, ResourceBounds

\* The cache stays within its size: a full one drops its oldest event first.
LEMMA CacheBound ==
    ASSUME TypeOK, NEW t \in Topics, NEW p \in Calls, cacheEvent(t, p), NEW u \in Topics,
           Len(cache[u]) <= cacheSize
    PROVE  Len(cache'[u]) <= cacheSize
<1>1. /\ cache[u] \in Seq(Calls) /\ Len(cache[u]) \in Nat /\ cacheSize \in Nat
      /\ DOMAIN cache = Topics
  BY BrokerAssumption DEF TypeOK, cacheSize
<1>2. CASE cacheSize = 0 \/ u # t
  BY <1>1, <1>2 DEF cacheEvent
<1>3. CASE cacheSize # 0 /\ u = t
  <2>1. cache'[u] = Append(IF Len(cache[u]) >= cacheSize THEN Tail(cache[u])
                           ELSE cache[u], p)
    BY <1>1, <1>3 DEF cacheEvent
  <2>2. CASE Len(cache[u]) >= cacheSize
    <3>1. cache[u] # <<>> /\ Tail(cache[u]) \in Seq(Calls)
          /\ Len(Tail(cache[u])) = Len(cache[u]) - 1
      BY <1>1, <1>3, <2>2
    <3> QED
      BY <1>1, <2>1, <2>2, <3>1
  <2>3. CASE ~(Len(cache[u]) >= cacheSize)
    BY <1>1, <2>1, <2>3
  <2> QED
    BY <2>2, <2>3
<1> QED
  BY <1>2, <1>3

LEMMA BoundsStep == TypeOK /\ BoundsInv /\ [Next]_vars => BoundsInv'
<1> SUFFICES ASSUME TypeOK, BoundsInv, [Next]_vars
             PROVE  BoundsInv'
  OBVIOUS
<1> USE DEF brokerVars, subVars, closerVars, callVars
<1> DEFINE Queues == \A s \in Subs : Len(queue'[s]) <= queueSize
           Caches == \A t \in Topics : Len(cache'[t]) <= cacheSize
           Tables == \A t \in Topics : /\ IsFiniteSet(dedup'[t])
                                       /\ Cardinality(dedup'[t]) <= deduplicationSize
           Goal   == Queues /\ Caches /\ Tables
<1>q. ASSUME UNCHANGED queue
      PROVE  Queues
  BY <1>q DEF BoundsInv, ResourceBounds
<1>c. ASSUME UNCHANGED cache
      PROVE  Caches
  BY <1>c DEF BoundsInv, ResourceBounds
<1>t. ASSUME UNCHANGED dedup
      PROVE  Tables
  BY <1>t DEF BoundsInv, ResourceBounds
<1>r. ASSUME NEW t \in Topics, NEW key \in Keys, remember(t, key)
      PROVE  Tables
  BY <1>r, RememberBound DEF BoundsInv, ResourceBounds
<1>s. ASSUME NEW s \in Subs, queue[s] # <<>>, queue' = [queue EXCEPT ![s] = Tail(@)]
      PROVE  Queues
  <2> SUFFICES ASSUME NEW r \in Subs
               PROVE  Len(queue'[r]) <= queueSize
    OBVIOUS
  <2>1. /\ queue[s] \in Seq(Calls) /\ DOMAIN queue = Subs /\ queueSize \in Int
        /\ Len(queue[r]) <= queueSize
    BY BrokerAssumption DEF TypeOK, BoundsInv, ResourceBounds, queueSize
  <2>2. Len(Tail(queue[s])) = Len(queue[s]) - 1 /\ Len(queue[s]) \in Nat
    BY <1>s, <2>1
  <2> QED
    BY <1>s, <2>1, <2>2
<1> HIDE DEF Queues, Caches, Tables
<1>1. ASSUME NEW p \in Calls, NEW e \in Events,
             PublishRefused(p) \/ PublishDuplicate(p, e) \/ PublishRoute(p, e)
      PROVE  Goal
  BY <1>1, <1>q, <1>c, <1>t DEF PublishRefused, PublishDuplicate, PublishRoute
<1>2. ASSUME NEW p \in Calls, NEW e \in Events, PublishCached(p, e)
      PROVE  Goal
  <2>1. e.topic \in Topics /\ idempotencyKey(e) \in Keys
    BY EventType
  <2>2. UNCHANGED queue /\ cacheEvent(e.topic, p) /\ remember(e.topic, idempotencyKey(e))
    BY <1>2 DEF PublishCached
  <2>3. Caches
    BY <2>1, <2>2, CacheBound DEF BoundsInv, ResourceBounds, Caches
  <2> QED
    BY <1>q, <1>r, <2>1, <2>2, <2>3
<1>3. ASSUME NEW p \in Calls, PublishFinish(p)
      PROVE  Goal
  <2>1. event[p].topic \in Topics /\ idempotencyKey(event[p]) \in Keys
    BY EventType DEF TypeOK
  <2>2. UNCHANGED <<queue, cache>> /\ remember(event[p].topic, idempotencyKey(event[p]))
    BY <1>3 DEF PublishFinish
  <2> QED
    BY <1>q, <1>c, <1>r, <2>1, <2>2
<1>4. ASSUME NEW p \in Calls, NEW s \in Subs, EnqueueBegin(p, s) \/ EnqueueFail(p, s)
      PROVE  Goal
  BY <1>4, <1>q, <1>c, <1>t DEF EnqueueBegin, EnqueueFail
<1>5. ASSUME NEW p \in Calls, NEW s \in Subs, EnqueueSend(p, s)
      PROVE  Goal
  <2>1. /\ Len(queue[s]) < queueSize /\ queue' = [queue EXCEPT ![s] = Append(@, p)]
        /\ UNCHANGED <<cache, dedup>>
    BY <1>5 DEF EnqueueSend
  <2>2. ASSUME NEW r \in Subs
        PROVE  Len(queue'[r]) <= queueSize
    <3>1. /\ queue[s] \in Seq(Calls) /\ DOMAIN queue = Subs /\ queueSize \in Int
          /\ Len(queue[r]) <= queueSize
      BY BrokerAssumption DEF TypeOK, BoundsInv, ResourceBounds, queueSize
    <3>2. Len(Append(queue[s], p)) = Len(queue[s]) + 1 /\ Len(queue[s]) \in Nat
      BY <3>1
    <3> QED
      BY <2>1, <3>1, <3>2
  <2>3. Queues
    BY <2>2 DEF Queues
  <2> QED
    BY <1>c, <1>t, <2>1, <2>3
<1>6. ASSUME NEW s \in Subs, NEW t \in Topics, Subscribe(s, t)
      PROVE  Goal
  <2>1. SubscribeEffects(s, t) /\ ReplaySplit(s, t) /\ UNCHANGED dedup
    BY <1>6, SubscribeEffect, ReplayParts DEF Subscribe
  <2>2. ASSUME NEW r \in Subs
        PROVE  Len(queue'[r]) <= queueSize
    <3>1. /\ DOMAIN queue = Subs /\ DOMAIN sent = Subs /\ queueSize \in Int
          /\ Len(queue[r]) <= queueSize
      BY BrokerAssumption DEF TypeOK, BoundsInv, ResourceBounds, queueSize
    <3>2. Replayed(t) <= queueSize
      BY <2>1 DEF SubscribeEffects
    <3>3. queue'[s] = sent'[s] /\ (r # s => queue'[r] = queue[r])
      BY <2>1, <3>1 DEF SubscribeEffects
    <3>4. Len(sent'[s]) = Replayed(t)
      BY <2>1 DEF ReplaySplit
    <3> QED
      BY <3>1, <3>2, <3>3, <3>4
  <2>3. ASSUME NEW u \in Topics
        PROVE  Len(cache'[u]) <= cacheSize
    <3>1. DOMAIN cache = Topics /\ cacheSize \in Int /\ Len(cache[u]) <= cacheSize
      BY BrokerAssumption DEF TypeOK, BoundsInv, ResourceBounds, cacheSize
    <3>2. u # t => cache'[u] = cache[u]
      BY <2>1, <3>1 DEF SubscribeEffects
    <3>3. /\ Len(cache'[t]) = Len(cache[t]) - Replayed(t) /\ Len(cache[t]) \in Nat
          /\ Replayed(t) \in 0 .. Len(cache[t])
      BY <2>1 DEF ReplaySplit
    <3> QED
      BY <3>1, <3>2, <3>3
  <2>4. Queues /\ Caches
    BY <2>2, <2>3 DEF Queues, Caches
  <2> QED
    BY <1>t, <2>1, <2>4
<1>7. ASSUME NEW s \in Subs, Receive(s) \/ CloseDiscard(s)
      PROVE  Goal
  BY <1>7, <1>s, <1>c, <1>t DEF Receive, CloseDiscard
<1>8. ASSUME NEW s \in Subs,
             \/ Drain(s) \/ DrainTick(s) \/ DrainTimeout(s) \/ CloseDeregister(s)
             \/ CloseEnter(s) \/ CloseEvents(s) \/ CloserEnter(s)
      PROVE  Goal
  BY <1>8, <1>q, <1>c, <1>t DEF Drain, DrainTick, DrainTimeout, CloseDeregister,
                                CloseEnter, CloseEvents, CloserEnter
<1>9. ASSUME BeginShutdown \/ BrokerClose \/ CloserNext \/ UNCHANGED vars
      PROVE  Goal
  BY <1>9, <1>q, <1>c, <1>t DEF BeginShutdown, BrokerClose, CloserNext, vars
<1> HIDE DEF Goal
<1>10. Goal
  BY <1>1, <1>2, <1>3, <1>4, <1>5, <1>6, <1>7, <1>8, <1>9, BrokerAssumption
  DEF Next, PublishStart, PublishStep, OwnerStep, CloseBody, CloserStep
<1> QED
  BY <1>10 DEF Goal, Queues, Caches, Tables, BoundsInv, ResourceBounds

\* However many calls are made, a queue, the cache of a topic and its table of
\* keys never outgrow the sizes that New settled on.
THEOREM ResourceBoundsHold == Spec => []ResourceBounds
<1>1. TypeOK /\ BoundsInv /\ [Next]_vars => TypeOK' /\ BoundsInv'
  BY TypeStep, BoundsStep
<1>2. Init => TypeOK /\ BoundsInv
  BY TypeInit, BoundsInit
<1>3. BoundsInv => ResourceBounds
  BY DEF BoundsInv
<1> QED
  BY <1>1, <1>2, <1>3, PTL DEF Spec

-----------------------------------------------------------------------------
(* The refinement *)

\* A subscription that counts a publisher is open to the outside.
CountedInv == \A s \in Subs : wg[s] # {} => state[s] \in {"open", "closing"}

LEMMA CountedInit == Init => CountedInv
  BY DEF Init, CountedInv

LEMMA CountedStep == TypeOK /\ CountedInv /\ [Next]_vars => CountedInv'
<1> SUFFICES ASSUME TypeOK, CountedInv, [Next]_vars, NEW r \in Subs, wg'[r] # {}
             PROVE  state'[r] \in {"open", "closing"}
  BY DEF CountedInv
<1> USE DEF brokerVars, subVars, closerVars, callVars
<1>0. wg[r] # {} => state[r] \in {"open", "closing"}
  BY DEF CountedInv
<1>d. DOMAIN state = Subs /\ DOMAIN wg = Subs
  BY DEF TypeOK
<1>1. ASSUME NEW p \in Calls, NEW e \in Events,
             \/ PublishRefused(p) \/ PublishDuplicate(p, e) \/ PublishCached(p, e)
             \/ PublishRoute(p, e) \/ PublishFinish(p)
      PROVE  state'[r] \in {"open", "closing"}
  BY <1>0, <1>1 DEF PublishRefused, PublishDuplicate, PublishCached, PublishRoute,
                    PublishFinish
<1>2. ASSUME NEW p \in Calls, NEW s \in Subs,
             EnqueueBegin(p, s) \/ EnqueueSend(p, s) \/ EnqueueFail(p, s)
      PROVE  state'[r] \in {"open", "closing"}
  <2>1. UNCHANGED state
    BY <1>2 DEF EnqueueBegin, EnqueueSend, EnqueueFail
  <2>2. wg[r] # {} \/ state[r] = "open"
    BY <1>d, <1>2 DEF EnqueueBegin, EnqueueSend, EnqueueFail
  <2> QED
    BY <1>0, <2>1, <2>2
<1>3. ASSUME NEW s \in Subs, NEW t \in Topics, Subscribe(s, t)
      PROVE  state'[r] \in {"open", "closing"}
  BY <1>0, <1>d, <1>3 DEF Subscribe
<1>4. ASSUME NEW s \in Subs, CloseEnter(s) \/ CloseEvents(s) \/ CloserEnter(s)
      PROVE  state'[r] \in {"open", "closing"}
  BY <1>0, <1>d, <1>4 DEF CloseEnter, CloseEvents, CloserEnter
<1>5. ASSUME NEW s \in Subs,
             \/ Receive(s) \/ Drain(s) \/ DrainTick(s) \/ DrainTimeout(s)
             \/ CloseDeregister(s) \/ CloseDiscard(s)
      PROVE  state'[r] \in {"open", "closing"}
  BY <1>0, <1>5 DEF Receive, Drain, DrainTick, DrainTimeout, CloseDeregister,
                    CloseDiscard
<1>6. CASE BeginShutdown \/ BrokerClose \/ CloserNext \/ UNCHANGED vars
  BY <1>0, <1>6 DEF BeginShutdown, BrokerClose, CloserNext, vars
<1> QED
  BY <1>1, <1>2, <1>3, <1>4, <1>5, <1>6, BrokerAssumption
  DEF Next, PublishStart, PublishStep, OwnerStep, CloseBody, CloserStep

\* The steps that no reader of a stream can see.
LEMMA Hidden ==
    ASSUME UNCHANGED <<state, discard, queue, received, sent, targets>>
    PROVE  UNCHANGED Streams!vars
  BY DEF Streams!vars, Phase, Carried, FromCache

LEMMA SendIsPut ==
    ASSUME TypeOK, RouteInv, OnceInv, CountedInv,
           NEW p \in Calls, NEW s \in Subs, EnqueueSend(p, s)
    PROVE  Streams!Put(s, p)
<1> USE DEF brokerVars, subVars, closerVars, callVars
<1>1. /\ p \in wg[s] /\ Len(queue[s]) < queueSize
      /\ queue' = [queue EXCEPT ![s] = Append(@, p)]
      /\ sent'[s] = Append(sent[s], p) /\ sent[s] \in Seq(Calls)
      /\ \A r \in Subs : r # s => sent'[r] = sent[r]
      /\ UNCHANGED <<state, discard, received, targets>>
  BY DEF EnqueueSend, TypeOK
<1>2. s \in todo[p] /\ targets[p] # {}
  BY <1>1 DEF RouteInv
<1>3. ~Occurs(p, sent[s]) /\ Phase(s) = "open"
  BY <1>1, <1>2 DEF OnceInv, CountedInv, Phase
<1>4. \A q \in Calls : Occurs(q, sent'[s]) <=> Occurs(q, sent[s]) \/ q = p
  BY <1>1, OccursAppend
<1>5. Carried(s)' = Carried(s) \cup {p} /\ p \notin Carried(s)
  BY <1>3, <1>4 DEF Carried
<1>6. \A r \in Subs : r # s => Carried(r)' = Carried(r)
  BY <1>1 DEF Carried
<1>7. p \notin FromCache
  BY <1>2 DEF FromCache
<1>8. FromCache' = FromCache
  <2>1. \A q \in Calls, r \in Subs : q # p => (Occurs(q, sent'[r]) <=> Occurs(q, sent[r]))
    BY <1>1, <1>4
  <2> QED
    BY <1>1, <1>2, <2>1 DEF FromCache
<1>9. \A r \in Subs : Phase(r)' = Phase(r)
  BY <1>1 DEF Phase
<1> QED
  BY <1>1, <1>3, <1>5, <1>6, <1>7, <1>8, <1>9 DEF Streams!Put

LEMMA SubscribeIsBegin ==
    ASSUME TypeOK, FreshInv, OnceInv, NEW s \in Subs, NEW t \in Topics, Subscribe(s, t)
    PROVE  sent'[s] \in Streams!Replays /\ Streams!Begin(s, sent'[s])
<1> USE DEF callVars
<1> DEFINE replay == sent'[s]
<1>1. SubscribeEffects(s, t)
  BY SubscribeEffect
<1>2. /\ UNCHANGED <<discard, received, targets>>
      /\ queue' = [queue EXCEPT ![s] = replay]
      /\ state' = [state EXCEPT ![s] = "open"]
      /\ \A r \in Subs : r # s => sent'[r] = sent[r]
  BY <1>1 DEF SubscribeEffects, TypeOK
<1>3. state[s] = "absent" /\ sent[s] = <<>>
  BY <1>1, FreshNumber DEF SubscribeEffects, Fresh
<1>4. ReplaySplit(s, t) /\ Once(cache[t])
  BY <1>1, ReplayParts DEF OnceInv
<1>5. /\ Once(replay)
      /\ \A q \in Calls : Occurs(q, replay) => Occurs(q, cache[t])
  BY <1>4, ReplayDisjoint
<1>6. replay \in Seq(Calls) /\ Len(replay) \in 0 .. queueSize
  BY <1>1, <1>4, BrokerAssumption, SMTT(30)
  DEF ReplaySplit, SubscribeEffects, queueSize
<1> HIDE DEF replay
<1>7. replay \in Streams!Replays
  <2>1. replay \in [1 .. Len(replay) -> Calls]
    BY <1>6, LenProperties
  <2> QED
    BY <1>6, <2>1 DEF Streams!Replays
<1>8. Streams!Elements(replay) = {q \in Calls : Occurs(q, replay)}
  <2>1. \A i \in 1 .. Len(replay) : replay[i] \in Calls
    BY <1>6, ElementOfSeq
  <2> QED
    BY <2>1 DEF Streams!Elements, Occurs
<1>9. Carried(s)' = Streams!Elements(replay)
  BY <1>8 DEF Carried, replay
<1>10. \A r \in Subs : Carried(r) \cap Streams!Elements(replay) = {}
  BY <1>5, <1>8 DEF Carried, OnceInv
<1>11. FromCache' = FromCache \cup Streams!Elements(replay)
  <2>1. \A q \in Calls : Occurs(q, replay) => targets[q] = {}
    BY <1>5 DEF OnceInv
  <2>2. \A q \in Calls : ~Occurs(q, sent[s])
    BY <1>3, OccursEmpty
  <2>3. \A q \in Calls : (\E r \in Subs : Occurs(q, sent'[r])) <=>
                           (\E r \in Subs : Occurs(q, sent[r])) \/ Occurs(q, replay)
    BY <1>2, <2>2 DEF replay
  <2> QED
    BY <1>2, <1>8, <2>1, <2>3 DEF FromCache
<1>12. /\ Phase(s) = "absent" /\ Phase(s)' = "open"
       /\ \A r \in Subs : r # s => Phase(r)' = Phase(r) /\ Carried(r)' = Carried(r)
  BY <1>2, <1>3 DEF Phase, Carried, TypeOK
<1>13. Streams!Distinct(replay)
  BY <1>5 DEF Once, Streams!Distinct
<1> HIDE DEF Streams!Elements, Streams!Distinct
<1> QED
  BY <1>2, <1>7, <1>9, <1>10, <1>11, <1>12, <1>13 DEF Streams!Begin, replay

\* The steps of a close, and the reader's.
LEMMA CloseIsEnd ==
    ASSUME TypeOK, StreamInv, NEW s \in Subs,
           Receive(s) \/ CloserEnter(s) \/ CloseDiscard(s) \/ CloseEvents(s)
    PROVE  \/ Streams!Take(s) \/ Streams!Cut(s) \/ Streams!Lose(s) \/ Streams!End(s)
           \/ UNCHANGED Streams!vars
<1> USE DEF brokerVars, subVars, closerVars, callVars
<1>1. CASE Receive(s)
  <2>1. Streams!Take(s)
    BY <1>1 DEF Receive, Streams!Take, Phase, Carried, FromCache
  <2> QED
    BY <2>1
<1>2. CASE CloserEnter(s) /\ state[s] = "open"
  <2>1. /\ state' = [state EXCEPT ![s] = "closing"]
        /\ discard' = [discard EXCEPT ![s] = TRUE]
        /\ UNCHANGED <<queue, received, sent, targets>>
    BY <1>2 DEF CloserEnter
  <2>2. Phase(s) = "open" /\ ~discard[s] /\ \A r \in Subs : Phase(r)' = Phase(r)
    BY <1>2, <2>1 DEF Phase, StreamInv, TypeOK
  <2>3. FromCache' = FromCache /\ \A r \in Subs : Carried(r)' = Carried(r)
    BY <2>1 DEF FromCache, Carried
  <2> QED
    BY <2>1, <2>2, <2>3 DEF Streams!Cut
<1>3. CASE CloserEnter(s) /\ state[s] # "open"
  BY <1>3, Hidden DEF CloserEnter
<1>4. CASE CloseDiscard(s)
  <2>1. Streams!Lose(s)
    BY <1>4 DEF CloseDiscard, Streams!Lose, Phase, Carried, FromCache
  <2> QED
    BY <2>1
<1>5. CASE CloseEvents(s)
  <2>1. /\ state[s] = "closing" /\ state' = [state EXCEPT ![s] = "closed"]
        /\ discard[s] => queue[s] = <<>>
        /\ UNCHANGED <<discard, queue, received, sent, targets>>
    BY <1>5 DEF CloseEvents
  <2>2. /\ Phase(s) = "open" /\ Phase(s)' = "ended"
        /\ \A r \in Subs : r # s => Phase(r)' = Phase(r)
    BY <2>1 DEF Phase, TypeOK
  <2>3. FromCache' = FromCache /\ \A r \in Subs : Carried(r)' = Carried(r)
    BY <2>1 DEF FromCache, Carried
  <2> QED
    BY <2>1, <2>2, <2>3 DEF Streams!End
<1> QED
  BY <1>1, <1>2, <1>3, <1>4, <1>5

\* Taking the subscribers of an event that is in no stream yet changes nothing
\* that Stream tells, ...
LEMMA RouteIsHidden ==
    ASSUME TypeOK, StartedInv, NEW p \in Calls, NEW e \in Events, PublishRoute(p, e)
    PROVE  UNCHANGED Streams!vars
<1> USE DEF brokerVars, subVars, closerVars, callVars
<1>1. /\ pc[p] = "idle" /\ UNCHANGED <<state, discard, queue, received, sent>>
      /\ \A q \in Calls : q # p => targets'[q] = targets[q]
  BY DEF PublishRoute, Enters, TypeOK
<1>2. \A r \in Subs : ~Occurs(p, sent[r])
  BY <1>1 DEF StartedInv
<1>3. FromCache' = FromCache
  BY <1>1, <1>2 DEF FromCache
<1>4. \A r \in Subs : Phase(r)' = Phase(r) /\ Carried(r)' = Carried(r)
  BY <1>1 DEF Phase, Carried
<1> QED
  BY <1>1, <1>3, <1>4 DEF Streams!vars

\* ... and neither does setting Subscription.closed.
LEMMA CloseEnterIsHidden ==
    ASSUME TypeOK, StreamInv, NEW s \in Subs, CloseEnter(s)
    PROVE  UNCHANGED Streams!vars
<1> USE DEF brokerVars, subVars, closerVars, callVars
<1>1. /\ state[s] = "open" /\ state' = [state EXCEPT ![s] = "closing"]
      /\ discard' = [discard EXCEPT ![s] = FALSE]
      /\ UNCHANGED <<queue, received, sent, targets>>
  BY DEF CloseEnter
<1>2. discard' = discard
  <2>1. ~discard[s] /\ discard \in [Subs -> BOOLEAN]
    BY <1>1 DEF StreamInv, TypeOK
  <2> QED
    BY <1>1, <2>1
<1>3. \A r \in Subs : Phase(r)' = Phase(r) /\ Carried(r)' = Carried(r)
  BY <1>1 DEF Phase, Carried, TypeOK
<1>4. FromCache' = FromCache
  BY <1>1 DEF FromCache
<1> QED
  BY <1>1, <1>2, <1>3, <1>4 DEF Streams!vars

StreamsInv ==
    /\ TypeOK /\ FreshInv /\ StreamInv /\ CallInv /\ StartedInv
    /\ RouteInv /\ OnceInv /\ CountedInv

LEMMA StreamsStep ==
    StreamsInv /\ [Next]_vars => [Streams!Next]_(Streams!vars)
<1> SUFFICES ASSUME TypeOK, FreshInv, StreamInv, CallInv, StartedInv,
                    RouteInv, OnceInv, CountedInv, [Next]_vars
             PROVE  [Streams!Next]_(Streams!vars)
  BY DEF StreamsInv
<1> USE DEF brokerVars, subVars, closerVars, callVars
<1> DEFINE Goal == [Streams!Next]_(Streams!vars)
<1> HIDE DEF Streams!vars, Streams!Begin, Streams!Put, Streams!Take, Streams!Cut,
             Streams!Lose, Streams!End, Streams!Replays
<1>1. ASSUME NEW p \in Calls, NEW e \in Events,
             \/ PublishRefused(p) \/ PublishDuplicate(p, e) \/ PublishCached(p, e)
             \/ PublishFinish(p)
      PROVE  Goal
  BY <1>1, Hidden
  DEF PublishRefused, PublishDuplicate, PublishCached, PublishFinish
<1>2. ASSUME NEW p \in Calls, NEW e \in Events, PublishRoute(p, e)
      PROVE  Goal
  BY <1>2, RouteIsHidden
<1>3. ASSUME NEW p \in Calls, NEW s \in Subs, EnqueueBegin(p, s) \/ EnqueueFail(p, s)
      PROVE  Goal
  BY <1>3, Hidden DEF EnqueueBegin, EnqueueFail
<1>4. ASSUME NEW p \in Calls, NEW s \in Subs, EnqueueSend(p, s)
      PROVE  Goal
  <2>1. Streams!Put(s, p)
    BY <1>4, SendIsPut
  <2> QED
    BY <2>1 DEF Streams!Next
<1>5. ASSUME NEW s \in Subs, NEW t \in Topics, Subscribe(s, t)
      PROVE  Goal
  <2>1. sent'[s] \in Streams!Replays /\ Streams!Begin(s, sent'[s])
    BY <1>5, SubscribeIsBegin
  <2> QED
    BY <2>1 DEF Streams!Next
<1>6. ASSUME NEW s \in Subs,
             Receive(s) \/ CloserEnter(s) \/ CloseDiscard(s) \/ CloseEvents(s)
      PROVE  Goal
  BY <1>6, CloseIsEnd DEF Streams!Next
<1>7. ASSUME NEW s \in Subs, CloseEnter(s)
      PROVE  Goal
  BY <1>7, CloseEnterIsHidden
<1>8. ASSUME NEW s \in Subs,
             Drain(s) \/ DrainTick(s) \/ DrainTimeout(s) \/ CloseDeregister(s)
      PROVE  Goal
  BY <1>8, Hidden DEF Drain, DrainTick, DrainTimeout, CloseDeregister
<1>9. ASSUME BeginShutdown \/ BrokerClose \/ CloserNext \/ UNCHANGED vars
      PROVE  Goal
  BY <1>9, Hidden DEF BeginShutdown, BrokerClose, CloserNext, vars
<1> HIDE DEF Goal
<1>10. Goal
  BY <1>1, <1>2, <1>3, <1>4, <1>5, <1>6, <1>7, <1>8, <1>9, BrokerAssumption
  DEF Next, PublishStart, PublishStep, OwnerStep, CloseBody, CloserStep
<1> QED
  BY <1>10 DEF Goal

\* The broker implements Stream: whatever its publishers, owners and closers
\* do, the readers of Events() see bounded streams that carry every event at
\* most once, take nothing after they end and lose nothing unless
\* Broker.Close cut them.
THEOREM BrokerImplementsStreams == Spec => ImplementsStreams
<1>1. Init => StreamsInv
  BY TypeInit, FreshInit, StreamInit, CallInit, StartedInit, RouteInit, OnceInit,
     CountedInit DEF StreamsInv
<1>2. StreamsInv /\ [Next]_vars => StreamsInv'
  BY TypeStep, FreshStep, StreamStep, CallStep, StartedStep, RouteStep, OnceStep,
     CountedStep DEF StreamsInv
<1>3. Init => Streams!Init
  <2> SUFFICES ASSUME Init PROVE Streams!Init
    OBVIOUS
  <2>1. \A s \in Subs : Phase(s) = "absent" /\ sent[s] = <<>>
    BY DEF Init, Phase
  <2>2. FromCache = {} /\ \A s \in Subs : Carried(s) = {}
    BY <2>1, OccursEmpty DEF FromCache, Carried
  <2>3. /\ discard = [s \in Subs |-> FALSE] /\ queue = [s \in Subs |-> <<>>]
        /\ received = [s \in Subs |-> <<>>]
    BY DEF Init
  <2> QED
    BY <2>1, <2>2, <2>3 DEF Streams!Init
<1> QED
  BY <1>1, <1>2, <1>3, StreamsStep, PTL DEF Spec, ImplementsStreams, Streams!Spec
=============================================================================
