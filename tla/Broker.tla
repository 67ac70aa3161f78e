------------------------------- MODULE Broker -------------------------------
(***************************************************************************)
(* The in-memory core of the event bus: src/broker/broker.go.              *)
(*                                                                         *)
(* The threads are the goroutines that call the package:                   *)
(*   - one per PublishWithResult call p \in Calls;                         *)
(*   - the owner of each subscription s \in Subs, which calls Drain and    *)
(*     Close, and the reader of its Events() channel;                      *)
(*   - one goroutine that calls Broker.Close.                              *)
(* A step is one critical section of Broker.mu or Subscription.mu, or one  *)
(* channel operation.                                                      *)
(*                                                                         *)
(* An event is identified by the call that published it, so two calls that *)
(* publish the same message are told apart in every queue.  event[p] is    *)
(* what the call carries; the payload and the partition key are opaque to  *)
(* the broker and left out.                                                *)
(***************************************************************************)
EXTENDS Integers, Sequences, FiniteSets

CONSTANTS
    Topics,             \* topic names
    Keys,               \* message IDs and idempotency keys, "" included
    NoKey,              \* the empty string ""
    Events,             \* the events that callers may publish
    QueueSize,          \* Config.QueueSize, as given to New
    CacheSize,          \* Config.CacheSize
    DeduplicationSize,  \* Config.DeduplicationSize
    Backpressure,       \* Config.Backpressure: "Block" or "Drop"
    Operations,         \* the optional calls that the callers may make
    MaxSubs,            \* bound: number of successful Subscribe calls
    MaxPublishes        \* bound: number of PublishWithResult calls

Subs  == 1 .. MaxSubs
Calls == 1 .. MaxPublishes
NoSub == 0

\* Cancel: the context of a Publish call ends before the call does.
\* CloseFirst: the owner of the first subscription calls Close, no other does.
AllOperations == {"Cancel", "Drain", "Close", "CloseFirst", "BeginShutdown",
                  "BrokerClose"}

ASSUME BrokerAssumption ==
    /\ Topics # {} /\ Events # {}
    /\ NoKey \in Keys
    /\ Events \subseteq [id : Keys, idempotencyKey : Keys, topic : Topics]
    /\ QueueSize \in Int /\ CacheSize \in Int /\ DeduplicationSize \in Int
    /\ Backpressure \in {"Block", "Drop"}
    /\ Operations \subseteq AllOperations
    /\ MaxSubs \in Nat /\ MaxPublishes \in Nat

VARIABLES
    closed,     \* Broker.closed
    draining,   \* Broker.draining
    sequence,   \* Broker.sequence: the id of the newest subscription
    topics,     \* Broker.topics: the registered subscriptions of a topic
    cache,      \* Broker.cache: events published to a topic nobody reads
    dedup,      \* Broker.dedup: the remembered keys of a topic
    topicOf,    \* Subscription.topic
    state,      \* "absent", "open", "closing" (closed is set and done is
                \* closed), "closed" (the events channel is closed)
    queue,      \* Subscription.events
    wg,         \* Subscription.wg: the calls that it counts
    discard,    \* the winning close(drain) had drain = false
    owner,      \* where the owner of a subscription is
    closerTodo, \* the subscriptions that Broker.Close has yet to close
    closerAt,   \* the one that it is closing
    pc,         \* where a PublishWithResult call is
    event,      \* the event that it publishes
    todo,       \* the subscribers that it has not served yet
    result,     \* what it returned
    targets,    \* history: the subscribers that it found
    preds,      \* history: the calls that had returned when it started
    sent,       \* history: everything put into a subscription's queue
    received    \* history: everything its reader took out

brokerVars == <<closed, draining, sequence, topics, cache, dedup>>
subVars    == <<topicOf, state, queue, wg, discard>>
closerVars == <<closerTodo, closerAt>>
callVars   == <<pc, event, todo, result, targets, preds>>
vars == <<brokerVars, subVars, owner, closerVars, callVars, sent, received>>

-----------------------------------------------------------------------------
(* Configuration and helpers *)

\* New replaces sizes that make no sense by the smallest one that does.
queueSize         == IF QueueSize < 1 THEN 1 ELSE QueueSize
cacheSize         == IF CacheSize < 0 THEN 0 ELSE CacheSize
deduplicationSize == IF DeduplicationSize < 0 THEN 0 ELSE DeduplicationSize

idempotencyKey(e) == IF e.idempotencyKey # NoKey THEN e.idempotencyKey ELSE e.id

seen(t, key) == key # NoKey /\ deduplicationSize # 0 /\ key \in dedup[t]

\* Mutant: the test for a full table is off by one.
evictions_OffByOne(t) == IF Cardinality(dedup[t]) + 1 < deduplicationSize
                         THEN {{}}
                         ELSE {{oldest} : oldest \in dedup[t]}

\* A full table gives up the key that a range over the map yields first,
\* which can be any key.
evictions(t) == IF Cardinality(dedup[t]) < deduplicationSize
                THEN {{}}
                ELSE {{oldest} : oldest \in dedup[t]}

remember(t, key) ==
    IF key = NoKey \/ deduplicationSize = 0
    THEN UNCHANGED dedup
    ELSE \E out \in evictions(t) :
            dedup' = [dedup EXCEPT ![t] = (@ \ out) \cup {key}]

\* Mutant: the test for a full cache is off by one.
cacheEvent_OffByOne(t, p) ==
    IF cacheSize = 0
    THEN UNCHANGED cache
    ELSE cache' = [cache EXCEPT ![t] =
                     Append(IF Len(@) > cacheSize THEN Tail(@) ELSE @, p)]

\* Mutant: the newest event is put in front.
cacheEvent_Prepend(t, p) ==
    IF cacheSize = 0
    THEN UNCHANGED cache
    ELSE cache' = [cache EXCEPT ![t] =
                     <<p>> \o IF Len(@) >= cacheSize THEN Tail(@) ELSE @]

\* A full cache drops its oldest event.
cacheEvent(t, p) ==
    IF cacheSize = 0
    THEN UNCHANGED cache
    ELSE cache' = [cache EXCEPT ![t] =
                     Append(IF Len(@) >= cacheSize THEN Tail(@) ELSE @, p)]

-----------------------------------------------------------------------------
(* PublishWithResult *)

\* Calls are numbered in the order in which they first take Broker.mu.
Enters(p) ==
    /\ pc[p] = "idle"
    /\ \A q \in Calls : q < p => pc[q] # "idle"
    /\ preds' = [preds EXCEPT ![p] = {q \in Calls : pc[q] = "returned"}]

Return(p, r) ==
    /\ pc' = [pc EXCEPT ![p] = "returned"]
    /\ result' = [result EXCEPT ![p] = r]

\* The broker is closed or draining.
PublishRefused(p) ==
    /\ closed \/ draining
    /\ Enters(p)
    /\ Return(p, IF closed THEN "ErrClosed" ELSE "ErrDraining")
    /\ UNCHANGED <<brokerVars, subVars, owner, closerVars, event, todo,
                   targets, sent, received>>

PublishDuplicate(p, e) ==
    /\ ~closed /\ ~draining
    /\ seen(e.topic, idempotencyKey(e))
    /\ Enters(p)
    /\ event' = [event EXCEPT ![p] = e]
    /\ Return(p, "Duplicate")
    /\ UNCHANGED <<brokerVars, subVars, owner, closerVars, todo, targets,
                   sent, received>>

\* Nobody subscribes to the topic: the event is cached and remembered.
PublishCached(p, e) ==
    /\ ~closed /\ ~draining
    /\ ~seen(e.topic, idempotencyKey(e))
    /\ topics[e.topic] = {}
    /\ Enters(p)
    /\ event' = [event EXCEPT ![p] = e]
    /\ cacheEvent(e.topic, p)
    /\ remember(e.topic, idempotencyKey(e))
    /\ Return(p, "Published")
    /\ UNCHANGED <<closed, draining, sequence, topics, subVars, owner,
                   closerVars, todo, targets, sent, received>>

\* The subscribers are copied and the lock is released before any of them
\* is served.
PublishRoute(p, e) ==
    /\ ~closed /\ ~draining
    /\ ~seen(e.topic, idempotencyKey(e))
    /\ topics[e.topic] # {}
    /\ Enters(p)
    /\ event' = [event EXCEPT ![p] = e]
    /\ pc' = [pc EXCEPT ![p] = "routing"]
    /\ todo' = [todo EXCEPT ![p] = topics[e.topic]]
    /\ targets' = [targets EXCEPT ![p] = topics[e.topic]]
    /\ UNCHANGED <<brokerVars, subVars, owner, closerVars, result,
                   sent, received>>

\* Mutant: a closed subscription is tried again and again.
EnqueueBegin_Retry(p, s) ==
    /\ pc[p] = "routing" /\ s \in todo[p] /\ state[s] = "open"
    /\ wg' = [wg EXCEPT ![s] = @ \cup {p}]
    /\ pc' = [pc EXCEPT ![p] = "select"]
    /\ UNCHANGED <<brokerVars, topicOf, state, queue, discard, owner, closerVars,
                   event, todo, result, targets, preds, sent, received>>

\* The start of Subscription.enqueue, up to its select.  The first look at
\* done is part of the step: done is closed together with setting closed, so
\* it can only differ when a close comes in between, and then the select
\* below may give the same answer.
EnqueueBegin(p, s) ==
    /\ pc[p] = "routing" /\ s \in todo[p]
    /\ \/ /\ state[s] = "open"
          /\ wg' = [wg EXCEPT ![s] = @ \cup {p}]
          /\ pc' = [pc EXCEPT ![p] = "select"]
          /\ UNCHANGED result
       \/ /\ state[s] # "open"
          /\ Return(p, "ErrSubscription")
          /\ UNCHANGED wg
    /\ UNCHANGED <<brokerVars, topicOf, state, queue, discard, owner,
                   closerVars, event, todo, targets, preds, sent, received>>

\* The send case of the select, and the deferred wg.Done.
EnqueueSend(p, s) ==
    /\ pc[p] = "select" /\ p \in wg[s]
    /\ Len(queue[s]) < queueSize
    /\ queue' = [queue EXCEPT ![s] = Append(@, p)]
    /\ sent' = [sent EXCEPT ![s] = Append(@, p)]
    /\ wg' = [wg EXCEPT ![s] = @ \ {p}]
    /\ todo' = [todo EXCEPT ![p] = @ \ {s}]
    /\ pc' = [pc EXCEPT ![p] = "routing"]
    /\ UNCHANGED <<brokerVars, topicOf, state, discard, owner, closerVars,
                   event, result, targets, preds, received>>

\* Mutant: the select has no case for done.
SelectErrors_NoDone(s) ==
    (IF Backpressure = "Block" /\ "Cancel" \in Operations
     THEN {"ctx.Err"} ELSE {})
      \cup (IF Backpressure = "Drop" /\ Len(queue[s]) >= queueSize
            THEN {"ErrQueueFull"} ELSE {})

\* The error that another ready case of the select gives, if one is ready.
SelectErrors(s) ==
    (IF state[s] # "open" THEN {"ErrSubscription"} ELSE {})
      \cup (IF Backpressure = "Block" /\ "Cancel" \in Operations
            THEN {"ctx.Err"} ELSE {})
      \cup (IF Backpressure = "Drop" /\ state[s] = "open"
                 /\ Len(queue[s]) >= queueSize
            THEN {"ErrQueueFull"} ELSE {})

\* Mutant: the fan-out goes on after an error and forgets it.
EnqueueFail_Continue(p, s) ==
    /\ pc[p] = "select" /\ p \in wg[s]
    /\ SelectErrors(s) # {}
    /\ wg' = [wg EXCEPT ![s] = @ \ {p}]
    /\ todo' = [todo EXCEPT ![p] = @ \ {s}]
    /\ pc' = [pc EXCEPT ![p] = "routing"]
    /\ UNCHANGED <<brokerVars, topicOf, state, queue, discard, owner,
                   closerVars, event, result, targets, preds, sent, received>>

\* Mutant: the key is remembered although the fan-out failed.
EnqueueFail_Remember(p, s) ==
    /\ pc[p] = "select" /\ p \in wg[s]
    /\ \E err \in SelectErrors(s) : Return(p, err)
    /\ wg' = [wg EXCEPT ![s] = @ \ {p}]
    /\ remember(event[p].topic, idempotencyKey(event[p]))
    /\ UNCHANGED <<closed, draining, sequence, topics, cache, topicOf, state,
                   queue, discard, owner, closerVars, event, todo, targets,
                   preds, sent, received>>

\* The first error ends the call: later subscribers are not served and the
\* key is not remembered.
EnqueueFail(p, s) ==
    /\ pc[p] = "select" /\ p \in wg[s]
    /\ \E err \in SelectErrors(s) : Return(p, err)
    /\ wg' = [wg EXCEPT ![s] = @ \ {p}]
    /\ UNCHANGED <<brokerVars, topicOf, state, queue, discard, owner,
                   closerVars, event, todo, targets, preds, sent, received>>

\* Every subscriber took the event: Broker.mu is taken again to remember it.
PublishFinish(p) ==
    /\ pc[p] = "routing" /\ todo[p] = {}
    /\ remember(event[p].topic, idempotencyKey(event[p]))
    /\ Return(p, "Published")
    /\ UNCHANGED <<closed, draining, sequence, topics, cache, subVars, owner,
                   closerVars, event, todo, targets, preds, sent, received>>

PublishStart(p) ==
    \/ PublishRefused(p)
    \/ \E e \in Events : \/ PublishDuplicate(p, e)
                         \/ PublishCached(p, e)
                         \/ PublishRoute(p, e)

PublishStep(p) ==
    \/ \E s \in Subs : \/ EnqueueBegin(p, s)
                       \/ EnqueueSend(p, s)
                       \/ EnqueueFail(p, s)
    \/ PublishFinish(p)

-----------------------------------------------------------------------------
(* Subscribe, and what the owner and the reader of a subscription do *)

\* Mutant: the replayed events stay in the cache.
Subscribe_KeepCache(s, t) ==
    LET n == IF Len(cache[t]) > queueSize THEN queueSize ELSE Len(cache[t])
        replay == SubSeq(cache[t], 1, n)
    IN  /\ ~closed /\ ~draining
        /\ s = sequence + 1
        /\ sequence' = s
        /\ topicOf' = [topicOf EXCEPT ![s] = t]
        /\ state' = [state EXCEPT ![s] = "open"]
        /\ topics' = [topics EXCEPT ![t] = @ \cup {s}]
        /\ queue' = [queue EXCEPT ![s] = replay]
        /\ sent' = [sent EXCEPT ![s] = replay]
        /\ owner' = [owner EXCEPT ![s] = "using"]
        /\ UNCHANGED <<closed, draining, cache, dedup, wg, discard, closerVars,
                       callVars, received>>

\* The oldest cached events that fit are put into the new queue.
Subscribe(s, t) ==
    LET n == IF Len(cache[t]) > queueSize THEN queueSize ELSE Len(cache[t])
        replay == SubSeq(cache[t], 1, n)
    IN  /\ ~closed /\ ~draining
        /\ s = sequence + 1
        /\ sequence' = s
        /\ topicOf' = [topicOf EXCEPT ![s] = t]
        /\ state' = [state EXCEPT ![s] = "open"]
        /\ topics' = [topics EXCEPT ![t] = @ \cup {s}]
        /\ queue' = [queue EXCEPT ![s] = replay]
        /\ sent' = [sent EXCEPT ![s] = replay]
        /\ cache' = [cache EXCEPT ![t] = SubSeq(@, n + 1, Len(@))]
        /\ owner' = [owner EXCEPT ![s] = "using"]
        /\ UNCHANGED <<closed, draining, dedup, wg, discard, closerVars,
                       callVars, received>>

Receive(s) ==
    /\ queue[s] # <<>>
    /\ queue' = [queue EXCEPT ![s] = Tail(@)]
    /\ received' = [received EXCEPT ![s] = Append(@, Head(queue[s]))]
    /\ UNCHANGED <<brokerVars, topicOf, state, wg, discard, owner, closerVars,
                   callVars, sent>>

OwnerMoves(s, from, to) ==
    /\ owner[s] \in from
    /\ owner' = [owner EXCEPT ![s] = to]

\* Drain looks at the queue before it waits for the first tick.
Drain(s) ==
    /\ "Drain" \in Operations
    /\ OwnerMoves(s, {"using"}, IF queue[s] = <<>> THEN "drained" ELSE "draining")
    /\ UNCHANGED <<brokerVars, subVars, closerVars, callVars, sent, received>>

\* A tick that finds the queue empty goes on to Close.
DrainTick(s) ==
    /\ queue[s] = <<>>
    /\ OwnerMoves(s, {"draining"}, "drained")
    /\ UNCHANGED <<brokerVars, subVars, closerVars, callVars, sent, received>>

DrainTimeout(s) ==
    /\ OwnerMoves(s, {"draining"}, "using")
    /\ UNCHANGED <<brokerVars, subVars, closerVars, callVars, sent, received>>

\* Subscription.Close: the critical section of Broker.mu ...  Another
\* goroutine of the owner may call it while Drain waits.
CloseDeregister(s) ==
    /\ \/ "Close" \in Operations
       \/ "CloseFirst" \in Operations /\ s = 1
       \/ owner[s] = "drained"
    /\ OwnerMoves(s, {"using", "draining", "drained"}, "closing")
    /\ topics' = [topics EXCEPT ![topicOf[s]] = @ \ {s}]
    /\ UNCHANGED <<closed, draining, sequence, cache, dedup, subVars,
                   closerVars, callVars, sent, received>>

\* ... and close(true), which waits in once.Do when another close runs.
\* Close returns once the state is "closed".
CloseEnter(s) ==
    /\ owner[s] = "closing" /\ state[s] = "open"
    /\ state' = [state EXCEPT ![s] = "closing"]
    /\ discard' = [discard EXCEPT ![s] = FALSE]
    /\ UNCHANGED <<brokerVars, topicOf, queue, wg, owner, closerVars, callVars,
                   sent, received>>

\* The body of close after wg.Wait: empty the queue first unless draining ...
CloseDiscard(s) ==
    /\ state[s] = "closing" /\ wg[s] = {}
    /\ discard[s] /\ queue[s] # <<>>
    /\ queue' = [queue EXCEPT ![s] = Tail(@)]
    /\ UNCHANGED <<brokerVars, topicOf, state, wg, discard, owner, closerVars,
                   callVars, sent, received>>

\* Mutant: close does not wait for the publishers.
CloseEvents_NoWait(s) ==
    /\ state[s] = "closing"
    /\ discard[s] => queue[s] = <<>>
    /\ state' = [state EXCEPT ![s] = "closed"]
    /\ UNCHANGED <<brokerVars, topicOf, queue, wg, discard, owner, closerVars,
                   callVars, sent, received>>

\* Mutant: close(false) leaves the queue as it is.
CloseEvents_KeepQueue(s) ==
    /\ state[s] = "closing" /\ wg[s] = {}
    /\ state' = [state EXCEPT ![s] = "closed"]
    /\ UNCHANGED <<brokerVars, topicOf, queue, wg, discard, owner, closerVars,
                   callVars, sent, received>>

\* ... then close the events channel.
CloseEvents(s) ==
    /\ state[s] = "closing" /\ wg[s] = {}
    /\ discard[s] => queue[s] = <<>>
    /\ state' = [state EXCEPT ![s] = "closed"]
    /\ UNCHANGED <<brokerVars, topicOf, queue, wg, discard, owner, closerVars,
                   callVars, sent, received>>

OwnerStep(s) == DrainTick(s) \/ CloseEnter(s)
CloseBody(s) == CloseDiscard(s) \/ CloseEvents(s)

-----------------------------------------------------------------------------
(* Shutdown of the broker *)

BeginShutdown ==
    /\ "BeginShutdown" \in Operations
    /\ ~draining
    /\ draining' = TRUE
    /\ UNCHANGED <<closed, sequence, topics, cache, dedup, subVars, owner,
                   closerVars, callVars, sent, received>>

\* Mutant: the map of topics is dropped and no new one is made.
BrokerClose_NoMap ==
    /\ "BrokerClose" \in Operations
    /\ ~closed
    /\ closed' = TRUE
    /\ closerTodo' = UNION {topics[t] : t \in Topics}
    /\ topics' = [t \in {} |-> {}]
    /\ UNCHANGED <<draining, sequence, cache, dedup, subVars, owner, closerAt,
                   callVars, sent, received>>

\* The critical section of Broker.Close.
BrokerClose ==
    /\ "BrokerClose" \in Operations
    /\ ~closed
    /\ closed' = TRUE
    /\ closerTodo' = UNION {topics[t] : t \in Topics}
    /\ topics' = [t \in Topics |-> {}]
    /\ UNCHANGED <<draining, sequence, cache, dedup, subVars, owner, closerAt,
                   callVars, sent, received>>

\* close(false) on the next subscription; it waits when another close runs.
CloserEnter(s) ==
    /\ closerAt = NoSub /\ s \in closerTodo
    /\ closerAt' = s
    /\ IF state[s] = "open"
       THEN /\ state' = [state EXCEPT ![s] = "closing"]
            /\ discard' = [discard EXCEPT ![s] = TRUE]
       ELSE UNCHANGED <<state, discard>>
    /\ UNCHANGED <<brokerVars, topicOf, queue, wg, owner, closerTodo,
                   callVars, sent, received>>

CloserNext ==
    /\ closerAt # NoSub
    /\ state[closerAt] = "closed"
    /\ closerTodo' = closerTodo \ {closerAt}
    /\ closerAt' = NoSub
    /\ UNCHANGED <<brokerVars, subVars, owner, callVars, sent, received>>

CloserStep == (\E s \in Subs : CloserEnter(s)) \/ CloserNext

-----------------------------------------------------------------------------
(* The specification *)

Init ==
    /\ closed = FALSE /\ draining = FALSE /\ sequence = 0
    /\ topics = [t \in Topics |-> {}]
    /\ cache = [t \in Topics |-> <<>>]
    /\ dedup = [t \in Topics |-> {}]
    /\ topicOf = [s \in Subs |-> CHOOSE t \in Topics : TRUE]
    /\ state = [s \in Subs |-> "absent"]
    /\ queue = [s \in Subs |-> <<>>]
    /\ wg = [s \in Subs |-> {}]
    /\ discard = [s \in Subs |-> FALSE]
    /\ owner = [s \in Subs |-> "none"]
    /\ closerTodo = {} /\ closerAt = NoSub
    /\ pc = [p \in Calls |-> "idle"]
    /\ event = [p \in Calls |-> CHOOSE e \in Events : TRUE]
    /\ todo = [p \in Calls |-> {}]
    /\ result = [p \in Calls |-> "none"]
    /\ targets = [p \in Calls |-> {}]
    /\ preds = [p \in Calls |-> {}]
    /\ sent = [s \in Subs |-> <<>>]
    /\ received = [s \in Subs |-> <<>>]

Next ==
    \/ \E p \in Calls : PublishStart(p) \/ PublishStep(p)
    \/ \E s \in Subs, t \in Topics : Subscribe(s, t)
    \/ \E s \in Subs : \/ Receive(s)
                       \/ Drain(s)
                       \/ DrainTimeout(s)
                       \/ CloseDeregister(s)
                       \/ OwnerStep(s)
                       \/ CloseBody(s)
    \/ BeginShutdown
    \/ BrokerClose
    \/ CloserStep

Spec == Init /\ [][Next]_vars

\* The Go scheduler runs every goroutine that can move.  Callers are free not
\* to call, and a reader is free not to read, unless ReaderFairness says so.
Fairness ==
    /\ \A p \in Calls : WF_vars(PublishStep(p))
    /\ \A s \in Subs : WF_vars(OwnerStep(s)) /\ WF_vars(CloseBody(s))
    /\ WF_vars(CloserStep)

ReaderFairness == \A s \in Subs : WF_vars(Receive(s))

FairSpec == Spec /\ Fairness

-----------------------------------------------------------------------------
(* Properties that hold *)

Results == {"none", "Published", "Duplicate", "ErrClosed", "ErrDraining",
            "ErrSubscription", "ErrQueueFull", "ctx.Err"}

TypeOK ==
    /\ closed \in BOOLEAN /\ draining \in BOOLEAN
    /\ sequence \in 0 .. MaxSubs
    /\ topics \in [Topics -> SUBSET Subs]
    /\ cache \in [Topics -> Seq(Calls)]
    /\ dedup \in [Topics -> SUBSET Keys]
    /\ topicOf \in [Subs -> Topics]
    /\ state \in [Subs -> {"absent", "open", "closing", "closed"}]
    /\ queue \in [Subs -> Seq(Calls)]
    /\ wg \in [Subs -> SUBSET Calls]
    /\ discard \in [Subs -> BOOLEAN]
    /\ owner \in [Subs -> {"none", "using", "draining", "drained", "closing"}]
    /\ closerTodo \subseteq Subs
    /\ closerAt \in Subs \cup {NoSub}
    /\ pc \in [Calls -> {"idle", "routing", "select", "returned"}]
    /\ event \in [Calls -> Events]
    /\ todo \in [Calls -> SUBSET Subs]
    /\ result \in [Calls -> Results]
    /\ targets \in [Calls -> SUBSET Subs]
    /\ preds \in [Calls -> SUBSET Calls]
    /\ sent \in [Subs -> Seq(Calls)]
    /\ received \in [Subs -> Seq(Calls)]

Occurs(p, seq) == \E i \in 1 .. Len(seq) : seq[i] = p

\* A publisher that has passed the closed test of enqueue is about to send on
\* the events channel, and a send on a closed channel panics.  So close must
\* not reach close(s.events) while such a publisher is left, whichever of
\* Subscription.Close and Broker.Close got there first.
NoSendOnClosedChannel == \A s \in Subs : state[s] = "closed" => wg[s] = {}

\* "Events are delivered in publish order for this subscription": when one
\* Publish returned before another one started, no subscription gets the two
\* events the other way round, whether they come from the fan-out, from the
\* cache, or one from each.
PublishOrder ==
    \A s \in Subs : \A i, j \in 1 .. Len(sent[s]) :
        i < j => sent[s][j] \notin preds[sent[s][i]]

\* A Publish that reported success has put its event into the queue of every
\* subscriber that it found, even when subscriptions close meanwhile.
AcceptedReachesAll ==
    \A p \in Calls : result[p] = "Published" =>
        \A s \in targets[p] : Occurs(p, sent[s])

\* An event enters a queue at most once, and a cached event is replayed to
\* one subscription only, although a concurrent Subscribe may see it in the
\* cache or be found by the fan-out.
EventOnce ==
    \A s, r \in Subs : \A i \in 1 .. Len(sent[s]), j \in 1 .. Len(sent[r]) :
        sent[s][i] = sent[r][j] =>
            IF s = r THEN i = j ELSE targets[sent[s][i]] # {}

\* A Publish is answered with Duplicate only when an earlier Publish of the
\* same key to the same topic was accepted.  A Publish that failed half way
\* through its fan-out is not remembered, so that its retry is not swallowed.
DuplicateJustified ==
    \A p \in Calls : result[p] = "Duplicate" =>
        \E q \in preds[p] :
            /\ result[q] = "Published"
            /\ event[q].topic = event[p].topic
            /\ idempotencyKey(event[q]) = idempotencyKey(event[p])

\* A Publish that starts after others with its topic and key were accepted is
\* not delivered, as long as no more keys were accepted for the topic than the
\* table holds.  Accepted calls are counted, not different keys: remember
\* makes room in a full table even for a key that is in it.
RetrySuppressed ==
    \A p \in Calls :
        LET before == {q \in preds[p] : /\ result[q] = "Published"
                                       /\ event[q].topic = event[p].topic
                                       /\ idempotencyKey(event[q]) # NoKey}
        IN  /\ Cardinality(before) <= deduplicationSize
            /\ \E q \in before : idempotencyKey(event[q]) = idempotencyKey(event[p])
            => result[p] \in {"Duplicate", "ErrClosed", "ErrDraining"}

\* Closing a subscription by Subscription.Close loses no event: what was put
\* into the queue has been read or can still be read, in order.  Only
\* Broker.Close throws events away.
StreamIntact ==
    \A s \in Subs : ~discard[s] => sent[s] = received[s] \o queue[s]

\* Close takes a subscription out of Broker.topics before it closes it, and
\* Broker.Close takes out all of them: a Publish that starts after a
\* subscription began to close never finds it.
RoutesOnlyToOpen ==
    \A t \in Topics : \A s \in topics[t] : state[s] = "open" /\ topicOf[s] = t

\* Queues, cache and deduplication table stay within the configured sizes.
\* For the queue this is also why the replay in Subscribe, which sends while
\* it holds Broker.mu, never blocks.
ResourceBounds ==
    /\ \A s \in Subs : Len(queue[s]) <= queueSize
    /\ \A t \in Topics : /\ Len(cache[t]) <= cacheSize
                         /\ Cardinality(dedup[t]) <= deduplicationSize

\* A close that has begun ends, although publishers may be blocked on the full
\* queue and nobody reads: closing done wakes them, and wg.Wait returns.  So
\* does Broker.Close, which waits for every subscription in turn, some of which
\* their owners may be closing at the same time.
CloseTerminates ==
    /\ \A s \in Subs : state[s] = "closing" ~> state[s] = "closed"
    /\ closed ~> closerTodo = {}

\* As long as readers read, a Publish returns even with contexts that never
\* end, as the TCP server uses, and although subscriptions close under it.
PublishReturns ==
    ReaderFairness =>
        \A p \in Calls : pc[p] \in {"routing", "select"} ~> pc[p] = "returned"

-----------------------------------------------------------------------------
(* The abstract specification that the broker implements *)

\* close is one step to the outside: the channel is closed or it is not.
Phase(s) ==
    CASE state[s] = "absent" -> "absent"
      [] state[s] = "closed" -> "ended"
      [] OTHER -> "open"

Carried(s) == {p \in Calls : Occurs(p, sent[s])}

\* A call that found no subscriber leaves its event to the cache.
FromCache == {p \in Calls : targets[p] = {} /\ \E s \in Subs : Occurs(p, sent[s])}

Streams == INSTANCE Stream WITH
    Items    <- Calls,
    Capacity <- queueSize,
    phase    <- [s \in Subs |-> Phase(s)],
    cut      <- discard,
    pending  <- queue,
    taken    <- received,
    carried  <- [s \in Subs |-> Carried(s)],
    replayed <- FromCache

\* Publish, Subscribe, Close and Broker.Close, split at every lock and channel
\* operation and interleaved in any way, look to the readers of Events() like
\* bounded FIFO streams: every event at most once, a cached event to one
\* subscription only, nothing after the end, and nothing lost but by
\* Broker.Close.
ImplementsStreams == Streams!Spec
=============================================================================
