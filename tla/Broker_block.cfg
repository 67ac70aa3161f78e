SPECIFICATION Spec
CONSTANTS
    t1 = t1  t2 = t2
    k1 = k1  k2 = k2  k3 = k3
    NoKey = NoKey
    Topics = {t1}
    Keys = {k1, k2, k3, NoKey}
    Events <- RetryEvents
    Backpressure = "Block"
    Operations = {"Cancel", "Close", "BrokerClose"}
    QueueSize = 1
    CacheSize = 1
    DeduplicationSize = 1
    MaxSubs = 2
    MaxPublishes = 2
INVARIANTS TypeOK NoSendOnClosedChannel AcceptedReachesAll EventOnce
CHECK_DEADLOCK FALSE
PROPERTIES ImplementsStreams
