SPECIFICATION FairSpec
CONSTANTS
    t1 = t1  t2 = t2
    k1 = k1  k2 = k2  k3 = k3
    NoKey = NoKey
    Topics = {t1}
    Keys = {k1, k2, k3, NoKey}
    Events <- OneEvent
    Backpressure = "Block"
    Operations = {"CloseFirst", "BrokerClose"}
    QueueSize = 1
    CacheSize = 1
    DeduplicationSize = 0
    MaxSubs = 2
    MaxPublishes = 2
PROPERTIES CloseTerminates PublishReturns
CHECK_DEADLOCK FALSE
