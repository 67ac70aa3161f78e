SPECIFICATION Spec
CONSTANTS
    t1 = t1  t2 = t2
    k1 = k1  k2 = k2  k3 = k3
    NoKey = NoKey
    Topics = {t1, t2}
    Keys = {k1, k2, k3, NoKey}
    Events <- TwoTopicEvents
    Backpressure = "Drop"
    Operations = {"Cancel", "Drain", "Close", "BeginShutdown", "BrokerClose"}
    QueueSize = 2
    CacheSize = 2
    DeduplicationSize = 2
    MaxSubs = 1
    MaxPublishes = 3
INVARIANTS PublishOrder DuplicateJustified RetrySuppressed ResourceBounds
CHECK_DEADLOCK FALSE
