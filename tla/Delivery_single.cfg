SPECIFICATION FairSpec
CONSTANTS
    t1 = t1
    i1 = i1  i2 = i2  i3 = i3
    Topics = {t1}
    Events <- TwoEvents
    OwnEvents <- OneEvent
    Operations = {"Unsubscribe", "Close"}
    QueueSize = 1
    EventsSize = 1
    MaxAttempts = 2
    MaxRemembered = 1
    WireSize = 1
    MaxSubs = 1
    MaxTimeouts = 2
INVARIANTS TypeOK PredecessorsAcknowledged AckReachesDelivery
PROPERTIES EventuallyAcknowledged ConnectionCleanedUp
CHECK_DEADLOCK FALSE
