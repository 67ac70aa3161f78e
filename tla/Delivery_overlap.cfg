SPECIFICATION Spec
CONSTANTS
    t1 = t1
    i1 = i1  i2 = i2  i3 = i3
    Topics = {t1}
    Events <- TwoEvents
    OwnEvents = {}
    Operations = {}
    QueueSize = 2
    EventsSize = 1
    MaxAttempts = 2
    MaxRemembered = 1
    WireSize = 1
    MaxSubs = 2
    MaxTimeouts = 1
INVARIANTS DeliveredMeansAcknowledged PendingAckLive OrderedDelivery
CHECK_DEADLOCK FALSE
