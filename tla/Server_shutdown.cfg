SPECIFICATION Spec
CONSTANTS
    c1 = c1
    t1 = t1  t2 = t2
    Conns = {c1}
    Topics = {t1, t2}
    QueueSize = 1
    MaxSubs = 2
    MaxPublishes = 3
    Operations = {"GracefulShutdown", "GiveUp", "Disconnect", "Unsubscribe", "RacingSubscribe"}
INVARIANTS TypeOK DrainedBeforeNotice ShutdownLeavesNothing ClientIsTold
CHECK_DEADLOCK FALSE
