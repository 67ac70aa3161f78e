SPECIFICATION FairSpec
CONSTANTS
    c1 = c1
    t1 = t1  t2 = t2
    Conns = {c1}
    Topics = {t1}
    QueueSize = 1
    MaxSubs = 1
    MaxPublishes = 1
    Operations = {"GracefulShutdown", "RacingSubscribe"}
PROPERTIES ShutdownReturns
CHECK_DEADLOCK FALSE
