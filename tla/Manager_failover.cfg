SPECIFICATION FairSpec
CONSTANTS
    e1 = e1  e2 = e2  e3 = e3
    t1 = t1  t2 = t2
    NoRedirect = NoRedirect
    Endpoints = {e1, e2}
    Configured <- PrimaryAndStandby
    Topics = {t1}
    EventsSize = 1
    ManagerSize = 1
    MaxFaults = 1
    MaxEvents = 2
    Operations = {"Close", "Crash", "Shutdown", "Silence"}
INVARIANTS TypeOK SubscriptionsRestored OneOpenClient RedirectHonoured
PROPERTIES CloseEnds Recovers
CHECK_DEADLOCK FALSE
