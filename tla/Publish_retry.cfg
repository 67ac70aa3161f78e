SPECIFICATION FairSpec
CONSTANTS
    p1 = p1  p2 = p2
    b1 = b1  b2 = b2
    NoCall = NoCall
    Calls = {p1}
    Brokers = {b1, b2}
    MaxAttempts = 6
    MaxConns = 2
    WireSize = 1
    KeysSize = 1
    MaxFaults = 1
    Operations = {"Cut", "Crash", "Shutdown", "Close", "Evict", "Reject"}
INVARIANTS TypeOK SuccessWasPublished PublishedOnce PendingIsOpen
PROPERTIES CallReturns EndIsNoticed
CHECK_DEADLOCK FALSE
