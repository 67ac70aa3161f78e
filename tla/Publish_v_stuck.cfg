SPECIFICATION FairSpec
CONSTANTS
    p1 = p1  p2 = p2
    b1 = b1  b2 = b2
    NoCall = NoCall
    Calls = {p1}
    Brokers = {b1}
    MaxAttempts = 2
    MaxConns = 1
    WireSize = 1
    KeysSize = 1
    MaxFaults = 1
    Operations = {"Crash"}
PROPERTY DoneWhenConnectionStops
CHECK_DEADLOCK FALSE
