SPECIFICATION FairSpec
CONSTANTS
    s1 = s1  s2 = s2
    NoSender = NoSender
    Senders = {s1, s2}
    Radix = 3
    MaxPayloadSize = 14
    Lists <- ThreeLists
INVARIANTS FramesIntact
PROPERTIES AllReceived
CHECK_DEADLOCK FALSE
