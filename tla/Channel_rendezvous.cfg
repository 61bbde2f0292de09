SPECIFICATION FairSpec
CONSTANTS
    s1 = s1
    s2 = s2
    Senders = {s1, s2}
    Bounds = {0}
    UsizeMax = 4
    MaxEventsCheck = 2
    MaxCounter = 4
    MaxQueue = 3
CHECK_DEADLOCK FALSE
PROPERTY BlockedSendReturns
