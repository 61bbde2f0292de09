SPECIFICATION FairSpec
CONSTANTS
    main = main
    w = w
    v = v
    none = none
    None = none
    Main = main
    Threads = {main, w, v}
    Backends = {"eventfd", "pipe", "iocp"}
    Cap = 4
    ReadSize = 2
    Keys = {1, 2}
    MaxPackets = 2
    MaxItems = 2
CHECK_DEADLOCK FALSE
INVARIANT ItemsAreAnnounced
PROPERTY RefinesPing
PROPERTY PingsAreAnswered
PROPERTY CloseIsSeen
