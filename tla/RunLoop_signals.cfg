SPECIFICATION FairSpec
CONSTANTS
    w1 = w1
    w2 = w2
    i1 = i1
    i2 = i2
    Wakers = {w1, w2}
    Work = 2
    Idles = {i1, i2}
INVARIANT WakeIsSeen
INVARIANT StopIsSeen
PROPERTY BlockOnReturns
PROPERTY NoIdleIsLost
