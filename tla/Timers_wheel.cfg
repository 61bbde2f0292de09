SPECIFICATION FairSpec
CONSTANTS
    a = a
    b = b
    none = none
    None = none
    Timers = {a, b}
    Timeouts = {b}
    MaxTime = 1
    MaxInserts = 2
    MaxCounter = 3
CHECK_DEADLOCK FALSE
INVARIANT RegisteredTimersArePending
INVARIANT OneExpiryPerTimer
PROPERTY NeverEarlyUnlessExcused
PROPERTY TimersFire
