SPECIFICATION Spec
CONSTANTS
    a = a
    b = b
    none = none
    None = none
    Timers = {a, b}
    Timeouts = {}
    MaxTime = 2
    MaxInserts = 1
    MaxCounter = 3
CHECK_DEADLOCK FALSE
PROPERTY NeverEarly
