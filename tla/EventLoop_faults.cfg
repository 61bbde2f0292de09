SPECIFICATION Spec
CONSTANTS
    None = None
    a = a
    b = b
    Sources = {a, b}
    Lifecycle = {a}
    Faulty = {a, b}
    Erring = {a, b}
    Interruptible = TRUE
    VersionMod = 4
    MaxReuse = 2
    MaxHooks = 2
    MaxSynthetic = 2
INVARIANT EventsReachTheirSource
CHECK_DEADLOCK FALSE
