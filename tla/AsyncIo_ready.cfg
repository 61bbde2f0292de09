SPECIFICATION FairSpec
CONSTANTS
    g = g
    f = f
    t = t
    u = u
    none = none
    None = none
    Gen = g
    Io = f
    Fds = {g, f}
    Tasks = {t, u}
    Flaky = TRUE
    Refuses = TRUE
    MaxKey = 2
CHECK_DEADLOCK FALSE
 
INVARIANT NothingOutlivesItsOwner
 
PROPERTY LevelIsServed
