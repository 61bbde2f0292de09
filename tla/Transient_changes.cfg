SPECIFICATION Spec
CONSTANTS
    a = a
    b = b
    c = c
    none = none
    None = none
    Inner = {a, b, c}
    Leaky = {b, c}
    Faulty = {c}
CHECK_DEADLOCK FALSE
INVARIANT SettledIsWanted
INVARIANT LiveSourcesAreHeld
INVARIANT CarefulUseNeverFails
