SPECIFICATION Spec
CONSTANTS
    None = None
    a = a
    b = b
    Sources = {a, b}
    Lifecycle = {a}
    Faulty = {a}
    Erring = {}
    Interruptible = FALSE
    VersionMod = 4
    MaxReuse = 2
    MaxHooks = 2
    MaxSynthetic = 1
INVARIANT NeverPanics
