SPECIFICATION FairSpec
CONSTANTS
    None = None
    a = a
    b = b
    Sources = {a, b}
    Lifecycle = {a}
    Faulty = {}
    Erring = {}
    Interruptible = FALSE
    VersionMod = 4
    MaxReuse = 3
    MaxHooks = 3
    MaxSynthetic = 2
INVARIANT TypeOK
INVARIANT TokensResolveToTheirSource
INVARIANT RegistrationsAreOwned
INVARIANT HooksAreOfRegisteredSources
INVARIANT NothingPendingBetweenCallbacks
INVARIANT AllAwakeDuringEvents
PROPERTY ContinueKeepsRequests
PROPERTY RefinesRegistry
PROPERTY BatchIsServed
