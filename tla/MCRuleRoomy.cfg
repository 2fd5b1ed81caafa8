SPECIFICATION FairSpec
CONSTANTS
    k1 = k1
    k2 = k2
    r1 = r1
    r2 = r2
    Keys = {k1, k2}
    Rewrites = {r1, r2}
    Sound <- TwoSound
    NoTree = NoTree
    NoKey = NoKey
    MaxEntries = 2
    MaxQueue = 2
    FlushEvery = 2
    ProofModes = {TRUE}
    Starving = TRUE
    OpenMayFail = FALSE
    StopTimesOut = FALSE
INVARIANTS
    ShutdownPersists
PROPERTIES
    ProofNeverDowngraded
    DeferredReachesDisk
