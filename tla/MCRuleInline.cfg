SPECIFICATION Spec
CONSTANTS
    k1 = k1
    k2 = k2
    r1 = r1
    r2 = r2
    Keys = {k1, k2}
    Rewrites = {r1, r2}
    Sound <- TwoSound
    NoTree = NoTree
    NoKey = NoKey
    MaxEntries = 1
    MaxQueue = 1
    FlushEvery = 2
    ProofModes = {TRUE, FALSE}
    Starving = FALSE
    OpenMayFail = FALSE
    StopTimesOut = FALSE
INVARIANTS
    CrashLosesABatch
PROPERTIES
    EvictedReachesDisk
