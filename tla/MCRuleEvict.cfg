SPECIFICATION Spec
CONSTANTS
    k1 = k1
    k2 = k2
    r1 = r1
    r2 = r2
    Keys = {k1, k2}
    Rewrites = {r1}
    Sound <- OneSound
    NoTree = NoTree
    NoKey = NoKey
    MaxEntries = 1
    MaxQueue = 1
    FlushEvery = 2
    ProofModes = {TRUE}
    Starving = TRUE
    OpenMayFail = FALSE
    StopTimesOut = FALSE
PROPERTIES
    EvictedReachesDisk
