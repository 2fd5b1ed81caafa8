SPECIFICATION FairSpec
CONSTANTS
    k1 = k1
    k2 = k2
    r1 = r1
    r2 = r2
    Keys = {k1, k2}
    Rewrites = {r1, r2}
    Sound <- TwoSound
    NoTree = NoTree
    MaxEntries = 1
    Clients = {c1, c2}
    NoClient = NoClient
    MaxQueue = 2
    Wakeup = Wakeup
    NoKey = NoKey
    StopOnce = TRUE
INVARIANTS
    TypeOK
    NothingLeftBehind
    PendingIsOwned
    TaskAccounting
PROPERTIES
    ImplementsPromise
    PendingIsDecided
    StopEndsWorker
