SPECIFICATION FairSpec
CONSTANTS
    k1 = k1
    k2 = k2
    r1 = r1
    r2 = r2
    Keys = {k1, k2}
    Rewrites <- TwoRewrite
    Sound <- TwoSound
    NoTree = NoTree
    MaxEntries = 1
    Clients = {c1, c2}
    NoClient = NoClient
    MaxQueue = 2
    Wakeup = Wakeup
    NoJob = NoJob
    TimedStops = FALSE
    ProverMayRaise = FALSE
INVARIANTS
    TypeOK
    NothingLeftBehind
PROPERTIES
    ResultNeverBecomesPending
    JobsLeaveDecided
    ImplementsPromise
    StopReturns
    PendingIsDecided
