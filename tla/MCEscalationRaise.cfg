SPECIFICATION Spec
CONSTANTS
    k1 = k1
    k2 = k2
    r1 = r1
    r2 = r2
    Keys = {k1, k2}
    Rewrites <- OneRewrite
    Sound <- OneSound
    NoTree = NoTree
    MaxEntries = 2
    Clients = {c1}
    NoClient = NoClient
    MaxQueue = 2
    Wakeup = Wakeup
    NoJob = NoJob
    TimedStops = FALSE
    ProverMayRaise = TRUE
PROPERTIES
    JobsLeaveDecided
