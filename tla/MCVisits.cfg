SPECIFICATION Spec
CONSTANTS
    k1 = k1
    r1 = r1
    r2 = r2
    Keys = {k1}
    Rewrites = {r1, r2}
    Sound <- OneSound
    NoTree = NoTree
    MaxEntries = 1
    Main = main
    Threads = {main}
    Resetters = {main}
    MaxGeneration = 1
    Sessions = {s1, s2}
    NoLimit = NoLimit
    SolveTimeout = 2
    Budget = 1
    Millisecond = 2
    Overrun = 1
    AutoInstall = TRUE
INVARIANTS
    TypeOK
    ObservationTruthful
    BudgetHonoured
    WidthInstallsProved
    AnswerIsFresh
SYMMETRY SessionSymmetry
