SPECIFICATION FairSpec
CONSTANTS
    Threads = {t1, t2, t3}
    Rules = {r1, r2, r3}
INVARIANTS
    TypeOK
PROPERTIES
    ImplementsOwnership
    CloseLeavesNothing
