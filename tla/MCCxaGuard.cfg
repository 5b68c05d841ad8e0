CONSTANTS
    Threads = {t1, t2, t3}
    MaxAborts = 2
SPECIFICATION FairSpec
INVARIANTS
    TypeOK
    OneConstructor
    NoLostWakeup
PROPERTIES
    ImplementsOnce
    AcquireReturns
