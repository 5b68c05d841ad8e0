CONSTANTS
    t1 = t1
    t2 = t2
    None = None
    Threads = {t1, t2}
    LibdlName = "libdl"
    Reentrant = {"d"}
    SO_MAX = 3
    MaxCalls = 4
    Paths <- AllPaths
    Override <- MCOverride
    Bname <- MCBname
    Kind <- MCKind
    Needed <- MCNeeded
    Fate <- AnyFate
SPECIFICATION FairSpec
INVARIANTS
    TypeOK
    RefcountExact
    NoDangling
    DepsInitialized
    PoolPartition
    UniqueNames
    NeededAcyclic
    NoOrphan
PROPERTIES
    InitFiniPaired
    FiniUnreferenced
    CallCompletes
CHECK_DEADLOCK FALSE
