CONSTANTS
    t1 = t1
    t2 = t2
    None = None
    Threads = {t1}
    LibdlName = "libdl"
    Reentrant = {"d"}
    SO_MAX = 3
    MaxCalls = 1
    Paths <- AllPaths
    Override <- MCOverride
    Bname <- MCBname
    Kind <- MCKind
    Needed <- MCNeeded
    Fate <- OkFate
SPECIFICATION FairSpec
PROPERTY CallReturns
CHECK_DEADLOCK FALSE
