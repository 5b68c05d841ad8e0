CONSTANTS
    t1 = t1
    t2 = t2
    None = None
    Threads = {t1}
    LibdlName = "libdl"
    Reentrant = {}
    SO_MAX = 3
    MaxCalls = 2
    Paths <- AppPaths
    Override <- MCOverride
    Bname <- MCBname
    Kind <- MCKind
    Needed <- MCNeeded
    Fate <- OkFate
SPECIFICATION Spec
INVARIANT LibdlSubstituteSafe
CHECK_DEADLOCK FALSE
