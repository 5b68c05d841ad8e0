CONSTANTS
    exe = exe
    g1 = g1
    g2 = g2
    a1 = a1
    a2 = a2
    a3 = a3
    NULL = NULL
    Glibc = {exe, g1, g2}
    Android = {a1, a2, a3}
    r_map = exe
    MayUnloadFirst = TRUE
SPECIFICATION Spec
INVARIANT RestoredForGlibc
CHECK_DEADLOCK FALSE
