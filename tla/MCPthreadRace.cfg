CONSTANTS
    t1 = t1
    t2 = t2
    t3 = t3
    m1 = m1
    m2 = m2
    ma = ma
    cv = cv
    ca = ca
    se = se
    rw = rw
    at = at
    cl = cl
    p1 = p1
    p2 = p2
    p3 = p3
    None = None
    Threads = {t1, t2}
    Objects = {m1, m2, ma, cv, ca, se, rw, at, cl}
    Programs = {{m1, m2}}
    Pages = {p1, p2, p3}
    Kind <- MCKind
    RacyFirstUse = TRUE
    BILLION = 2
    Epoch = 3
    Times = {1}
    MaxNow = 2
    MaxSem = 2
SPECIFICATION Spec
SYMMETRY Sym
INVARIANT InitializerKnown
CHECK_DEADLOCK FALSE
