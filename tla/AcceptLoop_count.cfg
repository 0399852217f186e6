SPECIFICATION Spec
CONSTANTS
    Conn = {c1, c2, c3}
    Unread = {c1, c2, c3}
    Fd <- TwoFds
    Thread = {t1, t2, t3}
    ThreadsMayFail = TRUE
    None = None
SYMMETRY Symmetry
INVARIANTS
    TypeOK
    ClientsCounted
\* With every client gone the main thread waits in accept().
CHECK_DEADLOCK FALSE
