SPECIFICATION Spec
CONSTANTS
    Conn = {c1, c2, c3}
    Unread = {}
    Fd <- ThreeFds
    Thread = {t1, t2, t3}
    ThreadsMayFail = FALSE
    None = None
PROPERTY EveryClientAnswered
CHECK_DEADLOCK FALSE
