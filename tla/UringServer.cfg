CONSTANTS
    k1 = k1
    k2 = k2
    k3 = k3
    None = None
    Conns = {k1, k2, k3}
    NumFds = 2
    NumSessions = 2
SPECIFICATION Spec
SYMMETRY Symmetric
INVARIANTS TypeOK ManagerAgrees OpenIsOwned ListenerHears JoinReturns
CHECK_DEADLOCK FALSE
