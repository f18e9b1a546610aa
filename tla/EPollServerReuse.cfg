\* Four connections on two descriptors, two sessions, a counter that wraps.
CONSTANTS
    k1 = k1
    k2 = k2
    k3 = k3
    k4 = k4
    None = None
    Conns = {k1, k2, k3, k4}
    Descriptors = {0, 1}
    NumSessions = 2
    CounterSpan = 3
SPECIFICATION Spec
SYMMETRY Symmetric
INVARIANTS TypeOK RoundRobinBalance AssignmentMatches WatchedIsListed
CHECK_DEADLOCK FALSE
