\* A second close of a number that the listener was handed in between.
CONSTANTS
    k1 = k1
    k2 = k2
    k3 = k3
    k4 = k4
    None = None
    Conns = {k1, k2, k3}
    Descriptors = {0, 1}
    NumSessions = 2
    CounterSpan = 3
SPECIFICATION Spec
SYMMETRY Symmetric
INVARIANT OnlyGoneAreClosed
CHECK_DEADLOCK FALSE
