\* Two clients ask to move between two sessions, or to a session there is not;
\* a number that a join has closed may go to the other client.
CONSTANTS
    k1 = k1
    k2 = k2
    None = None
    Conns = {k1, k2}
    NumFds = 2
    NumSessions = 2
    MaxJoins = 2
SPECIFICATION Spec
SYMMETRY Symmetric
INVARIANTS TypeOK ManagerAgrees OneSession OpenIsListed OpenIsRead
CHECK_DEADLOCK FALSE
