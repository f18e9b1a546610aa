\* Two workers, a signal at any time, a start that may fail.
CONSTANTS
    s1 = s1
    s2 = s2
    Sessions = {s1, s2}
SPECIFICATION FairSpec
INVARIANTS TypeOK SessionOutlivesWorker
PROPERTY SignalEndsProcess
CHECK_DEADLOCK FALSE
