CONSTANTS
    Threads <- TwoThreads
    Full = 2
    Reply = 2
    MaxRequests = 2
SPECIFICATION FairSpec
INVARIANTS CountsAddUp
PROPERTY ReportComes
CHECK_DEADLOCK FALSE
