CONSTANTS
    HeaderSize = 2
    MaxData = 1
    LineLengths <- Lines
    MaxServed = 2
    MaxTyped = 2
SPECIFICATION FairSpec
INVARIANTS TypeOK ShownInOrder LinesSentInOrder FewLateSends
PROPERTY CloseIsNoticed
CHECK_DEADLOCK FALSE
