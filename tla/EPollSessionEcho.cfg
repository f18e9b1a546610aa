\* One client, enough buffers for several responses to wait, and more full
\* reads than one handleRead makes.
CONSTANTS
    c1 = c1
    c2 = c2
    b1 = b1
    b2 = b2
    b3 = b3
    None = None
    Clients = {c1}
    Buffers = {b1, b2, b3}
    BufferSize = 2
    MaxReads = 2
    SendSpace = 1
    InitialPool <- ThreePool
    Stream <- LongStream
SPECIFICATION FairSpec
INVARIANTS TypeOK EchoOrder
PROPERTIES ImplementsEcho OwedIsAnswered DataIsRead
CHECK_DEADLOCK FALSE
