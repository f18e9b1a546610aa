\* addClient registers before it inserts; the worker may look in between.
CONSTANTS
    c1 = c1
    c2 = c2
    b1 = b1
    b2 = b2
    b3 = b3
    None = None
    Clients = {c1, c2}
    Buffers = {b1, b2}
    BufferSize = 2
    MaxReads = 2
    SendSpace = 1
    InitialPool <- TwoPool
    Stream <- PairStreams
SPECIFICATION Spec
INVARIANT ClientsAreRegistered
CHECK_DEADLOCK FALSE
