\* Two clients, a pool that can run dry, streams that split and coalesce.
CONSTANTS
    c1 = c1
    c2 = c2
    b1 = b1
    b2 = b2
    b3 = b3
    None = None
    Clients = {c1, c2}
    Buffers = {b1, b2}
    BufferSize = 2
    MaxReads = 2
    SendSpace = 1
    InitialPool <- TwoPool
    Stream <- MixedStreams
SPECIFICATION Spec
INVARIANTS NoSharedBuffer NoLostBuffer ReadFindsBuffer OwedIsArmed NoLostWakeup
CHECK_DEADLOCK FALSE
