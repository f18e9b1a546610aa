\* Two clients, two buffers, every kind of message, hangups at any time.
CONSTANTS
    c1 = c1
    c2 = c2
    None = None
    Clients = {c1, c2}
    NumBuffers = 2
    Batch = 2
    Kinds = {"chat", "command", "leave"}
    MaxMessages <- TwoAndOne
SPECIFICATION Spec
INVARIANTS TypeOK OneReceive ClosesOnce RingFits
CHECK_DEADLOCK FALSE
