\* What a client is sent when another has sent before it.
CONSTANTS
    c1 = c1
    c2 = c2
    None = None
    Clients = {c1, c2}
    NumBuffers = 2
    Batch = 2
    Kinds = {"chat"}
    MaxMessages <- OneEach
SPECIFICATION Spec
SYMMETRY Symmetric
INVARIANT EchoIsOwn
CHECK_DEADLOCK FALSE
