\* An interrupt while a connection authenticates.
SPECIFICATION Spec
CONSTANTS
    None = None
    Conns = {c1}
    Pids = {p}
    MaxPending = 1
    MaxPerPeer = 1
    Grace = 1
    AuthTimeout = 2
INVARIANTS
    ShutdownWaitsForNoHandshake
CHECK_DEADLOCK FALSE
