\* A closed connection whose peer never reads.
SPECIFICATION FairSpec
CONSTANTS
    None = None
    Conns = {c1}
    Pids = {p}
    MaxPending = 1
    MaxPerPeer = 1
    Grace = 1
    AuthTimeout = 2
PROPERTIES
    ClosedIsReleased
CHECK_DEADLOCK FALSE
