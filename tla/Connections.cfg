\* Three connections of three processes at limits of two and one; every
\* handshake ends, whatever the peers do.
SPECIFICATION FairSpec
CONSTANTS
    None = None
    Conns = {c1, c2, c3}
    Pids = {p, q, r}
    MaxPending = 2
    MaxPerPeer = 1
    Grace = 1
    AuthTimeout = 1

INVARIANTS
    TypeOK
    PendingIsBounded
    RefusedNeverServed
PROPERTIES
    YoungAreSpared
    HandshakesEnd
CHECK_DEADLOCK FALSE
