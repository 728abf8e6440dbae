\* Three relays and three adds of a seat.
SPECIFICATION Spec
CONSTANTS
    None = None
    Relays = {r1, r2, r3}
    Adders = {a1, a2, a3}
SYMMETRY Symmetry
INVARIANTS
    ListenerIsReached
    RowHasItsToken
CHECK_DEADLOCK FALSE
