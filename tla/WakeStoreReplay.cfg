\* Keyed retries of a request, and the catch-up query of a watch.
SPECIFICATION Spec
CONSTANTS
    Seats = {a}
    Sessions = {s1}
    Tasks = {t, u}
    Keys = {k}
    Callers = {relay}
    None = None
    LeaseSeconds = {1}
    Capabilities <- AllCapable
    Reports = {None}
    Ops = {"claim", "replay"}
    Ttls = {1}
    Priorities = {1, 2}
    ReplayBatch = 1
    MaxWakes = 2
    MaxGeneration = 1
    MaxAttempts = 1
    MaxNow = 1
SYMMETRY Symmetry
INVARIANTS
    KeyBindsOneWake
PROPERTIES
    HonestRefusal
CHECK_DEADLOCK FALSE
