\* Two sessions of one seat race for one task through two wakes.
SPECIFICATION Spec
CONSTANTS
    Seats = {a}
    Sessions = {s1, s2}
    Tasks = {t}
    Keys = {}
    Callers = {relay}
    None = None
    LeaseSeconds = {1}
    Capabilities <- SomeOnlyAck
    Reports = {None, "draining"}
    Ops = {"ack", "claim"}
    Ttls = {1}
    Priorities = {5}
    ReplayBatch = 1
    MaxWakes = 2
    MaxGeneration = 3
    MaxAttempts = 0
    MaxNow = 1
SYMMETRY Symmetry
INVARIANTS
    TypeOK
    ClaimsAgree
    CancelDefeatsWakes
    FenceCurrent
PROPERTIES
    FencedCompletion
    WakeLifecycle
    ImplementsTaskGrant
    AdmittedInTime
CHECK_DEADLOCK FALSE
