\* One connection watches for a session or for its seat, again and again.
SPECIFICATION FairDelivery
CONSTANTS
    a = a
    s1 = s1
    Seats = {a}
    Sessions = {s1}
    Tasks = {t}
    Keys = {}
    Callers = {relay}
    Relay = relay
    None = None
    LeaseSeconds = {1}
    Capabilities <- Both
    Reports = {}
    Ops = {"ack", "replay"}
    Ttls = {1}
    Priorities = {5}
    ReplayBatch = 2
    MaxWakes = 2
    MaxGeneration = 1
    MaxAttempts = 1
    MaxNow = 1
    Watches = {x}
    SeatOf <- OneSeat
    SessionsOf <- EitherWay
    BufferLimit = 1
    HighWater = 0
    MaxBreaks = 1
INVARIANTS
    DeliveryTypeOK
    AttemptsWereWritten
PROPERTIES
    OnlyItsSession
    NeverReplaysSettled
    ReplaySparesItsWatch
    QueuedWakesArrive
CHECK_DEADLOCK FALSE
