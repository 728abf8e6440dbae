\* One listener, retried posts, overflow, timeout and crashes.
SPECIFICATION FairSpec
CONSTANTS
    a = a
    b = b
    k = k
    x = x
    l1 = l1
    s = s
    None = None
    Channels = {a, b}
    Keys = {k}
    Contents = {x}
    Requests <- WatchPosts
    Listeners = {l1}
    Seats = {s}
    SeatOf <- OneSeat
    Watched <- AllChannels
    PageLimit = 1
    BufferLimit = 2
    MaxMessages = 3
    MaxSends = 2
    MaxRestarts = 1
INVARIANTS
    TypeOK
    EventsInOrder
    NoLostWakeup
    AckedWereSeen
PROPERTIES
    EveryMessageArrives
CHECK_DEADLOCK FALSE
