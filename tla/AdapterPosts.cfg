\* Calls that retry, repeat one another and reuse a client_id.
SPECIFICATION PostSpec
CONSTANTS
    a = a
    k = k
    x = x
    y = y
    c1 = c1
    c2 = c2
    c3 = c3
    None = None
    Channels = {a}
    Keys = {k}
    Contents = {x, y}
    Requests <- CalledPosts
    Listeners = {}
    Seats = {}
    SeatOf <- Nobody
    Watched <- Nobody
    PageLimit = 1
    BufferLimit = 0
    MaxMessages = 3
    MaxSends = 0
    MaxRestarts = 0
    Calls = {c1, c2, c3}
    AdapterOf <- Adapters
    RequestOf <- Call
INVARIANTS
    ReplyIsHonest
    OutcomeIsTrue
    StoredOnce
CHECK_DEADLOCK FALSE
