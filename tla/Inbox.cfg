\* A reading Codex agent or three notice hooks, beside an agent that moves the
\* cursors they read.
SPECIFICATION NoticeSpec
CONSTANTS
    a = a
    b = b
    x = x
    y = y
    p = p
    q = q
    s = s
    h1 = h1
    g1 = g1
    g2 = g2
    None = None
    Channels = {a, b}
    Keys = {}
    Contents = {x, y}
    Requests <- Arrivals
    Listeners = {}
    Seats = {s}
    SeatOf <- Nobody
    Watched <- Nobody
    PageLimit = 1
    BufferLimit = 0
    MaxMessages = 3
    MaxSends = 0
    MaxRestarts = 0
    Seat = s
    Agents = {p, q}
    CodexAgents = {p}
    Slices <- Sizes
    Limits <- ReadsOfP
    MaxTracked = 2
    MaxWalk = 2
    Hooks = {h1, g1, g2}
    CodexHooks = {h1}
    MaxInspected = 1
    MaxRuns = 2
SYMMETRY Symmetry
CONSTRAINT OneBesideQ
INVARIANTS
    InboxTypeOK
    WindowIsTruthful
    QuietSwallowsNothing
PROPERTIES
    AcknowledgedWasShown
    HistoryOnlyGrows
CHECK_DEADLOCK FALSE
