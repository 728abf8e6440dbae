------------------------------ MODULE Clubhouse ------------------------------
(***************************************************************************)
(* The Clubhouse window (clubhouse.py): a cache of messages per channel,   *)
(* filled by refreshes and by the window's own posts, each a background    *)
(* job whose result the Tk thread applies later.  At most one job runs at  *)
(* a time (busy); meanwhile peers post, the user selects channels, and     *)
(* every page of a refresh is a request of its own to the relay.           *)
(***************************************************************************)
EXTENDS Naturals, Sequences, FiniteSets

CONSTANTS
    Channels,     \* channel names
    None,         \* no job
    PageLimit,    \* messages the relay puts in one page
    LoadLimit,    \* messages one refresh loads at most
    MaxMessages,  \* bound: rows on the board
    MaxStrays     \* bound: refresh callbacks beside the tracked one

ASSUME ClubhouseAssumption ==
    /\ PageLimit \in Nat \ {0} /\ LoadLimit \in Nat \ {0}
    /\ MaxMessages \in Nat /\ MaxStrays \in Nat \ {0}
    /\ None \notin [kind: {"refresh", "post"}, channel: Channels, cursor: Nat,
                    loaded: Seq(Nat), done: BOOLEAN]

VARIABLES
    board,     \* the relay's table: a message's id is its position
    cache,     \* self.messages: per channel, the ids the window holds
    current,   \* self.current_channel
    job,       \* the background job (None: not busy)
    queued,    \* self.pending_refresh
    tracked,   \* a refresh callback is scheduled as refresh_after_id
    strays     \* refresh callbacks that are scheduled and not tracked

timers == <<queued, tracked, strays>>
vars == <<board, cache, current, job, timers>>

Ids == 1..Len(board)
In(c) == {id \in Ids : board[id].channel = c}
Held(c) == {cache[c][i] : i \in DOMAIN cache[c]}
LastOf(ids) == IF ids = <<>> THEN 0 ELSE ids[Len(ids)]

Job(kind, c, start) ==
    [kind |-> kind, channel |-> c, cursor |-> start, loaded |-> <<>>, done |-> FALSE]

Init ==
    /\ board = <<>>
    /\ cache = [c \in Channels |-> <<>>]
    /\ current \in Channels
    /\ job = None
    /\ queued = FALSE /\ tracked = FALSE /\ strays = 1

\* A peer's post, through any other client.
PeerPosts(c) ==
    /\ Len(board) < MaxMessages
    /\ board' = Append(board, [channel |-> c, own |-> FALSE])
    /\ UNCHANGED <<cache, current, job, timers>>

(***************************************************************************)
(* Refresh.  Called while a job runs it only leaves a note; otherwise it   *)
(* starts a job for the channel shown, after the last id cached for it.    *)
(***************************************************************************)
RefreshCalled(c) ==
    IF job # None
    THEN queued' = TRUE /\ UNCHANGED job
    ELSE job' = Job("refresh", c, LastOf(cache[c])) /\ UNCHANGED queued

FireTracked ==
    /\ tracked
    /\ tracked' = FALSE
    /\ RefreshCalled(current)
    /\ UNCHANGED <<board, cache, current, strays>>

\* refresh() forgets refresh_after_id without cancelling the callback.
FireStray ==
    /\ strays > 0
    /\ strays' = IF tracked THEN strays ELSE strays - 1
    /\ tracked' = FALSE
    /\ RefreshCalled(current)
    /\ UNCHANGED <<board, cache, current>>

SelectChannel(c) ==
    /\ c # current
    /\ ~tracked \/ strays < MaxStrays
    /\ current' = c
    /\ strays' = IF tracked THEN strays + 1 ELSE strays
    /\ tracked' = FALSE
    /\ RefreshCalled(c)
    /\ UNCHANGED <<board, cache>>

Smaller(m, n) == IF m < n THEN m ELSE n

\* The first n messages of channel c after an id, in order.
Page(c, start, n) ==
    LET rest == {id \in In(c) : id > start}
        Before(id) == {k \in rest : k < id}
    IN  [i \in 1..Smaller(n, Cardinality(rest)) |->
            CHOOSE id \in rest : Cardinality(Before(id)) = i - 1]

Loading == job # None /\ job.kind = "refresh" /\ ~job.done

\* Seeded bug: every page is asked for in full.
AskedInFull == PageLimit

\* What read_channel asks for: a page, or what is left of its limit.
Asked == Smaller(PageLimit, LoadLimit - Len(job.loaded))

\* Seeded bug: the cursor moves by the page that was asked for, although the
\* relay trimmed the page to its frame.
ReadPageUntrimmed ==
    /\ Loading
    /\ \E n \in 1..Asked :
           LET page == Page(job.channel, job.cursor, n)
               full == Page(job.channel, job.cursor, Asked)
           IN  job' = [job EXCEPT
                         !.loaded = @ \o page,
                         !.cursor = IF full = <<>> THEN @ ELSE LastOf(full),
                         !.done = page = full \/ Len(job.loaded \o page) >= LoadLimit]
    /\ UNCHANGED <<board, cache, current, timers>>

\* One request: the relay trims the page to its frame, never below one
\* message, and says whether more remain.
ReadPage ==
    /\ Loading
    /\ \E n \in 1..Asked :
           LET page == Page(job.channel, job.cursor, n)
               more == Page(job.channel, job.cursor, n + 1) # page
           IN  job' = [job EXCEPT
                         !.loaded = @ \o page,
                         !.cursor = IF page = <<>> THEN @ ELSE LastOf(page),
                         !.done = ~more \/ Len(job.loaded \o page) >= LoadLimit]
    /\ UNCHANGED <<board, cache, current, timers>>

(***************************************************************************)
(* Posting: the job is started for the channel shown; the relay commits    *)
(* the message some time later.                                            *)
(***************************************************************************)
StartPost ==
    /\ job = None
    /\ job' = Job("post", current, 0)
    /\ UNCHANGED <<board, cache, current, timers>>

CommitPost ==
    /\ job # None /\ job.kind = "post" /\ ~job.done
    /\ Len(board) < MaxMessages
    /\ board' = Append(board, [channel |-> job.channel, own |-> TRUE])
    /\ job' = [job EXCEPT !.loaded = <<Len(board) + 1>>, !.done = TRUE]
    /\ UNCHANGED <<cache, current, timers>>

(***************************************************************************)
(* The end of a job.  However it ended, _poll_job schedules the next       *)
(* refresh: at once if one was asked for meanwhile, else after a while.    *)
(***************************************************************************)

\* Seeded bug: a job that ends with a refresh noted only clears the note.
NextRefreshLost ==
    /\ queued' = FALSE
    /\ IF queued THEN UNCHANGED tracked ELSE tracked' = TRUE
    /\ UNCHANGED strays

NextRefresh ==
    \/ /\ queued /\ strays < MaxStrays
       /\ queued' = FALSE /\ strays' = strays + 1
       /\ UNCHANGED tracked
    \/ /\ ~queued
       /\ tracked' = TRUE
       /\ UNCHANGED <<queued, strays>>

\* Seeded bug: the result goes to the channel shown now.
ExtendCurrent(ids) == cache' = [cache EXCEPT ![current] = @ \o ids]

\* _apply_refresh extends the cache of the channel it was started for.
Extend(ids) == cache' = [cache EXCEPT ![job.channel] = @ \o ids]

ApplyRefresh ==
    /\ job # None /\ job.kind = "refresh" /\ job.done
    /\ Extend(job.loaded)
    /\ job' = None
    /\ NextRefresh
    /\ UNCHANGED <<board, current>>

\* posted: the window shows its own message without waiting for a refresh.
ApplyPost ==
    /\ job # None /\ job.kind = "post" /\ job.done
    /\ IF LastOf(cache[job.channel]) < job.loaded[1]
       THEN Extend(job.loaded) ELSE UNCHANGED cache
    /\ job' = None
    /\ NextRefresh
    /\ UNCHANGED <<board, current>>

\* The job raises: a page failed, or the answer of a post was lost, before or
\* after it was stored.  What it loaded is dropped.
JobFails ==
    /\ job # None
    /\ job' = None
    /\ NextRefresh
    /\ UNCHANGED <<board, cache, current>>

Next ==
    \/ \E c \in Channels : PeerPosts(c) \/ SelectChannel(c)
    \/ FireTracked \/ FireStray
    \/ ReadPage \/ ApplyRefresh
    \/ StartPost \/ CommitPost \/ ApplyPost
    \/ JobFails

Spec == Init /\ [][Next]_vars

(***************************************************************************)
(* Properties.                                                             *)
(***************************************************************************)

\* Every variable has its shape, and a refresh keeps to its limit.
TypeOK ==
    /\ \A id \in Ids : board[id].channel \in Channels /\ board[id].own \in BOOLEAN
    /\ \A c \in Channels : Held(c) \subseteq Ids
    /\ current \in Channels
    /\ job # None => /\ job.channel \in Channels
                     /\ job.cursor \in Ids \cup {0}
                     /\ Len(job.loaded) <= LoadLimit
    /\ queued \in BOOLEAN /\ tracked \in BOOLEAN
    /\ strays \in 0..MaxStrays

\* What a channel shows is that channel's messages in the order of the board,
\* none twice, although jobs finish after the user went to another channel
\* and own posts come in beside the refreshes.
CacheInOrder ==
    \A c \in Channels :
        /\ Held(c) \subseteq In(c)
        /\ \A i, j \in DOMAIN cache[c] : i < j => cache[c][i] < cache[c][j]

\* Refreshes leave no gap, whatever the sizes of the pages, the failures and
\* the limit: a message that was passed over lies right before a message the
\* window posted itself.
GapsOnlyBeforeOwnPosts ==
    \A c \in Channels : \A i \in DOMAIN cache[c] :
        \/ board[cache[c][i]].own
        \/ \A id \in In(c) :
               id < cache[c][i] => i > 1 /\ id <= cache[c][i - 1]

\* The window never stops refreshing: while no job runs, a callback that
\* will call refresh is scheduled.
NeverStalls == job # None \/ tracked \/ strays > 0

\* As the README says: the window preserves complete messages and their
\* order; what lies before a message it shows has been loaded too.
NothingSkipped ==
    \A c \in Channels : \A id \in In(c) :
        id < LastOf(cache[c]) => id \in Held(c)

=============================================================================
