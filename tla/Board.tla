-------------------------------- MODULE Board --------------------------------
(***************************************************************************)
(* The message board of the relay: the append-only message table, posts    *)
(* that are retried under a client_id, the per-seat read cursors and the   *)
(* watch subscriptions that ring for every stored message (storage.py and  *)
(* server.py).  The relay is one event loop: a handler runs without an     *)
(* await from its database call to the frames it queues, so one request is *)
(* one action.  What runs beside it are the posters, whose requests and    *)
(* answers are lost and repeated, and the listeners, which follow the      *)
(* subscribe-then-read pattern, stop draining, crash and reconnect.        *)
(***************************************************************************)
EXTENDS Naturals, Sequences, FiniteSets

CONSTANTS
    Channels,     \* channel names
    Keys,         \* (seat, client_id) pairs posts are sent under
    Contents,     \* what a post carries: sender, provenance and body
    Requests,     \* the post requests the clients issue
    Listeners,    \* processes that watch the board
    Seats,        \* seats the listeners authenticate as
    SeatOf,       \* the seat of a listener
    Watched,      \* the channel filter of a listener's subscription
    None,         \* absent: no client_id, no answer
    PageLimit,    \* messages in one read page
    BufferLimit,  \* SUBSCRIBER_BUFFER_LIMIT, in frames
    MaxMessages,  \* bound: rows in messages
    MaxSends,     \* bound: copies of one request that are sent
    MaxRestarts   \* bound: crashes of the relay and of the listeners

ASSUME BoardAssumption ==
    /\ None \notin Keys \cup Nat
    /\ Requests \subseteq [key: Keys \cup {None}, channel: Channels,
                           content: Contents, reply: Nat]
    /\ SeatOf \in [Listeners -> Seats]
    /\ Watched \in [Listeners -> SUBSET Channels]
    /\ PageLimit \in Nat \ {0} /\ BufferLimit \in Nat
    /\ MaxMessages \in Nat /\ MaxSends \in Nat /\ MaxRestarts \in Nat

VARIABLES
    messages,  \* the messages table; a message's id is its position
    sent,      \* copies of a request its client has sent
    copies,    \* copies of a request on their way to the relay
    told,      \* the last answer a client got for a request
    cursors,   \* the cursors table: seat and channel to message id
    filter,    \* _subscribers: the channels of a subscription, {} if none
    out,       \* event frames queued for a listener, unread
    closed,    \* the relay has closed the listener's connection
    stage,     \* where a listener is in the subscribe-then-read pattern
    mark,      \* the watermark a listener is catching up to
    after,     \* per channel: the last id a listener consumed
    handled,   \* the ids a listener has consumed since the beginning
    restarts   \* crashes so far

posts == <<messages, sent, copies, told>>
listening == <<stage, mark, after, handled>>
vars == <<posts, cursors, filter, out, closed, listening, restarts>>

(***************************************************************************)
(* Messages, frames and answers.                                           *)
(***************************************************************************)
Ids == 1..Len(messages)

Subscribed(watermark) == [event |-> "subscribed", id |-> watermark]
MessageEvent(id) == [event |-> "message", id |-> id]
Timeout == [event |-> "timeout", id |-> 0]
Overflow(id) == [event |-> "overflow", id |-> id]

\* A request without reply_to has reply 0.
ParentExists(r) ==
    r.reply # 0 => r.reply \in Ids /\ messages[r.reply].channel = r.channel

\* The rows the unique index (transport_actor, client_id) collides with.
Bound(r) == {id \in Ids : r.key # None /\ messages[id].key = r.key}

(***************************************************************************)
(* Read pages: the first PageLimit messages of a channel after an id.      *)
(***************************************************************************)
In(c) == {id \in Ids : messages[id].channel = c}

ReadMessages(c, start) ==
    {id \in In(c) : /\ id > start
                    /\ Cardinality({k \in In(c) : start < k /\ k < id}) < PageLimit}

Largest(ids, otherwise) ==
    IF ids = {} THEN otherwise ELSE CHOOSE m \in ids : \A k \in ids : k <= m

(***************************************************************************)
(* The initial state: an empty board nobody is connected to.               *)
(***************************************************************************)
Init ==
    /\ messages = <<>>
    /\ sent = [r \in Requests |-> 0]
    /\ copies = [r \in Requests |-> 0]
    /\ told = [r \in Requests |-> None]
    /\ cursors = [s \in Seats |-> [c \in Channels |-> 0]]
    /\ filter = [l \in Listeners |-> {}]
    /\ out = [l \in Listeners |-> <<>>]
    /\ closed = [l \in Listeners |-> TRUE]
    /\ stage = [l \in Listeners |-> "off"]
    /\ mark = [l \in Listeners |-> 0]
    /\ after = [l \in Listeners |-> [c \in Channels |-> 0]]
    /\ handled = [l \in Listeners |-> {}]
    /\ restarts = 0

(***************************************************************************)
(* Posting.  A client sends its request, and sends it again, under the     *)
(* same client_id, when it has no answer or just to be sure.  Copies are   *)
(* handled in any order, each at any later time, also after the client     *)
(* gave up on it.                                                          *)
(***************************************************************************)
SendPost(r) ==
    /\ sent[r] < MaxSends
    /\ sent' = [sent EXCEPT ![r] = @ + 1]
    /\ copies' = [copies EXCEPT ![r] = @ + 1]
    /\ UNCHANGED <<messages, told, cursors, filter, out, closed, listening, restarts>>

\* The copy never reaches a handler: the connection is refused or reset.
LosePost(r) ==
    /\ copies[r] > 0
    /\ copies' = [copies EXCEPT ![r] = @ - 1]
    /\ UNCHANGED <<messages, sent, told, cursors, filter, out, closed, listening, restarts>>

\* Seeded bug: any row under the same client_id answers the request.
DuplicatesByKey(r) == ParentExists(r) /\ Bound(r) # {}

\* post_message stores a new row, or finds the row its client_id is bound to.
Stores(r) == ParentExists(r) /\ Bound(r) = {}
Duplicates(r) == ParentExists(r) /\ \E id \in Bound(r) : messages[id] = r

Answer(r) ==
    IF Stores(r) THEN [result |-> "stored", id |-> Len(messages) + 1]
    ELSE IF Duplicates(r)
         THEN [result |-> "stored", id |-> CHOOSE id \in Bound(r) : TRUE]
    ELSE [result |-> IF ParentExists(r) THEN "conflict" ELSE "no_parent", id |-> 0]

\* Seeded bug: the event that does not fit is skipped and the watch goes on.
FanoutSkips(id, c) ==
    /\ out' = [l \in Listeners |->
                  IF c \in filter[l] /\ Len(out[l]) < BufferLimit
                  THEN Append(out[l], MessageEvent(id)) ELSE out[l]]
    /\ UNCHANGED <<filter, closed>>

\* Rings every subscription of the channel; one whose frames pile up past the
\* limit is told so, ended and closed.
Fanout(id, c) ==
    LET rings(l) == c \in filter[l]
        drops(l) == rings(l) /\ Len(out[l]) + 1 > BufferLimit
    IN  /\ out' = [l \in Listeners |->
                      IF drops(l) THEN Append(out[l], Overflow(id))
                      ELSE IF rings(l) THEN Append(out[l], MessageEvent(id))
                      ELSE out[l]]
        /\ filter' = [l \in Listeners |-> IF drops(l) THEN {} ELSE filter[l]]
        /\ closed' = [l \in Listeners |-> drops(l) \/ closed[l]]

\* Seeded bug: the bell rings before the row is committed, which then fails.
RingBeforeCommit(r) ==
    \/ /\ Stores(r)
       /\ Len(messages) < MaxMessages
       /\ messages' \in {messages, Append(messages, r)}
       /\ Fanout(Len(messages) + 1, r.channel)
    \/ /\ ~Stores(r)
       /\ UNCHANGED <<messages, filter, out, closed>>

\* Seeded bug: a retry that finds its row rings again.
RingAlways(r) ==
    \/ /\ Stores(r)
       /\ Len(messages) < MaxMessages
       /\ messages' = Append(messages, r)
       /\ Fanout(Len(messages) + 1, r.channel)
    \/ /\ Duplicates(r)
       /\ Fanout(CHOOSE id \in Bound(r) : TRUE, r.channel)
       /\ UNCHANGED messages
    \/ /\ ~Stores(r) /\ ~Duplicates(r)
       /\ UNCHANGED <<messages, filter, out, closed>>

\* What the relay does with a copy: it stores and rings, or it only answers.
StoreAndRing(r) ==
    \/ /\ Stores(r)
       /\ Len(messages) < MaxMessages
       /\ messages' = Append(messages, r)
       /\ Fanout(Len(messages) + 1, r.channel)
    \/ /\ ~Stores(r)
       /\ UNCHANGED <<messages, filter, out, closed>>

\* Seeded bug: the bell waits for the poster to take its answer.
HandlePostAfterDrain(r) ==
    /\ copies[r] > 0
    /\ copies' = [copies EXCEPT ![r] = @ - 1]
    /\ \/ StoreAndRing(r) /\ told' = [told EXCEPT ![r] = Answer(r)]
       \/ /\ Stores(r)
          /\ Len(messages) < MaxMessages
          /\ messages' = Append(messages, r)
          /\ UNCHANGED <<told, filter, out, closed>>
    /\ UNCHANGED <<sent, cursors, listening, restarts>>

\* One copy is handled; its answer arrives, or the client is gone by then.
HandlePost(r) ==
    /\ copies[r] > 0
    /\ copies' = [copies EXCEPT ![r] = @ - 1]
    /\ StoreAndRing(r)
    /\ told' \in {told, [told EXCEPT ![r] = Answer(r)]}
    /\ UNCHANGED <<sent, cursors, listening, restarts>>

(***************************************************************************)
(* Subscriptions.                                                          *)
(***************************************************************************)
Waiting(l, event) == \E i \in DOMAIN out[l] : out[l][i].event = event

\* A listener connects and watches, or watches again on a connection it has;
\* the watermark is read in the step that registers the subscription.
HandleWatch(l) ==
    /\ \/ stage[l] = "off" /\ out' = [out EXCEPT ![l] = <<Subscribed(Len(messages))>>]
       \/ /\ stage[l] = "listening" /\ ~closed[l] /\ ~Waiting(l, "subscribed")
          /\ out' = [out EXCEPT ![l] = Append(@, Subscribed(Len(messages)))]
    /\ filter' = [filter EXCEPT ![l] = Watched[l]]
    /\ closed' = [closed EXCEPT ![l] = FALSE]
    /\ stage' = [stage EXCEPT ![l] = "listening"]
    /\ UNCHANGED <<posts, cursors, mark, after, handled, restarts>>

\* Seeded bug: the subscription ends and its listener is not told.
TimeoutSilently(l) ==
    /\ filter[l] # {}
    /\ filter' = [filter EXCEPT ![l] = {}]
    /\ UNCHANGED <<posts, cursors, out, closed, listening, restarts>>

\* The timer of a subscription fires; the connection stays open.
OnWatchTimeout(l) ==
    /\ filter[l] # {}
    /\ filter' = [filter EXCEPT ![l] = {}]
    /\ out' = [out EXCEPT ![l] = Append(@, Timeout)]
    /\ UNCHANGED <<posts, cursors, closed, listening, restarts>>

\* A listener dies, or leaves: its handler reads EOF and unsubscribes it.
Disconnect(l) ==
    /\ stage' = [stage EXCEPT ![l] = "off"]
    /\ out' = [out EXCEPT ![l] = <<>>]
    /\ filter' = [filter EXCEPT ![l] = {}]
    /\ closed' = [closed EXCEPT ![l] = TRUE]

CrashListener(l) ==
    /\ stage[l] # "off" /\ restarts < MaxRestarts
    /\ restarts' = restarts + 1
    /\ Disconnect(l)
    /\ UNCHANGED <<posts, cursors, mark, after, handled>>

\* The relay dies and starts again: requests and subscriptions are gone, the
\* table is not, and listeners may still read what had left the relay.
RestartRelay ==
    /\ restarts < MaxRestarts
    /\ restarts' = restarts + 1
    /\ copies' = [r \in Requests |-> 0]
    /\ filter' = [l \in Listeners |-> {}]
    /\ closed' = [l \in Listeners |-> TRUE]
    /\ \E lost \in SUBSET Listeners :
           out' = [l \in Listeners |-> IF l \in lost THEN <<>> ELSE out[l]]
    /\ UNCHANGED <<messages, sent, told, cursors, listening>>

(***************************************************************************)
(* A listener: frames in order; after each "subscribed" it reads from its  *)
(* cursor up to the watermark before it takes the next frame.              *)
(***************************************************************************)
Takes(l, event) ==
    /\ stage[l] = "listening" /\ out[l] # <<>> /\ Head(out[l]).event = event

ReceiveSubscribed(l) ==
    /\ Takes(l, "subscribed")
    /\ out' = [out EXCEPT ![l] = Tail(@)]
    /\ mark' = [mark EXCEPT ![l] = Head(out[l]).id]
    /\ after' = [after EXCEPT ![l] = cursors[SeatOf[l]]]
    /\ stage' = [stage EXCEPT ![l] = "reading"]
    /\ UNCHANGED <<posts, cursors, filter, closed, handled, restarts>>

ReceiveMessage(l) ==
    /\ Takes(l, "message")
    /\ LET id == Head(out[l]).id
           c == messages[id].channel
       IN  /\ handled' = [handled EXCEPT ![l] = @ \cup {id}]
           /\ after' = [after EXCEPT ![l][c] = IF @ > id THEN @ ELSE id]
    /\ out' = [out EXCEPT ![l] = Tail(@)]
    /\ UNCHANGED <<posts, cursors, filter, closed, stage, mark, restarts>>

\* The iterator returns after a timeout event and closes its socket.
ReceiveTimeout(l) ==
    /\ Takes(l, "timeout")
    /\ Disconnect(l)
    /\ UNCHANGED <<posts, cursors, mark, after, handled, restarts>>

\* The overflow event announces the close that follows.
ReceiveOverflow(l) ==
    /\ Takes(l, "overflow")
    /\ out' = [out EXCEPT ![l] = Tail(@)]
    /\ UNCHANGED <<posts, cursors, filter, closed, listening, restarts>>

ReceiveEof(l) ==
    /\ stage[l] = "listening" /\ closed[l] /\ out[l] = <<>>
    /\ Disconnect(l)
    /\ UNCHANGED <<posts, cursors, mark, after, handled, restarts>>

\* The part of the backlog the listener still has to read.
Backlog(l, c) == {id \in In(c) : after[l][c] < id /\ id <= mark[l]}

ReadBacklog(l, c) ==
    /\ stage[l] = "reading" /\ c \in Watched[l] /\ Backlog(l, c) # {}
    /\ LET page == ReadMessages(c, after[l][c])
       IN  /\ handled' = [handled EXCEPT ![l] = @ \cup page]
           /\ after' = [after EXCEPT ![l][c] = Largest(page, @)]
    /\ UNCHANGED <<posts, cursors, filter, out, closed, stage, mark, restarts>>

EndBacklog(l) ==
    /\ stage[l] = "reading" /\ \A c \in Watched[l] : Backlog(l, c) = {}
    /\ stage' = [stage EXCEPT ![l] = "listening"]
    /\ UNCHANGED <<posts, cursors, filter, out, closed, mark, after, handled, restarts>>

\* Seeded bug: the cursor takes whatever id the last caller names.
AdvanceCursorOverwrites(s, c, id) ==
    /\ id = 0 \/ id \in In(c)
    /\ cursors' = [cursors EXCEPT ![s][c] = id]

AdvanceCursor(s, c, id) ==
    /\ id = 0 \/ id \in In(c)
    /\ cursors' = [cursors EXCEPT ![s][c] = IF @ > id THEN @ ELSE id]

\* A listener acknowledges something it consumed, perhaps not the latest.
Advance(l, c) ==
    /\ stage[l] # "off"
    /\ \E id \in handled[l] \cap In(c) :
           id <= after[l][c] /\ AdvanceCursor(SeatOf[l], c, id)
    /\ UNCHANGED <<posts, filter, out, closed, listening, restarts>>

Receive(l) ==
    \/ ReceiveSubscribed(l) \/ ReceiveMessage(l) \/ ReceiveTimeout(l)
    \/ ReceiveOverflow(l) \/ ReceiveEof(l)

Next ==
    \/ \E r \in Requests : SendPost(r) \/ LosePost(r) \/ HandlePost(r)
    \/ \E l \in Listeners :
           \/ HandleWatch(l) \/ OnWatchTimeout(l) \/ CrashListener(l)
           \/ Receive(l) \/ EndBacklog(l)
           \/ \E c \in Channels : ReadBacklog(l, c) \/ Advance(l, c)
    \/ RestartRelay

Spec == Init /\ [][Next]_vars

\* What the scheduling owes a listener that wants to keep listening: it comes
\* back, and while it is connected it reads.  Posts, the relay's restarts and
\* the timers need not happen.
Fairness ==
    \A l \in Listeners :
        /\ WF_vars(stage[l] = "off" /\ HandleWatch(l))
        /\ WF_vars(Receive(l))
        /\ \A c \in Channels : WF_vars(ReadBacklog(l, c))
        /\ WF_vars(EndBacklog(l))

FairSpec == Spec /\ Fairness

(***************************************************************************)
(* Properties.                                                             *)
(***************************************************************************)

\* Every variable has its shape, and a queued frame names a committed message.
TypeOK ==
    /\ messages \in Seq(Requests) /\ Len(messages) <= MaxMessages
    /\ sent \in [Requests -> 0..MaxSends] /\ copies \in [Requests -> 0..MaxSends]
    /\ \A r \in Requests : \/ told[r] = None
                           \/ told[r].result \in {"stored", "conflict", "no_parent"}
    /\ cursors \in [Seats -> [Channels -> Ids \cup {0}]]
    /\ filter \in [Listeners -> SUBSET Channels]
    /\ \A l \in Listeners : \A i \in DOMAIN out[l] : out[l][i].id \in Ids \cup {0}
    /\ closed \in [Listeners -> BOOLEAN]
    /\ stage \in [Listeners -> {"off", "listening", "reading"}]
    /\ mark \in [Listeners -> Nat]
    /\ after \in [Listeners -> [Channels -> Nat]]
    /\ handled \in [Listeners -> SUBSET Ids]
    /\ restarts \in 0..MaxRestarts

\* An answer stays true whatever copies of the request are handled later: a
\* post reported stored is the message of that id, whole, and a post refused
\* for its client_id is not on the board and never gets there.
ReplyIsHonest ==
    \A r \in Requests :
        told[r] # None =>
            /\ told[r].result = "stored" => messages[told[r].id] = r
            /\ told[r].result = "conflict" => \A id \in Ids : messages[id] # r

\* The frames queued for a listener are in order across subscriptions, posts
\* and retries: an event has a higher id than the events and the watermark
\* before it, so nothing rings twice and nothing rings that the watermark
\* told the listener to read.
EventsInOrder ==
    \A l \in Listeners : \A i, j \in DOMAIN out[l] :
        i < j /\ out[l][j].event = "message" => out[l][i].id < out[l][j].id

Visible(l) == {id \in Ids : messages[id].channel \in Watched[l]}

HandledBySeat(s) == UNION {handled[l] : l \in {k \in Listeners : SeatOf[k] = s}}

\* No wake-up is lost: a connected listener has consumed a message, or has
\* its event queued, or still is to read it below a watermark, or has been or
\* will be told that the subscription ended.
NoLostWakeup ==
    \A l \in Listeners :
        stage[l] = "off" \/ closed[l] \/ Waiting(l, "timeout")
        \/ \A id \in Visible(l) :
               \/ id \in HandledBySeat(SeatOf[l])
               \/ \E i \in DOMAIN out[l] :
                      \/ out[l][i] = MessageEvent(id)
                      \/ out[l][i].event = "subscribed" /\ id <= out[l][i].id
               \/ stage[l] = "reading" /\ id \in Backlog(l, messages[id].channel)

\* A cursor never hides a message: what lies at or below the cursor of a
\* seat has been consumed by a process of that seat, although listeners
\* acknowledge events as they come, late and out of order.
AckedWereSeen ==
    \A s \in Seats : \A c \in Channels : \A id \in In(c) :
        (/\ id <= cursors[s][c]
         /\ \A l \in Listeners : SeatOf[l] = s => c \in Watched[l])
            => id \in HandledBySeat(s)

\* A seat's cursor only moves forward, whichever of its processes
\* acknowledges last, and the messages it points into are never rewritten.
HistoryOnlyGrows ==
    [][/\ \A s \in Seats : \A c \in Channels : cursors'[s][c] >= cursors[s][c]
       /\ SubSeq(messages', 1, Len(messages)) = messages]_vars

\* Whatever is posted to a channel a listener watches is consumed in the end,
\* through overflows, timeouts, crashes and restarts.
EveryMessageArrives ==
    \A l \in Listeners : \A id \in 1..MaxMessages :
        (id \in Ids /\ id \in Visible(l)) ~> (id \in HandledBySeat(SeatOf[l]))

=============================================================================
