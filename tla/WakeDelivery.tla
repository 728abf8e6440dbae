----------------------------- MODULE WakeDelivery -----------------------------
(***************************************************************************)
(* How queued wakes reach the watches of their seat: binding a watch to a  *)
(* session, the fan-out of a new wake and the catch-up of a new watch      *)
(* (src/aivengers_wire/server.py), over the tables of WakeStore.           *)
(*                                                                         *)
(* The relay is one event loop.  A handler that has not awaited keeps it:  *)
(* while a request is in flight between two transactions, a batch is being *)
(* queried or a written wake is not yet recorded, no other handler runs.   *)
(* The operator's command line and the clock run at any time.              *)
(***************************************************************************)
EXTENDS WakeStore, Sequences

CONSTANTS
    Relay,        \* the relay's connection to the database
    Watches,      \* client connections that watch
    SeatOf,       \* the seat a connection authenticates as
    SessionsOf,   \* the sessions its adapter watches for, None for the seat
    BufferLimit,  \* SUBSCRIBER_BUFFER_LIMIT, in frames
    HighWater,    \* frames in a transport's buffer past which drain() waits
    MaxBreaks     \* bound: watches that break off while they have work to do

ASSUME DeliveryAssumption ==
    /\ Callers = {Relay}
    /\ SeatOf \in [Watches -> Seats]
    /\ SessionsOf \in [Watches -> SUBSET (Sessions \cup {None})]
    /\ HighWater \in Nat /\ BufferLimit \in Nat /\ HighWater < BufferLimit
    /\ MaxBreaks \in Nat

VARIABLES
    stage,    \* where the handler of a connection is
    bound,    \* _subscribers: the session of the subscription, Unwatched if none
    out,      \* event frames in the transport's buffer
    rest,     \* wakes of its batch the handler has yet to look at
    fresh,    \* the next one is the first of its batch
    owed,     \* a wake whose transmission is yet to be recorded, 0 if none
    frames,   \* per wake: frames written, up to MaxAttempts
    seen,     \* wakes a client has read from its socket
    breaks    \* watches that broke off so far

store == <<now, sessions, tasks, wakes, inflight>>
handlers == <<stage, bound, out, rest, fresh>>
deliveryVars == <<store, handlers, owed, frames, seen, breaks>>

Unwatched == "unwatched"

\* A handler awaits a request ("serving"), the drain of its answer ("flushing"
\* until it can go on, then "flushed") or of a wake ("draining", "drained"); or
\* it runs: before ("catchup") and in ("querying") the query, or in the loop
\* over the batch ("writing").
Stages == {"off", "serving", "flushing", "flushed", "catchup", "querying",
           "writing", "draining", "drained"}

\* A wake event, live if the fan-out wrote it, or the timeout or overflow event
\* that ends the watch (wake 0).
Frame == [wake: {0} \cup Wakes, live: BOOLEAN]
End == [wake |-> 0, live |-> FALSE]
Ended(x) == \E i \in DOMAIN out[x] : out[x][i] = End

DeliveryInit ==
    /\ Init
    /\ stage = [x \in Watches |-> "off"]
    /\ bound = [x \in Watches |-> Unwatched]
    /\ out = [x \in Watches |-> <<>>]
    /\ rest = [x \in Watches |-> {}]
    /\ fresh = [x \in Watches |-> FALSE]
    /\ owed = 0
    /\ frames = [w \in Wakes |-> 0]
    /\ seen = {}
    /\ breaks = 0

\* No handler is between two of its awaits.
LoopIsFree ==
    /\ inflight[Relay] = Idle /\ owed = 0
    /\ \A x \in Watches : stage[x] \notin {"catchup", "querying", "writing"}

\* Seeded bug: a batch is written in one burst (ReplaySparesItsWatch).
DrainsNothing(x, buffer, waiting, onward) ==
    stage' = [stage EXCEPT ![x] = onward]

\* A drain goes on at once, or waits until the client has read.
Drains(x, buffer, waiting, onward) ==
    stage' = [stage EXCEPT ![x] = IF Len(buffer) > HighWater THEN waiting ELSE onward]

Counted(w) == IF frames[w] < MaxAttempts THEN frames[w] + 1 ELSE frames[w]

(***************************************************************************)
(* Subscribing.  A session that is unknown, of another seat or not live    *)
(* cannot be bound.                                                        *)
(***************************************************************************)
MayBind(x, s) == s # None => Registered(s) /\ sessions[s].seat = SeatOf[x] /\ Live(s)

HandleWatch(x, s) ==
    /\ LoopIsFree
    /\ stage[x] \in {"off", "serving"}
    /\ ~Ended(x)
    /\ s \in SessionsOf[x] /\ MayBind(x, s)
    /\ bound' = [bound EXCEPT ![x] = s]
    /\ Drains(x, out[x], "flushing", "catchup")
    /\ UNCHANGED <<store, out, rest, fresh, owed, frames, seen, breaks>>

\* The client has read enough for the drain to return.
Drained(x) ==
    /\ Len(out[x]) <= HighWater \div 4
    /\ \/ stage[x] = "flushing" /\ stage' = [stage EXCEPT ![x] = "flushed"]
       \/ stage[x] = "draining" /\ stage' = [stage EXCEPT ![x] = "drained"]
    /\ UNCHANGED <<store, bound, out, rest, fresh, owed, frames, seen, breaks>>

(***************************************************************************)
(* _deliver_pending_wakes: the query of WakeStore, then one wake at a time.*)
(***************************************************************************)
Running(x, paused) == LoopIsFree /\ stage[x] = paused

StartCatchUp(x) ==
    /\ Running(x, "flushed") \/ stage[x] = "catchup"
    /\ IF bound[x] = Unwatched
       THEN /\ stage' = [stage EXCEPT ![x] = "serving"]
            /\ UNCHANGED store
       ELSE /\ StartReplay(Relay, SeatOf[x], bound[x])
            /\ stage' = [stage EXCEPT ![x] = "querying"]
    /\ UNCHANGED <<bound, out, rest, fresh, owed, frames, seen, breaks>>

QueryBatch(x) ==
    /\ stage[x] = "querying"
    /\ \/ /\ \/ SelectReplay(Relay)
             \/ \E w \in Wakes : ReplayRow(Relay, w)
             \/ FailPendingWake(Relay)
          /\ UNCHANGED <<stage, rest, fresh>>
       \/ /\ EndReplay(Relay)
          /\ stage' = [stage EXCEPT ![x] = "writing"]
          /\ rest' = [rest EXCEPT ![x] = inflight[Relay].offered]
          /\ fresh' = [fresh EXCEPT ![x] = TRUE]
    /\ UNCHANGED <<bound, out, owed, frames, seen, breaks>>

\* Seeded bug: the client of a watch that ended is not told (QueuedWakesArrive).
DropSilently(x) == bound' = [bound EXCEPT ![x] = Unwatched] /\ UNCHANGED out

\* _drop_subscriber_now: the overflow event, and the connection is closing.
Drop(x) ==
    /\ bound' = [bound EXCEPT ![x] = Unwatched]
    /\ out' = [out EXCEPT ![x] = Append(@, End)]

\* Seeded bug: a batch is put aside for the next watch (DeliveryTypeOK).
EndCatchUpKeepsBatch(x) ==
    /\ stage' = [stage EXCEPT ![x] = "serving"]
    /\ fresh' = [fresh EXCEPT ![x] = FALSE]
    /\ UNCHANGED rest

\* The handler leaves the loop and awaits the next request.
EndCatchUp(x) ==
    /\ stage' = [stage EXCEPT ![x] = "serving"]
    /\ rest' = [rest EXCEPT ![x] = {}]
    /\ fresh' = [fresh EXCEPT ![x] = FALSE]

\* The buffer is judged with the frame in it.
Fits(x) == Len(out[x]) + 1 <= BufferLimit

\* The write of one wake: dropped for its buffer, or written and drained.
WriteWake(x, w) ==
    /\ fresh' = [fresh EXCEPT ![x] = FALSE]
    /\ \/ /\ ~Fits(x)
          /\ Drop(x)
          /\ stage' = [stage EXCEPT ![x] = "serving"]
          /\ rest' = [rest EXCEPT ![x] = {}]
          /\ UNCHANGED <<owed, frames>>
       \/ /\ Fits(x)
          /\ out' = [out EXCEPT ![x] = Append(@, [wake |-> w, live |-> FALSE])]
          /\ owed' = w /\ frames' = [frames EXCEPT ![w] = Counted(w)]
          /\ rest' = [rest EXCEPT ![x] = @ \ {w}]
          /\ Drains(x, out'[x], "draining", "writing")
          /\ UNCHANGED bound
    /\ UNCHANGED <<seen, breaks>>

\* Seeded bug: the batch is written as it was queried (NeverReplaysSettled).
StillPendingWhenQueried(x, w) == TRUE

\* get_wake, for every wake but the first, finds it pending and in time.
StillPending(x, w) == fresh[x] \/ (wakes[w].state = "pending" /\ ~Stale(w))

\* The watch ended while its handler drained, or the batch is done.
ReplayIsOver(x) == rest[x] = {} \/ (~fresh[x] /\ bound[x] = Unwatched)

NextWake(x) ==
    /\ Running(x, "drained") \/ (stage[x] = "writing" /\ owed = 0)
    /\ \/ /\ ReplayIsOver(x)
          /\ EndCatchUp(x)
          /\ UNCHANGED <<store, bound, out, owed, frames, seen, breaks>>
       \/ /\ ~ReplayIsOver(x)
          /\ \E w \in rest[x] :
                 /\ \A v \in rest[x] \ {w} : Precedes(w, v)
                 /\ \/ /\ StillPending(x, w)
                       /\ WriteWake(x, w)
                       /\ UNCHANGED store
                    \/ /\ ~StillPending(x, w)
                       \* get_wake expires it
                       /\ IF Stale(w) THEN GetWake(w) ELSE UNCHANGED store
                       /\ stage' = [stage EXCEPT ![x] = "writing"]
                       /\ rest' = [rest EXCEPT ![x] = @ \ {w}]
                       /\ UNCHANGED <<bound, out, fresh, owed, frames, seen, breaks>>

\* Written first, recorded second; a wake that is no longer pending counts
\* nothing.
RecordAttempt ==
    /\ owed # 0
    /\ owed' = 0
    /\ IF wakes[owed].state = "pending" /\ wakes[owed].attempts < MaxAttempts
       THEN RecordWakeAttempt(owed) ELSE UNCHANGED store
    /\ UNCHANGED <<handlers, frames, seen, breaks>>

(***************************************************************************)
(* The wake request: committed, then fanned out if its session is live.    *)
(***************************************************************************)

\* "deliverable"
Deliverable(w) ==
    wakes'[w].session # None /\ wakes'[w].state = "pending" /\ Live(wakes'[w].session)

\* Seeded bug: any watch of the seat is rung (OnlyItsSession).
TargetsOfSeat(w) ==
    {x \in Watches : bound[x] # Unwatched /\ SeatOf[x] = wakes'[w].seat}

\* The watches a new wake is for: bound to its session, or unbound.
Targets(w) ==
    {x \in Watches : /\ bound[x] # Unwatched /\ SeatOf[x] = wakes'[w].seat
                     /\ bound[x] = wakes'[w].session}

\* Seeded bug: a wake that found no watch counts (AttemptsWereWritten).
FanoutWakeCounts(w) ==
    LET full == {x \in Targets(w) : ~Fits(x)}
        written == Targets(w) \ full
    IN  /\ bound' = [x \in Watches |-> IF x \in full THEN Unwatched ELSE bound[x]]
        /\ out' = [x \in Watches |->
                      IF x \in full THEN Append(out[x], End)
                      ELSE IF x \in written
                      THEN Append(out[x], [wake |-> w, live |-> TRUE])
                      ELSE out[x]]
        /\ owed' = w
        /\ IF written = {} THEN UNCHANGED frames
           ELSE frames' = [frames EXCEPT ![w] = Counted(w)]

\* One that has no room is dropped.
FanoutWake(w) ==
    LET full == {x \in Targets(w) : ~Fits(x)}
        written == Targets(w) \ full
    IN  /\ bound' = [x \in Watches |-> IF x \in full THEN Unwatched ELSE bound[x]]
        /\ out' = [x \in Watches |->
                      IF x \in full THEN Append(out[x], End)
                      ELSE IF x \in written
                      THEN Append(out[x], [wake |-> w, live |-> TRUE])
                      ELSE out[x]]
        /\ IF written = {} THEN UNCHANGED <<owed, frames>>
           ELSE owed' = w /\ frames' = [frames EXCEPT ![w] = Counted(w)]

Request(by, target, t, explicit, key, priority, ttl) ==
    /\ LoopIsFree
    /\ RequestWake(by, target, t, explicit, key, priority, ttl)
    /\ \E w \in Wakes :
           /\ wakes[w].state = "none" /\ wakes'[w].state # "none"
           /\ IF Deliverable(w) THEN FanoutWake(w)
              ELSE UNCHANGED <<bound, out, owed, frames>>
    /\ UNCHANGED <<stage, rest, fresh, seen, breaks>>

(***************************************************************************)
(* A watch ends: its timer fires, or its client leaves, dies or closes     *)
(* after the event that ends the watch.                                    *)
(***************************************************************************)
Breaks == breaks < MaxBreaks /\ breaks' = breaks + 1

\* Nothing is on its way to the client, or about to be.
Quiet(x) == stage[x] = "serving" /\ out[x] = <<>>

OnWatchTimeout(x) ==
    /\ LoopIsFree /\ bound[x] # Unwatched
    /\ Drop(x)
    /\ Breaks \/ (Quiet(x) /\ UNCHANGED breaks)
    /\ UNCHANGED <<store, stage, rest, fresh, owed, frames, seen>>

\* What the handler of a connection that is gone still does changes nothing.
Disconnect(x) ==
    /\ stage' = [stage EXCEPT ![x] = "off"]
    /\ bound' = [bound EXCEPT ![x] = Unwatched]
    /\ out' = [out EXCEPT ![x] = <<>>]
    /\ rest' = [rest EXCEPT ![x] = {}]
    /\ fresh' = [fresh EXCEPT ![x] = FALSE]

Leave(x) ==
    /\ LoopIsFree /\ stage[x] # "off"
    /\ Disconnect(x) /\ Breaks
    /\ UNCHANGED <<store, owed, frames, seen>>

ReadFrame(x) ==
    /\ out[x] # <<>>
    /\ IF Head(out[x]) = End
       THEN LoopIsFree /\ Disconnect(x) /\ UNCHANGED seen
       ELSE /\ out' = [out EXCEPT ![x] = Tail(@)]
            /\ seen' = seen \cup {Head(out[x]).wake}
            /\ UNCHANGED <<stage, bound, rest, fresh>>
    /\ UNCHANGED <<store, owed, frames, breaks>>

(***************************************************************************)
(* The other requests the relay serves, and what runs beside it.           *)
(***************************************************************************)
ServeStore ==
    /\ LoopIsFree
    /\ \/ SessionNext
       \/ \E seat \in Seats : ListWakes(seat)
       \/ \E t \in Tasks, seat \in Seats, s \in Sessions,
             o \in {"completed", "failed"} : CompleteTask(t, seat, s, o)
    /\ UNCHANGED <<handlers, owed, frames, seen, breaks>>

BeginAdmission ==
    /\ LoopIsFree
    /\ \E op \in Ops \cap {"ack", "claim"}, w \in Wakes, seat \in Seats,
          s \in Sessions : Preflight(Relay, op, w, seat, s)
    /\ UNCHANGED <<handlers, owed, frames, seen, breaks>>

EndAdmission ==
    /\ AcknowledgeWake(Relay) \/ ClaimWake(Relay)
    /\ UNCHANGED <<handlers, owed, frames, seen, breaks>>

Beside ==
    /\ Tick \/ \E t \in Tasks : AddTask(t) \/ CancelTask(t)
    /\ UNCHANGED <<handlers, owed, frames, seen, breaks>>

Handle(x) == StartCatchUp(x) \/ QueryBatch(x) \/ NextWake(x)

DeliveryNext ==
    \/ \E by, target \in Seats, t \in Tasks, explicit \in Sessions \cup {None},
          key \in Keys \cup {None}, priority \in Priorities, ttl \in Ttls :
           Request(by, target, t, explicit, key, priority, ttl)
    \/ RecordAttempt
    \/ \E x \in Watches :
           \/ \E s \in SessionsOf[x] : HandleWatch(x, s)
           \/ Drained(x) \/ Handle(x) \/ OnWatchTimeout(x)
           \/ Leave(x) \/ ReadFrame(x)
    \/ ServeStore \/ BeginAdmission \/ EndAdmission \/ Beside

DeliverySpec == DeliveryInit /\ [][DeliveryNext]_deliveryVars

\* What the event loop owes every handler that can go on, and what a client
\* does that wants its wakes: it reads, it watches again whenever its watch
\* ended, and asks for a watch that times out.
DeliveryFairness ==
    /\ WF_deliveryVars(RecordAttempt)
    /\ WF_deliveryVars(EndAdmission)
    /\ \A x \in Watches :
           /\ WF_deliveryVars(Drained(x))
           /\ SF_deliveryVars(Handle(x))
           /\ \A s \in SessionsOf[x] :
                  SF_deliveryVars(stage[x] = "off" /\ HandleWatch(x, s))
           /\ SF_deliveryVars(Quiet(x) /\ OnWatchTimeout(x))
           /\ SF_deliveryVars(ReadFrame(x))

FairDelivery == DeliverySpec /\ DeliveryFairness

(***************************************************************************)
(* Properties.                                                             *)
(***************************************************************************)

\* Every variable has its shape; only a handler in its loop has wakes left,
\* and what is left to it stays addressed to its watch.
DeliveryTypeOK ==
    /\ TypeOK
    /\ stage \in [Watches -> Stages]
    /\ bound \in [Watches -> Sessions \cup {None, Unwatched}]
    /\ \A x \in Watches : Len(out[x]) <= BufferLimit + 2 /\ out[x] \in Seq(Frame)
    /\ \A x \in Watches :
           rest[x] # {} => stage[x] \in {"writing", "draining", "drained"}
    /\ fresh \in [Watches -> BOOLEAN]
    /\ owed \in {0} \cup Wakes
    /\ frames \in [Wakes -> 0..MaxAttempts] /\ seen \subseteq Wakes
    /\ breaks \in 0..MaxBreaks

\* "Marking must never outrun writing": no transmission of a wake is on record
\* that was not written to a socket, whoever dropped, timed out or left.
AttemptsWereWritten == \A w \in Wakes : wakes[w].attempts <= frames[w]

\* A wake addressed to one session is written to that session's watch alone,
\* by the fan-out and by the catch-up of any watch of the seat.
OnlyItsSession ==
    [][\A x \in Watches : Len(out'[x]) > Len(out[x]) =>
          LET w == out'[x][Len(out'[x])].wake
          IN  w # 0 => /\ wakes'[w].seat = SeatOf[x]
                       /\ wakes'[w].session \in {None, bound[x]}]_deliveryVars

\* No watch is rung for a wake that a session has acknowledged or claimed, or
\* that expired, while its handler waited for the client to read: only what
\* the operator cancels in the very moment of the write slips through.
NeverReplaysSettled ==
    [][\A x \in Watches : Len(out'[x]) > Len(out[x]) =>
          LET w == out'[x][Len(out'[x])].wake
          IN  w # 0 => wakes'[w].state \in {"pending", "cancelled"}]_deliveryVars

\* Catch-up drops no healthy watch: it overflows a buffer only on top of what
\* the fan-out wrote there meanwhile.
ReplaySparesItsWatch ==
    [][\A x \in Watches :
          /\ stage[x] \in {"writing", "drained"} /\ stage'[x] = "serving"
          /\ bound[x] # Unwatched /\ bound'[x] = Unwatched
          => \E i \in DOMAIN out[x] : out[x][i].live]_deliveryVars

\* A wake that the catch-up of a watch for session s would hand out.
Due(x, s, w) == w \in FirstBatch([seat |-> SeatOf[x], session |-> s])

\* A queued wake whose watcher keeps coming back is read by a client, unless
\* it is settled, more urgent wakes take its place in the batch or the session
\* lapses: nothing is lost to overflows, timeouts and disconnects.
QueuedWakesArrive ==
    \A x \in Watches : \A s \in SessionsOf[x] : \A w \in Wakes :
        Due(x, s, w) ~> \/ w \in seen \/ ~Due(x, s, w)
                        \/ s # None /\ ~Live(s)
=============================================================================
